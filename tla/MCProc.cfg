SPECIFICATION Spec
CONSTANTS
  NPROC = 3
  NCPU = 2
  MaxPid = 3
  SleepTicks = 1
  Calls = {"fork", "wait", "sleep", "kill", "exit"}
  KillPids = {2, 3}
INVARIANTS StackSafe RunningHasCPU SchedChecks WaitNotLost TickNotLost LiveParent
CHECK_DEADLOCK FALSE
