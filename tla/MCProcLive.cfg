SPECIFICATION FairSpec
CONSTANTS
  NPROC = 3
  NCPU = 1
  MaxPid = 3
  SleepTicks = 1
  Calls = {"fork", "wait", "kill", "exit"}
  KillPids = {3}
PROPERTIES KilledExits OrphanReaped
CHECK_DEADLOCK FALSE
