SPECIFICATION Spec
CONSTANTS
  SEMCOUNT = 3
  EATROUND = 2
  Process = {1, 2, 3}
  Sem = {0, 1, 2}
  MAX_SEMAPHORE_PROC = 3
  Values = {1, 2}
  Nobody = Nobody
  MaxKills = 3
INVARIANTS QueueOfSleepers NoSleeperLeftBehind
PROPERTY EveryoneEats
CHECK_DEADLOCK FALSE
