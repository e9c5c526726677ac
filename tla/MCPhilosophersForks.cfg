SPECIFICATION Spec
CONSTANTS
  SEMCOUNT = 5
  EATROUND = 2
  Process = {1, 2, 3, 4, 5}
  Sem = {0, 1, 2, 3, 4}
  MAX_SEMAPHORE_PROC = 5
  Values = {1}
  Nobody = Nobody
  MaxKills = 0
INVARIANT ForkExclusive
