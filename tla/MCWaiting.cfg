SPECIFICATION WaitingSpec
CONSTANTS
  NPROC = 3
  CPU = {c1}
  STARVING_THRESHOLD = 4
  MIN_BJF_RANK = 9
  DEFAULT_MAX_TICKETS = 2
  Clock = {6, 7}
  Cycles = {0, 15}
  Queues = {1, 2, 3, 4}
  Tickets <- MCTickets
  Ratios <- MCRatios
  MaxSets = 1
  PipeReader = {r1}
  PipeWriter = {w1, w2}
  PIPESIZE = 2
  UINT = 4
  Serials = 3
  PipeCounts = {1, 3}
  MaxPipes = 1
  ConsReader = {k1, k2}
  INPUT_BUF = 3
  Letters = {"a"}
  Digits = {"1"}
  ReadCounts = {2}
  COLS = 5
  Columns = {2}
  IndexRange = 12
  MaxIndex = 4
SYMMETRY WaitingSymmetry
INVARIANTS NoStarvation RoundRobinTurn PipeInOrder SleepersBlocked PipeFreed ConsoleSleepers
PROPERTY ImplementsLineEditor
CHECK_DEADLOCK FALSE
