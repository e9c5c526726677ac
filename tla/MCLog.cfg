SPECIFICATION Spec
CONSTANTS
  Proc = {p1, p2, p3}
  Block = {b1, b2, b3}
  Data = {d1, d2}
  MAXOPBLOCKS = 1
  LOGSIZE = 3
  nlog = 3
  FirstInode = b1
  NoProc = NoProc
SYMMETRY LogSymmetry
INVARIANTS WithinReserve SleepJustified
PROPERTY ImplementsAtomicDisk
