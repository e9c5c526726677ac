SPECIFICATION StorageSpec
CONSTANTS
  Inum = {1, 2}
  OpenFile = {f1, f2}
  Writer = {p1, p2}
  nblocks = 7
  BSIZE = 2
  NDIRECT = 2
  BPB = 1
  MAXOPBLOCKS = 10
  Value = {v1, v2}
  Counts = {1, 7}
  Lengths = {1, 4, 9}
  MaxCalls = 5
  Proc = {q1, q2}
  NPAGES = 16
  PGSIZE = 2
  NPTENTRIES = 2
  UPDE = 3
  KPDE = 2
  Datum = {0, 2}
  Programs <- MCPrograms
  Grows <- MCGrows
  MaxHeld = 2
  MaxOps = 5
INVARIANTS BlocksAccounted PagesAccounted SizeMapped
PROPERTIES OpFits ImplementsAtomicFile ImplementsPrivateMemory
SYMMETRY StorageSymmetry
CHECK_DEADLOCK FALSE
