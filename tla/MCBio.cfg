SPECIFICATION MCBioSpec
CONSTANTS
  BioProc = {u1, u2}
  NBUF = 2
  BlockNo = {1, 2, 3}
  Pairs <- MCPairs
  Content = {0, 1}
  BadBlock = {3}
  MaxPinned = 1
INVARIANTS OneBuffer BufferExclusive CacheCoherent DiskServesHead BuffersSuffice
PROPERTY IoEnds
CHECK_DEADLOCK FALSE
