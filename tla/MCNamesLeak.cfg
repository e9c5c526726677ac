SPECIFICATION Spec
CONSTANTS
  Process = {p1, p2}
  Name = {"a", "b"}
  ninodes = 6
  NINODE = 4
  NFILE = 2
  NOFILE = 2
  Calls <- MCCalls
  MaxCalls = 3
  Trees <- MCTrees
  Cwds <- MCCwds
  Nobody = Nobody
INVARIANT LastPutFrees
CHECK_DEADLOCK FALSE
SYMMETRY NamesSymmetry
