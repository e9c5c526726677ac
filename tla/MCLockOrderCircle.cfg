SPECIFICATION Spec
CONSTANTS
  CPU = {c0, c1}
  CPU0 = c0
  NoCPU = NoCPU
  Lock = {"ptable", "ticks", "cons", "kmem", "sem", "pipe", "ide"}
  MaxNest = 3
  ProcessPaths <- AllPaths
  DevicePaths <- OrderedDevices
INVARIANT NoCircularWait
