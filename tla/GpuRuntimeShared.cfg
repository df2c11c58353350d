CONSTANTS
  t1 = t1
  t2 = t2
  r1 = r1
  r2 = r2
  Nobody = Nobody
  Threads <- TwoThreads
  Runtimes <- TwoRuntimes
  Capacity = 2
  EpochMax = 2
  Chunk = 1
  Prompts = {1, 2}
  Limits = {2}
  Calls = 3
SPECIFICATION Spec
INVARIANTS GpuWorkIsOwned NothingLeaks
PROPERTIES ErrorIsFinal
CHECK_DEADLOCK FALSE
