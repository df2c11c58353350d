CONSTANTS
  t1 = t1
  t2 = t2
  r1 = r1
  r2 = r2
  Nobody = Nobody
  Threads <- TwoThreads
  Runtimes <- OneRuntime
  Capacity = 3
  EpochMax = 2
  Chunk = 2
  Prompts = {1, 3}
  Limits = {0, 1, 2, 3}
  Calls = 3
SPECIFICATION FairSpec
INVARIANTS TypeOK ExtentOK RequestIsAccepted
PROPERTIES CallsReturn
CHECK_DEADLOCK FALSE
