CONSTANTS
  qkv = qkv
  head = head
  norm = norm
  Keys <- MCKeys
  MaxKeys = 2
  MaxPairs = 2
  Gpus <- AllGpus
  Generations = 2
  Frames = 2
  Passes = 3
SPECIFICATION Spec
INVARIANTS PassesAreAccounted SummaryIsTruthful TimesAreOwn
CHECK_DEADLOCK FALSE
