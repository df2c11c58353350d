SPECIFICATION Spec
CONSTANTS
  LayerCount = 2
  Prompts <- ThreeRows
  ChunkTokens = 5
  QkvChunk = 2
  YieldInterval = 1
  LargeBatch = 3
  Budget = 4
  Micros = 300
  HeadWorkgroups = 5
  SafeWorkgroups = 2
  Options <- WithStages
INVARIANTS FfnNormStageIsReal
CHECK_DEADLOCK FALSE
