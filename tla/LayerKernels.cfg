SPECIFICATION Spec
CONSTANTS
  Geometries <- MCGeometries
  Paths = {"loop", "stepwise", "with_cache", "debug", "qkv_test", "int4", "requantize", "shift", "shift_int4", "single"}
  MaxSeq = 4
  Lanes = 2
  PackWidth = 2
  KeepSinks = {0, 1}
INVARIANTS OutputIsRight CacheIsRight ReadbacksAreRight ShiftIsRight
CHECK_DEADLOCK FALSE
