SPECIFICATION Spec
CONSTANTS
  Geometries <- MCGeometries
  Paths = {"int4"}
  MaxSeq = 4
  Lanes = 2
  PackWidth = 2
  KeepSinks = {0, 1}
INVARIANTS Int4LayerRuns
CHECK_DEADLOCK FALSE
