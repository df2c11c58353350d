SPECIFICATION Spec
CONSTANTS
  Alignment = 32
  Header = 320
  AddressSpan = 1048576
  Granule = 256
  ChunkCap = 65536
  BindingSlots = 8
  TotalBudget = 8192
  RopeBudget = 4096
  DefaultContext = 6
  TileRows = 16
  TileGroups = {1, 2}
  Files <- MCFiles
  Adapters <- MCAdapters
INVARIANTS EmbeddingRowsAreRight
CHECK_DEADLOCK FALSE
