SPECIFICATION FairSpec
CONSTANTS
  PoolSize = 3
  ChunkBlocks = 2
  PauseMode = FALSE
  MaxHandles = 1
  MayDestroy = TRUE
  Prompt = FALSE
  WindowOps = 3
  MaxChunks = 5
  MaxStops = 1
INVARIANTS Accounting DestroyedReleasesAll
PROPERTY KeepsRecording
CHECK_DEADLOCK FALSE
