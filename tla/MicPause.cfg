SPECIFICATION Spec
CONSTANTS
  PoolSize = 3
  ChunkBlocks = 2
  PauseMode = TRUE
  MaxHandles = 1
  MayDestroy = FALSE
  Prompt = FALSE
  WindowOps = 3
  MaxChunks = 3
  MaxStops = 1
INVARIANTS NoAlias NoLeak ChunkIntact ResetAlone
PROPERTY ImplementsStream
