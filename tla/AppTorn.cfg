SPECIFICATION AppSpec
CONSTANTS
  PoolSize = 3
  ChunkBlocks = 1
  PauseMode = TRUE
  MaxHandles = 1
  MayDestroy = FALSE
  Prompt = TRUE
  WindowOps = 1
  MaxChunks = 2
  MaxStops = 0
INVARIANT OnlyWholeChunks
