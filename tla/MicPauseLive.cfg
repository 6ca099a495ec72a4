SPECIFICATION FairSpec
CONSTANTS
  PoolSize = 2
  ChunkBlocks = 1
  PauseMode = TRUE
  MaxHandles = 1
  MayDestroy = FALSE
  Prompt = FALSE
  WindowOps = 1
  MaxChunks = 2
  MaxStops = 2
PROPERTY StopQuiesces
