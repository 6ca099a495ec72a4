SPECIFICATION FairAppSpec
CONSTANTS
  PoolSize = 2
  ChunkBlocks = 2
  PauseMode = TRUE
  MaxHandles = 1
  MayDestroy = FALSE
  Prompt = TRUE
  WindowOps = 1
  MaxChunks = 2
  MaxStops = 0
INVARIANTS CycleFilled PublishedIsIntact InRecordingOrder
PROPERTIES RecordsRegardless ChunksGoOut
CHECK_DEADLOCK FALSE
