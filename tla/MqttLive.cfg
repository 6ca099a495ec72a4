SPECIFICATION FairSpec
CONSTANTS
  Clients = {c1}
  QueueSize = 1
  MayStop = TRUE
  CallbackStops = FALSE
  MaxMessages = 1
INVARIANT NoOrphanedLock
PROPERTIES CallsReturn Reconnects MessagesDelivered
