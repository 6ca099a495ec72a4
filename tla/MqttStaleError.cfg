SPECIFICATION Spec
CONSTANTS
  Clients = {c1}
  QueueSize = 1
  MayStop = TRUE
  CallbackStops = FALSE
  MaxMessages = 0
INVARIANT LostForAReason
