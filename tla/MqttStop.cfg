SPECIFICATION Spec
CONSTANTS
  Clients = {c1, c2}
  QueueSize = 2
  MayStop = TRUE
  CallbackStops = TRUE
  MaxMessages = 3
SYMMETRY Symmetry
INVARIANTS OneUser SelectSafe ConnectedIsServed MessagesInOrder MessagesAccounted
PROPERTY ImplementsProcess
CHECK_DEADLOCK FALSE
