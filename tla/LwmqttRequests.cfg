SPECIFICATION Spec
CONSTANTS
  MaxId = 2
  Requests = {"publish1", "publish2", "subscribe", "unsubscribe"}
  MaxRequests = 3
  MaxMessages = 1
  MaxBacklog = 0
  MaxSlips = 1
INVARIANTS TypeOK ConfirmedIsAccepted PongIsDue
