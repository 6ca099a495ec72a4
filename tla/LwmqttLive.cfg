SPECIFICATION FairSpec
CONSTANTS
  MaxId = 2
  Requests = {"publish2"}
  MaxRequests = 1
  MaxMessages = 2
  MaxBacklog = 1
  MaxSlips = 1
INVARIANTS PassedOnInOrder AcknowledgedIsPassedOn
PROPERTIES CallsEnd MessagesAnswered
