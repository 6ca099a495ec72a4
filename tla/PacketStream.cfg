SPECIFICATION FairSpec
CONSTANTS
  ReadSize = 9
  MaxPings = 1
  Scenarios <- MCScenarios
INVARIANTS TypeOK Framed Encoded
PROPERTIES AllHandled EndIsNoticed
CHECK_DEADLOCK FALSE
