SPECIFICATION FairSpec
CONSTANTS
  MaxChunks = 2
  MaxAttempts = 3
CHECK_DEADLOCK FALSE
INVARIANTS
  TypeOK
  WaitsForTheRequest
  WrittenIsSentOnce
  NoResponseIsLeft
PROPERTIES
  CallsReturn
