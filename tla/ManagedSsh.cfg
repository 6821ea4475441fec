SPECIFICATION FairManagedSpec
CONSTANTS
  MaxActions = 5
  Kinds <- Git2goKinds
  SshKind <- ssh
  MaxConns = 4
  MaxOutput = 2
  Window = 2
CHECK_DEADLOCK FALSE
INVARIANTS
  ManagedTypeOK
  FreedOnce
  HeldIsConnected
  SessionsAreAccounted
PROPERTIES
  ImplementsSubtransport
  CloseReturns
