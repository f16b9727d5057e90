SPECIFICATION Spec
CONSTANTS
  NoCode = NoCode
  NoCoder = NoCoder
  NumHooks = 2
  MaxStarts = 2
  MaxConns = 1
  ServeErrors <- MCServeErrors
  Ephemeral <- MCEphemeral
CHECK_DEADLOCK FALSE
INVARIANTS
  TypeOK
  ListenerOwned
  CleanStop
  ZeroOnlyAfterShutdown
  IInv
PROPERTIES
  HostedSafety
