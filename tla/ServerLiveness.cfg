SPECIFICATION CaptureSpec
CONSTANTS
  NoCode = NoCode
  NoCoder = NoCoder
  NoRun = NoRun
  NumHooks = 1
  MaxStarts = 2
  MaxConns = 1
  MaxReceives = 2
  ServeErrors <- MCServeErrors
  Ephemeral <- MCEphemeral
  Capacities <- MCCapacities
CHECK_DEADLOCK FALSE
INVARIANTS
  AddressesInOrder
PROPERTIES
  TerminationStopsApp
  NoListenerLeak
  CallsReturn
  HostedReporting
