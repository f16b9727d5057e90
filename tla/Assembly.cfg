SPECIFICATION Spec
CONSTANTS
  MaxInjected = 2
  MaxExternal = 2
  MaxMiddleware = 2
  InjectedKinds <- MCInjectedKinds
  ExternalKinds <- MCExternalKinds
INVARIANTS
  TypeOK
  BuiltIsComplete
  EveryErrorReported
  RequestOrder
  ContextsKept
  ListenerOrder
CHECK_DEADLOCK FALSE
