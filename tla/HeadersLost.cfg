SPECIFICATION Spec
CONSTANTS
  MaxInjected = 2
  MaxExternal = 2
  MaxMiddleware = 2
  InjectedKinds <- MCInjectedKinds
  ExternalKinds <- MCExternalKinds
INVARIANT
  HeadersEmitted
CHECK_DEADLOCK FALSE
