SPECIFICATION HostSpec
CONSTANTS
  NumHooks = 3
  MaxStarts = 3
  Path = {"p", "q"}
  PathOf <- MCPathOf
  Overwrite <- MCOverwrite
  Hosts <- MCHosts
  NoProfile = NoProfile
  HttpProfile = HttpProfile
CHECK_DEADLOCK FALSE
INVARIANTS
  TypeOK
  TakerWantsProfile
  CleanStop
  HostIInv
PROPERTIES
  NoClobber
  ProfilersUndisturbed
