SPECIFICATION Spec
CONSTANTS
  Versions <- MCVersions
  MaxFiles = 2
INVARIANTS
  TypeOK
  NothingLeftOut
  MutualTLS
  VersionRange
CHECK_DEADLOCK FALSE
