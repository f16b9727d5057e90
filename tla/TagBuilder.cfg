SPECIFICATION Spec
CONSTANTS
  Part <- MCPart
  Prefix <- MCPrefix
  Value <- MCValue
  MaxCalls = 6
  ServerNames = {"main", "admin"}
  ClientNames = {"main"}
CHECK_DEADLOCK FALSE
INVARIANTS
  TypeOK
  TagsInScope
  DependenciesAsDocumented
PROPERTIES
  AnnotationsKept
