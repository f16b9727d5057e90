SPECIFICATION Spec
CONSTANTS
  NumHooks = 3
  MaxStarts = 3
  Path = {"p", "q"}
  PathOf <- MCPathOf
  Overwrite <- MCOverwrite
  NoProfile = NoProfile
  HttpProfile = HttpProfile
CHECK_DEADLOCK FALSE
PROPERTIES
  AlreadyProfilingIsTrue
