SPECIFICATION Spec
CONSTANTS
  NoCode = NoCode
  NoCoder = NoCoder
  Task = {t1}
  TaskCode <- MCTaskCode
  Coders <- MCCoders
  MaxDepth = 3
CHECK_DEADLOCK FALSE
INVARIANTS
  TypeOK
  LatestCodeWins
  FailureIsKept
PROPERTIES
  EndShutsDown
