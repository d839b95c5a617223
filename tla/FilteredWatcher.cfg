SPECIFICATION FairSpec
CHECK_DEADLOCK FALSE
CONSTANTS
  o1 = o1
  o2 = o2
  Objects <- MCObjects
  Other = Other
  NotFound = NotFound
  None = None
  MaxWrites = 3
INVARIANTS
  TypeOK
  CachedIsCurrent
PROPERTIES
  CatchesUp
