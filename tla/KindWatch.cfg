SPECIFICATION FairSpec
CHECK_DEADLOCK FALSE
CONSTANTS
  k1 = k1
  k2 = k2
  Kinds <- MCKinds
  Statuses = {inProgress, current}
  inProgress = inProgress
  current = current
  NotFound = NotFound
  None = None
  MaxChanges = 2
INVARIANTS
  TypeOK
  MappingIsCurrent
  MissingIsRetriedOrFlagged
  WatchedIsTrue
PROPERTIES
  AskedGetsWatched
