SPECIFICATION FairSpec
CONSTANTS
  g1 = g1
  g2 = g2
  t1 = t1
  t2 = t2
  ResourceGroups <- MCGroups
  Timers <- MCTimers
  None = None
  Duration = 1
  Capacity = 1
INVARIANTS
  TypeOK
  NothingLost
PROPERTIES
  AtMostOnePerDuration
  ChangesArePublished
