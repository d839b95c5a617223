SPECIFICATION FairSpec
CONSTANTS
  k1 = k1
  k2 = k2
  w1 = w1
  w2 = w2
  w3 = w3
  GVKs <- MCGVKs
  Watchers <- MCWatchers
  None = None
INVARIANTS
  TypeOK
  EntriesAreAlive
  OnlyEvictedAreOrphans
PROPERTIES
  ImplementsWatches
  ReturnIsUpdate
  UpdateReturns
  StoppedWatchersEnd
