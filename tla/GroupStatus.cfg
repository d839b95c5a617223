SPECIFICATION FairSpec
CHECK_DEADLOCK FALSE
CONSTANTS
  none = none
  NoEntry = none
  Computed <- MCComputed
  Actuations <- MCActuations
  MaxChanges = 2
  MaxLag = 2
INVARIANTS
  TypeOK
  RestMeansPublished
  RestMeansCleared
  RestMeansForgotten
PROPERTIES
  WritesMatchObject
  ImplementsProtocol
  GetsUpToDate
  ComesToRest
