SPECIFICATION Spec
CHECK_DEADLOCK FALSE
CONSTANTS
  r1 = r1
  r2 = r2
  sub = sub
  None = None
  Resources <- MCResources
  CNRM = {r2}
  Specs <- MCSpecs
  Id = "own"
  Objects <- MCObjects
  ObjectConditions <- MCObjectConditions
  Applied <- MCApplied
  MaxReconciles = 2
  MaxChanges = 2
INVARIANTS
  TypeOK
  FinishedIsWhole
  OwnershipIsSaidOnce
  FailureIsRecorded
  GoroutinesNeverWait
PROPERTIES
  ImplementsProtocol
