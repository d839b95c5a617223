SPECIFICATION Spec
CONSTANTS
  g1 = g1
  g2 = g2
  r1 = r1
  r2 = r2
  r3 = r3
  k1 = k1
  k2 = k2
  ResourceGroups <- MCGroups
  Resources <- MCResources
  GroupKinds <- MCKinds
  GK <- MCGK
  Statuses = {s1}
  NoStatus = NoStatus
  None = None
INVARIANTS
  TypeOK
  IndexConsistent
  NoNilDereference
PROPERTIES
  ImplementsIndex
