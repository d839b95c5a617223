SPECIFICATION Spec
CHECK_DEADLOCK FALSE
SYMMETRY MCSymmetry
CONSTANTS
  g1 = g1
  r1 = r1
  k1 = k1
  h1 = h1
  h2 = h2
  c1 = c1
  c2 = c2
  NotFound = NotFound
  Unknown = Unknown
  NoStatus = NoStatus
  None = None
  inProgress = inProgress
  current = current
  ResourceGroups = {g1}
  Resources = {r1}
  GK <- MCGK
  Statuses = {NotFound, inProgress, current}
  Handlers = {h1, h2}
  Computers = {c1, c2}
  MaxChanges = 4
INVARIANTS
  TypeOK
  PublishedIsCurrent
  LeftoversAreDirty
