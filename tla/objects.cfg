CONSTANTS
  Namespaces = {n1}
  Paths = {p1, p2}
  Requests = {r1, r2, r3}
  Ops <- ObjectTraffic
  MaxCalls = 3
  MaxConflicts = 1
  RefreshAlways = FALSE
  MayFail = TRUE
  None = None
SPECIFICATION Spec
SYMMETRY Symmetry
INVARIANTS
  ObjectPairing
  SingleSuccessor
  ObjectCreateOnly
  ConflictLogKeepsNewest
PROPERTY
  PurgeLeavesNothing
  ImplementsRegisters
