CONSTANTS
  Namespaces = {n1}
  Paths = {p1}
  Requests = {r1, r2}
  Ops <- SnapshotTraffic
  MaxCalls = 4
  MaxConflicts = 0
  RefreshAlways = FALSE
  MayFail = FALSE
  None = None
SPECIFICATION Spec
SYMMETRY Symmetry
INVARIANTS
  TypeOK
  BlobHasMetadata
  CarryForward
  EtagNotOlderThanPayload
PROPERTY
  ImplementsRegisters
