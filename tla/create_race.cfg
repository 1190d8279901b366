CONSTANTS
  Namespaces = {n1}
  Paths = {p1}
  Requests = {r1, r2}
  Ops <- CreateRace
  MaxCalls = 3
  MaxConflicts = 0
  RefreshAlways = FALSE
  MayFail = FALSE
  None = None
SPECIFICATION Spec
INVARIANT
  SnapshotCreateOnly
