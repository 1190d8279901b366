CONSTANTS
  Namespaces = {n1}
  Paths = {p1, p2}
  Requests = {r1}
  Ops <- AllTraffic
  MaxCalls = 5
  MaxConflicts = 1
  RefreshAlways = TRUE
  MayFail = FALSE
  None = None
SPECIFICATION Spec
SYMMETRY Symmetry
INVARIANTS
  UsageAccurateWhenQuiet
  MetadataDescribesBlob
  TombstoneHasData
  SnapshotCreateOnly
  PurgedMetadataStaysGone
PROPERTY
  SoftDeletedIsFrozen
