CONSTANTS
  Tokens = {t1, t2}
  Devices = {d1, d2}
  Requests = {r1, r2}
  Ops <- AllOps
  MaxCalls <- AllOverlaps
  MaxTime = 1
  MayFail = TRUE
  None = None
  Keep = Keep
SPECIFICATION Spec
SYMMETRY Symmetry
INVARIANTS
  TypeOK
  HashIndexExact
  SerialAdminsRetire
  DeviceTokenExists
  UsageRecorded
PROPERTIES
  OnlyEnableEnables
