CONSTANTS
  Tokens = {t1}
  Devices = {d1}
  Requests = {r1, r2}
  Ops <- RotateRace
  MaxCalls <- AnyOverlap
  MaxTime = 0
  MayFail = FALSE
  None = None
  Keep = Keep
SPECIFICATION Spec
SYMMETRY Symmetry
INVARIANTS
  RetiredStaysRetired
