CONSTANTS
  Users = {u1, u2}
  BootUser = u1
  Passwords = {w1}
  BootPasswords = {w1}
  Ips = {i1}
  Requests = {r1, r2}
  Ops <- DeleteRace
  Traffics <- ThreeChanges
  Window = 0
  Lockout = 0
  MaxFailures = 1
  SecretPersists = TRUE
  None = None
  Keep = Keep
SPECIFICATION Spec
SYMMETRY Symmetry
INVARIANTS
  LastAdminKept
