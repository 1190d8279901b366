CONSTANTS
  Users = {u1, u2}
  BootUser = u1
  Passwords = {w1, w2}
  BootPasswords = {w1, None}
  Ips = {i1}
  Requests = {r1, r2, r3}
  Ops <- AllOps
  Traffics <- SerialOrLogins
  Window = 1
  Lockout = 2
  MaxFailures = 2
  SecretPersists = TRUE
  None = None
  Keep = Keep
SPECIFICATION TimedSpec
INVARIANTS
  TypeOK
  LastAdminKept
  RevokedStaysRevoked
  ThrottleHolds
  BlockedAtThreshold
PROPERTIES
  LockoutEnds
