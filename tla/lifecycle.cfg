CONSTANTS
  EncKeys = {k1, k2}
  JwtSecrets = {j1}
  MaxBoots = 3
  MaxWrites = 3
  None = None
SPECIFICATION Spec
SYMMETRY Symmetry
INVARIANTS
  TypeOK
  SurvivingCopy
  PayloadOrError
  RevealKeepsWorking
