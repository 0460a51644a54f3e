CONSTANTS
  Calls = {c1, c2}
  Locks = {l1, l2}
  Versions = {v1, v2}
  Blocks = 2
  Short = v1
  Size <- Sizes
  Attempts = 2
  MaxLate = 1
  None = None
SPECIFICATION Spec
SYMMETRY NameSymmetry
INVARIANTS
  OneWriter
  OkIsVerified
PROPERTIES
  IdentityKept
  EffortIsBounded
  ImplementsVerifiedFile
CHECK_DEADLOCK FALSE
