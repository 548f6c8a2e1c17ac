SPECIFICATION Spec
CONSTANTS
  Sups = {s1, s2}
  None = None
  Items = {i1, i2}
  Key <- SharedKey
  Manual = {i1}
  MaxInflight = 1
  MaxRuntimes = 1
  MaxRevision = 2
  AntiEntropy = FALSE
  MaxDisruptions = 1
SYMMETRY SupSymmetry
INVARIANTS
  KeyExclusive
  SlotsAccounted
PROPERTIES
  FencedDispatch
  ClaimRespected
CHECK_DEADLOCK FALSE
