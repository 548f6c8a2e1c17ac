SPECIFICATION FairSpec
CONSTANTS
  Sups = {s1}
  None = None
  Items = {i1, i2}
  Key <- SharedKey
  Manual = {i1}
  MaxInflight = 1
  MaxRuntimes = 1
  MaxRevision = 2
  AntiEntropy = TRUE
  MaxDisruptions = 1
PROPERTY
  ReadyIsServed
CHECK_DEADLOCK FALSE
