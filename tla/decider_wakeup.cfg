SPECIFICATION DrFairSpec
CONSTANTS
  Asks = {"a1", "a2"}
  Cap = 1
  MaxFailures = 2
  MaxTroubled = 1
PROPERTY
  BlockedIsReRouted
CHECK_DEADLOCK FALSE
