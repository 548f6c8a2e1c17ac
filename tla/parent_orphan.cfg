SPECIFICATION PlSpec
CONSTANTS
  BranchRuns = {"r1"}
  Relayers = {x1}
  MaxTokens = 1
  MaxGens = 1
  MaxPosts = 1
  MaxLate = 0
INVARIANT
  RecordsAreOwned
CHECK_DEADLOCK FALSE
