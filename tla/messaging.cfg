SPECIFICATION BrokerSpec
CONSTANTS
  Runs = {"ann", "bob"}
  Ids = {"ask1", "ask2"}
  From <- PairFrom
  To <- PairTo
  Leavers = {"bob"}
  Waiters = {w1}
  FenceCapacity = 2
  AbsentQuota = 1
  MaxSends = 2
  BranchRuns = {"r1"}
  Relayers = {x1}
  MaxTokens = 2
  MaxGens = 2
  MaxPosts = 2
  MaxLate = 1
INVARIANTS
  NoReplay
  RecordsBounded
PROPERTIES
  KeepsPromise
  HealthyClaimKept
  BranchIsRouted
CHECK_DEADLOCK FALSE
