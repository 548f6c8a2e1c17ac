SPECIFICATION ServiceSpec
CONSTANTS
  Nodes <- ChainNodes
  Entry <- ChainEntry
  Outcomes = {"ok", "redo"}
  NoOutcome = "none"
  NoNode = NoNode
  Undeclared = Undeclared
  Target <- ChainTarget
  Gates <- ChainGates
  Required <- ChainGates
  Bound = {"checks"}
  ResultOutcome <- ChainResults
  AutoExternal = {"ci"}
  SuccessOutcome <- ChainSuccess
  Runtimeless = {"ci"}
  NeedsTerminal = {}
  MaximumAttempts <- ChainBudget
  Exhaustion <- ChainExhaustion
  ExhaustOutcome <- ChainExhaustOutcome
  TTL = 1
  MaxActivations = 1
  MaxClaims = 2
  MaxInFlight = 1
  Servers = {"s1", "s2"}
  MaxTies = 2
  MaxStops = 3
  MaxExpiries = 1
  Leaders = {"s1", "s2"}
  PollGates = {"g1"}
  Mapped = {"failed"}
  MaxPolls = 2
  MaxEpochs = 2
  PrePhases = 1
  Rounds = 2
  PostPhases = 1
  LoopPhases = 2
  Members = {"m1", "m2"}
  MaxRetries = 1
  MaxNudges = 1
INVARIANTS
  AwaitingIsResumable
  SuccessIsEarned
PROPERTIES
  SilentHolderReclaimed
  RestartResumes
  PassedIsSettled
  StoppedRunEnds
CHECK_DEADLOCK FALSE
