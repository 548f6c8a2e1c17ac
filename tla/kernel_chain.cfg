SPECIFICATION Spec
CONSTANTS
  Nodes <- ChainNodes
  Entry <- ChainEntry
  Outcomes = {"ok", "redo"}
  NoOutcome = "none"
  NoNode = NoNode
  Undeclared = Undeclared
  Target <- ChainTarget
  Gates <- ChainGates
  Required <- ChainGates
  Bound = {"checks"}
  ResultOutcome <- ChainResults
  AutoExternal = {"ci"}
  SuccessOutcome <- ChainSuccess
  Runtimeless = {"ci"}
  NeedsTerminal = {}
  MaximumAttempts <- ChainBudget
  Exhaustion <- ChainExhaustion
  ExhaustOutcome <- ChainExhaustOutcome
  TTL = 1
  MaxActivations = 2
  MaxClaims = 2
  MaxInFlight = 1
INVARIANTS
  TypeOK
  OneWorker
  LeaseIffHeld
  UnblockNotSwallowed
PROPERTIES
  SatisfiedIsFinal
  AttemptFactsStand
CHECK_DEADLOCK FALSE
