SPECIFICATION InstanceSpec
CONSTANTS
  Nodes <- ForkNodes
  Entry <- ForkEntry
  Outcomes = {"ok"}
  NoOutcome = "none"
  NoNode = NoNode
  Undeclared = Undeclared
  Target <- ForkTarget
  Gates <- ForkGates
  Required <- ForkGates
  Bound = {}
  ResultOutcome <- ForkResults
  AutoExternal = {}
  SuccessOutcome <- ForkSuccess
  Runtimeless = {"ship"}
  NeedsTerminal = {"build"}
  MaximumAttempts <- ForkBudget
  Exhaustion <- ForkExhaustion
  ExhaustOutcome <- ForkExhaustOutcome
  TTL = 0
  MaxActivations = 3
  MaxClaims = 1
  MaxInFlight = 1
  Procs = {p1, p2}
  NoProc = NoProc
  Commands = {complete, dispatch, sweep}
  Sweeps = {sweep}
  Repeatable = {complete}
  Size <- MCSize
  Dependent = {dispatch}
  Staging = {complete}
  FaultKinds = {"crash", "power", "write", "sync", "snapshot"}
  MaxFaults = 2
SYMMETRY ProcSymmetry
INVARIANTS
  BlockSurfaces
  SatisfiedIsEarned
  AckedSurvives
  NoStaleCommit
  OneBatch
PROPERTIES
  CanceledIsFinal
  ImplementsHistory
CHECK_DEADLOCK FALSE
