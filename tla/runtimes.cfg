SPECIFICATION BenchSpec
CONSTANTS
  Children = {"d1", "d2"}
  Kinds <- PairKinds
  Phases = {p1, p2}
  Callers = {w1}
  MaxRuntimes = 1
  TreeTokens = 1
  MaxRetries = 1
  MaxPrompts = 1
  Pids = {"s1", "s2"}
  Tokens = {t1, t2, t3}
  Capacity = 2
  Asks = {"a1", "a2", "a3"}
  Cap = 2
  MaxFailures = 2
  MaxTroubled = 1
  ReqIds = {"q1"}
  Answers = {"allow", "reject"}
  Answerers = {"p1", "p2"}
  Says <- PairSays
  Clients = {k1, k2}
  MaxRequests = 2
SYMMETRY ClientSymmetry
INVARIANTS
  NoIllegalSignal
  TurnsAdmitted
  AdmittedIsHonored
  NothingAfterClose
  NeverOversubscribed
  SlotsAreDeciders
  RefusedIsRemembered
  AcceptedAnswersAgree
  AcceptedAnswerIsKept
CHECK_DEADLOCK FALSE
