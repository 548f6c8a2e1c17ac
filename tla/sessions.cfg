SPECIFICATION SessionSpec
CONSTANTS
  Children = {"d1", "d2"}
  Kinds <- TeamKinds
  Phases = {p1}
  Callers = {}
  MaxRuntimes = 1
  TreeTokens = 1
  MaxRetries = 1
  MaxPrompts = 1
  ReqIds = {"q1"}
  Answers = {"allow", "reject"}
  Answerers = {"p1"}
  Says <- OpenSays
  Clients = {k1, k2}
  MaxRequests = 1
PROPERTIES
  ShutdownCompletes
  NobodyLeftFallsThrough
CHECK_DEADLOCK FALSE
