SPECIFICATION PcFairSpec
CONSTANTS
  ReqIds = {"q1"}
  Answers = {"allow", "reject"}
  Answerers = {}
  Says <- OpenSays
  Clients = {k1, k2}
  MaxRequests = 1
PROPERTY
  LeftClaimFallsThrough
CHECK_DEADLOCK FALSE
