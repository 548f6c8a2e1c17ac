SPECIFICATION StSpec
CONSTANTS
  Procs = {p1, p2}
  NoProc = NoProc
  Commands = {complete, dispatch, sweep}
  Sweeps = {sweep}
  Repeatable = {complete}
  Size <- MCSize
  Dependent = {dispatch}
  Staging = {complete}
  FaultKinds = {"crash"}
  MaxFaults = 1
INVARIANT
  ConfirmedIsWhole
CHECK_DEADLOCK FALSE
