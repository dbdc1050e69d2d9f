SPECIFICATION Spec
CONSTANTS
  c1 = c1
  c2 = c2
  c3 = c3
  c4 = c4
  fa = fa
  fb = fb
  stray = stray
  odd = odd
  Conns = {c1, c2, c3, c4}
  Functions = {fa, fb}
  Names = {fa, fb, Relayer}
  GatewayNames = {fa, fb, Relayer}
  Unroutable = Unroutable
  Acceptor = Acceptor
  Relayer = Relayer
  NoConn = NoConn
  NoName = NoName
  Requests <- CrowdRequests
  MaxRequests = 2
  MaxQueue = 1
  Pipelining = FALSE
  SplitRecords = FALSE
  Faults <- NoFaults
  Faulty = {}
SYMMETRY FullSymmetry
INVARIANTS
  DeadlockNeedsConnections
  StopsOnlyInRelayDeadlock
CHECK_DEADLOCK FALSE
