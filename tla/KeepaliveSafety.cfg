SPECIFICATION Spec
CONSTANTS
  c1 = c1
  c2 = c2
  c3 = c3
  c4 = c4
  fa = fa
  fb = fb
  stray = stray
  odd = odd
  Conns = {c1}
  Functions = {fa, fb}
  Names = {fa, fb, stray, odd, Relayer}
  GatewayNames = {fa, fb, stray, Relayer}
  Unroutable = Unroutable
  Acceptor = Acceptor
  Relayer = Relayer
  NoConn = NoConn
  NoName = NoName
  Requests <- MixedRequests
  MaxRequests = 3
  MaxQueue = 1
  Pipelining = TRUE
  SplitRecords = TRUE
  Faults <- NoFaults
  Faulty = {}
INVARIANTS
  TypeOK
  AnsweredByNamed
  AtRequestBoundary
  SerialFresh
PROPERTY OnlyOwnerConsumes
CHECK_DEADLOCK FALSE
