SPECIFICATION FairSpec
CONSTANTS
  c1 = c1
  c2 = c2
  c3 = c3
  c4 = c4
  fa = fa
  fb = fb
  stray = stray
  odd = odd
  Conns = {c1, c2}
  Functions = {fa, fb}
  Names = {fa, fb, odd, Relayer}
  GatewayNames = {fa, fb, Relayer}
  Unroutable = Unroutable
  Acceptor = Acceptor
  Relayer = Relayer
  NoConn = NoConn
  NoName = NoName
  Requests <- FaultRequests
  MaxRequests = 3
  MaxQueue = 2
  Pipelining = FALSE
  SplitRecords = FALSE
  Faults <- CallFaults
  Faulty = {c2}
PROPERTIES
  RequestsAnswered
  AnsweredOrClosed
