SPECIFICATION Spec
CONSTANTS
  c1 = c1
  c2 = c2
  c3 = c3
  c4 = c4
  fa = fa
  fb = fb
  stray = stray
  odd = odd
  Conns = {c1, c2}
  Functions = {fa, fb}
  Names = {fa, fb, Relayer}
  GatewayNames = {fa, fb, Relayer}
  Unroutable = Unroutable
  Acceptor = Acceptor
  Relayer = Relayer
  NoConn = NoConn
  NoName = NoName
  Requests <- SmallRequests
  MaxRequests = 3
  MaxQueue = 1
  Pipelining = FALSE
  SplitRecords = FALSE
  Faults <- AllFaults
  Faulty = {c1, c2}
SYMMETRY FullSymmetry
INVARIANTS
  SingleHolder
  NoLeak
  AnsweredByNamed
  NoncesInOrder
PROPERTY ImplementsOwnership
