SPECIFICATION Spec
CONSTANTS
  c1 = c1
  c2 = c2
  c3 = c3
  g1 = g1
  g2 = g2
  Conns = {c1, c2}
  Children = {g1, g2}
  NWorkers = 2
  MaxFd = 4
  Requests <- LongRequests
  Silent = {}
  NoConn = NoConn
  Sock <- Socks
  MaxRequests = 2
  Faults <- AllFaults
SYMMETRY ProcessSymmetry
CHECK_DEADLOCK FALSE
INVARIANTS
  TypeOK
  SessionsInStep
  AnsweredInOrder
  SingleHolder
  ClientTableTrue
