SPECIFICATION Spec
CONSTANTS
  c1 = c1
  c2 = c2
  c3 = c3
  g1 = g1
  g2 = g2
  Conns = {c1, c2}
  Children = {g1, g2}
  NWorkers = 1
  MaxFd = 3
  Requests <- OneRoute
  Silent = {}
  NoConn = NoConn
  Sock <- Socks
  MaxRequests = 1
  Faults <- SendFault
INVARIANT NoGatewayLeak
