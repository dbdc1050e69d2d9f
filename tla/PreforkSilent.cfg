SPECIFICATION FairSpec
CONSTANTS
  c1 = c1
  c2 = c2
  c3 = c3
  g1 = g1
  g2 = g2
  Conns = {c1, c2, c3}
  Children = {g1, g2}
  NWorkers = 1
  MaxFd = 4
  Requests <- OneRoute
  Silent = {c1}
  NoConn = NoConn
  Sock <- Socks
  MaxRequests = 2
  Faults <- NoFaults
PROPERTY SessionsEnd
