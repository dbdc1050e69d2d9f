SPECIFICATION FairSpec
CONSTANTS
  c1 = c1
  c2 = c2
  f = f
  ff = ff
  long = long
  odd = odd
  Conns = {c1, c2}
  Functions <- Deployed
  Names = {f, ff, long, odd}
  Prefixes <- NamePrefixes
  GatewayNames = {f, ff, long}
  WorkerNames = {f, ff, odd}
  Gateway = Gateway
  NoConn = NoConn
  NoName = NoName
  Requests <- ClientRequests
  BufSize = 3
  MaxQueue = 1
  Faulty = {c2}
CHECK_DEADLOCK FALSE
INVARIANTS
  TypeOK
  OneHolder
  SecondPeekAgrees
  OnlyNamedConsumes
  NoResetAfterAnswer
PROPERTIES
  ImplementsOwnership
  Delivered
