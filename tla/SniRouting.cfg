SPECIFICATION FairSpec
CONSTANTS
  c1 = c1
  c2 = c2
  sum = sum
  product = product
  Conns = {c1, c2}
  Functions = {sum, product}
  Gateway = Gateway
  NoName = NoName
  Plans <- ClientPlans
  Requests = {sum, NoName}
  MaxRequests = 2
  PeekSize = 2
  MaxQueue = 1
  MaxProcs = 3
  Slow = {c2}
  Silent = {c2}
  Faulty = {c2}
CHECK_DEADLOCK FALSE
INVARIANTS
  TypeOK
  NoStrayCopies
PROPERTIES
  FlightSettled
  ServedDespiteSilent
  ChildrenEnd
