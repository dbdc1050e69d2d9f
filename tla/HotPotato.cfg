SPECIFICATION FairSpec
CONSTANTS
  c1 = c1
  c2 = c2
  sum = sum
  product = product
  Conns = {c1, c2}
  Functions = {sum, product}
  Gateway = Gateway
  NoConn = NoConn
  NoName = NoName
  Requests <- PotatoRequests
  MaxRequests = 4
  MaxFds <- FewFds
  MaxQueue = 1
  Faulty = {c2}
CHECK_DEADLOCK FALSE
INVARIANTS
  TypeOK
  SingleUser
  RecordsInStep
  AnsweredByNamed
  CopiesBounded
PROPERTY RequestsAnswered
