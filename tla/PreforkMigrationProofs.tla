----------------------- MODULE PreforkMigrationProofs -----------------------
(***************************************************************************)
(* Proofs about PreforkMigration, for every number of connections, gateway *)
(* processes, workers and descriptors, every sequence of requests and any  *)
(* combination of faults.                                                  *)
(***************************************************************************)
EXTENDS PreforkOwnership, FiniteSetTheorems, WellFoundedInduction, TLAPS

-----------------------------------------------------------------------------
(* The inductive invariant *)

(* What handle_connection has at each of its calls. *)
ControlInv ==
  \A g \in Children :
    /\ gpc[g] = "accept" <=> gconn[g] = NoConn
    /\ gconn[g] # NoConn => gconn[g] \in gfds[g]
    /\ gpc[g] = "send" => sent[gconn[g]] # <<>>

(* One place for a connection, and none before its client connects. *)
Own(c) ==
  /\ client[c] = "idle" => ~Open(c)
  /\ \A g, h \in Children : c \in gfds[g] /\ c \in gfds[h] => g = h
  /\ \A w, v \in Workers : \A i \in DOMAIN uds[w], j \in DOMAIN uds[v] :
       uds[w][i] = c /\ uds[v][j] = c => w = v /\ i = j
  /\ \A w, v \in Workers : \A f, e \in Fds :
       open[w][f] = c /\ open[v][e] = c => w = v /\ f = e
  /\ \A g \in Children, w \in Workers : c \in gfds[g] => ~Holds(w, c) /\ ~Queued(w, c)
  /\ \A v, w \in Workers : Holds(v, c) => ~Queued(w, c)
  /\ c \in backlog =>
       /\ \A g \in Children : c \notin gfds[g]
       /\ \A w \in Workers : ~Holds(w, c) /\ ~Queued(w, c)

(* The session s is in step with connection c; where requests fit one read, *)
(* all that was read has been answered.                                     *)
Session(s, c) ==
  /\ s.read = consumed[c] /\ s.write = Len(resp[c])
  /\ OneReadEach(c) => s.pending = 0 /\ Len(resp[c]) = consumed[c]

(* clients[f] of worker w agrees with the descriptor f and with epoll.      *)
Entry(w, f) ==
  /\ clients[w][f].active <=> f \in epoll[w]
  /\ clients[w][f].conn = open[w][f]
  /\ f \in batch[w] => clients[w][f].active
  /\ clients[w][f].active <=> open[w][f] # NoConn
  /\ \A c \in Conns : open[w][f] = c => Session(clients[w][f], c)

(* Nothing has been read from c or written to it. *)
Untouched(c) == consumed[c] = 0 /\ resp[c] = <<>>

(* Connections on their way to a worker are untouched, and are at or with   *)
(* the worker their first request names.                                    *)
Route(c) ==
  /\ client[c] = "idle" \/ c \in backlog => Untouched(c)
  /\ \A g \in Children : c \in gfds[g] => Untouched(c)
  /\ \A w \in Workers : Queued(w, c) => Untouched(c) /\ sent[c] # <<>> /\ w = RouteRequest(c)
  /\ \A w \in Workers : Holds(w, c) => sent[c] # <<>> /\ w = RouteRequest(c)
  /\ resp[c] # <<>> => sent[c] # <<>>

(* What has been written to c. *)
Answers(c) ==
  /\ \A i \in DOMAIN resp[c] : resp[c][i].seq = i - 1
  /\ OneReadEach(c) =>
       \A i \in DOMAIN resp[c] : resp[c][i].id = i /\ resp[c][i].by = RouteRequest(c)

ConnInv == \A c \in Conns : Own(c) /\ Route(c) /\ Answers(c)
EntryInv == \A w \in Workers, f \in Fds : Entry(w, f)

Inv == TypeOK /\ ControlInv /\ ConnInv /\ EntryInv

-----------------------------------------------------------------------------
(* Sequences and numbers *)

LEMMA AppendTo ==
  ASSUME NEW T, NEW s \in Seq(T), NEW e \in T
  PROVE  /\ Append(s, e) \in Seq(T) /\ Append(s, e) # <<>> /\ Len(Append(s, e)) = Len(s) + 1
         /\ \A i \in DOMAIN Append(s, e) :
              \/ i \in DOMAIN s /\ Append(s, e)[i] = s[i]
              \/ i = Len(s) + 1 /\ Append(s, e)[i] = e
         /\ \A i \in DOMAIN s : i \in DOMAIN Append(s, e) /\ Append(s, e)[i] = s[i]
         /\ Len(s) + 1 \in DOMAIN Append(s, e) /\ Append(s, e)[Len(s) + 1] = e
OBVIOUS

LEMMA TailOf ==
  ASSUME NEW T, NEW s \in Seq(T), s # <<>>
  PROVE  /\ Tail(s) \in Seq(T) /\ 1 \in DOMAIN s /\ Head(s) = s[1] /\ Head(s) \in T
         /\ \A i \in DOMAIN Tail(s) : i \in Nat /\ i >= 1 /\ i + 1 \in DOMAIN s /\ Tail(s)[i] = s[i + 1]
<1>1. Tail(s) \in Seq(T) /\ 1 \in DOMAIN s /\ Head(s) = s[1] /\ Head(s) \in T
  OBVIOUS
<1>2. \A i \in DOMAIN Tail(s) : i \in Nat /\ i >= 1 /\ i + 1 \in DOMAIN s /\ Tail(s)[i] = s[i + 1]
  OBVIOUS
<1> QED BY <1>1, <1>2

LEMMA LeastNat ==
  ASSUME NEW T \in SUBSET Nat, T # {}
  PROVE  \E x \in T : \A y \in T : x =< y
<1> DEFINE R == OpToRel(<, Nat)
<1>1. IsWellFoundedOn(R, Nat)
  BY NatLessThanWellFounded
<1>2. \A x, y \in Nat : <<y, x>> \in R <=> y < x
  BY DEF OpToRel
<1> HIDE DEF R
<1>3. \E x \in T : \A y \in T : <<y, x>> \notin R
  BY <1>1, WFMin
<1>4. PICK x \in T : \A y \in T : <<y, x>> \notin R
  BY <1>3
<1>5. \A y \in T : y \in Nat /\ x \in Nat /\ ~(y < x)
  BY <1>2, <1>4
<1>6. \A y \in T : x =< y
  BY <1>5
<1> QED BY <1>6

LEMMA LowestIn ==
  ASSUME NEW S \in SUBSET Nat, S # {}
  PROVE  Lowest(S) \in S
BY LeastNat DEF Lowest

(* route_request, with worker 0 for a number out of range. *)
LEMMA RouteIn ==
  ASSUME TypeOK, NEW c \in Conns, sent[c] # <<>>
  PROVE  RouteRequest(c) \in Workers
<1>1. sent[c] \in Seq(Request)
  BY DEF TypeOK
<1>2. sent[c][1] \in Request
  BY <1>1
<1>3. PICK r : r = sent[c][1].route /\ r \in {0, 1}
  BY <1>2 DEF Request
<1>4. NWorkers \in Nat /\ NWorkers # 0
  BY PreforkConstants
<1> QED BY <1>3, <1>4 DEF RouteRequest, Workers

(***************************************************************************)
(* While a message waits there are two free descriptor numbers, one for    *)
(* the Unix connection and one for the client: a worker holds a connection *)
(* under one number only, and not the one in the message, so it holds      *)
(* fewer than MaxFd - 1.                                                   *)
(***************************************************************************)
LEMMA NextFdFree ==
  ASSUME TypeOK, ConnInv, NEW w \in Workers, NEW c \in Conns, ~Holds(w, c)
  PROVE  NextFd(w) \in Fds /\ open[w][NextFd(w)] = NoConn
<1>1. Fds \subseteq Nat /\ Free(w) \subseteq Fds
  BY PreforkConstants DEF Fds, Free
<1> DEFINE a == Lowest(Free(w))
           R == Free(w) \ {a}
<1>2. ASSUME R = {} PROVE FALSE
  <2>1. Cardinality(Conns) \in Nat /\ MaxFd \in Nat /\ MaxFd > Cardinality(Conns) /\ IsFiniteSet(Conns)
    BY PreforkConstants, FS_CardinalityType
  <2>2. 1 \in Fds
    BY <2>1 DEF Fds
  <2>3. PICK b \in Fds : Free(w) \subseteq {b}
    <3>1. CASE a \in Fds
      BY <1>2, <3>1
    <3>2. CASE a \notin Fds
      BY <1>1, <1>2, <2>2, <3>2
    <3> QED BY <3>1, <3>2
  <2> DEFINE S == Fds \ {b}
             T == Conns \ {c}
             h == [f \in S |-> open[w][f]]
  <2>4. h \in [S -> T]
    <3>1. ASSUME NEW f \in S PROVE open[w][f] \in T
      <4>1. open[w][f] \in Conns \cup {NoConn}
        BY DEF TypeOK
      <4>2. f \notin Free(w) /\ f \in Fds
        BY <2>3
      <4>3. open[w][f] # NoConn
        BY <4>2 DEF Free
      <4>4. open[w][f] # c
        BY <4>2 DEF Holds
      <4> QED BY <4>1, <4>3, <4>4
    <3> QED BY <3>1
  <2>5. IsFiniteSet(Fds) /\ Cardinality(Fds) = MaxFd
    <3>1. 1 \in Int /\ MaxFd \in Int
      BY <2>1
    <3>2. IsFiniteSet(1..MaxFd) /\ Cardinality(1..MaxFd) = IF 1 > MaxFd THEN 0 ELSE MaxFd - 1 + 1
      BY <3>1, FS_Interval
    <3>3. ~(1 > MaxFd)
      BY <2>1
    <3>4. MaxFd - 1 + 1 = MaxFd
      BY <2>1
    <3> QED BY <3>2, <3>3, <3>4 DEF Fds
  <2>6. IsFiniteSet(S) /\ Cardinality(S) = MaxFd - 1
    BY <2>5, FS_RemoveElement
  <2>7. IsFiniteSet(T) /\ Cardinality(T) = Cardinality(Conns) - 1
    BY <2>1, FS_RemoveElement
  <2> HIDE DEF S, T
  <2>8. Cardinality(S) > Cardinality(T)
    <3> DEFINE n == Cardinality(Conns)
    <3>1. Cardinality(S) = MaxFd - 1 /\ Cardinality(T) = n - 1 /\ n \in Nat /\ MaxFd \in Nat /\ MaxFd > n
      BY <2>1, <2>6, <2>7
    <3> HIDE DEF n
    <3> QED BY ONLY <3>1
  <2>9. PICK x \in S, y \in S : x # y /\ h[x] = h[y]
    <3> HIDE DEF h
    <3> QED BY <2>4, <2>6, <2>7, <2>8, FS_PigeonHole
  <2>10. open[w][x] = open[w][y] /\ x \in Fds /\ y \in Fds /\ open[w][x] \in Conns
    BY <2>4, <2>9 DEF S, T
  <2>11. Own(open[w][x])
    BY <2>10 DEF ConnInv
  <2>12. x = y
    BY <2>10, <2>11 DEF Own
  <2> QED BY <2>9, <2>12
<1>3. R \in SUBSET Nat
  BY <1>1
<1>4. Lowest(R) \in R
  BY <1>2, <1>3, LowestIn
<1> QED BY <1>1, <1>4 DEF NextFd, Free

-----------------------------------------------------------------------------
(* Steps that bring a connection to no new place *)

(* sent[c] is extended at most, so the first request and its route stay. *)
SentGrows(c) ==
  /\ sent[c] # <<>> => sent'[c] # <<>> /\ RouteRequest(c)' = RouteRequest(c)
  /\ OneReadEach(c)' => OneReadEach(c)

EntryKept(w, f) ==
  /\ clients'[w][f] = clients[w][f] /\ open'[w][f] = open[w][f]
  /\ f \in epoll'[w] <=> f \in epoll[w]
  /\ f \in batch'[w] => f \in batch[w] \/ f \in epoll[w]

EntryCleared(w, f) ==
  /\ clients'[w][f] = Inactive /\ open'[w][f] = NoConn
  /\ f \notin epoll'[w] /\ f \notin batch'[w]

PlacesShrink ==
  /\ \A c \in Conns : client'[c] = "idle" => client[c] = "idle"
  /\ backlog' \subseteq backlog
  /\ \A g \in Children : gfds'[g] \subseteq gfds[g]
  /\ \E k \in [Workers -> Nat] : \A w \in Workers : \A i \in DOMAIN uds'[w] :
       i \in Nat /\ (uds'[w][i] # NoConn => i + k[w] \in DOMAIN uds[w] /\ uds[w][i + k[w]] = uds'[w][i])

Shrinks ==
  /\ PlacesShrink
  /\ \A w \in Workers, f \in Fds : EntryKept(w, f) \/ EntryCleared(w, f)
  /\ resp' = resp
  /\ \A c \in Conns : /\ SentGrows(c)
                      /\ consumed'[c] = consumed[c] \/ (client'[c] # "idle" /\ ~Open(c)')

(* The same for one connection, for steps that move another one. *)
ConnShrinks(c) ==
  /\ client'[c] = "idle" => client[c] = "idle"
  /\ c \in backlog' => c \in backlog
  /\ \A g \in Children : c \in gfds'[g] => c \in gfds[g]
  /\ \E k \in [Workers -> Nat] : \A w \in Workers : \A i \in DOMAIN uds'[w] :
       uds'[w][i] = c => i \in Nat /\ i + k[w] \in DOMAIN uds[w] /\ uds[w][i + k[w]] = c
  /\ \A w \in Workers, f \in Fds : open'[w][f] = c => open[w][f] = c
  /\ resp'[c] = resp[c]
  /\ SentGrows(c)
  /\ consumed'[c] = consumed[c] \/ (client'[c] # "idle" /\ ~Open(c)')

LEMMA ShrinksEach ==
  ASSUME Shrinks, NEW c \in Conns
  PROVE  ConnShrinks(c)
<1>0. c # NoConn
  BY PreforkConstants
<1>1. \A w \in Workers, f \in Fds : open'[w][f] = c => open[w][f] = c
  BY <1>0 DEF Shrinks, EntryKept, EntryCleared
<1>2. \E k \in [Workers -> Nat] : \A w \in Workers : \A i \in DOMAIN uds'[w] :
        uds'[w][i] = c => i \in Nat /\ i + k[w] \in DOMAIN uds[w] /\ uds[w][i + k[w]] = c
  BY <1>0 DEF Shrinks, PlacesShrink
<1> QED BY <1>1, <1>2 DEF Shrinks, PlacesShrink, ConnShrinks

LEMMA PlacesOf ==
  ASSUME NEW c \in Conns, ConnShrinks(c)
  PROVE  /\ \A w \in Workers : (Queued(w, c)' => Queued(w, c)) /\ (Holds(w, c)' => Holds(w, c))
         /\ Open(c)' => Open(c)
<1>1. \A w \in Workers : (Queued(w, c)' => Queued(w, c)) /\ (Holds(w, c)' => Holds(w, c))
  BY DEF ConnShrinks, Queued, Holds
<1>2. Open(c)' => Open(c)
  BY <1>1 DEF Open, Queued, ConnShrinks
<1> QED BY <1>1, <1>2

LEMMA OwnShrinks ==
  ASSUME NEW c \in Conns, ConnShrinks(c), Own(c)
  PROVE  Own(c)'
<1>1. /\ \A w \in Workers : (Queued(w, c)' => Queued(w, c)) /\ (Holds(w, c)' => Holds(w, c))
      /\ Open(c)' => Open(c)
  BY PlacesOf
<1>2. ASSUME NEW w \in Workers, NEW v \in Workers, NEW i \in DOMAIN uds'[w], NEW j \in DOMAIN uds'[v],
             uds'[w][i] = c, uds'[v][j] = c
      PROVE  w = v /\ i = j
  <2>1. PICK k \in [Workers -> Nat] : \A u \in Workers : \A m \in DOMAIN uds'[u] :
          uds'[u][m] = c => m \in Nat /\ m + k[u] \in DOMAIN uds[u] /\ uds[u][m + k[u]] = c
    BY DEF ConnShrinks
  <2>2. w = v /\ i + k[w] = j + k[v]
    BY <1>2, <2>1 DEF Own
  <2>3. i \in Nat /\ j \in Nat /\ k[w] \in Nat
    BY <1>2, <2>1
  <2> QED BY <2>2, <2>3
<1>3. \A w, v \in Workers : \A f, e \in Fds : open'[w][f] = c /\ open'[v][e] = c => w = v /\ f = e
  BY DEF Own, ConnShrinks
<1>4. /\ client'[c] = "idle" => client[c] = "idle"
      /\ c \in backlog' => c \in backlog
      /\ \A g \in Children : c \in gfds'[g] => c \in gfds[g]
  BY DEF ConnShrinks
<1> QED BY <1>1, <1>2, <1>3, <1>4 DEF Own

LEMMA RouteShrinks ==
  ASSUME NEW c \in Conns, ConnShrinks(c), Route(c)
  PROVE  Route(c)'
<1>1. \A w \in Workers : (Queued(w, c)' => Queued(w, c)) /\ (Holds(w, c)' => Holds(w, c))
  BY PlacesOf
<1>2. /\ client'[c] = "idle" => client[c] = "idle"
      /\ c \in backlog' => c \in backlog
      /\ \A g \in Children : c \in gfds'[g] => c \in gfds[g]
      /\ resp'[c] = resp[c]
      /\ sent[c] # <<>> => sent'[c] # <<>> /\ RouteRequest(c)' = RouteRequest(c)
  BY DEF ConnShrinks, SentGrows
<1>3. client'[c] = "idle" \/ Open(c)' => (Untouched(c) => Untouched(c)')
  BY <1>2 DEF ConnShrinks, Untouched
<1>4. /\ c \in backlog' => Open(c)'
      /\ \A g \in Children : c \in gfds'[g] => Open(c)'
      /\ \A w \in Workers : Queued(w, c)' => Open(c)'
  BY DEF Open, Queued
<1> QED BY <1>1, <1>2, <1>3, <1>4 DEF Route

LEMMA AnswersShrinks ==
  ASSUME NEW c \in Conns, SentGrows(c), resp'[c] = resp[c], Route(c), Answers(c)
  PROVE  Answers(c)'
<1>1. CASE resp[c] = <<>>
  BY <1>1 DEF Answers
<1>2. CASE resp[c] # <<>>
  BY <1>2 DEF Answers, Route, SentGrows
<1> QED BY <1>1, <1>2

LEMMA ConnShrinksStep ==
  ASSUME ConnInv, NEW c \in Conns, ConnShrinks(c)
  PROVE  Own(c)' /\ Route(c)' /\ Answers(c)'
<1>1. Own(c) /\ Route(c) /\ Answers(c) /\ SentGrows(c) /\ resp'[c] = resp[c]
  BY DEF ConnInv, ConnShrinks
<1> QED BY <1>1, OwnShrinks, RouteShrinks, AnswersShrinks

LEMMA EntryShrinks ==
  ASSUME Shrinks, NEW w \in Workers, NEW f \in Fds, Entry(w, f)
  PROVE  Entry(w, f)'
<1>1. CASE EntryCleared(w, f)
  BY <1>1, PreforkConstants DEF EntryCleared, Entry, Inactive
<1>2. CASE EntryKept(w, f)
  <2>1. ASSUME NEW c \in Conns, open'[w][f] = c PROVE Session(clients[w][f], c)'
    <3>1. Open(c)'
      BY <2>1 DEF Open, Holds
    <3>2. consumed'[c] = consumed[c] /\ resp' = resp /\ (OneReadEach(c)' => OneReadEach(c))
      BY <3>1 DEF Shrinks, SentGrows
    <3>3. Session(clients[w][f], c)
      BY <1>2, <2>1 DEF EntryKept, Entry
    <3> QED BY <1>2, <3>2, <3>3 DEF Session, EntryKept
  <2> QED BY <1>2, <2>1 DEF EntryKept, Entry
<1> QED BY <1>1, <1>2 DEF Shrinks

LEMMA ShrinkStep ==
  ASSUME ConnInv, EntryInv, Shrinks
  PROVE  ConnInv' /\ EntryInv'
<1>1. ConnInv'
  BY ShrinksEach, ConnShrinksStep DEF ConnInv
<1>2. EntryInv'
  BY EntryShrinks DEF EntryInv
<1> QED BY <1>1, <1>2

-----------------------------------------------------------------------------
(* Clients *)

(* Requests are only ever appended. *)
LEMMA SentKept ==
  ASSUME sent' = sent, NEW c \in Conns
  PROVE  SentGrows(c)
BY DEF SentGrows, RouteRequest, OneReadEach

LEMMA SentAppend ==
  ASSUME TypeOK, NEW c \in Conns, NEW r \in Request, sent' = [sent EXCEPT ![c] = Append(@, r)],
         NEW d \in Conns
  PROVE  SentGrows(d)
<1>1. sent \in [Conns -> Seq(Request)]
  BY DEF TypeOK
<1>2. CASE d # c
  BY <1>1, <1>2 DEF SentGrows, RouteRequest, OneReadEach
<1>3. CASE d = c
  <2>1. sent'[c] = Append(sent[c], r) /\ sent[c] \in Seq(Request)
    BY <1>1
  <2>2. /\ sent'[c] # <<>>
        /\ \A i \in DOMAIN sent[c] : i \in DOMAIN sent'[c] /\ sent'[c][i] = sent[c][i]
    BY <2>1, AppendTo
  <2>3. sent[c] # <<>> => 1 \in DOMAIN sent[c]
    BY <2>1
  <2> QED BY <1>3, <2>2, <2>3 DEF SentGrows, RouteRequest, OneReadEach
<1> QED BY <1>2, <1>3

(* The gateway's side of a step that leaves it alone. *)
LEMMA ControlKept ==
  ASSUME TypeOK, ControlInv, UNCHANGED <<gpc, gconn, gfds>>, \A c \in Conns : SentGrows(c)
  PROVE  ControlInv'
<1>1. ASSUME NEW g \in Children
      PROVE  gpc'[g] = "send" => sent'[gconn'[g]] # <<>>
  <2>1. gconn' = gconn /\ gpc' = gpc
    OBVIOUS
  <2>2. gpc[g] = "send" => gconn[g] \in Conns /\ sent[gconn[g]] # <<>>
    BY DEF ControlInv, TypeOK
  <2> QED BY <2>1, <2>2 DEF SentGrows
<1> QED BY <1>1 DEF ControlInv

(* Messages, and the workers, are as they were. *)
LEMMA SameMessages ==
  ASSUME TypeOK, uds' = uds
  PROVE  \E k \in [Workers -> Nat] : \A w \in Workers : \A i \in DOMAIN uds'[w] :
           i \in Nat /\ (uds'[w][i] # NoConn => i + k[w] \in DOMAIN uds[w] /\ uds[w][i + k[w]] = uds'[w][i])
<1> DEFINE k == [w \in Workers |-> 0]
<1>1. k \in [Workers -> Nat]
  OBVIOUS
<1>2. ASSUME NEW w \in Workers, NEW i \in DOMAIN uds'[w]
      PROVE  i \in Nat /\ (uds'[w][i] # NoConn => i + k[w] \in DOMAIN uds[w] /\ uds[w][i + k[w]] = uds'[w][i])
  <2>1. uds[w] \in Seq(Conns \cup {NoConn})
    BY DEF TypeOK
  <2>2. i \in Nat /\ i + 0 = i
    BY <2>1
  <2> QED BY <2>2
<1> QED BY <1>1, <1>2

LEMMA SameWorkers ==
  ASSUME UNCHANGED <<clients, open, epoll, batch>>
  PROVE  \A w \in Workers, f \in Fds : EntryKept(w, f)
BY DEF EntryKept

(* A step of a client that is already connected. *)
LEMMA ClientShrinks ==
  ASSUME TypeOK, NEW c \in Conns,
         Hello(c) \/ ClientClose(c) \/ \E r \in Requests : SendRequest(c, r)
  PROVE  Shrinks /\ \A d \in Conns : SentGrows(d)
<1>1. /\ UNCHANGED <<streamVars, gatewayVars, workerVars>>
      /\ client' = client \/ client' = [client EXCEPT ![c] = "hello"] \/ client' = [client EXCEPT ![c] = "gone"]
      /\ sent' = sent \/ \E r \in Requests : sent' = [sent EXCEPT ![c] = Append(@, r)]
  BY DEF Hello, ClientClose, SendRequest
<1>2. \A d \in Conns : SentGrows(d)
  BY <1>1, SentKept, SentAppend, PreforkConstants
<1>3. PlacesShrink
  BY <1>1, SameMessages DEF PlacesShrink, gatewayVars, workerVars, TypeOK
<1>4. \A w \in Workers, f \in Fds : EntryKept(w, f)
  BY <1>1, SameWorkers DEF workerVars
<1> QED BY <1>1, <1>2, <1>3, <1>4 DEF Shrinks, streamVars

LEMMA ConnectConn ==
  ASSUME TypeOK, ConnInv, EntryInv, NEW c \in Conns, Connect(c)
  PROVE  ConnInv' /\ EntryInv'
<1>1. /\ client \in [Conns -> {"idle", "connected", "hello", "secure", "gone"}]
      /\ client' = [client EXCEPT ![c] = "connected"] /\ client[c] = "idle"
      /\ backlog' = backlog \cup {c}
      /\ UNCHANGED <<sent, consumed, resp, gfds, uds, batch, open, epoll, clients>>
  BY DEF TypeOK, Connect, streamVars, workerVars
<1>2. ASSUME NEW d \in Conns PROVE Own(d)' /\ Route(d)' /\ Answers(d)'
  <2>0. Own(d) /\ Route(d) /\ Answers(d)
    BY DEF ConnInv
  <2>1. /\ \A w \in Workers : Holds(w, d)' = Holds(w, d) /\ Queued(w, d)' = Queued(w, d)
        /\ RouteRequest(d)' = RouteRequest(d) /\ OneReadEach(d)' = OneReadEach(d)
        /\ Untouched(d)' = Untouched(d)
    BY <1>1 DEF Holds, Queued, RouteRequest, OneReadEach, Untouched
  <2>2. Answers(d)'
    BY <1>1, <2>0, <2>1 DEF Answers
  <2>3. CASE d = c
    <3>1. ~Open(c)
      BY <1>1, <2>0, <2>3 DEF Own
    <3>2. /\ \A w \in Workers : ~Holds(w, c) /\ ~Queued(w, c)
          /\ \A g \in Children : c \notin gfds[g]
      BY <3>1 DEF Open, Queued
    <3>3. Own(c)'
      BY <1>1, <2>1, <2>3, <3>2 DEF Own, Holds, Queued
    <3>4. Route(c)'
      BY <1>1, <2>0, <2>1, <2>3, <3>2 DEF Route
    <3> QED BY <2>2, <2>3, <3>3, <3>4
  <2>4. CASE d # c
    <3>1. client'[d] = client[d] /\ (d \in backlog' <=> d \in backlog)
      BY <1>1, <2>4
    <3>2. Open(d)' = Open(d)
      BY <1>1, <2>1, <3>1 DEF Open
    <3>3. Own(d)'
      BY <1>1, <2>0, <2>1, <3>1, <3>2 DEF Own
    <3>4. Route(d)'
      BY <1>1, <2>0, <2>1, <3>1 DEF Route
    <3> QED BY <2>2, <3>3, <3>4
  <2> QED BY <2>3, <2>4
<1>3. EntryInv'
  BY <1>1 DEF EntryInv, Entry, Session, OneReadEach
<1> QED BY <1>2, <1>3 DEF ConnInv

LEMMA ClientType ==
  ASSUME TypeOK, NEW c \in Conns, ClientStep(c)
  PROVE  TypeOK'
<1>1. /\ UNCHANGED <<consumed, resp, gpc, gconn, gfds, uds, wpc, batch, listening, open, epoll, clients>>
      /\ backlog' = backlog \/ backlog' = backlog \cup {c}
      /\ \/ client' = client \/ \E to \in {"connected", "hello", "gone"} : client' = [client EXCEPT ![c] = to]
      /\ sent' = sent \/ \E r \in Requests : sent' = [sent EXCEPT ![c] = Append(sent[c], r)]
  BY DEF ClientStep, Connect, Hello, ClientClose, SendRequest, streamVars, gatewayVars, workerVars
<1>2. client' \in [Conns -> {"idle", "connected", "hello", "secure", "gone"}]
  BY <1>1 DEF TypeOK
<1>3. sent' \in [Conns -> Seq(Request)]
  <2>1. sent \in [Conns -> Seq(Request)] /\ \A r \in Requests : r \in Request
    BY PreforkConstants DEF TypeOK
  <2>2. \A r \in Requests : Append(sent[c], r) \in Seq(Request)
    BY <2>1, AppendTo
  <2> QED BY <1>1, <2>1, <2>2
<1>4. backlog' \subseteq Conns
  BY <1>1 DEF TypeOK
<1> QED BY <1>1, <1>2, <1>3, <1>4 DEF TypeOK

LEMMA ClientInv ==
  ASSUME Inv, NEW c \in Conns, ClientStep(c)
  PROVE  Inv'
<1> USE DEF Inv
<1>1. TypeOK'
  BY ClientType
<1>2. CASE Connect(c)
  <2>1. UNCHANGED <<gpc, gconn, gfds, sent>>
    BY <1>2 DEF Connect
  <2>2. ControlInv'
    BY <2>1, SentKept, ControlKept
  <2> QED BY <1>1, <1>2, <2>2, ConnectConn
<1>3. CASE Hello(c) \/ ClientClose(c) \/ \E r \in Requests : SendRequest(c, r)
  <2>1. UNCHANGED <<gpc, gconn, gfds>>
    BY <1>3 DEF Hello, ClientClose, SendRequest, gatewayVars
  <2>2. Shrinks /\ \A d \in Conns : SentGrows(d)
    BY <1>3, ClientShrinks
  <2>3. ControlInv'
    BY <2>1, <2>2, ControlKept
  <2> QED BY <1>1, <2>2, <2>3, ShrinkStep
<1> QED BY <1>2, <1>3 DEF ClientStep

-----------------------------------------------------------------------------
(* Gateway processes *)

LEMMA ControlAt ==
  ASSUME ControlInv, sent' = sent, NEW g \in Children,
         \A h \in Children \ {g} : gpc'[h] = gpc[h] /\ gconn'[h] = gconn[h] /\ gfds'[h] = gfds[h],
         gpc'[g] = "accept" <=> gconn'[g] = NoConn,
         gconn'[g] # NoConn => gconn'[g] \in gfds'[g],
         gpc'[g] = "send" => sent[gconn'[g]] # <<>>
  PROVE  ControlInv'
BY DEF ControlInv

LEMMA ChildTypes ==
  ASSUME TypeOK
  PROVE  /\ gpc \in [Children -> {"accept", "handshake", "peek", "send"}]
         /\ gconn \in [Children -> Conns \cup {NoConn}] /\ gfds \in [Children -> SUBSET Conns]
BY DEF TypeOK

(* A child past accept works on a connection whose descriptor it has open.  *)
LEMMA ChildHas ==
  ASSUME TypeOK, ControlInv, NEW g \in Children, gpc[g] # "accept"
  PROVE  /\ gconn[g] \in Conns /\ gconn[g] \in gfds[g]
         /\ gpc[g] = "send" => sent[gconn[g]] # <<>>
BY DEF ControlInv, TypeOK

LEMMA ReturnControl ==
  ASSUME TypeOK, ControlInv, sent' = sent, NEW g \in Children, Return(g),
         \A h \in Children \ {g} : gfds'[h] = gfds[h]
  PROVE  ControlInv'
<1>1. /\ gpc'[g] = "accept" /\ gconn'[g] = NoConn
      /\ \A h \in Children \ {g} : gpc'[h] = gpc[h] /\ gconn'[h] = gconn[h]
  BY ChildTypes DEF Return
<1> QED BY <1>1, ControlAt

LEMMA CloseControl ==
  ASSUME TypeOK, ControlInv, sent' = sent, NEW g \in Children, CloseAndReturn(g)
  PROVE  /\ ControlInv'
         /\ \A h \in Children : gfds'[h] \subseteq gfds[h]
<1>1. gfds' = [gfds EXCEPT ![g] = @ \ {gconn[g]}] /\ Return(g)
  BY DEF CloseAndReturn
<1>2. \A h \in Children \ {g} : gfds'[h] = gfds[h]
  BY <1>1, ChildTypes
<1>3. ControlInv'
  BY <1>1, <1>2, ReturnControl
<1> QED BY <1>1, <1>3, ChildTypes

(* The gateway's failures, and its steps that only look. *)
ChildOnly(g) ==
  Handshake(g) \/ HandshakeFails(g) \/ PeekAndExport(g) \/ PeekOrExportFails(g) \/ ConnectFails(g)

LEMMA ChildOnlyShrinks ==
  ASSUME TypeOK, ControlInv, NEW g \in Children, ChildOnly(g)
  PROVE  Shrinks /\ ControlInv'
<1>1. /\ UNCHANGED <<sent, consumed, resp, backlog, uds, batch, open, epoll, clients>>
      /\ gpc[g] # "accept"
  BY DEF ChildOnly, Handshake, HandshakeFails, PeekAndExport, PeekOrExportFails, ConnectFails,
         clientVars, streamVars, workerVars
<1>2. PICK c \in Conns : c = gconn[g] /\ c \in gfds[g]
  BY <1>1, ChildHas
<1>3. \A d \in Conns : client'[d] = "idle" => client[d] = "idle"
  <2>1. client' = client \/ client' = [client EXCEPT ![c] = "secure"]
    BY <1>2 DEF ChildOnly, Handshake, HandshakeFails, PeekAndExport, PeekOrExportFails, ConnectFails,
       clientVars
  <2> QED BY <2>1 DEF TypeOK
<1>4. ControlInv' /\ \A h \in Children : gfds'[h] \subseteq gfds[h]
  <2>1. CASE CloseAndReturn(g)
    BY <1>1, <2>1, CloseControl
  <2>2. CASE Handshake(g)
    <3>1. gpc' = [gpc EXCEPT ![g] = "peek"] /\ UNCHANGED <<gconn, gfds>>
      BY <2>2 DEF Handshake
    <3>2. /\ gpc'[g] = "peek" /\ \A h \in Children \ {g} : gpc'[h] = gpc[h]
      BY <3>1, ChildTypes
    <3>3. ControlInv'
      BY <1>1, <1>2, <3>1, <3>2, ControlAt, PreforkConstants
    <3> QED BY <3>1, <3>3
  <2>3. CASE PeekAndExport(g)
    <3>1. gpc' = [gpc EXCEPT ![g] = "send"] /\ UNCHANGED <<gconn, gfds>> /\ sent[gconn[g]] # <<>>
      BY <2>3 DEF PeekAndExport
    <3>2. /\ gpc'[g] = "send" /\ \A h \in Children \ {g} : gpc'[h] = gpc[h]
      BY <3>1, ChildTypes
    <3>3. ControlInv'
      BY <1>1, <1>2, <3>1, <3>2, ControlAt, PreforkConstants
    <3> QED BY <3>1, <3>3
  <2> QED BY <2>1, <2>2, <2>3 DEF ChildOnly, HandshakeFails, PeekOrExportFails, ConnectFails
<1>5. PlacesShrink
  BY <1>1, <1>3, <1>4, SameMessages DEF PlacesShrink
<1>6. \A w \in Workers, f \in Fds : EntryKept(w, f)
  BY <1>1, SameWorkers
<1> QED BY <1>1, <1>4, <1>5, <1>6, SentKept DEF Shrinks

(* sendmsg fails: the worker will accept a connection with no message.      *)
LEMMA SendFdFailsShrinks ==
  ASSUME TypeOK, ControlInv, NEW g \in Children, SendFdFails(g)
  PROVE  Shrinks /\ ControlInv'
<1>1. /\ UNCHANGED <<client, sent, consumed, resp, backlog, gfds, batch, open, epoll, clients>>
      /\ Return(g) /\ gpc[g] = "send"
  BY DEF SendFdFails, clientVars, streamVars
<1>2. PICK c \in Conns : c = gconn[g] /\ sent[c] # <<>>
  BY <1>1, ChildHas
<1>3. PICK w \in Workers : uds' = [uds EXCEPT ![w] = Append(uds[w], NoConn)]
  BY <1>2, RouteIn DEF SendFdFails
<1>4. \E k \in [Workers -> Nat] : \A v \in Workers : \A i \in DOMAIN uds'[v] :
        i \in Nat /\ (uds'[v][i] # NoConn => i + k[v] \in DOMAIN uds[v] /\ uds[v][i + k[v]] = uds'[v][i])
  <2> DEFINE k == [v \in Workers |-> 0]
  <2>1. k \in [Workers -> Nat]
    OBVIOUS
  <2>2. ASSUME NEW v \in Workers, NEW i \in DOMAIN uds'[v]
        PROVE  i \in Nat /\ (uds'[v][i] # NoConn => i + k[v] \in DOMAIN uds[v] /\ uds[v][i + k[v]] = uds'[v][i])
    <3>1. uds \in [Workers -> Seq(Conns \cup {NoConn})] /\ uds[v] \in Seq(Conns \cup {NoConn})
      BY DEF TypeOK
    <3>2. i \in Nat /\ (uds'[v][i] # NoConn => i \in DOMAIN uds[v] /\ uds[v][i] = uds'[v][i])
      <4>1. CASE v = w
        <5>1. uds'[v] = Append(uds[v], NoConn)
          BY <1>3, <3>1, <4>1
        <5>2. \/ i \in DOMAIN uds[v] /\ uds'[v][i] = uds[v][i]
              \/ i = Len(uds[v]) + 1 /\ uds'[v][i] = NoConn
          BY <2>2, <3>1, <5>1, AppendTo
        <5> QED BY <3>1, <5>2
      <4>2. CASE v # w
        BY <1>3, <2>2, <3>1, <4>2
      <4> QED BY <4>1, <4>2
    <3> QED BY <3>2
  <2> QED BY <2>1, <2>2
<1>5. PlacesShrink
  BY <1>1, <1>4 DEF PlacesShrink
<1>6. \A v \in Workers, f \in Fds : EntryKept(v, f)
  BY <1>1, SameWorkers
<1>7. ControlInv'
  BY <1>1, ReturnControl
<1> QED BY <1>1, <1>5, <1>6, <1>7, SentKept DEF Shrinks

LEMMA AcceptConn ==
  ASSUME TypeOK, ControlInv, ConnInv, EntryInv, NEW g \in Children, NEW c \in Conns, Accept(g, c)
  PROVE  ControlInv' /\ ConnInv' /\ EntryInv'
<1>1. /\ c \in backlog /\ backlog' = backlog \ {c} /\ gpc[g] = "accept"
      /\ gpc' = [gpc EXCEPT ![g] = "handshake"] /\ gconn' = [gconn EXCEPT ![g] = c]
      /\ gfds' = [gfds EXCEPT ![g] = @ \cup {c}]
      /\ UNCHANGED <<client, sent, consumed, resp, uds, batch, open, epoll, clients>>
  BY DEF Accept, clientVars, streamVars, workerVars
<1>2. /\ gpc'[g] = "handshake" /\ gconn'[g] = c /\ gfds'[g] = gfds[g] \cup {c}
      /\ \A h \in Children \ {g} : gpc'[h] = gpc[h] /\ gconn'[h] = gconn[h] /\ gfds'[h] = gfds[h]
  BY <1>1, ChildTypes
<1>3. ControlInv'
  BY <1>1, <1>2, ControlAt, PreforkConstants
<1>4. EntryInv'
  BY <1>1 DEF EntryInv, Entry, Session, OneReadEach
<1>5. ASSUME NEW d \in Conns \ {c} PROVE ConnShrinks(d)
  <2>1. /\ d \in backlog' => d \in backlog
        /\ \A h \in Children : d \in gfds'[h] => d \in gfds[h]
    BY <1>1, <1>2
  <2>2. \E k \in [Workers -> Nat] : \A w \in Workers : \A i \in DOMAIN uds'[w] :
          uds'[w][i] = d => i \in Nat /\ i + k[w] \in DOMAIN uds[w] /\ uds[w][i + k[w]] = d
    BY <1>1, SameMessages, PreforkConstants
  <2>3. SentGrows(d)
    BY <1>1, SentKept
  <2> QED BY <1>1, <2>1, <2>2, <2>3 DEF ConnShrinks
<1>6. Own(c)' /\ Route(c)' /\ Answers(c)'
  <2>1. Own(c) /\ Route(c) /\ Answers(c)
    BY DEF ConnInv
  <2>2. /\ \A w \in Workers : ~Holds(w, c) /\ ~Queued(w, c)
        /\ \A h \in Children : c \notin gfds[h]
        /\ client[c] # "idle" /\ Untouched(c)
    BY <1>1, <2>1 DEF Own, Route, Open
  <2>3. /\ \A w \in Workers : ~Holds(w, c)' /\ ~Queued(w, c)'
        /\ \A h \in Children : c \in gfds'[h] => h = g
        /\ c \notin backlog' /\ client'[c] # "idle" /\ Untouched(c)'
    BY <1>1, <1>2, <2>2 DEF Holds, Queued, Untouched
  <2>4. Own(c)'
    BY <2>3 DEF Own, Holds, Queued
  <2>5. Route(c)'
    BY <2>3 DEF Route, Untouched
  <2>6. Answers(c)'
    BY <2>3 DEF Answers, Untouched
  <2> QED BY <2>4, <2>5, <2>6
<1> QED BY <1>3, <1>4, <1>5, <1>6, ConnShrinksStep DEF ConnInv

LEMMA SendFdConn ==
  ASSUME TypeOK, ControlInv, ConnInv, EntryInv, NEW g \in Children, SendFd(g)
  PROVE  ControlInv' /\ ConnInv' /\ EntryInv'
<1>1. /\ UNCHANGED <<client, sent, consumed, resp, backlog, batch, open, epoll, clients>>
      /\ CloseAndReturn(g) /\ gpc[g] = "send"
  BY DEF SendFd, clientVars, streamVars
<1>2. PICK c \in Conns : c = gconn[g] /\ c \in gfds[g] /\ sent[c] # <<>>
  BY <1>1, ChildHas
<1>3. PICK w \in Workers : w = RouteRequest(c) /\ uds' = [uds EXCEPT ![w] = Append(uds[w], c)]
  BY <1>2, RouteIn DEF SendFd
<1>4. ControlInv'
  BY <1>1, CloseControl
<1>5. /\ gfds'[g] = gfds[g] \ {c} /\ \A h \in Children \ {g} : gfds'[h] = gfds[h]
  BY <1>1, <1>2, ChildTypes DEF CloseAndReturn
<1>6. EntryInv'
  BY <1>1 DEF EntryInv, Entry, Session, OneReadEach
<1>7. uds \in [Workers -> Seq(Conns \cup {NoConn})] /\ \A v \in Workers : uds[v] \in Seq(Conns \cup {NoConn})
  BY DEF TypeOK
<1>8. ASSUME NEW v \in Workers, NEW i \in DOMAIN uds'[v]
      PROVE  /\ i \in Nat
             /\ \/ i \in DOMAIN uds[v] /\ uds'[v][i] = uds[v][i]
                \/ v = w /\ i = Len(uds[w]) + 1 /\ uds'[v][i] = c
  <2>1. CASE v = w
    <3>1. uds'[w] = Append(uds[w], c)
      BY <1>3, <1>7
    <3>2. \/ i \in DOMAIN uds[w] /\ uds'[w][i] = uds[w][i]
          \/ i = Len(uds[w]) + 1 /\ uds'[w][i] = c
      BY <1>7, <1>8, <2>1, <3>1, AppendTo
    <3> QED BY <1>7, <2>1, <3>2
  <2>2. CASE v # w
    BY <1>3, <1>7, <1>8, <2>2
  <2> QED BY <2>1, <2>2
<1>9. ASSUME NEW d \in Conns \ {c} PROVE ConnShrinks(d)
  <2>1. \A h \in Children : d \in gfds'[h] => d \in gfds[h]
    BY <1>5
  <2>2. \E k \in [Workers -> Nat] : \A v \in Workers : \A i \in DOMAIN uds'[v] :
          uds'[v][i] = d => i \in Nat /\ i + k[v] \in DOMAIN uds[v] /\ uds[v][i + k[v]] = d
    <3> DEFINE k == [v \in Workers |-> 0]
    <3>1. k \in [Workers -> Nat]
      OBVIOUS
    <3>2. ASSUME NEW v \in Workers, NEW i \in DOMAIN uds'[v], uds'[v][i] = d
          PROVE  i \in Nat /\ i + k[v] \in DOMAIN uds[v] /\ uds[v][i + k[v]] = d
      <4>1. i \in Nat /\ i \in DOMAIN uds[v] /\ uds[v][i] = d
        BY <1>8, <3>2
      <4> QED BY <4>1
    <3> QED BY <3>1, <3>2
  <2>3. SentGrows(d)
    BY <1>1, SentKept
  <2> QED BY <1>1, <2>1, <2>2, <2>3 DEF ConnShrinks
<1>10. Own(c)' /\ Route(c)' /\ Answers(c)'
  <2>1. Own(c) /\ Route(c) /\ Answers(c)
    BY DEF ConnInv
  <2>2. /\ \A v \in Workers : ~Holds(v, c) /\ ~Queued(v, c)
        /\ \A h \in Children : c \in gfds[h] => h = g
        /\ client[c] # "idle" /\ c \notin backlog /\ Untouched(c)
    BY <1>2, <2>1 DEF Own, Route, Open
  <2>3. /\ \A v \in Workers : ~Holds(v, c)'
        /\ \A h \in Children : c \notin gfds'[h]
        /\ c \notin backlog' /\ client'[c] # "idle" /\ Untouched(c)'
        /\ RouteRequest(c)' = w /\ sent'[c] # <<>>
    BY <1>1, <1>2, <1>3, <1>5, <2>2 DEF Holds, Untouched, RouteRequest
  <2>4. \A v \in Workers : \A i \in DOMAIN uds'[v] : uds'[v][i] = c => v = w /\ i = Len(uds[w]) + 1
    BY <1>8, <2>2 DEF Queued
  <2>5. Own(c)'
    BY <2>3, <2>4 DEF Own, Holds
  <2>6. Route(c)'
    BY <2>3, <2>4 DEF Route, Queued, Untouched
  <2>7. Answers(c)'
    BY <2>3 DEF Answers, Untouched
  <2> QED BY <2>5, <2>6, <2>7
<1> QED BY <1>4, <1>6, <1>9, <1>10, ConnShrinksStep DEF ConnInv

LEMMA ChildType ==
  ASSUME TypeOK, ControlInv, NEW g \in Children, ChildStep(g)
  PROVE  TypeOK'
<1>1. /\ UNCHANGED <<sent, consumed, resp, wpc, batch, listening, open, epoll, clients>>
      /\ client' = client \/ client' = [client EXCEPT ![gconn[g]] = "secure"]
      /\ backlog' \subseteq backlog
      /\ \E to \in {"accept", "handshake", "peek", "send"} : gpc' = [gpc EXCEPT ![g] = to]
  BY DEF ChildStep, Accept, Handshake, HandshakeFails, PeekAndExport, PeekOrExportFails, SendFd,
         ConnectFails, SendFdFails, CloseAndReturn, Return, clientVars, streamVars, workerVars
<1>2. /\ gconn' = gconn \/ \E c \in Conns \cup {NoConn} : gconn' = [gconn EXCEPT ![g] = c]
      /\ \/ gfds' = gfds \/ gfds' = [gfds EXCEPT ![g] = gfds[g] \ {gconn[g]}]
         \/ \E c \in Conns : gfds' = [gfds EXCEPT ![g] = gfds[g] \cup {c}]
  BY DEF ChildStep, Accept, Handshake, HandshakeFails, PeekAndExport, PeekOrExportFails, SendFd,
         ConnectFails, SendFdFails, CloseAndReturn, Return
<1>3. client' \in [Conns -> {"idle", "connected", "hello", "secure", "gone"}]
  BY <1>1 DEF TypeOK
<1>4. backlog' \subseteq Conns /\ gpc' \in [Children -> {"accept", "handshake", "peek", "send"}]
  BY <1>1 DEF TypeOK
<1>5. gconn' \in [Children -> Conns \cup {NoConn}]
  BY <1>2, ChildTypes
<1>6. gfds' \in [Children -> SUBSET Conns]
  <2>1. gfds[g] \ {gconn[g]} \in SUBSET Conns /\ \A c \in Conns : gfds[g] \cup {c} \in SUBSET Conns
    BY ChildTypes
  <2> QED BY <1>2, <2>1, ChildTypes
<1>7. uds' \in [Workers -> Seq(Conns \cup {NoConn})]
  <2>1. uds \in [Workers -> Seq(Conns \cup {NoConn})]
    BY DEF TypeOK
  <2>2. CASE SendFd(g) \/ SendFdFails(g)
    <3>1. PICK e \in Conns \cup {NoConn} :
            uds' = [uds EXCEPT ![RouteRequest(gconn[g])] = Append(uds[RouteRequest(gconn[g])], e)]
      BY <2>2, ChildTypes DEF SendFd, SendFdFails
    <3>2. gpc[g] # "accept" /\ gpc[g] = "send"
      BY <2>2 DEF SendFd, SendFdFails
    <3>3. gconn[g] \in Conns /\ sent[gconn[g]] # <<>>
      BY <3>2, ChildHas
    <3>4. PICK w \in Workers : w = RouteRequest(gconn[g])
      BY <3>3, RouteIn
    <3>5. Append(uds[w], e) \in Seq(Conns \cup {NoConn})
      BY <2>1, AppendTo
    <3> QED BY <2>1, <3>1, <3>4, <3>5
  <2>3. CASE ~(SendFd(g) \/ SendFdFails(g))
    <3>1. uds' = uds
      BY <2>3 DEF ChildStep, Accept, Handshake, HandshakeFails, PeekAndExport, PeekOrExportFails,
           ConnectFails, workerVars
    <3> QED BY <2>1, <3>1
  <2> QED BY <2>2, <2>3
<1> QED BY <1>1, <1>3, <1>4, <1>5, <1>6, <1>7 DEF TypeOK

LEMMA ChildInv ==
  ASSUME Inv, NEW g \in Children, ChildStep(g)
  PROVE  Inv'
<1> USE DEF Inv
<1>1. TypeOK'
  BY ChildType
<1>2. ASSUME NEW c \in Conns, Accept(g, c) PROVE Inv'
  BY <1>1, <1>2, AcceptConn
<1>3. CASE SendFd(g)
  BY <1>1, <1>3, SendFdConn
<1>4. CASE SendFdFails(g)
  BY <1>1, <1>4, SendFdFailsShrinks, ShrinkStep
<1>5. CASE ChildOnly(g)
  BY <1>1, <1>5, ChildOnlyShrinks, ShrinkStep
<1> QED BY <1>2, <1>3, <1>4, <1>5 DEF ChildStep, ChildOnly

-----------------------------------------------------------------------------
(* Workers *)

LEMMA WorkerTypes ==
  ASSUME TypeOK
  PROVE  /\ uds \in [Workers -> Seq(Conns \cup {NoConn})]
         /\ wpc \in [Workers -> {"events", "accept", "down"}]
         /\ batch \in [Workers -> SUBSET Fds] /\ listening \in [Workers -> BOOLEAN]
         /\ open \in [Workers -> [Fds -> Conns \cup {NoConn}]]
         /\ epoll \in [Workers -> SUBSET Fds] /\ clients \in [Workers -> [Fds -> ConnState]]
BY DEF TypeOK

(* The part of a step that only workers take. *)
LEMMA WorkerControl ==
  ASSUME TypeOK, ControlInv, UNCHANGED <<clientVars, gatewayVars>>
  PROVE  ControlInv' /\ \A c \in Conns : SentGrows(c)
<1>1. UNCHANGED <<gpc, gconn, gfds, sent>>
  BY DEF clientVars, gatewayVars
<1> QED BY <1>1, SentKept, ControlKept

(* Workers shrink when their messages and entries do. *)
LEMMA WorkerShrinks ==
  ASSUME TypeOK, UNCHANGED <<clientVars, gatewayVars, resp>>,
         \E k \in [Workers -> Nat] : \A w \in Workers : \A i \in DOMAIN uds'[w] :
           i \in Nat /\ (uds'[w][i] # NoConn => i + k[w] \in DOMAIN uds[w] /\ uds[w][i + k[w]] = uds'[w][i]),
         \A w \in Workers, f \in Fds : EntryKept(w, f) \/ EntryCleared(w, f),
         \A c \in Conns : consumed'[c] = consumed[c] \/ (client'[c] # "idle" /\ ~Open(c)')
  PROVE  Shrinks
<1>1. UNCHANGED <<client, sent, backlog, gfds>>
  BY DEF clientVars, gatewayVars
<1>2. PlacesShrink
  BY <1>1 DEF PlacesShrink
<1> QED BY <1>1, <1>2, SentKept DEF Shrinks

LEMMA LoopShrinks ==
  ASSUME TypeOK, NEW w \in Workers,
         EpollWait(w) \/ BeginAccept(w) \/ EndAccept(w) \/ WorkerStarts(w)
  PROVE  Shrinks
<1>1. /\ UNCHANGED <<clientVars, gatewayVars, streamVars, uds, open, epoll, clients>>
      /\ batch' = batch \/ batch' = [batch EXCEPT ![w] = Ready(w)]
  BY DEF EpollWait, BeginAccept, EndAccept, WorkerStarts
<1>2. ASSUME NEW v \in Workers, NEW f \in Fds PROVE EntryKept(v, f)
  <2>1. f \in batch'[v] => f \in batch[v] \/ f \in epoll[v]
    BY <1>1, WorkerTypes DEF Ready
  <2> QED BY <1>1, <2>1 DEF EntryKept
<1>3. UNCHANGED <<resp, consumed>>
  BY <1>1 DEF streamVars
<1> QED BY <1>1, <1>2, <1>3, SameMessages, WorkerShrinks

(* accept's loop has a message and drops it. *)
LEMMA DropShrinks ==
  ASSUME TypeOK, NEW w \in Workers, RecvNothing(w) \/ RestoreFails(w)
  PROVE  Shrinks
<1>1. /\ UNCHANGED <<clientVars, gatewayVars, consumed, resp, batch, open, epoll, clients>>
      /\ uds' = [uds EXCEPT ![w] = Tail(uds[w])] /\ uds[w] # <<>>
  BY DEF RecvNothing, RestoreFails, streamVars
<1>2. \E k \in [Workers -> Nat] : \A v \in Workers : \A i \in DOMAIN uds'[v] :
        i \in Nat /\ (uds'[v][i] # NoConn => i + k[v] \in DOMAIN uds[v] /\ uds[v][i + k[v]] = uds'[v][i])
  <2> DEFINE k == [v \in Workers |-> IF v = w THEN 1 ELSE 0]
  <2>1. k \in [Workers -> Nat]
    OBVIOUS
  <2>2. ASSUME NEW v \in Workers, NEW i \in DOMAIN uds'[v]
        PROVE  i \in Nat /\ (uds'[v][i] # NoConn => i + k[v] \in DOMAIN uds[v] /\ uds[v][i + k[v]] = uds'[v][i])
    <3>1. uds[v] \in Seq(Conns \cup {NoConn})
      BY WorkerTypes
    <3>2. CASE v = w
      <4>1. uds'[v] = Tail(uds[v]) /\ k[v] = 1
        BY <1>1, <3>2, WorkerTypes
      <4>2. uds[v] # <<>>
        BY <1>1, <3>2
      <4>3. \A j \in DOMAIN Tail(uds[v]) :
              j \in Nat /\ j + 1 \in DOMAIN uds[v] /\ Tail(uds[v])[j] = uds[v][j + 1]
        BY <3>1, <4>2, TailOf
      <4>4. i \in Nat /\ i + 1 \in DOMAIN uds[v] /\ uds'[v][i] = uds[v][i + 1]
        BY <2>2, <4>1, <4>3
      <4> QED BY <4>1, <4>4
    <3>3. CASE v # w
      <4>1. uds'[v] = uds[v] /\ k[v] = 0
        BY <1>1, <3>3, WorkerTypes
      <4>2. i \in Nat /\ i + 0 = i
        BY <2>2, <3>1, <4>1
      <4> QED BY <2>2, <4>1, <4>2
    <3> QED BY <3>2, <3>3
  <2> QED BY <2>1, <2>2
<1>3. \A v \in Workers, f \in Fds : EntryKept(v, f)
  BY <1>1, SameWorkers
<1> QED BY <1>1, <1>2, <1>3, WorkerShrinks

(* close_client clears one entry of one worker. *)
LEMMA CloseClears ==
  ASSUME TypeOK, NEW w \in Workers, NEW f \in Fds, CloseClient(w, f),
         batch' = [batch EXCEPT ![w] = @ \ {f}]
  PROVE  /\ EntryCleared(w, f)
         /\ \A v \in Workers, e \in Fds : <<v, e>> # <<w, f>> => EntryKept(v, e)
<1>1. /\ epoll' = [epoll EXCEPT ![w] = @ \ {f}] /\ open' = [open EXCEPT ![w][f] = NoConn]
      /\ clients' = [clients EXCEPT ![w][f] = Inactive]
  BY DEF CloseClient
<1>2. EntryCleared(w, f)
  BY <1>1, WorkerTypes DEF EntryCleared
<1>3. ASSUME NEW v \in Workers, NEW e \in Fds, <<v, e>> # <<w, f>> PROVE EntryKept(v, e)
  <2>1. CASE v # w
    BY <1>1, <2>1, WorkerTypes DEF EntryKept
  <2>2. CASE v = w /\ e # f
    BY <1>1, <2>2, WorkerTypes DEF EntryKept
  <2> QED BY <1>3, <2>1, <2>2
<1> QED BY <1>2, <1>3

(* An event is for a live entry, which holds one connection alone. *)
LEMMA EventFacts ==
  ASSUME TypeOK, ConnInv, EntryInv, NEW w \in Workers, NEW f \in Fds, Event(w, f)
  PROVE  \E c \in Conns :
           /\ open[w][f] = c /\ clients[w][f].conn = c
           /\ Session(clients[w][f], c) /\ Holds(w, c)
           /\ client[c] # "idle" /\ c \notin backlog
           /\ \A g \in Children : c \notin gfds[g]
           /\ \A v \in Workers : ~Queued(v, c)
           /\ \A v \in Workers, e \in Fds : open[v][e] = c => <<v, e>> = <<w, f>>
<1>1. Entry(w, f) /\ open[w][f] \in Conns \cup {NoConn}
  BY WorkerTypes DEF EntryInv
<1>2. clients[w][f].active
  BY DEF Event
<1>3. PICK c \in Conns : open[w][f] = c
  BY <1>1, <1>2 DEF Entry
<1>4. clients[w][f].conn = c /\ Session(clients[w][f], c) /\ Holds(w, c)
  BY <1>1, <1>3 DEF Entry, Holds
<1>5. Own(c)
  BY DEF ConnInv
<1>6. /\ client[c] # "idle" /\ c \notin backlog /\ \A g \in Children : c \notin gfds[g]
      /\ \A v \in Workers : ~Queued(v, c)
  BY <1>4, <1>5 DEF Own, Open
<1>7. \A v \in Workers, e \in Fds : open[v][e] = c => <<v, e>> = <<w, f>>
  BY <1>3, <1>5 DEF Own
<1> QED BY <1>3, <1>4, <1>6, <1>7

LEMMA CloseShrinks ==
  ASSUME TypeOK, ConnInv, EntryInv, NEW w \in Workers, NEW f \in Fds,
         ReadFails(w, f) \/ WriteFails(w, f)
  PROVE  Shrinks
<1>1. /\ Event(w, f) /\ CloseClient(w, f)
      /\ UNCHANGED <<clientVars, gatewayVars, resp, uds>>
  BY DEF ReadFails, WriteFails, streamVars
<1>2. batch' = [batch EXCEPT ![w] = @ \ {f}]
  BY <1>1 DEF Event
<1>3. /\ EntryCleared(w, f)
      /\ \A v \in Workers, e \in Fds : <<v, e>> # <<w, f>> => EntryKept(v, e)
  BY <1>1, <1>2, CloseClears
<1>4. PICK c \in Conns :
        /\ open[w][f] = c /\ clients[w][f].conn = c
        /\ client[c] # "idle" /\ c \notin backlog
        /\ \A g \in Children : c \notin gfds[g]
        /\ \A v \in Workers : ~Queued(v, c)
        /\ \A v \in Workers, e \in Fds : open[v][e] = c => <<v, e>> = <<w, f>>
  BY <1>1, EventFacts
<1>5. client'[c] # "idle" /\ ~Open(c)'
  <2>1. \A v \in Workers, e \in Fds : open'[v][e] # c
    BY <1>3, <1>4, PreforkConstants DEF EntryCleared, EntryKept
  <2>2. UNCHANGED <<client, backlog, gfds, uds>>
    BY <1>1 DEF clientVars, gatewayVars
  <2> QED BY <1>4, <2>1, <2>2 DEF Open, Holds, Queued
<1>6. ASSUME NEW d \in Conns, d # c PROVE consumed'[d] = consumed[d]
  <2>1. consumed' = consumed \/ consumed' = [consumed EXCEPT ![c] = ConsumedBy(clients[w][f])]
    BY <1>4 DEF ReadFails, WriteFails, streamVars
  <2> QED BY <1>6, <2>1 DEF TypeOK
<1>7. \A d \in Conns : consumed'[d] = consumed[d] \/ (client'[d] # "idle" /\ ~Open(d)')
  BY <1>5, <1>6
<1>8. \A v \in Workers, e \in Fds : EntryKept(v, e) \/ EntryCleared(v, e)
  <2>1. ASSUME NEW v \in Workers, NEW e \in Fds PROVE EntryKept(v, e) \/ EntryCleared(v, e)
    <3>1. CASE v = w /\ e = f
      BY <1>3, <3>1
    <3>2. CASE ~(v = w /\ e = f)
      BY <1>3, <3>2
    <3> QED BY <3>1, <3>2
  <2> QED BY <2>1
<1> QED BY <1>1, <1>7, <1>8, SameMessages, WorkerShrinks

LEMMA DeathShrinks ==
  ASSUME TypeOK, NEW w \in Workers, WorkerDies(w)
  PROVE  Shrinks
<1>1. /\ UNCHANGED <<clientVars, gatewayVars, consumed, resp>>
      /\ uds' = [uds EXCEPT ![w] = <<>>] /\ batch' = [batch EXCEPT ![w] = {}]
      /\ open' = [open EXCEPT ![w] = [f \in Fds |-> NoConn]]
      /\ epoll' = [epoll EXCEPT ![w] = {}]
      /\ clients' = [clients EXCEPT ![w] = [f \in Fds |-> Inactive]]
  BY DEF WorkerDies, streamVars
<1>2. ASSUME NEW v \in Workers, NEW f \in Fds PROVE EntryKept(v, f) \/ EntryCleared(v, f)
  <2>1. CASE v = w
    BY <1>1, <2>1, WorkerTypes DEF EntryCleared
  <2>2. CASE v # w
    BY <1>1, <2>2, WorkerTypes DEF EntryKept
  <2> QED BY <2>1, <2>2
<1>3. \E k \in [Workers -> Nat] : \A v \in Workers : \A i \in DOMAIN uds'[v] :
        i \in Nat /\ (uds'[v][i] # NoConn => i + k[v] \in DOMAIN uds[v] /\ uds[v][i + k[v]] = uds'[v][i])
  <2> DEFINE k == [v \in Workers |-> 0]
  <2>1. k \in [Workers -> Nat]
    OBVIOUS
  <2>2. ASSUME NEW v \in Workers, NEW i \in DOMAIN uds'[v]
        PROVE  i \in Nat /\ (uds'[v][i] # NoConn => i + k[v] \in DOMAIN uds[v] /\ uds[v][i + k[v]] = uds'[v][i])
    <3>1. CASE v = w
      <4>1. uds'[v] = <<>>
        BY <1>1, <3>1, WorkerTypes
      <4> QED BY <2>2, <4>1
    <3>2. CASE v # w
      <4>1. uds'[v] = uds[v] /\ uds[v] \in Seq(Conns \cup {NoConn})
        BY <1>1, <3>2, WorkerTypes
      <4>2. i \in Nat /\ i + 0 = i
        BY <2>2, <4>1
      <4> QED BY <2>2, <4>1, <4>2
    <3> QED BY <3>1, <3>2
  <2> QED BY <2>1, <2>2
<1> QED BY <1>1, <1>2, <1>3, WorkerShrinks

(* The session of the first message is restored under a fresh number. *)
LEMMA RegisterConn ==
  ASSUME TypeOK, ConnInv, EntryInv, NEW w \in Workers, Register(w)
  PROVE  ConnInv' /\ EntryInv'
<1>1. /\ UNCHANGED <<client, sent, consumed, resp, backlog, gfds, batch>>
      /\ uds' = [uds EXCEPT ![w] = Tail(uds[w])] /\ uds[w] # <<>> /\ Head(uds[w]) # NoConn
  BY DEF Register, clientVars, streamVars, gatewayVars
<1>2. /\ Tail(uds[w]) \in Seq(Conns \cup {NoConn})
      /\ 1 \in DOMAIN uds[w] /\ Head(uds[w]) = uds[w][1] /\ Head(uds[w]) \in Conns \cup {NoConn}
      /\ \A i \in DOMAIN Tail(uds[w]) :
           i \in Nat /\ i >= 1 /\ i + 1 \in DOMAIN uds[w] /\ Tail(uds[w])[i] = uds[w][i + 1]
  <2>1. uds[w] \in Seq(Conns \cup {NoConn})
    BY WorkerTypes
  <2> QED BY <1>1, <2>1, TailOf
<1>3. PICK c \in Conns : c = Head(uds[w]) /\ uds[w][1] = c /\ Queued(w, c)
  BY <1>1, <1>2 DEF Queued
<1>4. Own(c) /\ Route(c) /\ Answers(c)
  BY DEF ConnInv
<1>5. /\ \A v \in Workers : ~Holds(v, c)
      /\ client[c] # "idle" /\ c \notin backlog
      /\ \A g \in Children : c \notin gfds[g]
      /\ Untouched(c) /\ sent[c] # <<>> /\ w = RouteRequest(c)
  BY <1>3, <1>4 DEF Own, Route, Open, Queued
<1>6. PICK f \in Fds : f = NextFd(w) /\ open[w][f] = NoConn
  BY <1>5, NextFdFree
<1>7. /\ open' = [open EXCEPT ![w][f] = c] /\ clients' = [clients EXCEPT ![w][f] = Restored(c)]
      /\ epoll' = [epoll EXCEPT ![w] = @ \cup {f}]
  BY <1>3, <1>6 DEF Register
<1>8. /\ open'[w][f] = c /\ clients'[w][f] = Restored(c) /\ f \in epoll'[w]
      /\ \A v \in Workers, e \in Fds : ~(v = w /\ e = f) =>
           open'[v][e] = open[v][e] /\ clients'[v][e] = clients[v][e] /\ (e \in epoll'[v] <=> e \in epoll[v])
  <2>1. open'[w][f] = c /\ clients'[w][f] = Restored(c) /\ f \in epoll'[w]
    BY <1>7, WorkerTypes
  <2>2. ASSUME NEW v \in Workers, NEW e \in Fds, ~(v = w /\ e = f)
        PROVE  open'[v][e] = open[v][e] /\ clients'[v][e] = clients[v][e] /\ (e \in epoll'[v] <=> e \in epoll[v])
    <3>1. CASE v # w
      BY <1>7, <3>1, WorkerTypes
    <3>2. CASE v = w /\ e # f
      BY <1>7, <3>2, WorkerTypes
    <3> QED BY <2>2, <3>1, <3>2
  <2> QED BY <2>1, <2>2
<1>9. /\ \A i \in DOMAIN uds'[w] : i \in Nat /\ i >= 1 /\ i + 1 \in DOMAIN uds[w] /\ uds'[w][i] = uds[w][i + 1]
      /\ \A v \in Workers \ {w} : uds'[v] = uds[v]
  <2>1. uds'[w] = Tail(uds[w]) /\ \A v \in Workers \ {w} : uds'[v] = uds[v]
    BY <1>1, WorkerTypes
  <2> QED BY <1>2, <2>1
<1>10. ASSUME NEW d \in Conns \ {c} PROVE ConnShrinks(d)
  <2>1. \E k \in [Workers -> Nat] : \A v \in Workers : \A i \in DOMAIN uds'[v] :
          uds'[v][i] = d => i \in Nat /\ i + k[v] \in DOMAIN uds[v] /\ uds[v][i + k[v]] = d
    <3> DEFINE k == [v \in Workers |-> IF v = w THEN 1 ELSE 0]
    <3>1. k \in [Workers -> Nat]
      OBVIOUS
    <3>2. ASSUME NEW v \in Workers, NEW i \in DOMAIN uds'[v], uds'[v][i] = d
          PROVE  i \in Nat /\ i + k[v] \in DOMAIN uds[v] /\ uds[v][i + k[v]] = d
      <4>1. CASE v = w
        <5>1. k[v] = 1 /\ i \in Nat /\ i + 1 \in DOMAIN uds[v] /\ uds[v][i + 1] = d
          BY <1>9, <3>2, <4>1
        <5> QED BY <5>1
      <4>2. CASE v # w
        <5>1. k[v] = 0 /\ i \in DOMAIN uds[v] /\ uds[v][i] = d /\ uds[v] \in Seq(Conns \cup {NoConn})
          BY <1>9, <3>2, <4>2, WorkerTypes
        <5>2. i \in Nat /\ i + 0 = i
          BY <5>1
        <5> QED BY <5>1, <5>2
      <4> QED BY <4>1, <4>2
    <3> QED BY <3>1, <3>2
  <2>2. \A v \in Workers, e \in Fds : open'[v][e] = d => open[v][e] = d
    BY <1>8
  <2>3. SentGrows(d)
    BY <1>1, SentKept
  <2> QED BY <1>1, <2>1, <2>2, <2>3 DEF ConnShrinks
<1>11. Own(c)' /\ Route(c)' /\ Answers(c)'
  <2>1. ASSUME NEW v \in Workers, NEW i \in DOMAIN uds'[v], uds'[v][i] = c PROVE FALSE
    <3>1. CASE v = w
      <4>1. i \in Nat /\ i >= 1 /\ i + 1 \in DOMAIN uds[w] /\ uds[w][i + 1] = c
        BY <1>9, <2>1, <3>1
      <4>2. i + 1 = 1
        BY <1>2, <1>3, <1>4, <4>1 DEF Own
      <4> QED BY <4>1, <4>2
    <3>2. CASE v # w
      BY <1>2, <1>3, <1>4, <1>9, <2>1, <3>2 DEF Own
    <3> QED BY <3>1, <3>2
  <2>2. \A v \in Workers, e \in Fds : open'[v][e] = c => v = w /\ e = f
    BY <1>5, <1>8 DEF Holds
  <2>3. /\ c \notin backlog' /\ client'[c] # "idle" /\ Untouched(c)'
        /\ \A g \in Children : c \notin gfds'[g]
        /\ RouteRequest(c)' = w /\ sent'[c] # <<>>
    BY <1>1, <1>5 DEF Untouched, RouteRequest
  <2>4. Own(c)'
    BY <2>1, <2>2, <2>3 DEF Own, Holds, Queued
  <2>5. Route(c)'
    BY <2>1, <2>2, <2>3 DEF Route, Holds, Queued, Untouched
  <2>6. Answers(c)'
    BY <2>3 DEF Answers, Untouched
  <2> QED BY <2>4, <2>5, <2>6
<1>12. ASSUME NEW v \in Workers, NEW e \in Fds PROVE Entry(v, e)'
  <2>1. Entry(v, e)
    BY DEF EntryInv
  <2>2. CASE v = w /\ e = f
    <3>1. ASSUME NEW d \in Conns, open'[w][f] = d PROVE Session(clients[w][f], d)'
      <4>1. d = c /\ clients'[w][f] = Restored(c) /\ UNCHANGED <<consumed, resp>>
        BY <1>1, <1>8, <3>1
      <4>2. consumed'[d] = 0 /\ Len(resp'[d]) = 0
        BY <1>5, <4>1 DEF Untouched
      <4> QED BY <4>1, <4>2 DEF Session, Restored
    <3>2. clients'[w][f].active /\ clients'[w][f].conn = c
      BY <1>8 DEF Restored
    <3> QED BY <1>8, <2>2, <3>1, <3>2, PreforkConstants DEF Entry
  <2>3. CASE ~(v = w /\ e = f)
    <3>1. /\ open'[v][e] = open[v][e] /\ clients'[v][e] = clients[v][e]
          /\ e \in epoll'[v] <=> e \in epoll[v]
      BY <1>8, <2>3
    <3> QED BY <1>1, <2>1, <3>1 DEF Entry, Session, OneReadEach
  <2> QED BY <2>2, <2>3
<1> QED BY <1>10, <1>11, <1>12, ConnShrinksStep DEF ConnInv, EntryInv

(* A read of a session in step with its connection c keeps it in step; when *)
(* every request fits one read it leaves nothing pending.                   *)
LEMMA ReadFacts ==
  ASSUME TypeOK, NEW c \in Conns, NEW s \in ConnState, s.conn = c, Session(s, c), ReadSucceeds(s)
  PROVE  /\ ConsumedBy(s) \in Nat
         /\ AfterRead(s) \in ConnState /\ AfterRead(s).active = s.active /\ AfterRead(s).conn = c
         /\ AfterRead(s).read = ConsumedBy(s) /\ AfterRead(s).write = s.write
         /\ OneReadEach(c) => ConsumedBy(s) = consumed[c] + 1 /\ AfterRead(s).pending = 0
<1>1. /\ s.read \in Nat /\ s.write \in Nat /\ s.pending \in Nat /\ s.active \in BOOLEAN
      /\ consumed[c] \in Nat /\ s.read = consumed[c]
  BY DEF ConnState, TypeOK, Session
<1>2. CASE s.pending > 0
  <2>1. AfterRead(s) = [s EXCEPT !.pending = s.pending - 1] /\ ConsumedBy(s) = consumed[c]
    BY <1>2 DEF AfterRead, ConsumedBy
  <2>2. s.pending - 1 \in Nat
    BY <1>1, <1>2
  <2>3. /\ AfterRead(s) \in ConnState /\ AfterRead(s).active = s.active /\ AfterRead(s).conn = s.conn
        /\ AfterRead(s).read = s.read /\ AfterRead(s).write = s.write
    BY <2>1, <2>2 DEF ConnState
  <2>4. ~OneReadEach(c)
    BY <1>1, <1>2 DEF Session
  <2> QED BY <1>1, <2>1, <2>3, <2>4
<1>3. CASE ~(s.pending > 0)
  <2> DEFINE n == consumed[c] + 1
  <2>1. consumed[c] < Len(sent[c])
    BY <1>3 DEF ReadSucceeds
  <2>2. sent[c] \in Seq(Request)
    BY DEF TypeOK
  <2>3. n \in DOMAIN sent[c] /\ n \in Nat
    BY <1>1, <2>1, <2>2
  <2>4. sent[c][n] \in Request
    BY <2>2, <2>3
  <2>5. sent[c][n].chunks \in Nat /\ sent[c][n].chunks # 0
    BY <2>4 DEF Request
  <2> DEFINE m == sent[c][n].chunks - 1
  <2>6. AfterRead(s) = [s EXCEPT !.read = s.read + 1, !.pending = m] /\ ConsumedBy(s) = n
    BY <1>3 DEF AfterRead, ConsumedBy
  <2>7. m \in Nat /\ s.read + 1 \in Nat /\ s.read + 1 = n
    BY <1>1, <2>5
  <2>8. OneReadEach(c) => m = 0
    BY <2>3, <2>5 DEF OneReadEach
  <2> HIDE DEF n, m
  <2>9. /\ AfterRead(s) \in ConnState /\ AfterRead(s).active = s.active /\ AfterRead(s).conn = s.conn
        /\ AfterRead(s).read = s.read + 1 /\ AfterRead(s).write = s.write /\ AfterRead(s).pending = m
    BY <2>6, <2>7 DEF ConnState
  <2> QED BY <2>3, <2>6, <2>7, <2>8, <2>9 DEF n
<1> QED BY <1>2, <1>3

(* The entry after the response has been written. *)
LEMMA WrittenEntry ==
  ASSUME NEW t \in ConnState
  PROVE  LET u == [t EXCEPT !.write = @ + 1]
         IN /\ u \in ConnState /\ u.active = t.active /\ u.conn = t.conn /\ u.read = t.read
            /\ u.write = t.write + 1 /\ u.pending = t.pending
BY DEF ConnState

(* What a read and its response change: c's session is u afterwards. *)
Served(w, f, whole, c, n, u) ==
  /\ open[w][f] = c /\ Holds(w, c) /\ client[c] # "idle" /\ c \notin backlog
  /\ \A g \in Children : c \notin gfds[g]
  /\ \A v \in Workers : ~Queued(v, c)
  /\ \A v \in Workers, e \in Fds : open[v][e] = c => <<v, e>> = <<w, f>>
  /\ consumed' = [consumed EXCEPT ![c] = n]
  /\ resp' = [resp EXCEPT ![c] = Append(resp[c],
                [id |-> n, by |-> w, seq |-> Len(resp[c]), whole |-> whole])]
  /\ clients' = [clients EXCEPT ![w][f] = u]
  /\ clients[w][f].active /\ u.active /\ u.conn = c
  /\ u.read = n /\ u.write = Len(resp[c]) + 1
  /\ OneReadEach(c) => n = Len(resp[c]) + 1 /\ u.pending = 0
  /\ batch' = [batch EXCEPT ![w] = @ \ {f}]
  /\ UNCHANGED <<client, sent, backlog, gpc, gconn, gfds, uds, open, epoll>>

LEMMA ServeFacts ==
  ASSUME TypeOK, ConnInv, EntryInv, NEW w \in Workers, NEW f \in Fds, NEW whole \in BOOLEAN,
         Serve(w, f, whole)
  PROVE  \E c \in Conns, n \in Nat, u \in ConnState : Served(w, f, whole, c, n, u)
<1> DEFINE s == clients[w][f]
           n == ConsumedBy(s)
           t == AfterRead(s)
           u == [t EXCEPT !.write = @ + 1]
<1>1. /\ Event(w, f) /\ ReadSucceeds(s)
      /\ consumed' = [consumed EXCEPT ![s.conn] = n]
      /\ resp' = [resp EXCEPT ![s.conn] =
                    Append(@, [id |-> n, by |-> w, seq |-> s.write, whole |-> whole])]
      /\ clients' = [clients EXCEPT ![w][f] = u]
      /\ UNCHANGED <<client, sent, backlog, gpc, gconn, gfds, uds, open, epoll>>
  BY DEF Serve, clientVars, gatewayVars
<1>2. PICK c \in Conns :
        /\ open[w][f] = c /\ clients[w][f].conn = c
        /\ Session(clients[w][f], c) /\ Holds(w, c)
        /\ client[c] # "idle" /\ c \notin backlog
        /\ \A g \in Children : c \notin gfds[g]
        /\ \A v \in Workers : ~Queued(v, c)
        /\ \A v \in Workers, e \in Fds : open[v][e] = c => <<v, e>> = <<w, f>>
  BY <1>1, EventFacts
<1>3. s \in ConnState
  BY WorkerTypes
<1>4. s.conn = c /\ Session(s, c) /\ s.write = Len(resp[c])
  BY <1>2 DEF Session
<1>5. s.active /\ batch' = [batch EXCEPT ![w] = @ \ {f}]
  BY <1>1 DEF Event
<1> HIDE DEF s
<1>6. /\ n \in Nat /\ t \in ConnState /\ t.active = s.active /\ t.conn = c
      /\ t.read = n /\ t.write = s.write
      /\ OneReadEach(c) => n = consumed[c] + 1 /\ t.pending = 0
  BY <1>1, <1>3, <1>4, ReadFacts
<1> HIDE DEF n, t
<1>7. /\ u \in ConnState /\ u.active = t.active /\ u.conn = t.conn /\ u.read = t.read
      /\ u.write = t.write + 1 /\ u.pending = t.pending
  BY <1>6, WrittenEntry
<1> HIDE DEF u
<1>8. OneReadEach(c) => n = Len(resp[c]) + 1 /\ u.pending = 0
  BY <1>4, <1>6, <1>7 DEF Session
<1>9. /\ resp' = [resp EXCEPT ![c] = Append(resp[c],
                    [id |-> n, by |-> w, seq |-> Len(resp[c]), whole |-> whole])]
      /\ consumed' = [consumed EXCEPT ![c] = n]
  BY <1>1, <1>4
<1>10. /\ clients[w][f].active /\ u.active /\ u.conn = c
       /\ u.read = n /\ u.write = Len(resp[c]) + 1
  BY <1>4, <1>5, <1>6, <1>7 DEF s
<1>11. n \in Nat /\ u \in ConnState
  BY <1>6, <1>7
<1>12. Served(w, f, whole, c, n, u)
  BY <1>1, <1>2, <1>5, <1>8, <1>9, <1>10 DEF Served
<1> QED BY <1>11, <1>12

(* A response is appended with the next number, by the worker that holds c. *)
LEMMA ServeConn ==
  ASSUME TypeOK, ConnInv, EntryInv, NEW w \in Workers, NEW f \in Fds, NEW whole \in BOOLEAN,
         Serve(w, f, whole)
  PROVE  ConnInv' /\ EntryInv'
<1>0. PICK c \in Conns, n \in Nat, u \in ConnState : Served(w, f, whole, c, n, u)
  BY ServeFacts
<1>1. /\ open[w][f] = c /\ Holds(w, c) /\ client[c] # "idle" /\ c \notin backlog
      /\ \A g \in Children : c \notin gfds[g]
      /\ \A v \in Workers : ~Queued(v, c)
      /\ \A v \in Workers, e \in Fds : open[v][e] = c => <<v, e>> = <<w, f>>
      /\ consumed' = [consumed EXCEPT ![c] = n]
      /\ resp' = [resp EXCEPT ![c] = Append(resp[c],
                    [id |-> n, by |-> w, seq |-> Len(resp[c]), whole |-> whole])]
      /\ clients' = [clients EXCEPT ![w][f] = u]
      /\ clients[w][f].active /\ u.active /\ u.conn = c
      /\ u.read = n /\ u.write = Len(resp[c]) + 1
      /\ OneReadEach(c) => n = Len(resp[c]) + 1 /\ u.pending = 0
      /\ batch' = [batch EXCEPT ![w] = @ \ {f}]
      /\ UNCHANGED <<client, sent, backlog, gpc, gconn, gfds, uds, open, epoll>>
  BY <1>0 DEF Served
<1> DEFINE r == [id |-> n, by |-> w, seq |-> Len(resp[c]), whole |-> whole]
<1>2. resp[c] \in Seq(Response) /\ r \in Response
  <2>1. resp[c] \in Seq(Response)
    BY DEF TypeOK
  <2>2. Len(resp[c]) \in Nat
    BY <2>1
  <2> QED BY <2>1, <2>2 DEF Response
<1>3. /\ r.id = n /\ r.by = w /\ r.seq = Len(resp[c])
      /\ consumed'[c] = n /\ resp'[c] = Append(resp[c], r)
      /\ \A d \in Conns \ {c} : consumed'[d] = consumed[d] /\ resp'[d] = resp[d]
  BY <1>1 DEF TypeOK
<1> HIDE DEF r
<1>4. /\ Append(resp[c], r) # <<>> /\ Len(Append(resp[c], r)) = Len(resp[c]) + 1
      /\ \A i \in DOMAIN Append(resp[c], r) :
           \/ i \in DOMAIN resp[c] /\ Append(resp[c], r)[i] = resp[c][i]
           \/ i = Len(resp[c]) + 1 /\ Append(resp[c], r)[i] = r
  BY <1>2, AppendTo
<1>5. ASSUME NEW d \in Conns
      PROVE  /\ Own(d)' /\ RouteRequest(d)' = RouteRequest(d) /\ OneReadEach(d)' = OneReadEach(d)
             /\ \A v \in Workers : Holds(v, d)' = Holds(v, d) /\ Queued(v, d)' = Queued(v, d)
  <2>1. UNCHANGED <<client, sent, backlog, gfds, uds, open>>
    BY <1>1
  <2>2. Own(d)
    BY DEF ConnInv
  <2>3. \A v \in Workers : Holds(v, d)' = Holds(v, d) /\ Queued(v, d)' = Queued(v, d)
    BY <2>1 DEF Holds, Queued
  <2>4. Open(d)' = Open(d)
    BY <2>1, <2>3 DEF Open
  <2>5. Own(d)'
    BY <2>1, <2>2, <2>3, <2>4 DEF Own
  <2> QED BY <2>1, <2>3, <2>5 DEF RouteRequest, OneReadEach
<1>6. ASSUME NEW d \in Conns \ {c} PROVE Own(d)' /\ Route(d)' /\ Answers(d)'
  <2>1. Route(d) /\ Answers(d)
    BY DEF ConnInv
  <2> QED BY <1>1, <1>3, <1>5, <2>1 DEF Route, Answers, Untouched
<1>7. Own(c)' /\ Route(c)' /\ Answers(c)'
  <2>1. Route(c) /\ Answers(c)
    BY DEF ConnInv
  <2>2. w = RouteRequest(c) /\ sent[c] # <<>>
    BY <1>1, <2>1 DEF Route
  <2>3. Route(c)'
    BY <1>1, <1>5, <2>1, <2>2 DEF Route
  <2>4. \A i \in DOMAIN resp'[c] : resp'[c][i].seq = i - 1
    <3>1. ASSUME NEW i \in DOMAIN resp'[c] PROVE resp'[c][i].seq = i - 1
      <4>1. \/ i \in DOMAIN resp[c] /\ resp'[c][i] = resp[c][i]
            \/ i = Len(resp[c]) + 1 /\ resp'[c][i] = r
        BY <1>3, <1>4
      <4>2. CASE i \in DOMAIN resp[c] /\ resp'[c][i] = resp[c][i]
        BY <2>1, <4>2 DEF Answers
      <4>3. CASE i = Len(resp[c]) + 1 /\ resp'[c][i] = r
        <5>1. Len(resp[c]) \in Nat
          BY <1>2
        <5> QED BY <1>3, <4>3, <5>1
      <4> QED BY <4>1, <4>2, <4>3
    <3> QED BY <3>1
  <2>5. OneReadEach(c)' =>
          \A i \in DOMAIN resp'[c] : resp'[c][i].id = i /\ resp'[c][i].by = RouteRequest(c)'
    <3>1. ASSUME OneReadEach(c), NEW i \in DOMAIN resp'[c]
          PROVE  resp'[c][i].id = i /\ resp'[c][i].by = RouteRequest(c)
      <4>1. \/ i \in DOMAIN resp[c] /\ resp'[c][i] = resp[c][i]
            \/ i = Len(resp[c]) + 1 /\ resp'[c][i] = r
        BY <1>3, <1>4
      <4> QED BY <1>1, <1>3, <2>1, <2>2, <3>1, <4>1 DEF Answers
    <3> QED BY <1>5, <3>1
  <2>6. Answers(c)'
    BY <2>4, <2>5 DEF Answers
  <2> QED BY <1>5, <2>3, <2>6
<1>8. ASSUME NEW v \in Workers, NEW e \in Fds PROVE Entry(v, e)'
  <2>0. Entry(v, e) /\ Entry(w, f)
    BY DEF EntryInv
  <2>1. CASE v = w /\ e = f
    <3>1. clients'[w][f] = u /\ open'[w][f] = c /\ epoll' = epoll
      BY <1>1, WorkerTypes
    <3>2. f \in epoll[w]
      BY <1>1, <2>0 DEF Entry
    <3>3. ASSUME NEW d \in Conns, open'[w][f] = d PROVE Session(clients[w][f], d)'
      <4>1. d = c
        BY <3>1, <3>3
      <4>2. consumed'[c] = n /\ Len(resp'[c]) = Len(resp[c]) + 1
        BY <1>3, <1>4
      <4>3. OneReadEach(c)' => u.pending = 0 /\ Len(resp[c]) + 1 = n
        BY <1>1, <1>5
      <4> QED BY <1>1, <3>1, <4>1, <4>2, <4>3 DEF Session
    <3> QED BY <1>1, <2>1, <3>1, <3>2, <3>3, PreforkConstants DEF Entry
  <2>2. CASE ~(v = w /\ e = f)
    <3>1. clients'[v][e] = clients[v][e] /\ (e \in batch'[v] => e \in batch[v])
      <4>1. CASE v # w
        BY <1>1, <4>1, WorkerTypes
      <4>2. CASE v = w /\ e # f
        BY <1>1, <4>2, WorkerTypes
      <4> QED BY <2>2, <4>1, <4>2
    <3>2. UNCHANGED <<open, epoll>>
      BY <1>1
    <3>3. ASSUME NEW d \in Conns, open'[v][e] = d PROVE Session(clients[v][e], d)'
      <4>1. d # c /\ open[v][e] = d
        BY <1>1, <2>2, <3>2, <3>3
      <4>2. Session(clients[v][e], d)
        BY <2>0, <4>1 DEF Entry
      <4>3. consumed'[d] = consumed[d] /\ resp'[d] = resp[d] /\ OneReadEach(d)' = OneReadEach(d)
        BY <1>3, <1>5, <4>1
      <4> QED BY <3>1, <4>2, <4>3 DEF Session
    <3> QED BY <2>0, <3>1, <3>2, <3>3 DEF Entry
  <2> QED BY <2>1, <2>2
<1> QED BY <1>6, <1>7, <1>8 DEF ConnInv, EntryInv

LEMMA RegisterType ==
  ASSUME TypeOK, ConnInv, NEW w \in Workers, Register(w)
  PROVE  /\ open' \in [Workers -> [Fds -> Conns \cup {NoConn}]]
         /\ epoll' \in [Workers -> SUBSET Fds] /\ clients' \in [Workers -> [Fds -> ConnState]]
<1>1. uds[w] # <<>> /\ Head(uds[w]) # NoConn /\ uds[w] \in Seq(Conns \cup {NoConn})
  BY WorkerTypes DEF Register
<1>2. 1 \in DOMAIN uds[w] /\ Head(uds[w]) = uds[w][1] /\ Head(uds[w]) \in Conns \cup {NoConn}
  BY <1>1, TailOf
<1>3. PICK c \in Conns : c = Head(uds[w]) /\ Queued(w, c)
  BY <1>1, <1>2 DEF Queued
<1>4. ~Holds(w, c)
  BY <1>3 DEF ConnInv, Own
<1>5. PICK f \in Fds : f = NextFd(w)
  BY <1>4, NextFdFree
<1>6. /\ open' = [open EXCEPT ![w][f] = c] /\ clients' = [clients EXCEPT ![w][f] = Restored(c)]
      /\ epoll' = [epoll EXCEPT ![w] = @ \cup {f}]
  BY <1>3, <1>5 DEF Register
<1>7. Restored(c) \in ConnState
  BY DEF Restored, ConnState
<1>8. open' \in [Workers -> [Fds -> Conns \cup {NoConn}]]
  BY <1>6, WorkerTypes
<1>9. clients' \in [Workers -> [Fds -> ConnState]]
  BY <1>6, <1>7, WorkerTypes
<1>10. epoll' \in [Workers -> SUBSET Fds]
  BY <1>6, WorkerTypes
<1> QED BY <1>8, <1>9, <1>10

LEMMA CloseType ==
  ASSUME TypeOK, NEW w \in Workers, NEW f \in Fds, CloseClient(w, f)
  PROVE  /\ open' \in [Workers -> [Fds -> Conns \cup {NoConn}]]
         /\ epoll' \in [Workers -> SUBSET Fds] /\ clients' \in [Workers -> [Fds -> ConnState]]
<1>1. Inactive \in ConnState
  BY DEF Inactive, ConnState
<1>2. /\ epoll' = [epoll EXCEPT ![w] = @ \ {f}] /\ open' = [open EXCEPT ![w][f] = NoConn]
      /\ clients' = [clients EXCEPT ![w][f] = Inactive]
  BY DEF CloseClient
<1>3. open' \in [Workers -> [Fds -> Conns \cup {NoConn}]]
  BY <1>2, WorkerTypes
<1>4. clients' \in [Workers -> [Fds -> ConnState]]
  BY <1>1, <1>2, WorkerTypes
<1>5. epoll' \in [Workers -> SUBSET Fds]
  BY <1>2, WorkerTypes
<1> QED BY <1>3, <1>4, <1>5

LEMMA TableType ==
  ASSUME TypeOK, UNCHANGED <<client, sent, backlog, gpc, gconn, gfds>>,
         consumed' \in [Conns -> Nat], resp' \in [Conns -> Seq(Response)],
         uds' \in [Workers -> Seq(Conns \cup {NoConn})],
         wpc' \in [Workers -> {"events", "accept", "down"}],
         batch' \in [Workers -> SUBSET Fds], listening' \in [Workers -> BOOLEAN],
         open' \in [Workers -> [Fds -> Conns \cup {NoConn}]],
         epoll' \in [Workers -> SUBSET Fds], clients' \in [Workers -> [Fds -> ConnState]]
  PROVE  TypeOK'
BY DEF TypeOK

WorkerMoves(w) == WorkerStep(w) \/ WorkerDies(w) \/ WorkerStarts(w)

LEMMA WorkerType ==
  ASSUME TypeOK, ConnInv, EntryInv, NEW w \in Workers, WorkerMoves(w)
  PROVE  TypeOK'
<1>0. /\ consumed \in [Conns -> Nat] /\ resp \in [Conns -> Seq(Response)]
  BY DEF TypeOK
<1>1. CASE EpollWait(w) \/ BeginAccept(w) \/ EndAccept(w) \/ WorkerStarts(w)
  <2>1. /\ UNCHANGED <<client, sent, backlog, gpc, gconn, gfds, consumed, resp, uds, open, epoll, clients>>
        /\ batch' = batch \/ batch' = [batch EXCEPT ![w] = Ready(w)]
        /\ wpc' = wpc \/ \E to \in {"events", "accept"} : wpc' = [wpc EXCEPT ![w] = to]
        /\ listening' = listening \/ \E b \in BOOLEAN : listening' = [listening EXCEPT ![w] = b]
    BY <1>1 DEF EpollWait, BeginAccept, EndAccept, WorkerStarts, clientVars, streamVars, gatewayVars
  <2>2. Ready(w) \in SUBSET Fds
    BY WorkerTypes DEF Ready
  <2>3. batch' \in [Workers -> SUBSET Fds]
    BY <2>1, <2>2, WorkerTypes
  <2>4. wpc' \in [Workers -> {"events", "accept", "down"}]
    BY <2>1, WorkerTypes
  <2>5. listening' \in [Workers -> BOOLEAN]
    <3>1. CASE listening' = listening
      BY <3>1, WorkerTypes
    <3>2. ASSUME NEW b \in BOOLEAN, listening' = [listening EXCEPT ![w] = b]
          PROVE  listening' \in [Workers -> BOOLEAN]
      BY <3>2, WorkerTypes
    <3> QED BY <2>1, <3>1, <3>2
  <2> QED BY <1>0, <2>1, <2>3, <2>4, <2>5, WorkerTypes, TableType
<1>2. CASE RecvNothing(w) \/ RestoreFails(w) \/ Register(w)
  <2>1. /\ UNCHANGED <<client, sent, backlog, gpc, gconn, gfds, consumed, resp, wpc, batch, listening>>
        /\ uds' = [uds EXCEPT ![w] = Tail(uds[w])] /\ uds[w] # <<>>
        /\ Register(w) \/ UNCHANGED <<open, epoll, clients>>
    BY <1>2 DEF RecvNothing, RestoreFails, Register, clientVars, streamVars, gatewayVars
  <2>2. Tail(uds[w]) \in Seq(Conns \cup {NoConn})
    <3>1. uds[w] \in Seq(Conns \cup {NoConn})
      BY WorkerTypes
    <3> QED BY <2>1, <3>1, TailOf
  <2>3. uds' \in [Workers -> Seq(Conns \cup {NoConn})]
    BY <2>1, <2>2, WorkerTypes
  <2>4. /\ open' \in [Workers -> [Fds -> Conns \cup {NoConn}]]
        /\ epoll' \in [Workers -> SUBSET Fds] /\ clients' \in [Workers -> [Fds -> ConnState]]
    BY <2>1, RegisterType, WorkerTypes
  <2> QED BY <1>0, <2>1, <2>3, <2>4, WorkerTypes, TableType
<1>3. ASSUME NEW f \in Fds, ReadFails(w, f) \/ WriteFails(w, f) PROVE TypeOK'
  <2>1. /\ UNCHANGED <<client, sent, backlog, gpc, gconn, gfds, resp, wpc, uds, listening>>
        /\ Event(w, f) /\ CloseClient(w, f) /\ batch' = [batch EXCEPT ![w] = @ \ {f}]
    BY <1>3 DEF ReadFails, WriteFails, Event, clientVars, streamVars, gatewayVars
  <2>2. PICK c \in Conns : clients[w][f].conn = c
    BY <2>1, EventFacts
  <2>3. ConsumedBy(clients[w][f]) \in Nat
    BY <1>0, <2>2 DEF ConsumedBy
  <2>4. consumed' \in [Conns -> Nat]
    <3>1. consumed' = consumed \/ consumed' = [consumed EXCEPT ![c] = ConsumedBy(clients[w][f])]
      BY <1>3, <2>2 DEF ReadFails, WriteFails, streamVars
    <3> QED BY <1>0, <2>3, <3>1
  <2>5. batch' \in [Workers -> SUBSET Fds]
    BY <2>1, WorkerTypes
  <2>6. /\ open' \in [Workers -> [Fds -> Conns \cup {NoConn}]]
        /\ epoll' \in [Workers -> SUBSET Fds] /\ clients' \in [Workers -> [Fds -> ConnState]]
    BY <2>1, CloseType
  <2> QED BY <1>0, <2>1, <2>4, <2>5, <2>6, WorkerTypes, TableType
<1>4. ASSUME NEW f \in Fds, NEW whole \in BOOLEAN, Serve(w, f, whole) PROVE TypeOK'
  <2>0. PICK c \in Conns, n \in Nat, u \in ConnState : Served(w, f, whole, c, n, u)
    BY <1>4, ServeFacts
  <2>1. /\ consumed' = [consumed EXCEPT ![c] = n]
        /\ resp' = [resp EXCEPT ![c] = Append(resp[c],
                      [id |-> n, by |-> w, seq |-> Len(resp[c]), whole |-> whole])]
        /\ clients' = [clients EXCEPT ![w][f] = u]
        /\ batch' = [batch EXCEPT ![w] = @ \ {f}]
        /\ UNCHANGED <<client, sent, backlog, gpc, gconn, gfds, uds, open, epoll>>
    BY <2>0 DEF Served
  <2> DEFINE r == [id |-> n, by |-> w, seq |-> Len(resp[c]), whole |-> whole]
  <2>2. resp[c] \in Seq(Response) /\ Len(resp[c]) \in Nat
    BY <1>0
  <2>3. r \in Response
    BY <2>2 DEF Response
  <2>4. Append(resp[c], r) \in Seq(Response)
    BY <2>2, <2>3, AppendTo
  <2>5. resp' = [resp EXCEPT ![c] = Append(resp[c], r)]
    BY <2>1
  <2> HIDE DEF r
  <2>6. resp' \in [Conns -> Seq(Response)]
    BY <1>0, <2>4, <2>5
  <2>7. consumed' \in [Conns -> Nat]
    BY <1>0, <2>1
  <2>8. clients' \in [Workers -> [Fds -> ConnState]]
    BY <2>1, WorkerTypes
  <2>9. batch' \in [Workers -> SUBSET Fds]
    BY <2>1, WorkerTypes
  <2>10. UNCHANGED <<wpc, listening>>
    BY <1>4 DEF Serve
  <2> QED BY <2>1, <2>6, <2>7, <2>8, <2>9, <2>10, WorkerTypes, TableType
<1>5. CASE WorkerDies(w)
  <2>1. /\ UNCHANGED <<client, sent, backlog, gpc, gconn, gfds, consumed, resp>>
        /\ uds' = [uds EXCEPT ![w] = <<>>] /\ batch' = [batch EXCEPT ![w] = {}]
        /\ wpc' = [wpc EXCEPT ![w] = "down"] /\ listening' = [listening EXCEPT ![w] = FALSE]
        /\ open' = [open EXCEPT ![w] = [f \in Fds |-> NoConn]]
        /\ epoll' = [epoll EXCEPT ![w] = {}]
        /\ clients' = [clients EXCEPT ![w] = [f \in Fds |-> Inactive]]
    BY <1>5 DEF WorkerDies, clientVars, streamVars, gatewayVars
  <2>2. Inactive \in ConnState
    BY DEF Inactive, ConnState
  <2>3. clients' \in [Workers -> [Fds -> ConnState]] /\ open' \in [Workers -> [Fds -> Conns \cup {NoConn}]]
    BY <2>1, <2>2, WorkerTypes
  <2>4. /\ uds' \in [Workers -> Seq(Conns \cup {NoConn})] /\ wpc' \in [Workers -> {"events", "accept", "down"}]
    BY <2>1, WorkerTypes
  <2>5. batch' \in [Workers -> SUBSET Fds] /\ epoll' \in [Workers -> SUBSET Fds]
    BY <2>1, WorkerTypes
  <2>6. listening' \in [Workers -> BOOLEAN]
    BY <2>1, WorkerTypes
  <2> QED BY <1>0, <2>1, <2>3, <2>4, <2>5, <2>6, TableType
<1>6. batch[w] \subseteq Fds
  BY WorkerTypes
<1>7. CASE \E f \in batch[w] : ReadFails(w, f) \/ WriteFails(w, f)
                                \/ \E whole \in BOOLEAN : Serve(w, f, whole)
  <2>1. PICK f \in Fds : \/ ReadFails(w, f) \/ WriteFails(w, f)
                         \/ \E whole \in BOOLEAN : Serve(w, f, whole)
    BY <1>6, <1>7
  <2> QED BY ONLY <1>3, <1>4, <2>1
<1>8. \/ EpollWait(w) \/ BeginAccept(w) \/ EndAccept(w) \/ WorkerStarts(w)
      \/ RecvNothing(w) \/ RestoreFails(w) \/ Register(w) \/ WorkerDies(w)
      \/ \E f \in batch[w] : ReadFails(w, f) \/ WriteFails(w, f)
                             \/ \E whole \in BOOLEAN : Serve(w, f, whole)
  BY Zenon DEF WorkerMoves, WorkerStep
<1> QED BY ONLY <1>1, <1>2, <1>5, <1>7, <1>8

LEMMA WorkerInv ==
  ASSUME Inv, NEW w \in Workers, WorkerMoves(w)
  PROVE  Inv'
<1>0. TypeOK /\ ControlInv /\ ConnInv /\ EntryInv
  BY DEF Inv
<1>1. TypeOK'
  BY <1>0, WorkerType
<1>2. UNCHANGED <<clientVars, gatewayVars>>
  BY DEF WorkerMoves, WorkerStep, WorkerDies, WorkerStarts, EpollWait, BeginAccept, EndAccept, RecvNothing,
         RestoreFails, Register, ReadFails, WriteFails, Serve
<1>3. ControlInv'
  BY <1>0, <1>2, WorkerControl
<1>4. CASE Shrinks
  BY <1>0, <1>1, <1>3, <1>4, ShrinkStep DEF Inv
<1>5. CASE Register(w)
  BY <1>0, <1>1, <1>3, <1>5, RegisterConn DEF Inv
<1>6. ASSUME NEW f \in Fds, NEW whole \in BOOLEAN, Serve(w, f, whole) PROVE Inv'
  BY <1>0, <1>1, <1>3, <1>6, ServeConn DEF Inv
<1>7. ASSUME NEW f \in Fds, ReadFails(w, f) \/ WriteFails(w, f) PROVE Inv'
  BY <1>0, <1>4, <1>7, CloseShrinks
<1>8. CASE \E f \in batch[w] : ReadFails(w, f) \/ WriteFails(w, f)
                                \/ \E whole \in BOOLEAN : Serve(w, f, whole)
  <2>1. batch[w] \subseteq Fds
    BY <1>0, WorkerTypes
  <2>2. PICK f \in Fds : \/ ReadFails(w, f) \/ WriteFails(w, f)
                         \/ \E whole \in BOOLEAN : Serve(w, f, whole)
    BY <1>8, <2>1
  <2> QED BY ONLY <1>6, <1>7, <2>2
<1>9. CASE EpollWait(w) \/ BeginAccept(w) \/ EndAccept(w) \/ WorkerStarts(w)
  BY <1>0, <1>4, <1>9, LoopShrinks
<1>10. CASE RecvNothing(w) \/ RestoreFails(w)
  BY <1>0, <1>4, <1>10, DropShrinks
<1>11. CASE WorkerDies(w)
  BY <1>0, <1>4, <1>11, DeathShrinks
<1>12. \/ EpollWait(w) \/ BeginAccept(w) \/ EndAccept(w) \/ WorkerStarts(w)
       \/ RecvNothing(w) \/ RestoreFails(w) \/ Register(w) \/ WorkerDies(w)
       \/ \E f \in batch[w] : ReadFails(w, f) \/ WriteFails(w, f)
                              \/ \E whole \in BOOLEAN : Serve(w, f, whole)
  BY Zenon DEF WorkerMoves, WorkerStep
<1> QED BY ONLY <1>5, <1>8, <1>9, <1>10, <1>11, <1>12

-----------------------------------------------------------------------------
(* The invariant, and what it implies *)

LEMMA InitInv == Init => Inv
<1> SUFFICES ASSUME Init PROVE Inv
  OBVIOUS
<1>1. Inactive \in ConnState
  BY DEF Inactive, ConnState
<1>2. TypeOK
  BY <1>1 DEF Init, TypeOK
<1>3. ControlInv
  BY DEF Init, ControlInv
<1>4. ASSUME NEW c \in Conns PROVE Own(c) /\ Route(c) /\ Answers(c)
  <2>0. c # NoConn
    BY PreforkConstants
  <2>1. /\ \A w \in Workers : ~Holds(w, c) /\ ~Queued(w, c)
        /\ \A g \in Children : c \notin gfds[g]
        /\ c \notin backlog /\ Untouched(c)
    BY <2>0 DEF Init, Holds, Queued, Untouched
  <2>2. Own(c)
    BY <2>1 DEF Own, Open, Holds, Queued
  <2>3. Route(c) /\ Answers(c)
    BY <2>1 DEF Route, Answers, Untouched
  <2> QED BY <2>2, <2>3
<1>5. EntryInv
  BY PreforkConstants DEF Init, EntryInv, Entry, Inactive
<1> QED BY <1>2, <1>3, <1>4, <1>5 DEF Inv, ConnInv

LEMMA StutterInv ==
  ASSUME Inv, UNCHANGED vars
  PROVE  Inv'
<1>1. UNCHANGED <<client, sent, consumed, resp, backlog, gpc, gconn, gfds, uds, wpc, batch,
                  listening, open, epoll, clients>>
  BY DEF vars, clientVars, streamVars, gatewayVars, workerVars
<1>2. TypeOK'
  BY <1>1 DEF Inv, TypeOK
<1>3. ControlInv'
  BY <1>1 DEF Inv, ControlInv
<1>4. ConnInv'
  <2> SUFFICES ASSUME NEW c \in Conns PROVE Own(c)' /\ Route(c)' /\ Answers(c)'
    BY DEF ConnInv
  <2>1. Own(c) /\ Route(c) /\ Answers(c)
    BY DEF Inv, ConnInv
  <2>2. Own(c)' /\ Route(c)' /\ Answers(c)'
    BY <1>1, <2>1 DEF Own, Route, Answers, Open, Holds, Queued, Untouched, RouteRequest, OneReadEach
  <2> QED BY <2>2
<1>5. EntryInv'
  BY <1>1 DEF Inv, EntryInv, Entry, Session, OneReadEach
<1> QED BY <1>2, <1>3, <1>4, <1>5 DEF Inv

LEMMA Invariant == Spec => []Inv
<1>1. Inv /\ [Next]_vars => Inv'
  <2> SUFFICES ASSUME Inv, [Next]_vars PROVE Inv'
    OBVIOUS
  <2>1. CASE UNCHANGED vars
    BY <2>1, StutterInv
  <2>2. CASE Finished
    BY <2>2, StutterInv DEF Finished
  <2> QED BY <2>1, <2>2, ClientInv, ChildInv, WorkerInv DEF Next, WorkerMoves
<1> QED BY <1>1, InitInv, PTL DEF Spec

(***************************************************************************)
(* Every variable keeps its type.  In particular a worker that is sent a   *)
(* connection has a free number for it in clients[], whatever has been     *)
(* opened and closed before.                                               *)
(***************************************************************************)
THEOREM PreforkTypeCorrect == Spec => []TypeOK
<1>1. Inv => TypeOK
  BY DEF Inv
<1> QED BY <1>1, Invariant, PTL

(***************************************************************************)
(* A connection is in the accept queue, in one gateway process, in one     *)
(* message or under one descriptor number of one worker, never in two of   *)
(* them, also when sendmsg fails, sessions cannot be restored and workers  *)
(* die and come back.                                                      *)
(***************************************************************************)
THEOREM PreforkOneHolder == Spec => []SingleHolder
<1>1. Inv => SingleHolder
  BY DEF Inv, ConnInv, Own, SingleHolder
<1> QED BY <1>1, Invariant, PTL

(***************************************************************************)
(* However often descriptor numbers are reused, clients[] is right: an     *)
(* active entry is registered with epoll and has the session of the        *)
(* connection behind its number, and no event waits for a closed one.      *)
(***************************************************************************)
THEOREM PreforkClientTable == Spec => []ClientTableTrue
<1>1. Inv => ClientTableTrue
  BY DEF Inv, EntryInv, Entry, ClientTableTrue
<1> QED BY <1>1, Invariant, PTL

(***************************************************************************)
(* A worker's record numbers are those of the connection's next record and *)
(* next response: after any migration it neither repeats nor skips a       *)
(* nonce.                                                                  *)
(***************************************************************************)
THEOREM PreforkNonces == Spec => []SessionsInStep
<1>1. Inv => SessionsInStep
  <2> SUFFICES ASSUME Inv PROVE SessionsInStep
    OBVIOUS
  <2>1. ASSUME NEW w \in Workers, NEW f \in Fds, clients[w][f].active
        PROVE  /\ clients[w][f].read = consumed[open[w][f]]
               /\ clients[w][f].write = Len(resp[open[w][f]])
    <3>1. Entry(w, f) /\ open[w][f] \in Conns \cup {NoConn}
      BY WorkerTypes DEF Inv, EntryInv
    <3>2. PICK c \in Conns : open[w][f] = c
      BY <2>1, <3>1 DEF Entry
    <3>3. Session(clients[w][f], c)
      BY <3>1, <3>2 DEF Entry
    <3> QED BY <3>2, <3>3 DEF Session
  <2> QED BY <2>1 DEF Inv, ConnInv, Answers, SessionsInStep
<1> QED BY <1>1, Invariant, PTL

(***************************************************************************)
(* While each request fits one wolfSSL_read, the i-th response on a        *)
(* connection answers the i-th request and is written by the worker its    *)
(* first request was routed to.                                            *)
(***************************************************************************)
THEOREM PreforkInOrder == Spec => []AnsweredInOrder
<1>1. Inv => AnsweredInOrder
  BY DEF Inv, ConnInv, Answers, AnsweredInOrder
<1> QED BY <1>1, Invariant, PTL

-----------------------------------------------------------------------------
(* Who has a session, for the refinement mapping *)

AtGateway(c) == c \in backlog \/ \E g \in Children : gconn[g] = c
InWorker(c) == \E w \in Workers : Holds(w, c)
Live(c) == AtGateway(c) \/ InWorker(c) \/ InTransit(c)

HolderMap ==
  \A c \in Conns :
    /\ client[c] = "idle" => ~Live(c) /\ Holder(c) = "none"
    /\ AtGateway(c) => Holder(c) = "gateway"
    /\ \A w \in Workers : Holds(w, c) => Holder(c) = Sock[w]
    /\ InTransit(c) => Holder(c) = "transit"
    /\ client[c] # "idle" /\ ~Live(c) => Holder(c) = "lost"

LEMMA SockFacts ==
  ASSUME NEW w \in Workers
  PROVE  Sock[w] \in {Sock[v] : v \in Workers} /\ Sock[w] \notin {"none", "gateway", "transit", "lost"}
BY SocksDistinct

LEMMA HolderIs == Inv => HolderMap
<1> SUFFICES ASSUME Inv, NEW c \in Conns
             PROVE  /\ client[c] = "idle" => ~Live(c) /\ Holder(c) = "none"
                    /\ AtGateway(c) => Holder(c) = "gateway"
                    /\ \A w \in Workers : Holds(w, c) => Holder(c) = Sock[w]
                    /\ InTransit(c) => Holder(c) = "transit"
                    /\ client[c] # "idle" /\ ~Live(c) => Holder(c) = "lost"
  BY DEF HolderMap
<1>1. Own(c)
  BY DEF Inv, ConnInv
<1>2. AtGateway(c) => c \in backlog \/ \E g \in Children : c \in gfds[g]
  BY PreforkConstants DEF AtGateway, Inv, ControlInv
<1>3. /\ client[c] = "idle" => ~Live(c)
      /\ AtGateway(c) => ~InWorker(c) /\ ~InTransit(c)
      /\ InWorker(c) => ~InTransit(c)
  BY <1>1, <1>2 DEF Own, Open, Live, InWorker, InTransit, Queued
<1>4. /\ client[c] = "idle" => Holder(c) = "none"
      /\ client[c] # "idle" /\ AtGateway(c) => Holder(c) = "gateway"
      /\ client[c] # "idle" /\ ~AtGateway(c) /\ InWorker(c) =>
           Holder(c) = Sock[CHOOSE w \in Workers : Holds(w, c)]
      /\ client[c] # "idle" /\ ~AtGateway(c) /\ ~InWorker(c) =>
           Holder(c) = IF InTransit(c) THEN "transit" ELSE "lost"
  BY DEF Holder, AtGateway, InWorker
<1>5. ASSUME NEW w \in Workers, Holds(w, c) PROVE Holder(c) = Sock[w]
  <2>1. \A v \in Workers : Holds(v, c) <=> v = w
    BY <1>1, <1>5 DEF Own, Holds
  <2>2. (CHOOSE v \in Workers : Holds(v, c)) = w
    BY <2>1
  <2>3. InWorker(c)
    BY <1>5 DEF InWorker
  <2> QED BY <1>3, <1>4, <2>2, <2>3 DEF Live
<1> QED BY <1>3, <1>4, <1>5 DEF Live

LEMMA HolderNext == Inv' => HolderMap'
BY HolderIs, PTL

(* A session that moves to no new place stays, or it is lost. *)
LEMMA LostOrKept ==
  ASSUME HolderMap, HolderMap', NEW c \in Conns,
         client'[c] = "idle" <=> client[c] = "idle",
         AtGateway(c)' => AtGateway(c), InTransit(c)' => InTransit(c),
         \A w \in Workers : Holds(w, c)' => Holds(w, c)
  PROVE  IF Live(c) /\ ~Live(c)'
         THEN Holder(c) \notin {"none", "lost"} /\ Holder(c)' = "lost"
         ELSE Holder(c)' = Holder(c)
<1>1. Live(c)' => Live(c)
  BY DEF Live, InWorker
<1>2. CASE Live(c) /\ ~Live(c)'
  <2>1. client[c] # "idle" /\ Holder(c)' = "lost"
    BY <1>2 DEF HolderMap
  <2>2. Holder(c) \notin {"none", "lost"}
    BY <1>2, SockFacts DEF HolderMap, Live, InWorker
  <2> QED BY <1>2, <2>1, <2>2
<1>3. CASE ~Live(c)
  BY <1>1, <1>3 DEF HolderMap
<1>4. CASE Live(c)'
  <2>1. CASE AtGateway(c)'
    BY <2>1 DEF HolderMap
  <2>2. CASE InTransit(c)'
    BY <2>2 DEF HolderMap
  <2>3. CASE InWorker(c)'
    <3>1. PICK w \in Workers : Holds(w, c)'
      BY <2>3 DEF InWorker
    <3>2. Holder(c)' = Sock[w]
      BY <3>1 DEF HolderMap
    <3>3. Holds(w, c) /\ Holder(c) = Sock[w]
      BY <3>1 DEF HolderMap
    <3> QED BY <1>4, <3>2, <3>3
  <2>4. Holder(c)' = Holder(c)
    BY <1>4, <2>1, <2>2, <2>3 DEF Live
  <2> QED BY <1>4, <2>4
<1> QED BY <1>2, <1>3, <1>4

LEMMA HolderKept ==
  ASSUME HolderMap, HolderMap', NEW c \in Conns,
         client'[c] = "idle" <=> client[c] = "idle",
         AtGateway(c)' <=> AtGateway(c), InTransit(c)' <=> InTransit(c),
         \A w \in Workers : Holds(w, c)' <=> Holds(w, c)
  PROVE  Holder(c)' = Holder(c)
<1>1. Live(c)' <=> Live(c)
  BY DEF Live, InWorker
<1> QED BY <1>1, LostOrKept

-----------------------------------------------------------------------------
(* Every step is one of SessionOwnership *)

LEMMA SOStutter ==
  ASSUME \A d \in Conns : Holder(d)' = Holder(d), UNCHANGED <<consumed, resp>>
  PROVE  UNCHANGED SO!svars
BY DEF SO!svars

(* A step that brings no session to a new place loses those that leave theirs. *)
LEMMA ShrinkRefines ==
  ASSUME HolderMap, HolderMap', Shrinks, UNCHANGED consumed,
         \A c \in Conns : client[c] = "idle" => client'[c] = "idle",
         \A g \in Children : gconn'[g] \in {gconn[g], NoConn}
  PROVE  SO!Next
<1> DEFINE S == {c \in Conns : Live(c) /\ ~Live(c)'}
<1>1. ASSUME NEW c \in Conns
      PROVE  IF c \in S
             THEN Holder(c) \notin {"none", "lost"} /\ Holder(c)' = "lost"
             ELSE Holder(c)' = Holder(c)
  <2>1. ConnShrinks(c)
    BY ShrinksEach
  <2>2. \A w \in Workers : (Queued(w, c)' => Queued(w, c)) /\ (Holds(w, c)' => Holds(w, c))
    BY <2>1, PlacesOf
  <2>3. InTransit(c)' => InTransit(c)
    BY <2>2 DEF InTransit, Queued
  <2>4. AtGateway(c)' => AtGateway(c)
    BY <2>1, PreforkConstants DEF AtGateway, ConnShrinks
  <2>5. client'[c] = "idle" <=> client[c] = "idle"
    BY <2>1 DEF ConnShrinks
  <2>6. c \in S <=> Live(c) /\ ~Live(c)'
    OBVIOUS
  <2> HIDE DEF S
  <2> QED BY <2>2, <2>3, <2>4, <2>5, <2>6, LostOrKept
<1>2. S \in SUBSET Conns
  OBVIOUS
<1> HIDE DEF S
<1>3. resp' = resp
  BY DEF Shrinks
<1>4. SO!Lose(S)
  BY <1>1, <1>2, <1>3 DEF SO!Lose
<1> QED BY <1>2, <1>4 DEF SO!Next

LEMMA ClientRefines ==
  ASSUME Inv, HolderMap, HolderMap', NEW c \in Conns, ClientStep(c)
  PROVE  SO!Next
<1>1. CASE Connect(c)
  <2>1. /\ client[c] = "idle" /\ client' = [client EXCEPT ![c] = "connected"]
        /\ backlog' = backlog \cup {c}
        /\ UNCHANGED <<consumed, resp, gconn, uds, open>>
    BY <1>1 DEF Connect, streamVars, workerVars
  <2>2. client \in [Conns -> {"idle", "connected", "hello", "secure", "gone"}]
    BY DEF Inv, TypeOK
  <2>3. ASSUME NEW d \in Conns \ {c} PROVE Holder(d)' = Holder(d)
    <3>1. /\ client'[d] = client[d] /\ (d \in backlog' <=> d \in backlog)
          /\ \A w \in Workers : Holds(w, d)' <=> Holds(w, d)
          /\ InTransit(d)' <=> InTransit(d)
      BY <2>1, <2>2 DEF Holds, InTransit
    <3>2. AtGateway(d)' <=> AtGateway(d)
      BY <2>1, <3>1 DEF AtGateway
    <3> QED BY <3>1, <3>2, HolderKept
  <2>4. Holder(c) = "none" /\ Holder(c)' = "gateway"
    BY <2>1 DEF HolderMap, AtGateway
  <2>5. SO!Arrive(c)
    BY <2>1, <2>3, <2>4 DEF SO!Arrive
  <2> QED BY <2>5 DEF SO!Next
<1>2. CASE Hello(c) \/ ClientClose(c) \/ \E r \in Requests : SendRequest(c, r)
  <2>1. /\ UNCHANGED <<consumed, gconn>>
        /\ \/ client' = client
           \/ client[c] # "idle" /\ \E to \in {"hello", "gone"} : client' = [client EXCEPT ![c] = to]
    BY <1>2 DEF Hello, ClientClose, SendRequest, streamVars, gatewayVars
  <2>2. \A d \in Conns : client[d] = "idle" => client'[d] = "idle"
    BY <2>1 DEF Inv, TypeOK
  <2>3. Shrinks
    BY <1>2, ClientShrinks DEF Inv
  <2> QED BY <2>1, <2>2, <2>3, ShrinkRefines
<1> QED BY <1>1, <1>2 DEF ClientStep

(* accept: the session stays with the gateway. *)
LEMMA AcceptRefines ==
  ASSUME Inv, HolderMap, HolderMap', NEW g \in Children, NEW c \in Conns, Accept(g, c)
  PROVE  UNCHANGED SO!svars
<1>1. /\ c \in backlog /\ backlog' = backlog \ {c} /\ gpc[g] = "accept"
      /\ gconn' = [gconn EXCEPT ![g] = c]
      /\ UNCHANGED <<client, consumed, resp, uds, open>>
  BY DEF Accept, clientVars, streamVars, workerVars
<1>2. /\ gconn[g] = NoConn /\ gconn'[g] = c
      /\ \A h \in Children \ {g} : gconn'[h] = gconn[h]
  BY <1>1, ChildTypes DEF Inv, ControlInv
<1>3. ASSUME NEW d \in Conns \ {c} PROVE Holder(d)' = Holder(d)
  <2>1. /\ \A w \in Workers : Holds(w, d)' <=> Holds(w, d)
        /\ InTransit(d)' <=> InTransit(d)
    BY <1>1 DEF Holds, InTransit
  <2>2. AtGateway(d)' <=> AtGateway(d)
    BY <1>1, <1>2, PreforkConstants DEF AtGateway
  <2> QED BY <1>1, <2>1, <2>2, HolderKept
<1>4. Holder(c) = "gateway" /\ Holder(c)' = "gateway"
  BY <1>1, <1>2 DEF HolderMap, AtGateway
<1> QED BY <1>1, <1>3, <1>4, SOStutter

(* The gateway hands the session over to the worker it routes to. *)
LEMMA SendFdRefines ==
  ASSUME Inv, HolderMap, HolderMap', NEW g \in Children, SendFd(g)
  PROVE  SO!Next
<1>0. TypeOK /\ ControlInv /\ ConnInv
  BY DEF Inv
<1>1. /\ UNCHANGED <<client, sent, consumed, resp, backlog, open>>
      /\ gpc[g] = "send" /\ gconn' = [gconn EXCEPT ![g] = NoConn]
  BY DEF SendFd, CloseAndReturn, Return, clientVars, streamVars
<1>2. PICK c \in Conns : c = gconn[g] /\ c \in gfds[g] /\ sent[c] # <<>>
  BY <1>0, <1>1, ChildHas
<1>3. PICK w \in Workers : uds' = [uds EXCEPT ![w] = Append(uds[w], c)]
  BY <1>0, <1>2, RouteIn DEF SendFd
<1> PICK s : s = uds[w]
  OBVIOUS
<1>4. s \in Seq(Conns \cup {NoConn}) /\ uds'[w] = Append(s, c) /\ \A v \in Workers \ {w} : uds'[v] = uds[v]
  BY <1>0, <1>3, WorkerTypes
<1>5. /\ \A i \in DOMAIN Append(s, c) : (i \in DOMAIN s /\ Append(s, c)[i] = s[i]) \/ Append(s, c)[i] = c
      /\ \A i \in DOMAIN s : i \in DOMAIN Append(s, c) /\ Append(s, c)[i] = s[i]
      /\ Len(s) + 1 \in DOMAIN Append(s, c) /\ Append(s, c)[Len(s) + 1] = c
  BY <1>4, AppendTo
<1>6. ASSUME NEW d \in Conns \ {c} PROVE Holder(d)' = Holder(d)
  <2>1. \A v \in Workers : Holds(v, d)' <=> Holds(v, d)
    BY <1>1 DEF Holds
  <2>2. AtGateway(d)' <=> AtGateway(d)
    BY <1>0, <1>1, <1>2, ChildTypes, PreforkConstants DEF AtGateway
  <2>3. ASSUME NEW v \in Workers
        PROVE  (\E i \in DOMAIN uds'[v] : uds'[v][i] = d) <=> (\E i \in DOMAIN uds[v] : uds[v][i] = d)
    BY <1>4, <1>5
  <2>4. InTransit(d)' <=> InTransit(d)
    BY <2>3 DEF InTransit
  <2> QED BY <1>1, <2>1, <2>2, <2>4, HolderKept
<1>7. Holder(c) = "gateway" /\ Holder(c)' = "transit"
  <2>1. Holder(c) = "gateway"
    BY <1>2 DEF HolderMap, AtGateway
  <2>2. InTransit(c)'
    BY <1>4, <1>5 DEF InTransit
  <2> QED BY <2>1, <2>2 DEF HolderMap
<1>8. SO!HandOver(c)
  BY <1>1, <1>6, <1>7 DEF SO!HandOver
<1> QED BY <1>8 DEF SO!Next

(* Nothing else a child does moves a session, but each return without       *)
(* sending loses the one it handled.                                        *)
LEMMA ChildRefines ==
  ASSUME Inv, HolderMap, HolderMap', NEW g \in Children, ChildStep(g)
  PROVE  SO!Next \/ UNCHANGED SO!svars
<1>0. TypeOK /\ ControlInv
  BY DEF Inv
<1>1. ASSUME NEW c \in Conns, Accept(g, c) PROVE UNCHANGED SO!svars
  BY <1>1, AcceptRefines
<1>2. CASE SendFd(g)
  BY <1>2, SendFdRefines
<1>3. CASE ChildOnly(g) \/ SendFdFails(g)
  <2>1. Shrinks
    BY <1>0, <1>3, ChildOnlyShrinks, SendFdFailsShrinks
  <2>2. /\ UNCHANGED consumed
        /\ gconn' = gconn \/ gconn' = [gconn EXCEPT ![g] = NoConn]
        /\ \/ client' = client
           \/ client[gconn[g]] = "hello" /\ client' = [client EXCEPT ![gconn[g]] = "secure"]
    BY <1>3 DEF ChildOnly, Handshake, HandshakeFails, PeekAndExport, PeekOrExportFails, ConnectFails,
       SendFdFails, CloseAndReturn, Return, clientVars, streamVars
  <2>3. \A h \in Children : gconn'[h] \in {gconn[h], NoConn}
    BY <1>0, <2>2, ChildTypes
  <2>4. \A c \in Conns : client[c] = "idle" => client'[c] = "idle"
    BY <1>0, <2>2 DEF TypeOK
  <2> QED BY <2>1, <2>2, <2>3, <2>4, ShrinkRefines
<1> QED BY <1>1, <1>2, <1>3 DEF ChildStep, ChildOnly

(* The worker takes over the session of its first message. *)
LEMMA RegisterRefines ==
  ASSUME Inv, HolderMap, HolderMap', NEW w \in Workers, Register(w)
  PROVE  SO!Next
<1>0. TypeOK /\ ConnInv
  BY DEF Inv
<1>1. /\ UNCHANGED <<client, consumed, resp, backlog, gconn>>
      /\ uds' = [uds EXCEPT ![w] = Tail(uds[w])] /\ uds[w] # <<>> /\ Head(uds[w]) # NoConn
  BY DEF Register, clientVars, streamVars, gatewayVars
<1> PICK s : s = uds[w]
  OBVIOUS
<1>2. /\ s \in Seq(Conns \cup {NoConn}) /\ s # <<>> /\ uds'[w] = Tail(s)
      /\ \A v \in Workers \ {w} : uds'[v] = uds[v]
  BY <1>0, <1>1, WorkerTypes
<1>3. 1 \in DOMAIN s /\ Head(s) = s[1] /\ s[1] \in Conns
  BY <1>1, <1>2, TailOf
<1>4. PICK c \in Conns : c = s[1] /\ c = Head(uds[w])
  BY <1>3
<1>5. Queued(w, c) /\ ~Holds(w, c)
  <2>1. Queued(w, c)
    BY <1>3, <1>4 DEF Queued
  <2> QED BY <1>0, <2>1 DEF ConnInv, Own
<1>6. PICK f \in Fds : f = NextFd(w) /\ open[w][f] = NoConn
  BY <1>0, <1>5, NextFdFree
<1>7. open' = [open EXCEPT ![w][f] = c]
  BY <1>4, <1>6 DEF Register
<1>8. /\ open'[w][f] = c
      /\ \A v \in Workers, e \in Fds : open'[v][e] = open[v][e] \/ (v = w /\ e = f)
  BY <1>0, <1>7, WorkerTypes
<1>9. ASSUME NEW d \in Conns \ {c} PROVE Holder(d)' = Holder(d)
  <2>1. \A v \in Workers : Holds(v, d)' <=> Holds(v, d)
    BY <1>6, <1>8, PreforkConstants DEF Holds
  <2>2. AtGateway(d)' <=> AtGateway(d)
    BY <1>1 DEF AtGateway
  <2>3. (\E i \in DOMAIN Tail(s) : Tail(s)[i] = d) <=> \E i \in DOMAIN s : s[i] = d
    <3>1. ASSUME NEW i \in DOMAIN s, s[i] = d PROVE \E j \in DOMAIN Tail(s) : Tail(s)[j] = d
      <4>1. i \in 1..Len(s) /\ i # 1
        BY <1>2, <1>4, <3>1
      <4>2. i - 1 \in DOMAIN Tail(s) /\ Tail(s)[i - 1] = s[i]
        BY <1>2, <4>1
      <4> QED BY <3>1, <4>2
    <3>2. \A i \in DOMAIN Tail(s) : i + 1 \in DOMAIN s /\ Tail(s)[i] = s[i + 1]
      BY <1>2, TailOf
    <3> QED BY <3>1, <3>2
  <2>4. \A v \in Workers : (\E i \in DOMAIN uds'[v] : uds'[v][i] = d) <=> \E i \in DOMAIN uds[v] : uds[v][i] = d
    BY <1>2, <2>3
  <2>5. InTransit(d)' <=> InTransit(d)
    BY <2>4 DEF InTransit
  <2> QED BY <1>1, <2>1, <2>2, <2>5, HolderKept
<1>10. Holder(c) = "transit"
  BY <1>5 DEF HolderMap, InTransit, Queued
<1>11. Holder(c)' = Sock[w]
  <2>1. Holds(w, c)'
    BY <1>8 DEF Holds
  <2> QED BY <2>1 DEF HolderMap
<1>12. SO!Receive(c, Sock[w])
  BY <1>1, <1>9, <1>10, <1>11 DEF SO!Receive
<1>13. Sock[w] \in {Sock[v] : v \in Workers} \cup {"gateway"}
  OBVIOUS
<1> QED BY <1>12, <1>13 DEF SO!Next

(* A read takes a record, unless it is served from one taken before. *)
LEMMA ReadTakes ==
  ASSUME TypeOK, NEW c \in Conns, NEW s, s.conn = c,
         consumed' = [consumed EXCEPT ![s.conn] = ConsumedBy(s)]
  PROVE  UNCHANGED consumed \/ consumed' = [consumed EXCEPT ![c] = consumed[c] + 1]
<1>1. consumed \in [Conns -> Nat]
  BY DEF TypeOK
<1>2. CASE s.pending > 0
  BY <1>1, <1>2 DEF ConsumedBy
<1>3. CASE ~(s.pending > 0)
  BY <1>3 DEF ConsumedBy
<1> QED BY <1>2, <1>3

LEMMA ServeRefines ==
  ASSUME Inv, HolderMap, HolderMap', NEW w \in Workers, NEW f \in Fds, NEW whole \in BOOLEAN,
         Serve(w, f, whole)
  PROVE  SO!Next
<1>0. TypeOK /\ ConnInv /\ EntryInv
  BY DEF Inv
<1>1. PICK c \in Conns, n \in Nat, u \in ConnState : Served(w, f, whole, c, n, u)
  BY <1>0, ServeFacts
<1>2. UNCHANGED <<client, backlog, gconn, uds, open>>
  BY <1>1 DEF Served
<1>3. ASSUME NEW d \in Conns PROVE Holder(d)' = Holder(d)
  <2>1. /\ \A v \in Workers : Holds(v, d)' <=> Holds(v, d)
        /\ AtGateway(d)' <=> AtGateway(d)
        /\ InTransit(d)' <=> InTransit(d)
    BY <1>2 DEF Holds, AtGateway, InTransit
  <2> QED BY <1>2, <2>1, HolderKept
<1>4. Holder(c) = Sock[w] /\ Sock[w] \in {Sock[v] : v \in Workers}
  BY <1>1 DEF HolderMap, Served
<1>5. UNCHANGED consumed \/ consumed' = [consumed EXCEPT ![c] = consumed[c] + 1]
  <2>1. /\ Event(w, f)
        /\ consumed' = [consumed EXCEPT ![clients[w][f].conn] = ConsumedBy(clients[w][f])]
    BY DEF Serve
  <2>2. open[w][f] = c
    BY <1>1 DEF Served
  <2>3. clients[w][f].conn = c
    BY <1>0, <2>1, <2>2, EventFacts
  <2> QED BY <1>0, <2>1, <2>3, ReadTakes
<1>6. Len(resp'[c]) = Len(resp[c]) + 1 /\ \A d \in Conns \ {c} : resp'[d] = resp[d]
  <2> DEFINE r == [id |-> n, by |-> w, seq |-> Len(resp[c]), whole |-> whole]
  <2>1. resp \in [Conns -> Seq(Response)] /\ resp[c] \in Seq(Response)
    BY <1>0 DEF TypeOK
  <2>2. Len(resp[c]) \in Nat
    BY <2>1
  <2>3. r \in Response
    BY <2>2 DEF Response
  <2>4. resp' = [resp EXCEPT ![c] = Append(resp[c], r)]
    BY <1>1 DEF Served
  <2> HIDE DEF r
  <2>5. Len(Append(resp[c], r)) = Len(resp[c]) + 1
    BY <2>1, <2>3, AppendTo
  <2> QED BY <2>1, <2>4, <2>5
<1>7. SO!Use(c)
  <2>1. SO!Answer(c)
    BY <1>4, <1>6 DEF SO!Answer
  <2>2. SO!Take(c) \/ UNCHANGED consumed
    BY <1>4, <1>5 DEF SO!Take
  <2> QED BY <1>3, <2>1, <2>2 DEF SO!Use
<1> QED BY <1>7 DEF SO!Next

LEMMA WriteFailsRefines ==
  ASSUME Inv, HolderMap, HolderMap', NEW w \in Workers, NEW f \in Fds, WriteFails(w, f)
  PROVE  SO!Next
<1>0. TypeOK /\ ConnInv /\ EntryInv
  BY DEF Inv
<1>1. /\ Event(w, f) /\ CloseClient(w, f)
      /\ UNCHANGED <<client, resp, backlog, gconn, uds>>
      /\ consumed' = [consumed EXCEPT ![clients[w][f].conn] = ConsumedBy(clients[w][f])]
  BY DEF WriteFails, clientVars, gatewayVars
<1>2. PICK c \in Conns :
        /\ open[w][f] = c /\ clients[w][f].conn = c /\ Holds(w, c)
        /\ client[c] # "idle"
        /\ \A v \in Workers, e \in Fds : open[v][e] = c => <<v, e>> = <<w, f>>
  BY <1>0, <1>1, EventFacts
<1>3. UNCHANGED consumed \/ consumed' = [consumed EXCEPT ![c] = consumed[c] + 1]
  BY <1>0, <1>1, <1>2, ReadTakes
<1>4. /\ open'[w][f] = NoConn
      /\ \A v \in Workers, e \in Fds : open'[v][e] = open[v][e] \/ (v = w /\ e = f)
  BY <1>0, <1>1, WorkerTypes DEF CloseClient
<1>5. \A d \in Conns : /\ AtGateway(d)' <=> AtGateway(d)
                       /\ InTransit(d)' <=> InTransit(d)
  BY <1>1 DEF AtGateway, InTransit
<1>6. ASSUME NEW d \in Conns \ {c} PROVE Holder(d)' = Holder(d)
  <2>1. \A v \in Workers : Holds(v, d)' <=> Holds(v, d)
    BY <1>2, <1>4, PreforkConstants DEF Holds
  <2> QED BY <1>1, <1>5, <2>1, HolderKept
<1>7. Holder(c) = Sock[w]
  BY <1>2 DEF HolderMap
<1>8. Holder(c)' = "lost"
  <2>1. \A v \in Workers : ~Holds(v, c)'
    BY <1>2, <1>4, PreforkConstants DEF Holds
  <2>2. ~AtGateway(c) /\ ~InTransit(c)
    BY <1>7, SockFacts DEF HolderMap
  <2>3. ~Live(c)'
    BY <1>5, <2>1, <2>2 DEF Live, InWorker
  <2> QED BY <1>1, <1>2, <2>3 DEF HolderMap
<1>9. CASE UNCHANGED consumed
  <2>1. SO!Lose({c})
    BY <1>1, <1>6, <1>7, <1>8, <1>9, SockFacts DEF SO!Lose
  <2> QED BY <2>1 DEF SO!Next
<1>10. CASE consumed' = [consumed EXCEPT ![c] = consumed[c] + 1]
  <2>1. SO!Take(c)
    BY <1>7, <1>10 DEF SO!Take
  <2>2. SO!Use(c)
    BY <1>1, <1>6, <1>8, <2>1 DEF SO!Use
  <2> QED BY <2>2 DEF SO!Next
<1> QED BY <1>3, <1>9, <1>10

LEMMA WorkerRefines ==
  ASSUME Inv, HolderMap, HolderMap', NEW w \in Workers, WorkerMoves(w)
  PROVE  SO!Next
<1>0. TypeOK /\ ConnInv /\ EntryInv
  BY DEF Inv
<1>1. CASE Register(w)
  BY <1>1, RegisterRefines
<1>2. UNCHANGED <<client, gconn>>
  BY DEF WorkerMoves, WorkerStep, WorkerDies, WorkerStarts, EpollWait, BeginAccept, EndAccept, RecvNothing,
         RestoreFails, Register, ReadFails, WriteFails, Serve, clientVars, gatewayVars
<1>3. CASE Shrinks /\ UNCHANGED consumed
  BY <1>2, <1>3, ShrinkRefines
<1>4. CASE EpollWait(w) \/ BeginAccept(w) \/ EndAccept(w) \/ WorkerStarts(w)
  <2>1. UNCHANGED consumed
    BY <1>4 DEF EpollWait, BeginAccept, EndAccept, WorkerStarts, streamVars
  <2> QED BY <1>0, <1>3, <1>4, <2>1, LoopShrinks
<1>5. CASE RecvNothing(w) \/ RestoreFails(w)
  <2>1. UNCHANGED consumed
    BY <1>5 DEF RecvNothing, RestoreFails, streamVars
  <2> QED BY <1>0, <1>3, <1>5, <2>1, DropShrinks
<1>6. CASE WorkerDies(w)
  <2>1. UNCHANGED consumed
    BY <1>6 DEF WorkerDies, streamVars
  <2> QED BY <1>0, <1>3, <1>6, <2>1, DeathShrinks
<1>7. ASSUME NEW f \in Fds, ReadFails(w, f) PROVE SO!Next
  <2>1. UNCHANGED consumed
    BY <1>7 DEF ReadFails, streamVars
  <2> QED BY <1>0, <1>3, <1>7, <2>1, CloseShrinks
<1>8. CASE \E f \in batch[w] : ReadFails(w, f) \/ WriteFails(w, f)
                                \/ \E whole \in BOOLEAN : Serve(w, f, whole)
  <2>1. batch[w] \subseteq Fds
    BY <1>0, WorkerTypes
  <2>2. PICK f \in Fds : \/ ReadFails(w, f) \/ WriteFails(w, f)
                         \/ \E whole \in BOOLEAN : Serve(w, f, whole)
    BY <1>8, <2>1
  <2> QED BY <1>7, <2>2, WriteFailsRefines, ServeRefines
<1>9. \/ EpollWait(w) \/ BeginAccept(w) \/ EndAccept(w) \/ WorkerStarts(w)
      \/ RecvNothing(w) \/ RestoreFails(w) \/ Register(w) \/ WorkerDies(w)
      \/ \E f \in batch[w] : ReadFails(w, f) \/ WriteFails(w, f)
                             \/ \E whole \in BOOLEAN : Serve(w, f, whole)
  BY Zenon DEF WorkerMoves, WorkerStep
<1> QED BY ONLY <1>1, <1>4, <1>5, <1>6, <1>8, <1>9

LEMMA StepRefines ==
  ASSUME Inv, Inv', [Next]_vars
  PROVE  SO!Next \/ UNCHANGED SO!svars
<1>1. HolderMap /\ HolderMap'
  BY HolderIs, HolderNext
<1>2. CASE UNCHANGED vars
  <2>1. UNCHANGED <<client, consumed, resp, backlog, gconn, uds, open>>
    BY <1>2 DEF vars, clientVars, streamVars, gatewayVars, workerVars
  <2>2. ASSUME NEW d \in Conns PROVE Holder(d)' = Holder(d)
    <3>1. /\ \A v \in Workers : Holds(v, d)' <=> Holds(v, d)
          /\ AtGateway(d)' <=> AtGateway(d)
          /\ InTransit(d)' <=> InTransit(d)
      BY <2>1 DEF Holds, AtGateway, InTransit
    <3> QED BY <1>1, <2>1, <3>1, HolderKept
  <2> QED BY <2>1, <2>2, SOStutter
<1>3. ASSUME NEW c \in Conns, ClientStep(c) PROVE SO!Next
  BY <1>1, <1>3, ClientRefines
<1>4. ASSUME NEW g \in Children, ChildStep(g) PROVE SO!Next \/ UNCHANGED SO!svars
  BY <1>1, <1>4, ChildRefines
<1>5. ASSUME NEW w \in Workers, WorkerMoves(w) PROVE SO!Next
  BY <1>1, <1>5, WorkerRefines
<1> QED BY <1>2, <1>3, <1>4, <1>5 DEF Next, WorkerMoves, Finished

(***************************************************************************)
(* The pre-forked system implements SessionOwnership: peeking at the first *)
(* request moves no receive position, a worker takes a record or answers   *)
(* from its epoll loop only on a session it restored, at the numbers the   *)
(* export had, and a session that is closed, or left behind when sendmsg   *)
(* fails, is never used again, whichever workers die and come back.        *)
(***************************************************************************)
THEOREM PreforkImplementsOwnership == Spec => ImplementsOwnership
<1>1. Init => SO!Init
  BY DEF Init, SO!Init, Holder
<1>2. Inv /\ Inv' /\ [Next]_vars => [SO!Next]_SO!svars
  BY StepRefines
<1> QED BY <1>1, <1>2, Invariant, PTL DEF Spec, SO!Spec, ImplementsOwnership

-----------------------------------------------------------------------------
(* What a failed sendmsg leaves behind *)

(* What a child has open it works on, or SendFdFails left it there. *)
LeakInv == "sendmsg" \notin Faults => \A g \in Children : gfds[g] \subseteq {gconn[g]}

LEMMA LeakStep == Inv /\ LeakInv /\ [Next]_vars => LeakInv'
<1> SUFFICES ASSUME Inv, [Next]_vars, "sendmsg" \notin Faults,
                    \A g \in Children : gfds[g] \subseteq {gconn[g]}
             PROVE  \A g \in Children : gfds'[g] \subseteq {gconn'[g]}
  BY DEF LeakInv
<1>0. TypeOK /\ ControlInv
  BY DEF Inv
<1>1. CASE UNCHANGED <<gconn, gfds>>
  BY <1>1
<1>2. ASSUME NEW g \in Children, ChildStep(g)
      PROVE  \A h \in Children : gfds'[h] \subseteq {gconn'[h]}
  <2>1. CASE UNCHANGED <<gconn, gfds>>
    BY <2>1
  <2>2. CASE CloseAndReturn(g)
    BY <1>0, <2>2, ChildTypes DEF CloseAndReturn, Return
  <2>3. ASSUME NEW c \in Conns, Accept(g, c)
        PROVE  \A h \in Children : gfds'[h] \subseteq {gconn'[h]}
    <3>1. gconn[g] = NoConn /\ gconn' = [gconn EXCEPT ![g] = c] /\ gfds' = [gfds EXCEPT ![g] = @ \cup {c}]
      BY <1>0, <2>3 DEF Accept, ControlInv
    <3>2. gfds[g] = {}
      BY <1>0, <3>1, ChildTypes, PreforkConstants
    <3> QED BY <1>0, <3>1, <3>2, ChildTypes
  <2>4. ~SendFdFails(g)
    BY DEF SendFdFails
  <2> QED BY <1>2, <2>1, <2>2, <2>3, <2>4
          DEF ChildStep, Handshake, HandshakeFails, PeekAndExport, PeekOrExportFails, SendFd, ConnectFails
<1>3. ASSUME NEW c \in Conns, ClientStep(c) PROVE UNCHANGED <<gconn, gfds>>
  BY <1>3 DEF ClientStep, Connect, Hello, ClientClose, SendRequest, gatewayVars
<1>4. ASSUME NEW w \in Workers, WorkerMoves(w) PROVE UNCHANGED <<gconn, gfds>>
  BY <1>4 DEF WorkerMoves, WorkerStep, WorkerDies, WorkerStarts, EpollWait, BeginAccept, EndAccept,
     RecvNothing, RestoreFails, Register, ReadFails, WriteFails, Serve, gatewayVars
<1>5. CASE UNCHANGED vars
  BY <1>1, <1>5 DEF vars, gatewayVars
<1> QED BY <1>1, <1>2, <1>3, <1>4, <1>5 DEF Next, WorkerMoves, Finished, vars, gatewayVars

(***************************************************************************)
(* sendmsg failing after connect is the only way to leak: as long as it    *)
(* does not, a gateway process in its accept loop has no client's          *)
(* descriptor open, whatever else fails, and one that handles a connection *)
(* has its descriptor alone.                                               *)
(***************************************************************************)
THEOREM PreforkLeakNeedsFailedSend == Spec => []("sendmsg" \notin Faults => NoGatewayLeak)
<1>1. Init => LeakInv
  BY DEF Init, LeakInv
<1>2. Inv /\ LeakInv => ("sendmsg" \notin Faults => NoGatewayLeak)
  <2> SUFFICES ASSUME Inv, LeakInv, "sendmsg" \notin Faults, NEW g \in Children
               PROVE  gfds[g] = IF gconn[g] = NoConn THEN {} ELSE {gconn[g]}
    BY DEF NoGatewayLeak
  <2>1. gfds[g] \in SUBSET Conns /\ gfds[g] \subseteq {gconn[g]}
    BY ChildTypes DEF Inv, LeakInv
  <2>2. gconn[g] # NoConn => gconn[g] \in gfds[g]
    BY DEF Inv, ControlInv
  <2> QED BY <2>1, <2>2, PreforkConstants
<1> QED BY <1>1, <1>2, LeakStep, Invariant, PTL DEF Spec

-----------------------------------------------------------------------------
(* When nothing but a client can move *)

(* What the blocking calls of handle_connection wait for. *)
ChildWaits(g) ==
  \/ gpc[g] = "accept" /\ backlog = {}
  \/ gpc[g] = "handshake" /\ client[gconn[g]] = "connected"
  \/ gpc[g] = "peek" /\ client[gconn[g]] = "secure" /\ sent[gconn[g]] = <<>>

(* epoll_wait has nothing to report. *)
LoopWaits(w) ==
  /\ wpc[w] = "events" /\ batch[w] = {} /\ ~listening[w]
  /\ Ready(w) = {} /\ uds[w] = <<>>

Quiet == (\A g \in Children : ChildWaits(g)) /\ (\A w \in Workers : LoopWaits(w))

(* A failed sendmsg left c open in a child that does not work on it. *)
Leaked(c) == \E g \in Children : c \in gfds[g] /\ gconn[g] # c

(* The i-th response is to the i-th request, from the worker it is for, and *)
(* all of it was written, if the client's receive window cannot fill up.    *)
Answered(c, i) ==
  /\ i \in DOMAIN resp[c] /\ resp[c][i].id = i /\ resp[c][i].by = RouteRequest(c)
  /\ resp[c][i].whole \/ "window" \in Faults

(* All records have been read; where each request is one read, they have    *)
(* been answered.  Of a longer request the decrypted rest may be left in    *)
(* the session, which no event announces.                                   *)
AllAnswered ==
  Quiet => \A c \in Conns : Open(c) /\ ~Leaked(c) =>
    /\ consumed[c] >= Len(sent[c])
    /\ OneReadEach(c) => \A i \in DOMAIN sent[c] : Answered(c, i)

(* A client sends requests after its handshake only, and responses are cut  *)
(* short by a full receive window only.                                     *)
Early(c) ==
  \/ client[c] \in {"idle", "connected", "hello"} \/ c \in backlog
  \/ \E g \in Children : gconn[g] = c /\ gpc[g] = "handshake"

StreamInv ==
  \A c \in Conns : /\ Early(c) => client[c] # "secure" /\ sent[c] = <<>>
                   /\ \A i \in DOMAIN resp[c] : resp[c][i].whole \/ "window" \in Faults

LEMMA QuietAnswered == Inv /\ StreamInv => AllAnswered
<1> SUFFICES ASSUME Inv, StreamInv, Quiet, NEW c \in Conns, Open(c), ~Leaked(c)
             PROVE  /\ consumed[c] >= Len(sent[c])
                    /\ OneReadEach(c) => \A i \in DOMAIN sent[c] : Answered(c, i)
  BY DEF AllAnswered
<1>0. TypeOK /\ ControlInv
  BY DEF Inv
<1>1. sent[c] \in Seq(Request) /\ resp[c] \in Seq(Response) /\ consumed[c] \in Nat
  BY <1>0 DEF TypeOK
<1>2. CASE sent[c] = <<>>
  <2>1. Len(sent[c]) = 0 /\ DOMAIN sent[c] = {}
    BY <1>2
  <2> QED BY <1>1, <2>1
<1>3. CASE c \in backlog
  BY <1>2, <1>3 DEF StreamInv, Early
<1>4. ASSUME NEW g \in Children, c \in gfds[g] PROVE sent[c] = <<>>
  <2>1. gconn[g] = c /\ c # NoConn
    BY <1>4, PreforkConstants DEF Leaked
  <2>2. gpc[g] # "accept" /\ ChildWaits(g)
    BY <1>0, <2>1 DEF ControlInv, Quiet
  <2> QED BY <2>1, <2>2 DEF ChildWaits, StreamInv, Early
<1>5. ASSUME NEW w \in Workers, Holds(w, c)
      PROVE  /\ consumed[c] >= Len(sent[c])
             /\ OneReadEach(c) => \A i \in DOMAIN sent[c] : Answered(c, i)
  <2>1. PICK f \in Fds : open[w][f] = c
    BY <1>5 DEF Holds
  <2>2. Entry(w, f) /\ c # NoConn
    BY PreforkConstants DEF Inv, EntryInv
  <2>3. f \in epoll[w] /\ f \notin Ready(w)
    BY <2>1, <2>2 DEF Entry, Quiet, LoopWaits
  <2>4. ~(consumed[c] < Len(sent[c]))
    BY <2>1, <2>2, <2>3 DEF Ready, Readable
  <2>5. Len(sent[c]) \in Nat /\ consumed[c] >= Len(sent[c])
    BY <1>1, <2>4
  <2>6. ASSUME OneReadEach(c), NEW i \in DOMAIN sent[c] PROVE Answered(c, i)
    <3>1. Len(resp[c]) = consumed[c]
      BY <2>1, <2>2, <2>6 DEF Entry, Session
    <3>2. i \in DOMAIN resp[c]
      BY <1>1, <2>5, <2>6, <3>1
    <3>3. resp[c][i].id = i /\ resp[c][i].by = RouteRequest(c)
      BY <2>6, <3>2 DEF Inv, ConnInv, Answers
    <3>4. resp[c][i].whole \/ "window" \in Faults
      BY <3>2 DEF StreamInv
    <3> QED BY <3>2, <3>3, <3>4 DEF Answered
  <2> QED BY <2>5, <2>6
<1>6. ASSUME NEW w \in Workers, NEW i \in DOMAIN uds[w] PROVE FALSE
  BY <1>6 DEF Quiet, LoopWaits
<1> QED BY <1>2, <1>3, <1>4, <1>5, <1>6 DEF Open

(* A step of which c's early days see nothing. *)
LEMMA EarlyKept ==
  ASSUME StreamInv, NEW c \in Conns, Early(c)' => Early(c),
         client'[c] = "secure" => client[c] = "secure" \/ ~Early(c)',
         sent'[c] = sent[c] \/ ~Early(c)'
  PROVE  Early(c)' => client'[c] # "secure" /\ sent'[c] = <<>>
BY DEF StreamInv

LEMMA EarlyClient ==
  ASSUME Inv, StreamInv, NEW c \in Conns, ClientStep(c), NEW d \in Conns
  PROVE  Early(d)' => client'[d] # "secure" /\ sent'[d] = <<>>
<1>0. /\ client \in [Conns -> {"idle", "connected", "hello", "secure", "gone"}]
      /\ sent \in [Conns -> Seq(Request)]
  BY DEF Inv, TypeOK
<1>1. /\ UNCHANGED <<gpc, gconn>> /\ backlog' \subseteq backlog \cup {c}
      /\ \/ client[c] = "idle" /\ client' = [client EXCEPT ![c] = "connected"] /\ sent' = sent
         \/ client[c] = "connected" /\ client' = [client EXCEPT ![c] = "hello"] /\ sent' = sent /\ backlog' = backlog
         \/ client' = [client EXCEPT ![c] = "gone"] /\ sent' = sent /\ backlog' = backlog
         \/ /\ client' = client /\ client[c] = "secure" /\ backlog' = backlog
            /\ \E r \in Requests : sent' = [sent EXCEPT ![c] = Append(sent[c], r)]
  BY DEF ClientStep, Connect, Hello, ClientClose, SendRequest, gatewayVars
<1>2. CASE d # c
  <2>1. Early(d)' => Early(d)
    BY <1>0, <1>1, <1>2 DEF Early
  <2>2. client'[d] = client[d] /\ sent'[d] = sent[d]
    BY <1>0, <1>1, <1>2
  <2> QED BY <2>1, <2>2, EarlyKept
<1>3. CASE d = c /\ client[c] \in {"idle", "connected"} /\ sent' = sent
  <2>1. sent[c] = <<>>
    BY <1>3 DEF StreamInv, Early
  <2>2. client'[c] # "secure"
    BY <1>0, <1>1, <1>3
  <2> QED BY <1>3, <2>1, <2>2
<1>4. CASE d = c /\ client' = [client EXCEPT ![c] = "gone"] /\ sent' = sent /\ backlog' = backlog
  <2>1. client'[c] = "gone"
    BY <1>0, <1>4
  <2>2. Early(d)' => Early(d)
    BY <1>1, <1>4, <2>1 DEF Early
  <2> QED BY <1>4, <2>1, <2>2, EarlyKept
<1>5. CASE d = c /\ client' = client /\ client[c] = "secure" /\ backlog' = backlog
  <2>1. Early(d)' => Early(d)
    BY <1>1, <1>5 DEF Early
  <2> QED BY <1>5, <2>1 DEF StreamInv
<1> QED BY <1>1, <1>2, <1>3, <1>4, <1>5

LEMMA EarlyChild ==
  ASSUME Inv, StreamInv, NEW g \in Children, ChildStep(g), NEW d \in Conns
  PROVE  Early(d)' => client'[d] # "secure" /\ sent'[d] = <<>>
<1>0. TypeOK /\ ControlInv /\ d # NoConn
  BY PreforkConstants DEF Inv
<1>1. sent' = sent
  BY DEF ChildStep, Accept, Handshake, HandshakeFails, PeekAndExport, PeekOrExportFails, SendFd,
         ConnectFails, SendFdFails, clientVars
<1>2. CASE Handshake(g)
  <2>1. PICK c \in Conns : c = gconn[g] /\ c \in gfds[g]
    BY <1>0, <1>2, ChildHas DEF Handshake
  <2>2. /\ client' = [client EXCEPT ![c] = "secure"] /\ gpc' = [gpc EXCEPT ![g] = "peek"]
        /\ UNCHANGED <<backlog, gconn>>
    BY <1>2, <2>1 DEF Handshake
  <2>3. /\ client'[c] = "secure" /\ gpc'[g] = "peek"
        /\ \A b \in Conns \ {c} : client'[b] = client[b]
        /\ \A h \in Children \ {g} : gpc'[h] = gpc[h]
    BY <1>0, <2>2, ChildTypes DEF TypeOK
  <2>4. c \notin backlog /\ \A h \in Children : gconn[h] = c => h = g
    BY <1>0, <2>1, PreforkConstants DEF Inv, ConnInv, Own, ControlInv
  <2>5. ~Early(c)'
    BY <2>2, <2>3, <2>4 DEF Early
  <2>6. CASE d # c
    <3>1. Early(d)' => Early(d)
      BY <2>2, <2>3, <2>6 DEF Early
    <3> QED BY <1>1, <2>3, <2>6, <3>1, EarlyKept
  <2> QED BY <2>5, <2>6
<1>3. CASE ~Handshake(g)
  <2>1. client' = client
    BY <1>3 DEF ChildStep, Accept, HandshakeFails, PeekAndExport, PeekOrExportFails, SendFd,
       ConnectFails, SendFdFails, clientVars
  <2>2. ASSUME NEW c \in Conns, Accept(g, c) PROVE Early(d)' => Early(d)
    <3>1. /\ c \in backlog /\ backlog' = backlog \ {c} /\ gconn' = [gconn EXCEPT ![g] = c]
          /\ gpc' = [gpc EXCEPT ![g] = "handshake"]
      BY <2>2 DEF Accept
    <3> QED BY <1>0, <2>1, <3>1, ChildTypes DEF Early
  <2>3. CASE \/ Return(g)
             \/ gpc' = [gpc EXCEPT ![g] = "send"] /\ gconn' = gconn
    <3>1. backlog' = backlog \/ \E c \in Conns : Accept(g, c)
      BY <1>3 DEF ChildStep, HandshakeFails, PeekAndExport, PeekOrExportFails, SendFd,
         ConnectFails, SendFdFails
    <3>2. ASSUME backlog' = backlog PROVE Early(d)' => Early(d)
      <4>1. \A h \in Children : gpc'[h] = "handshake" => gpc[h] = "handshake" /\ gconn'[h] = gconn[h]
        BY <2>3, ChildTypes, <1>0 DEF Return
      <4> QED BY <2>1, <3>2, <4>1 DEF Early
    <3>3. Early(d)' => Early(d)
      BY <2>2, <3>1, <3>2
    <3> QED BY <1>1, <2>1, <3>3, EarlyKept
  <2>4. \/ \E c \in Conns : Accept(g, c)
        \/ Return(g)
        \/ gpc' = [gpc EXCEPT ![g] = "send"] /\ gconn' = gconn
    BY <1>3 DEF ChildStep, HandshakeFails, PeekAndExport, PeekOrExportFails, SendFd,
       ConnectFails, SendFdFails, CloseAndReturn
  <2> QED BY <1>1, <2>1, <2>2, <2>3, <2>4, EarlyKept
<1> QED BY <1>2, <1>3

(* Serve alone writes a response, and cuts it short at a full window only.  *)
LEMMA WholeKept ==
  ASSUME Inv, StreamInv, [Next]_vars, NEW d \in Conns, NEW i \in DOMAIN resp'[d]
  PROVE  resp'[d][i].whole \/ "window" \in Faults
<1>0. TypeOK /\ ControlInv /\ ConnInv /\ EntryInv
  BY DEF Inv
<1>1. CASE UNCHANGED resp
  BY <1>1 DEF StreamInv
<1>2. ASSUME NEW w \in Workers, NEW f \in Fds, NEW whole \in BOOLEAN, Serve(w, f, whole)
      PROVE  resp'[d][i].whole \/ "window" \in Faults
  <2>1. PICK c \in Conns, n \in Nat, u \in ConnState : Served(w, f, whole, c, n, u)
    BY <1>0, <1>2, ServeFacts
  <2> DEFINE r == [id |-> n, by |-> w, seq |-> Len(resp[c]), whole |-> whole]
  <2>2. /\ resp \in [Conns -> Seq(Response)] /\ resp[c] \in Seq(Response)
        /\ whole \/ "window" \in Faults
    BY <1>0, <1>2 DEF TypeOK, Serve
  <2>3. r \in Response /\ r.whole = whole
    BY <2>2 DEF Response
  <2>4. resp' = [resp EXCEPT ![c] = Append(resp[c], r)]
    BY <2>1 DEF Served
  <2> HIDE DEF r
  <2>5. CASE d # c
    <3>1. resp'[d] = resp[d]
      BY <2>2, <2>4, <2>5
    <3> QED BY <3>1 DEF StreamInv
  <2>6. CASE d = c
    <3>1. resp'[c] = Append(resp[c], r)
      BY <2>2, <2>4
    <3>2. \/ i \in DOMAIN resp[c] /\ resp'[c][i] = resp[c][i]
          \/ resp'[c][i] = r
      BY <2>2, <2>3, <2>6, <3>1, AppendTo
    <3> QED BY <2>2, <2>3, <2>6, <3>2 DEF StreamInv
  <2> QED BY <2>5, <2>6
<1>3. ASSUME NEW c \in Conns, ClientStep(c) PROVE UNCHANGED resp
  BY <1>3 DEF ClientStep, Connect, Hello, ClientClose, SendRequest, streamVars
<1>4. ASSUME NEW g \in Children, ChildStep(g) PROVE UNCHANGED resp
  BY <1>4 DEF ChildStep, Accept, Handshake, HandshakeFails, PeekAndExport, PeekOrExportFails,
     SendFd, ConnectFails, SendFdFails, streamVars
<1>5. ASSUME NEW w \in Workers, WorkerMoves(w)
      PROVE  resp'[d][i].whole \/ "window" \in Faults
  <2>1. CASE \E f \in batch[w] : ReadFails(w, f) \/ WriteFails(w, f)
                                  \/ \E whole \in BOOLEAN : Serve(w, f, whole)
    <3>1. batch[w] \subseteq Fds
      BY <1>0, WorkerTypes
    <3>2. PICK f \in Fds : \/ ReadFails(w, f) \/ WriteFails(w, f)
                           \/ \E whole \in BOOLEAN : Serve(w, f, whole)
      BY <2>1, <3>1
    <3>3. ReadFails(w, f) \/ WriteFails(w, f) => UNCHANGED resp
      BY DEF ReadFails, WriteFails, streamVars
    <3> QED BY <1>1, <1>2, <3>2, <3>3
  <2>2. EpollWait(w) \/ BeginAccept(w) \/ EndAccept(w) \/ WorkerStarts(w)
        \/ RecvNothing(w) \/ RestoreFails(w) \/ Register(w) \/ WorkerDies(w)
          => UNCHANGED resp
    BY DEF EpollWait, BeginAccept, EndAccept, WorkerStarts, RecvNothing, RestoreFails,
       Register, WorkerDies, streamVars
  <2>3. \/ EpollWait(w) \/ BeginAccept(w) \/ EndAccept(w) \/ WorkerStarts(w)
        \/ RecvNothing(w) \/ RestoreFails(w) \/ Register(w) \/ WorkerDies(w)
        \/ \E f \in batch[w] : ReadFails(w, f) \/ WriteFails(w, f)
                               \/ \E whole \in BOOLEAN : Serve(w, f, whole)
    BY <1>5, Zenon DEF WorkerMoves, WorkerStep
  <2> QED BY <1>1, <2>1, <2>2, <2>3
<1>6. CASE UNCHANGED vars
  BY <1>1, <1>6 DEF vars, streamVars
<1>7. CASE Finished
  BY <1>6, <1>7 DEF Finished
<1> QED BY <1>1, <1>3, <1>4, <1>5, <1>6, <1>7 DEF Next, WorkerMoves

LEMMA StreamStep == Inv /\ StreamInv /\ [Next]_vars => StreamInv'
<1> SUFFICES ASSUME Inv, StreamInv, [Next]_vars, NEW d \in Conns
             PROVE  /\ Early(d)' => client'[d] # "secure" /\ sent'[d] = <<>>
                    /\ \A i \in DOMAIN resp'[d] : resp'[d][i].whole \/ "window" \in Faults
  BY DEF StreamInv
<1>1. CASE UNCHANGED <<client, sent, backlog, gpc, gconn>>
  <2>1. Early(d)' => Early(d)
    BY <1>1 DEF Early
  <2>2. Early(d)' => client'[d] # "secure" /\ sent'[d] = <<>>
    BY <1>1, <2>1, EarlyKept
  <2> QED BY <2>2, WholeKept
<1>2. ASSUME NEW w \in Workers, WorkerMoves(w) PROVE UNCHANGED <<client, sent, backlog, gpc, gconn>>
  BY <1>2 DEF WorkerMoves, WorkerStep, WorkerDies, WorkerStarts, EpollWait, BeginAccept, EndAccept,
     RecvNothing, RestoreFails, Register, ReadFails, WriteFails, Serve, clientVars, gatewayVars
<1>3. CASE UNCHANGED vars
  BY <1>1, <1>3 DEF vars, clientVars, gatewayVars
<1> QED BY <1>1, <1>2, <1>3, EarlyClient, EarlyChild, WholeKept DEF Next, WorkerMoves, Finished

(***************************************************************************)
(* No wake-up is lost.  When every gateway process sits in accept,         *)
(* wolfSSL_accept or the peek waiting for a client, and no epoll_wait has  *)
(* anything to report, each record sent on a connection still open has     *)
(* been read, and where requests fit one read the i-th request has the     *)
(* i-th response, from the worker it was routed to and written as a whole  *)
(* unless the client's window was full; except on connections that a       *)
(* failed sendmsg left behind in a gateway process.                        *)
(***************************************************************************)
THEOREM PreforkNoLostWakeup == Spec => []AllAnswered
<1>1. Init => StreamInv
  <2> SUFFICES ASSUME Init, NEW c \in Conns
               PROVE  client[c] # "secure" /\ sent[c] = <<>> /\ resp[c] = <<>>
    BY DEF StreamInv
  <2> QED BY DEF Init
<1>2. Inv /\ StreamInv => AllAnswered
  BY QuietAnswered
<1>3. Inv /\ StreamInv /\ [Next]_vars => StreamInv'
  BY StreamStep
<1> QED BY <1>1, <1>2, <1>3, Invariant, PTL DEF Spec
=============================================================================
