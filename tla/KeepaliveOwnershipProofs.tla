---------------------- MODULE KeepaliveOwnershipProofs ----------------------
(***************************************************************************)
(* KeepaliveMigration implements SessionOwnership, for any number of       *)
(* connections, functions and requests and with every failure.  The        *)
(* invariant of KeepaliveSafetyProofs says that a connection is in one     *)
(* place; HolderMap turns that into the value of the refinement mapping,   *)
(* and each action is then shown to move, use or lose what the mapping     *)
(* says its process holds.                                                 *)
(***************************************************************************)
EXTENDS KeepaliveOwnership, KeepaliveStreamProofs, FiniteSetTheorems

Inv == TypeInv /\ OwnInv /\ SeqInv

LEMMA ProcFacts ==
  /\ Functions \subseteq Listeners /\ Relayer \in Listeners
  /\ Listeners \subseteq Procs /\ Acceptor \in Procs
  /\ Acceptor \notin Functions /\ Relayer \notin Functions /\ Acceptor # Relayer
  /\ Procs = Functions \cup {Acceptor, Relayer} /\ NoConn \notin Conns
BY ConstantsOK DEF Procs, Listeners

-----------------------------------------------------------------------------
(* Where the refinement mapping finds a session *)

AtGateway(c) == c \in backlog \/ conn[Acceptor] = c \/ conn[Relayer] = c
AtWorker(c) == \E w \in Functions : conn[w] = c

HolderMap ==
  \A c \in Conns :
    /\ client[c] = "idle" => Holder(c) = "none" /\ ~Open(c)
    /\ client[c] # "idle" =>
         /\ AtGateway(c) => Holder(c) = "gateway"
         /\ InTransit(c) => Holder(c) = "transit"
         /\ \A w \in Functions : conn[w] = c => Holder(c) = w
         /\ ~Open(c) => Holder(c) = "lost"
    /\ Open(c) <=> AtGateway(c) \/ InTransit(c) \/ AtWorker(c)
    /\ AtGateway(c) => ~InTransit(c) /\ ~AtWorker(c)
    /\ InTransit(c) => ~AtWorker(c)

LEMMA HolderIs == Inv => HolderMap
<1> SUFFICES ASSUME Inv, NEW c \in Conns
             PROVE  /\ client[c] = "idle" => Holder(c) = "none" /\ ~Open(c)
                    /\ client[c] # "idle" =>
                         /\ AtGateway(c) => Holder(c) = "gateway"
                         /\ InTransit(c) => Holder(c) = "transit"
                         /\ \A w \in Functions : conn[w] = c => Holder(c) = w
                         /\ ~Open(c) => Holder(c) = "lost"
                    /\ Open(c) <=> AtGateway(c) \/ InTransit(c) \/ AtWorker(c)
                    /\ AtGateway(c) => ~InTransit(c) /\ ~AtWorker(c)
                    /\ InTransit(c) => ~AtWorker(c)
  BY DEF HolderMap
<1> USE ProcFacts
<1>1. \A p \in Procs : c \in fds[p] <=> conn[p] = c
  BY ZenonT(60) DEF Inv, OwnInv, NoLeak
<1>2. client[c] = "idle" => Holder(c) = "none" /\ ~Open(c)
  BY DEF Inv, OwnInv, IdleUnheld, Holder
<1>3. /\ \A p, q \in Procs : conn[p] = c /\ conn[q] = c => p = q
      /\ \A p \in Procs : conn[p] = c => c \notin backlog /\ ~InTransit(c)
      /\ c \in backlog => ~InTransit(c)
  BY <1>1 DEF Inv, OwnInv, SingleHolder, Queued, InTransit
<1>o. Open(c) <=> AtGateway(c) \/ InTransit(c) \/ AtWorker(c)
  BY <1>1 DEF Open, AtGateway, AtWorker, InTransit
<1>x. /\ AtGateway(c) => ~InTransit(c) /\ ~AtWorker(c)
      /\ InTransit(c) => ~AtWorker(c)
  BY <1>3 DEF AtGateway, AtWorker
<1>g. InGateway(c) <=> AtGateway(c)
  BY <1>1 DEF InGateway, AtGateway
<1>w. (\E w \in Functions : c \in fds[w]) <=> AtWorker(c)
  BY <1>1 DEF AtWorker
<1>4. client[c] # "idle" /\ AtGateway(c) => Holder(c) = "gateway"
  BY <1>g DEF Holder
<1>5. client[c] # "idle" /\ InTransit(c) => Holder(c) = "transit"
  BY <1>x, <1>g, <1>w DEF Holder
<1>6. ASSUME client[c] # "idle", NEW w \in Functions, conn[w] = c PROVE Holder(c) = w
  <2>1. c \in fds[w] /\ ~InGateway(c)
    BY <1>1, <1>x, <1>g, <1>6 DEF AtWorker
  <2>2. \A v \in Functions : c \in fds[v] <=> v = w
    BY <1>1, <1>3, <1>6
  <2>3. (CHOOSE v \in Functions : c \in fds[v]) = w
    BY <2>2
  <2> QED BY <1>6, <2>1, <2>3 DEF Holder
<1>7. client[c] # "idle" /\ ~Open(c) => Holder(c) = "lost"
  BY <1>o, <1>g, <1>w DEF Holder
<1> QED BY <1>2, <1>4, <1>5, <1>6, <1>7, <1>o, <1>x

LEMMA HolderNext == Inv' => HolderMap'
BY HolderIs, PTL

(* A connection that stays where it is. *)
LEMMA HolderKept ==
  ASSUME Inv, Inv', NEW c \in Conns,
         client'[c] = "idle" <=> client[c] = "idle",
         AtGateway(c)' <=> AtGateway(c),
         InTransit(c)' <=> InTransit(c),
         \A w \in Functions : conn'[w] = c <=> conn[w] = c
  PROVE  Holder(c)' = Holder(c)
<1>1. HolderMap /\ HolderMap'
  BY HolderIs, HolderNext
<1>2. AtWorker(c)' <=> AtWorker(c)
  BY DEF AtWorker
<1>3. CASE client[c] = "idle"
  BY <1>1, <1>3 DEF HolderMap
<1>4. CASE client[c] # "idle" /\ AtWorker(c)
  BY <1>1, <1>4 DEF HolderMap, AtWorker
<1>5. CASE client[c] # "idle" /\ ~AtWorker(c)
  BY <1>1, <1>2, <1>5 DEF HolderMap
<1> QED BY <1>3, <1>4, <1>5

(* A process's connection is held there. *)
LEMMA HeldByProcess ==
  ASSUME Inv, NEW p \in Procs, NEW c \in Conns, conn[p] = c
  PROVE  /\ client[c] # "idle"
         /\ Holder(c) = IF p \in Functions THEN p ELSE "gateway"
         /\ \A q \in Procs : conn[q] = c => q = p
<1> USE ProcFacts
<1>1. HolderMap
  BY HolderIs
<1>2. client[c] # "idle" /\ \A q \in Procs : conn[q] = c => q = p
  BY Exclusive DEF Inv
<1> QED BY <1>1, <1>2 DEF HolderMap, AtGateway

-----------------------------------------------------------------------------
(* SessionOwnership's actions, in terms of the mapping *)

LEMMA SOArrive ==
  ASSUME NEW c \in Conns, Holder(c) = "none", Holder(c)' = "gateway",
         \A d \in Conns \ {c} : Holder(d)' = Holder(d), UNCHANGED <<consumed, resp>>
  PROVE  SO!Next
<1>1. SO!Arrive(c)
  BY DEF SO!Arrive
<1> QED BY <1>1 DEF SO!Next

LEMMA SOHandOver ==
  ASSUME NEW c \in Conns, Holder(c) \in Functions \cup {"gateway"}, Holder(c)' = "transit",
         \A d \in Conns \ {c} : Holder(d)' = Holder(d), UNCHANGED <<consumed, resp>>
  PROVE  SO!Next
<1>1. SO!HandOver(c)
  BY DEF SO!HandOver
<1> QED BY <1>1 DEF SO!Next

LEMMA SOReceive ==
  ASSUME NEW c \in Conns, NEW h \in Functions \cup {"gateway"},
         Holder(c) = "transit", Holder(c)' = h,
         \A d \in Conns \ {c} : Holder(d)' = Holder(d), UNCHANGED <<consumed, resp>>
  PROVE  SO!Next
<1>1. SO!Receive(c, h)
  BY DEF SO!Receive
<1> QED BY <1>1 DEF SO!Next

LEMMA SOTake ==
  ASSUME NEW c \in Conns, Holder(c) \in Functions,
         consumed' = [consumed EXCEPT ![c] = consumed[c] + 1],
         \A d \in Conns : Holder(d)' = Holder(d), resp' = resp
  PROVE  SO!Next
<1>1. SO!Use(c)
  BY DEF SO!Use, SO!Take
<1> QED BY <1>1 DEF SO!Next

LEMMA SOAnswer ==
  ASSUME NEW c \in Conns, Holder(c) \in Functions,
         Holder(c)' = Holder(c) \/ Holder(c)' = "lost",
         \A d \in Conns \ {c} : Holder(d)' = Holder(d) /\ Len(resp'[d]) = Len(resp[d]),
         Len(resp'[c]) = Len(resp[c]) + 1, consumed' = consumed
  PROVE  SO!Next
<1>1. CASE Holder(c)' = Holder(c)
  <2>1. SO!Use(c)
    BY <1>1 DEF SO!Use, SO!Answer
  <2> QED BY <2>1 DEF SO!Next
<1>2. CASE Holder(c)' = "lost"
  <2>1. SO!Use(c)
    BY <1>2 DEF SO!Use, SO!Answer
  <2> QED BY <2>1 DEF SO!Next
<1> QED BY <1>1, <1>2

LEMMA SOStutter ==
  ASSUME \A d \in Conns : Holder(d)' = Holder(d), UNCHANGED <<consumed, resp>>
  PROVE  UNCHANGED SO!svars
BY DEF SO!svars

(* What a step that only closes descriptors does to one connection. *)
LEMMA ClosedOrKept ==
  ASSUME Inv, Inv', NEW c \in Conns,
         client'[c] = "idle" <=> client[c] = "idle",
         c \in backlog' => c \in backlog,
         \A p \in Procs : conn'[p] = c => conn[p] = c,
         InTransit(c)' => InTransit(c)
  PROVE  IF Open(c) /\ ~Open(c)'
         THEN Holder(c) \notin {"none", "lost"} /\ Holder(c)' = "lost"
         ELSE Holder(c)' = Holder(c)
<1> USE ProcFacts
<1>1. HolderMap /\ HolderMap'
  BY HolderIs, HolderNext
<1>2. /\ AtGateway(c)' => AtGateway(c)
      /\ \A w \in Functions : conn'[w] = c => conn[w] = c
      /\ AtWorker(c)' => AtWorker(c)
  BY DEF AtGateway, AtWorker
<1>3. CASE Open(c) /\ ~Open(c)'
  <2>1. client[c] # "idle" /\ Holder(c)' = "lost"
    BY <1>1, <1>3 DEF HolderMap
  <2>2. Holder(c) \notin {"none", "lost"}
    BY <1>1, <1>3, <2>1, PlacesDistinct DEF HolderMap, AtWorker
  <2> QED BY <1>3, <2>1, <2>2
<1>4. CASE ~Open(c)
  <2>1. ~Open(c)'
    BY <1>1, <1>2, <1>4 DEF HolderMap
  <2> QED BY <1>1, <1>4, <2>1 DEF HolderMap
<1>5. CASE Open(c)'
  <2>1. client[c] # "idle" /\ client'[c] # "idle"
    BY <1>1, <1>5 DEF HolderMap
  <2>2. Holder(c)' = Holder(c)
    <3>1. CASE AtGateway(c)'
      BY <1>1, <1>2, <2>1, <3>1 DEF HolderMap
    <3>2. CASE InTransit(c)'
      BY <1>1, <2>1, <3>2 DEF HolderMap
    <3>3. ASSUME NEW w \in Functions, conn'[w] = c PROVE Holder(c)' = Holder(c)
      BY <1>1, <1>2, <2>1, <3>3 DEF HolderMap
    <3> QED BY <1>1, <1>5, <3>1, <3>2, <3>3 DEF HolderMap, AtWorker
  <2> QED BY <1>5, <2>2
<1> QED BY <1>3, <1>4, <1>5

(* A step that only closes descriptors loses what is no longer open. *)
LEMMA ClosingRefines ==
  ASSUME Inv, Inv', UNCHANGED <<client, consumed, resp>>,
         backlog' \subseteq backlog,
         \A p \in Procs : conn'[p] = conn[p] \/ conn'[p] = NoConn,
         \A c \in Conns : InTransit(c)' => InTransit(c)
  PROVE  SO!Next
<1> USE ProcFacts
<1> DEFINE S == {c \in Conns : Open(c) /\ ~Open(c)'}
<1>1. \A c \in Conns : IF c \in S
                       THEN Holder(c) \notin {"none", "lost"} /\ Holder(c)' = "lost"
                       ELSE Holder(c)' = Holder(c)
  <2> SUFFICES ASSUME NEW c \in Conns
               PROVE  IF c \in S
                      THEN Holder(c) \notin {"none", "lost"} /\ Holder(c)' = "lost"
                      ELSE Holder(c)' = Holder(c)
    OBVIOUS
  <2>1. \A p \in Procs : conn'[p] = c => conn[p] = c
    OBVIOUS
  <2>2. client'[c] = "idle" <=> client[c] = "idle"
    OBVIOUS
  <2>3. c \in S <=> Open(c) /\ ~Open(c)'
    OBVIOUS
  <2> HIDE DEF S
  <2>4. IF Open(c) /\ ~Open(c)'
        THEN Holder(c) \notin {"none", "lost"} /\ Holder(c)' = "lost"
        ELSE Holder(c)' = Holder(c)
    BY <2>1, <2>2, ClosedOrKept
  <2> QED BY <2>3, <2>4
<1>2. S \in SUBSET Conns
  OBVIOUS
<1> HIDE DEF S
<1>3. SO!Lose(S)
  BY <1>1, <1>2 DEF SO!Lose
<1> QED BY <1>2, <1>3 DEF SO!Next

-----------------------------------------------------------------------------
(* Messages *)

LEMMA TransitAppend ==
  ASSUME TypeInv, NEW l \in Listeners, NEW e \in Entry,
         uds' = [uds EXCEPT ![l] = Append(uds[l], e)]
  PROVE  \A c \in Conns : InTransit(c)' <=> InTransit(c) \/ e.conn = c
<1>t. uds \in [Listeners -> Seq(Entry)]
  BY DEF TypeInv, TypeOK
<1>1. uds'[l] = Append(uds[l], e) /\ \A m \in Listeners \ {l} : uds'[m] = uds[m]
  BY <1>t
<1>2. /\ \A i \in DOMAIN uds'[l] : \/ i \in DOMAIN uds[l] /\ uds'[l][i] = uds[l][i]
                                   \/ uds'[l][i] = e
      /\ \A i \in DOMAIN uds[l] : i \in DOMAIN uds'[l] /\ uds'[l][i] = uds[l][i]
      /\ \E i \in DOMAIN uds'[l] : uds'[l][i] = e
  <2>1. uds[l] \in Seq(Entry)
    BY <1>t
  <2>2. /\ \A i \in DOMAIN Append(uds[l], e) :
             \/ i \in DOMAIN uds[l] /\ Append(uds[l], e)[i] = uds[l][i]
             \/ i = Len(uds[l]) + 1 /\ Append(uds[l], e)[i] = e
        /\ \A i \in DOMAIN uds[l] :
             i \in DOMAIN Append(uds[l], e) /\ Append(uds[l], e)[i] = uds[l][i]
        /\ Append(uds[l], e)[Len(uds[l]) + 1] = e
        /\ Len(uds[l]) + 1 \in DOMAIN Append(uds[l], e)
    BY ONLY <2>1
  <2> QED BY <1>1, <2>2
<1>3. ASSUME NEW c \in Conns, InTransit(c)' PROVE InTransit(c) \/ e.conn = c
  BY <1>1, <1>2, <1>3 DEF InTransit
<1>4. ASSUME NEW c \in Conns, InTransit(c) PROVE InTransit(c)'
  <2>1. PICK m \in Listeners : \E i \in DOMAIN uds[m] : uds[m][i].conn = c
    BY <1>4 DEF InTransit
  <2>2. \E i \in DOMAIN uds'[m] : uds'[m][i].conn = c
    BY <1>1, <1>2, <2>1
  <2> QED BY <2>2 DEF InTransit
<1>5. ASSUME NEW c \in Conns, e.conn = c PROVE InTransit(c)'
  BY <1>2, <1>5 DEF InTransit
<1> QED BY <1>3, <1>4, <1>5

LEMMA TransitTail ==
  ASSUME TypeInv, NEW p \in Listeners, uds[p] # <<>>,
         uds' = [uds EXCEPT ![p] = Tail(uds[p])]
  PROVE  /\ \A c \in Conns : InTransit(c)' => InTransit(c)
         /\ \A c \in Conns : Head(uds[p]).conn = c => InTransit(c)
         /\ \A c \in Conns : Head(uds[p]).conn # c => (InTransit(c)' <=> InTransit(c))
<1>t. uds \in [Listeners -> Seq(Entry)]
  BY DEF TypeInv, TypeOK
<1>1. uds'[p] = Tail(uds[p]) /\ \A m \in Listeners \ {p} : uds'[m] = uds[m]
  BY <1>t
<1>2. uds[p] \in Seq(Entry)
  BY <1>t
<1>3. /\ 1 \in DOMAIN uds[p] /\ Head(uds[p]) = uds[p][1]
      /\ \A i \in DOMAIN Tail(uds[p]) : i + 1 \in DOMAIN uds[p] /\ Tail(uds[p])[i] = uds[p][i + 1]
      /\ \A i \in DOMAIN uds[p] : i # 1 =>
           i - 1 \in DOMAIN Tail(uds[p]) /\ Tail(uds[p])[i - 1] = uds[p][i]
  BY ONLY <1>2, uds[p] # <<>>
<1>4. ASSUME NEW c \in Conns, InTransit(c)' PROVE InTransit(c)
  <2>1. PICK m \in Listeners : \E i \in DOMAIN uds'[m] : uds'[m][i].conn = c
    BY <1>4 DEF InTransit
  <2>2. \E i \in DOMAIN uds[m] : uds[m][i].conn = c
    <3>1. CASE m = p
      BY <1>1, <1>3, <2>1, <3>1
    <3>2. CASE m # p
      BY <1>1, <2>1, <3>2
    <3> QED BY <3>1, <3>2
  <2> QED BY <2>2 DEF InTransit
<1>5. ASSUME NEW c \in Conns, Head(uds[p]).conn # c, InTransit(c) PROVE InTransit(c)'
  <2>1. PICK m \in Listeners : \E i \in DOMAIN uds[m] : uds[m][i].conn = c
    BY <1>5 DEF InTransit
  <2>2. \E i \in DOMAIN uds'[m] : uds'[m][i].conn = c
    <3>1. CASE m = p
      <4>1. PICK i \in DOMAIN uds[p] : uds[p][i].conn = c
        BY <2>1, <3>1
      <4>2. i # 1
        BY <1>3, <1>5, <4>1
      <4>3. i - 1 \in DOMAIN uds'[p] /\ uds'[p][i - 1].conn = c
        BY <1>1, <1>3, <4>1, <4>2
      <4> QED BY <3>1, <4>3
    <3>2. CASE m # p
      BY <1>1, <2>1, <3>2
    <3> QED BY <3>1, <3>2
  <2> QED BY <2>2 DEF InTransit
<1>6. \A c \in Conns : Head(uds[p]).conn = c => InTransit(c)
  BY <1>3 DEF InTransit
<1> QED BY <1>4, <1>5, <1>6

LEMMA TransitSame ==
  ASSUME uds' = uds
  PROVE  \A c \in Conns : InTransit(c)' <=> InTransit(c)
BY DEF InTransit

-----------------------------------------------------------------------------
(* Library calls *)

LEMMA DropConns ==
  ASSUME TypeInv, NEW p \in Procs, Drop(p)
  PROVE  conn'[p] = NoConn /\ \A q \in Procs \ {p} : conn'[q] = conn[q]
BY DEF Drop, Reset, TypeInv, TypeOK

LEMMA CloseConnRefines ==
  ASSUME Inv, Inv', NEW p \in Procs, CloseConn(p)
  PROVE  SO!Next
<1>1. UNCHANGED <<client, consumed, resp, backlog, uds>> /\ Drop(p)
  BY DEF CloseConn, clientVars, streamVars
<1>2. \A q \in Procs : conn'[q] = conn[q] \/ conn'[q] = NoConn
  BY <1>1, DropConns DEF Inv
<1> QED BY <1>1, <1>2, TransitSame, ClosingRefines

LEMMA RecvFdFailsRefines ==
  ASSUME Inv, Inv', NEW p \in Listeners, RecvFdFails(p)
  PROVE  SO!Next
<1>1. /\ uds[p] # <<>> /\ uds' = [uds EXCEPT ![p] = Tail(uds[p])]
      /\ UNCHANGED <<client, consumed, resp, backlog, conn>>
  BY DEF RecvFdFails, clientVars, streamVars, localVars
<1>2. \A c \in Conns : InTransit(c)' => InTransit(c)
  BY <1>1, TransitTail DEF Inv
<1> QED BY <1>1, <1>2, ClosingRefines

LEMMA RecvFdRefines ==
  ASSUME Inv, Inv', NEW p \in Listeners, NEW next, RecvFd(p, next)
  PROVE  SO!Next
<1> USE ProcFacts
<1>1. /\ pc[p] = "accept" /\ uds[p] # <<>> /\ uds' = [uds EXCEPT ![p] = Tail(uds[p])]
      /\ conn' = [conn EXCEPT ![p] = Head(uds[p]).conn] /\ Head(uds[p]).conn # NoConn
      /\ UNCHANGED <<client, consumed, resp, backlog>>
  BY DEF RecvFd, TakeMessage, clientVars, streamVars
<1>2. PICK c \in Conns : c = Head(uds[p]).conn
  <2>1. uds[p] \in Seq(Entry)
    BY DEF Inv, TypeInv, TypeOK
  <2>2. Head(uds[p]) \in Entry
    BY <1>1, <2>1
  <2> QED BY <1>1, <2>2 DEF Entry
<1>3. conn[p] = NoConn /\ conn'[p] = c /\ \A q \in Procs \ {p} : conn'[q] = conn[q]
  BY <1>1, <1>2 DEF Inv, TypeInv, TypeOK, PcOK
<1>4. HolderMap /\ HolderMap'
  BY HolderIs, HolderNext
<1>5. InTransit(c) /\ \A d \in Conns \ {c} : InTransit(d)' <=> InTransit(d)
  BY <1>1, <1>2, TransitTail DEF Inv
<1>6. Holder(c) = "transit"
  BY <1>4, <1>5 DEF HolderMap
<1>7. Holder(c)' = IF p \in Functions THEN p ELSE "gateway"
  <2>1. client'[c] # "idle"
    BY <1>1, <1>4, <1>5 DEF HolderMap
  <2>2. CASE p \in Functions
    BY <1>3, <1>4, <2>1, <2>2 DEF HolderMap
  <2>3. CASE p = Relayer
    <3>1. AtGateway(c)'
      BY <1>3, <2>3 DEF AtGateway
    <3> QED BY <1>4, <2>1, <2>3, <3>1 DEF HolderMap
  <2> QED BY <2>2, <2>3 DEF Listeners
<1>8. ASSUME NEW d \in Conns \ {c} PROVE Holder(d)' = Holder(d)
  <2>1. \A q \in Procs : conn'[q] = d <=> conn[q] = d
    BY <1>3
  <2>2. AtGateway(d)' <=> AtGateway(d)
    BY <1>1, <2>1 DEF AtGateway
  <2> QED BY <1>1, <1>5, <2>1, <2>2, HolderKept
<1>9. (IF p \in Functions THEN p ELSE "gateway") \in Functions \cup {"gateway"}
  OBVIOUS
<1> QED BY <1>1, <1>6, <1>7, <1>8, <1>9, SOReceive

LEMMA HandOffRefines ==
  ASSUME Inv, Inv', NEW p \in Procs, NEW c \in Conns, conn[p] = c, NEW l, HandOff(p, l)
  PROVE  SO!Next
<1> USE ProcFacts
<1>1. /\ UNCHANGED <<client, consumed, resp, backlog>> /\ Drop(p)
      /\ ConnectRefused(p, l) \/ SendFd(p, l) \/ SendFdFails(p, l)
  BY DEF HandOff, ConnectRefused, SendFd, SendFdFails, clientVars, streamVars
<1>2. conn'[p] = NoConn /\ \A q \in Procs \ {p} : conn'[q] = conn[q]
  BY <1>1, DropConns DEF Inv
<1>3. CASE ConnectRefused(p, l)
  BY <1>1, <1>2, <1>3, TransitSame, ClosingRefines DEF ConnectRefused
<1>4. CASE SendFdFails(p, l)
  <2>1. l \in Listeners /\ uds' = [uds EXCEPT ![l] = Append(uds[l], EmptyEntry)]
    BY <1>4 DEF SendFdFails, Listening
  <2>2. EmptyEntry \in Entry /\ EmptyEntry.conn = NoConn
    BY DefaultTypes DEF EmptyEntry
  <2>3. \A d \in Conns : InTransit(d)' => InTransit(d)
    BY <2>1, <2>2, TransitAppend DEF Inv
  <2> QED BY <1>1, <1>2, <2>3, ClosingRefines
<1>5. CASE SendFd(p, l)
  <2> DEFINE m == Message(p)
  <2>1. l \in Listeners /\ uds' = [uds EXCEPT ![l] = Append(uds[l], m)]
    BY <1>5 DEF SendFd, Listening
  <2>2. m \in Entry /\ m.conn = c
    BY DEF Message, Entry, Inv, TypeInv, TypeOK
  <2> HIDE DEF m
  <2>3. \A d \in Conns : InTransit(d)' <=> InTransit(d) \/ m.conn = d
    BY <2>1, <2>2, TransitAppend DEF Inv
  <2>4. client[c] # "idle" /\ Holder(c) \in Functions \cup {"gateway"}
    BY HeldByProcess
  <2>5. Holder(c)' = "transit"
    BY <1>1, <2>2, <2>3, <2>4, HolderNext DEF HolderMap
  <2>6. ASSUME NEW d \in Conns \ {c} PROVE Holder(d)' = Holder(d)
    <3>1. \A q \in Procs : conn'[q] = d <=> conn[q] = d
      BY <1>2
    <3>2. AtGateway(d)' <=> AtGateway(d)
      BY <1>1, <3>1 DEF AtGateway
    <3>3. InTransit(d)' <=> InTransit(d)
      BY <2>2, <2>3
    <3> QED BY <1>1, <3>1, <3>2, <3>3, HolderKept
  <2> QED BY <1>1, <2>4, <2>5, <2>6, SOHandOver
<1> QED BY <1>1, <1>3, <1>4, <1>5

-----------------------------------------------------------------------------
(* Steps *)

(* A step that moves no descriptor and closes none. *)
LEMMA StillHeld ==
  ASSUME Inv, Inv', UNCHANGED <<backlog, uds, conn>>,
         \A c \in Conns : client'[c] = "idle" <=> client[c] = "idle"
  PROVE  \A c \in Conns : Holder(c)' = Holder(c)
<1> SUFFICES ASSUME NEW c \in Conns PROVE Holder(c)' = Holder(c)
  OBVIOUS
<1>1. (AtGateway(c)' <=> AtGateway(c)) /\ (InTransit(c)' <=> InTransit(c))
  BY DEF AtGateway, InTransit
<1> QED BY <1>1, HolderKept

LEMMA ClientRefines ==
  ASSUME Inv, Inv', NEW c \in Conns, ClientStep(c)
  PROVE  SO!Next \/ UNCHANGED SO!svars
<1> USE ProcFacts
<1>0. UNCHANGED <<consumed, resp, uds, conn>>
  BY DEF ClientStep, Connect, Hello, IssueRequest, RestArrives, ClientClose, SendRecord,
         streamVars, localVars
<1>1. CASE Connect(c)
  <2>1. /\ client[c] = "idle" /\ client'[c] = "connected" /\ c \in backlog'
        /\ \A d \in Conns \ {c} : client'[d] = client[d] /\ (d \in backlog' <=> d \in backlog)
    BY <1>1 DEF Connect, Inv, TypeInv, TypeOK
  <2>2. Holder(c) = "none"
    BY <2>1, HolderIs DEF HolderMap
  <2>3. Holder(c)' = "gateway"
    <3>1. AtGateway(c)'
      BY <2>1 DEF AtGateway
    <3> QED BY <2>1, <3>1, HolderNext DEF HolderMap
  <2>4. ASSUME NEW d \in Conns \ {c} PROVE Holder(d)' = Holder(d)
    <3>1. (AtGateway(d)' <=> AtGateway(d)) /\ (InTransit(d)' <=> InTransit(d))
      BY <1>0, <2>1 DEF AtGateway, InTransit
    <3> QED BY <1>0, <2>1, <3>1, HolderKept
  <2> QED BY <1>0, <2>2, <2>3, <2>4, SOArrive
<1>2. CASE ~Connect(c)
  <2>1. backlog' = backlog /\ \A d \in Conns : client'[d] = "idle" <=> client[d] = "idle"
    BY <1>2, ZenonT(60) DEF ClientStep, Hello, IssueRequest, RestArrives, ClientClose, SendRecord,
         Inv, TypeInv, TypeOK
  <2> QED BY <1>0, <2>1, StillHeld, SOStutter
<1> QED BY <1>1, <1>2

LEMMA AcceptorRefines ==
  ASSUME Inv, Inv', AcceptorStep
  PROVE  SO!Next \/ UNCHANGED SO!svars
<1> USE ProcFacts
<1>1. CASE Accept
  <2>1. PICK c \in backlog : /\ backlog' = backlog \ {c}
                             /\ conn' = [conn EXCEPT ![Acceptor] = c]
    BY <1>1 DEF Accept
  <2>2. /\ c \in Conns /\ UNCHANGED <<client, uds, consumed, resp>> /\ conn[Acceptor] = NoConn
        /\ conn'[Acceptor] = c /\ \A q \in Procs \ {Acceptor} : conn'[q] = conn[q]
    BY <1>1, <2>1 DEF Accept, clientVars, streamVars, Inv, TypeInv, TypeOK, PcOK
  <2>3. ASSUME NEW d \in Conns PROVE Holder(d)' = Holder(d)
    <3>1. AtGateway(d)' <=> AtGateway(d)
      BY <2>1, <2>2 DEF AtGateway
    <3> QED BY <2>2, <3>1, TransitSame, HolderKept
  <2> QED BY <2>2, <2>3, SOStutter
<1>2. CASE Handshake \/ \E f \in GatewayNames : PeekAndExport(f)
  <2>1. UNCHANGED <<backlog, uds, conn, consumed, resp>>
    BY <1>2 DEF Handshake, PeekAndExport, streamVars
  <2>2. \A d \in Conns : client'[d] = "idle" <=> client[d] = "idle"
    BY <1>2 DEF Handshake, PeekAndExport, clientVars, Inv, TypeInv, TypeOK
  <2> QED BY <2>1, <2>2, StillHeld, SOStutter
<1>3. CASE HandshakeFails \/ PeekAndExportFails
  BY <1>3, CloseConnRefines DEF HandshakeFails, PeekAndExportFails
<1>4. CASE DispatchToFunction(Acceptor)
  <2>1. PICK c \in Conns : conn[Acceptor] = c
    BY <1>4, Busy DEF DispatchToFunction, Inv
  <2> QED BY <1>4, <2>1, HandOffRefines DEF DispatchToFunction
<1> QED BY <1>1, <1>2, <1>3, <1>4 DEF AcceptorStep

LEMMA RelayerRefines ==
  ASSUME Inv, Inv', RelayerStep
  PROVE  SO!Next \/ UNCHANGED SO!svars
<1> USE ProcFacts
<1>1. CASE DispatchToFunction(Relayer)
  <2>1. PICK c \in Conns : conn[Relayer] = c
    BY <1>1, Busy DEF DispatchToFunction, Inv
  <2> QED BY <1>1, <2>1, HandOffRefines DEF DispatchToFunction
<1> QED BY <1>1, RecvFdRefines, RecvFdFailsRefines DEF RelayerStep

LEMMA RespondRefines ==
  ASSUME Inv, Inv', NEW w \in Functions, RespondAndKeep(w) \/ RespondAndClose(w)
  PROVE  SO!Next
<1> USE ProcFacts
<1>1. /\ pc[w] = "respond" /\ UNCHANGED <<client, backlog, uds, consumed>>
      /\ WriteResponse(w) /\ (conn' = conn \/ Drop(w))
  BY DEF RespondAndKeep, RespondAndClose, clientVars
<1>2. PICK c \in Conns : conn[w] = c
  BY <1>1, Busy DEF Inv
<1>3. /\ \A d \in Conns \ {c} : Len(resp'[d]) = Len(resp[d])
      /\ Len(resp'[c]) = Len(resp[c]) + 1
  <2>1. resp[c] \in Seq(Response) /\ resp \in [Conns -> Seq(Response)]
    BY DEF Inv, TypeInv, TypeOK
  <2> DEFINE r == [id |-> rd[w].id, by |-> w, seq |-> ssl[w].write]
  <2>2. r \in Response
    BY DEF Response, Inv, TypeInv, TypeOK, Session, ReadState
  <2>3. resp' = [resp EXCEPT ![c] = Append(resp[c], r)]
    BY <1>1, <1>2 DEF WriteResponse
  <2> HIDE DEF r
  <2>4. resp'[c] = Append(resp[c], r) /\ \A d \in Conns \ {c} : resp'[d] = resp[d]
    BY <2>1, <2>3
  <2> QED BY <2>1, <2>2, <2>4
<1>4. Holder(c) \in Functions /\ client[c] # "idle"
      /\ \A q \in Procs : conn[q] = c => q = w
  BY <1>2, HeldByProcess
<1>5. CASE conn' = conn
  <2>1. \A d \in Conns : Holder(d)' = Holder(d)
    BY <1>1, <1>5, StillHeld
  <2> QED BY <1>1, <1>3, <1>4, <2>1, SOAnswer
<1>6. CASE Drop(w)
  <2>1. conn'[w] = NoConn /\ \A q \in Procs \ {w} : conn'[q] = conn[q]
    BY <1>6, DropConns DEF Inv
  <2>2. ASSUME NEW d \in Conns \ {c} PROVE Holder(d)' = Holder(d)
    <3>1. \A q \in Procs : conn'[q] = d <=> conn[q] = d
      BY <1>2, <2>1
    <3>2. AtGateway(d)' <=> AtGateway(d)
      BY <1>1, <3>1 DEF AtGateway
    <3> QED BY <1>1, <3>1, <3>2, TransitSame, HolderKept
  <2>3. Holder(c)' = "lost"
    <3>1. ~AtGateway(c) /\ ~InTransit(c)
      BY <1>2, HolderIs DEF HolderMap, AtWorker
    <3>2. ~AtGateway(c)' /\ ~AtWorker(c)' /\ ~InTransit(c)'
      BY <1>1, <1>4, <2>1, <3>1, TransitSame DEF AtGateway, AtWorker
    <3> QED BY <1>1, <1>4, <3>2, HolderNext DEF HolderMap
  <2> QED BY <1>1, <1>3, <1>4, <2>2, <2>3, SOAnswer
<1> QED BY <1>1, <1>5, <1>6

LEMMA WorkerRefines ==
  ASSUME Inv, Inv', NEW w \in Functions, WorkerStep(w)
  PROVE  SO!Next \/ UNCHANGED SO!svars
<1> USE ProcFacts
<1>1. CASE RecvFd(w, "restore") \/ RecvFdFails(w)
  BY <1>1, RecvFdRefines, RecvFdFailsRefines
<1>2. CASE Restore(w) \/ PeekOwn(w) \/ PeekOther(w) \/ ReadHeadersPending(w)
  <2>1. UNCHANGED <<client, backlog, uds, conn, consumed, resp>>
    BY <1>2 DEF Restore, PeekOwn, PeekOther, ReadHeadersPending, clientVars, streamVars
  <2> QED BY <2>1, StillHeld, SOStutter
<1>3. CASE ReadHeaders(w) \/ ReadBody(w)
  <2>1. pc[w] \in {"headers", "body"} /\ UNCHANGED <<client, backlog, uds, conn, resp>>
        /\ consumed' = [consumed EXCEPT ![conn[w]] = consumed[conn[w]] + 1]
    BY <1>3 DEF ReadHeaders, ReadBody, clientVars
  <2>2. PICK c \in Conns : conn[w] = c
    BY <2>1, Busy DEF Inv
  <2>3. Holder(c) \in Functions
    BY <2>2, HeldByProcess
  <2> QED BY <2>1, <2>2, <2>3, StillHeld, SOTake
<1>4. CASE RestoreFails(w) \/ PeekOwnerFails(w) \/ ReadRequestFails(w) \/ RespondFails(w)
  BY <1>4, CloseConnRefines DEF RestoreFails, PeekOwnerFails, ReadRequestFails, RespondFails
<1>5. CASE RelayToGateway(w)
  <2>1. PICK c \in Conns : conn[w] = c
    BY <1>5, Busy DEF RelayToGateway, Inv
  <2> QED BY <1>5, <2>1, HandOffRefines DEF RelayToGateway
<1>6. CASE RespondAndKeep(w) \/ RespondAndClose(w)
  BY <1>6, RespondRefines
<1> QED BY <1>1, <1>2, <1>3, <1>4, <1>5, <1>6 DEF WorkerStep

LEMMA DieRefines ==
  ASSUME Inv, Inv', NEW P, Die(P), backlog' \subseteq backlog
  PROVE  SO!Next
<1>1. UNCHANGED <<client, consumed, resp>>
  BY DEF Die, clientVars, streamVars
<1>2. \A p \in Procs : conn'[p] = conn[p] \/ conn'[p] = NoConn
  BY DEF Die
<1>3. \A l \in Listeners : \A i \in DOMAIN uds'[l] :
        i \in DOMAIN uds[l] /\ uds'[l][i] = uds[l][i]
  BY DEF Die
<1>4. \A c \in Conns : InTransit(c)' => InTransit(c)
  BY <1>3 DEF InTransit
<1> QED BY <1>1, <1>2, <1>4, ClosingRefines

LEMMA StepRefines ==
  ASSUME Inv, Inv', [Next]_vars
  PROVE  SO!Next \/ UNCHANGED SO!svars
<1> USE ProcFacts
<1>1. CASE UNCHANGED vars \/ Finished \/ \E p \in Procs : Start(p)
  <2>1. UNCHANGED <<client, backlog, uds, conn, consumed, resp>>
    BY <1>1 DEF Finished, Start, vars, clientVars, streamVars, localVars
  <2> QED BY <2>1, StillHeld, SOStutter
<1>2. ASSUME NEW w \in Functions, WorkerDies(w) PROVE SO!Next
  BY <1>2, DieRefines DEF WorkerDies
<1>3. CASE GatewayDies
  <2>1. Die({Acceptor, Relayer}) /\ backlog' \subseteq backlog
    BY <1>3 DEF GatewayDies
  <2> QED BY <2>1, DieRefines
<1> QED BY <1>1, <1>2, <1>3, ClientRefines, AcceptorRefines, RelayerRefines, WorkerRefines
        DEF Next

LEMMA InvHolds == Spec => []Inv
BY Invariant DEF Inv

(***************************************************************************)
(* Keep-alive migration implements SessionOwnership: a session has one     *)
(* holder, travels through the messages of sendfd_with_state unchanged,    *)
(* is read and answered only in a function's process_session, and once     *)
(* any path, crash or refused connect closes it nobody has it again.       *)
(***************************************************************************)
THEOREM KeepaliveImplementsOwnership == Spec => ImplementsOwnership
<1>1. Init => SO!Init
  BY DEF Init, SO!Init, Holder
<1>2. Inv /\ Inv' /\ [Next]_vars => [SO!Next]_SO!svars
  BY StepRefines
<1> QED BY <1>1, <1>2, InvHolds, PTL DEF Spec, SO!Spec, ImplementsOwnership

-----------------------------------------------------------------------------
(* The crowd a circular wait takes *)

(***************************************************************************)
(* Every pending Unix connection, the empty ones that a failed sendmsg     *)
(* leaves behind included, stands for a client connection of its own: the  *)
(* one in the message, or the one its sender has closed.                   *)
(***************************************************************************)
Stands(g) ==
  /\ g \in [Listeners -> Seq(Conns)]
  /\ \A l \in Listeners : DOMAIN g[l] = DOMAIN uds[l]
  /\ \A l \in Listeners : \A i \in DOMAIN uds[l] :
       /\ client[g[l][i]] # "idle"
       /\ uds[l][i].conn \in Conns => g[l][i] = uds[l][i].conn
       /\ uds[l][i].conn = NoConn => ~Open(g[l][i])
  /\ \A l, m \in Listeners : \A i \in DOMAIN uds[l], j \in DOMAIN uds[m] :
       g[l][i] = g[m][j] => l = m /\ i = j


CrowdInv == (\E g : Stands(g)) /\ IsFiniteSet(Connected)

(* A connection that is closed, by SessionOwnership, stays closed. *)
LEMMA ClosedStays ==
  ASSUME Inv, Inv', [Next]_vars, NEW c \in Conns, client[c] # "idle"
  PROVE  client'[c] # "idle" /\ (~Open(c) => ~Open(c)')
<1>1. HolderMap /\ HolderMap'
  BY HolderIs, HolderNext
<1>2. SO!Next \/ UNCHANGED SO!svars
  BY StepRefines
<1>3. Holder(c) # "none" /\ (~Open(c) => Holder(c) = "lost")
  <2>1. CASE AtWorker(c)
    BY <1>1, <2>1, PlacesDistinct DEF HolderMap, AtWorker
  <2>2. CASE ~AtWorker(c)
    BY <1>1, <2>2 DEF HolderMap
  <2> QED BY <2>1, <2>2
<1>4. (Holder(c)' # "none") /\ (Holder(c) = "lost" => Holder(c)' = "lost")
  <2>1. CASE UNCHANGED SO!svars
    <3>1. [d \in Conns |-> Holder(d)]' = [d \in Conns |-> Holder(d)]
      BY <2>1 DEF SO!svars
    <3>2. Holder(c)' = Holder(c)
      BY <3>1
    <3> QED BY <1>3, <3>2
  <2>2. ASSUME NEW d \in Conns, SO!Use(d)
        PROVE  (Holder(c)' # "none") /\ (Holder(c) = "lost" => Holder(c)' = "lost")
    <3>1. CASE [e \in Conns |-> Holder(e)]' = [e \in Conns |-> Holder(e)]
      BY <1>3, <3>1
    <3>2. CASE [e \in Conns |-> Holder(e)]' = [[e \in Conns |-> Holder(e)] EXCEPT ![d] = "lost"]
      BY <1>3, <3>2
    <3> QED BY <2>2, <3>1, <3>2 DEF SO!Use
  <2>3. CASE SO!Next /\ ~\E d \in Conns : SO!Use(d)
    BY <1>3, <2>3, PlacesDistinct
       DEF SO!Next, SO!Arrive, SO!HandOver, SO!Receive, SO!Lose
  <2> QED BY <1>2, <2>1, <2>2, <2>3
<1>5. client'[c] # "idle"
  BY <1>1, <1>4 DEF HolderMap
<1>6. Holder(c)' = "lost" => ~Open(c)'
  <2>1. CASE AtWorker(c)'
    BY <1>1, <1>5, <2>1, PlacesDistinct DEF HolderMap, AtWorker
  <2>2. CASE ~AtWorker(c)'
    BY <1>1, <1>5, <2>2 DEF HolderMap
  <2> QED BY <2>1, <2>2
<1> QED BY <1>3, <1>4, <1>5, <1>6

(* A pending connection that stays in its queue still stands for its own. *)
LEMMA StillStands ==
  ASSUME Inv, Inv', [Next]_vars, NEW g, Stands(g),
         NEW l \in Listeners, NEW i \in DOMAIN uds[l], NEW c, c = g[l][i]
  PROVE  /\ c \in Conns /\ client'[c] # "idle"
         /\ uds[l][i].conn \in Conns => c = uds[l][i].conn
         /\ uds[l][i].conn = NoConn => ~Open(c)'
<1>1. c \in Conns
  BY DEF Stands
<1>2. /\ client[c] # "idle" /\ (uds[l][i].conn \in Conns => c = uds[l][i].conn)
      /\ (uds[l][i].conn = NoConn => ~Open(c))
  BY DEF Stands
<1>3. client'[c] # "idle" /\ (~Open(c) => ~Open(c)')
  BY <1>1, <1>2, ClosedStays
<1> QED BY <1>1, <1>2, <1>3

(* Stands, for queues of the next state. *)
LEMMA StandsNext ==
  ASSUME NEW h, h \in [Listeners -> Seq(Conns)],
         \A l \in Listeners : DOMAIN h[l] = DOMAIN uds'[l],
         \A l \in Listeners : \A i \in DOMAIN uds'[l] : \A c \in Conns : c = h[l][i] =>
           /\ client'[c] # "idle"
           /\ uds'[l][i].conn \in Conns => c = uds'[l][i].conn
           /\ uds'[l][i].conn = NoConn => ~Open(c)',
         \A l, m \in Listeners : \A i \in DOMAIN uds'[l], j \in DOMAIN uds'[m] :
           h[l][i] = h[m][j] => l = m /\ i = j
  PROVE  Stands(h)'
<1>1. ASSUME NEW l \in Listeners, NEW i \in DOMAIN uds'[l]
      PROVE  /\ client'[h[l][i]] # "idle"
             /\ uds'[l][i].conn \in Conns => h[l][i] = uds'[l][i].conn
             /\ uds'[l][i].conn = NoConn => ~Open(h[l][i])'
  <2>1. PICK c \in Conns : c = h[l][i]
    OBVIOUS
  <2>2. ~Open(c)' => ~Open(h[l][i])'
    BY <2>1
  <2> QED BY <2>1, <2>2
<1> QED BY <1>1 DEF Stands

(* Queues unchanged, or dropped with their process. *)
LEMMA StandsShrink ==
  ASSUME Inv, Inv', [Next]_vars, NEW g, Stands(g),
         \A l \in Listeners : uds'[l] = uds[l] \/ uds'[l] = <<>>
  PROVE  \E h : Stands(h)'
<1>0. PICK h : h = [l \in Listeners |-> IF uds'[l] = uds[l] THEN g[l] ELSE <<>>]
  OBVIOUS
<1>1. /\ h \in [Listeners -> Seq(Conns)]
      /\ \A l \in Listeners : DOMAIN h[l] = DOMAIN uds'[l]
  BY <1>0 DEF Stands
<1>2. \A l \in Listeners : \A i \in DOMAIN uds'[l] :
        i \in DOMAIN uds[l] /\ uds'[l] = uds[l] /\ h[l][i] = g[l][i]
  BY <1>0
<1>3. ASSUME NEW l \in Listeners, NEW i \in DOMAIN uds'[l], NEW c \in Conns, c = h[l][i]
      PROVE  /\ client'[c] # "idle"
             /\ uds'[l][i].conn \in Conns => c = uds'[l][i].conn
             /\ uds'[l][i].conn = NoConn => ~Open(c)'
  BY <1>2, <1>3, StillStands
<1>4. \A l, m \in Listeners : \A i \in DOMAIN uds'[l], j \in DOMAIN uds'[m] :
        h[l][i] = h[m][j] => l = m /\ i = j
  BY <1>2 DEF Stands
<1>5. Stands(h)'
  BY <1>1, <1>3, <1>4, StandsNext
<1> QED BY <1>5

(* accept() takes the first pending connection. *)
LEMMA StandsTail ==
  ASSUME Inv, Inv', [Next]_vars, NEW g, Stands(g), NEW p \in Listeners,
         uds[p] # <<>>, uds' = [uds EXCEPT ![p] = Tail(uds[p])]
  PROVE  \E h : Stands(h)'
<1> DEFINE h == [g EXCEPT ![p] = Tail(g[p])]
           up1(l, i) == IF l = p THEN i + 1 ELSE i
<1>t. /\ uds \in [Listeners -> Seq(Entry)] /\ g \in [Listeners -> Seq(Conns)]
      /\ \A l \in Listeners : DOMAIN g[l] = DOMAIN uds[l]
  BY DEF Inv, TypeInv, TypeOK, Stands
<1>0. uds[p] \in Seq(Entry) /\ g[p] \in Seq(Conns) /\ DOMAIN g[p] = DOMAIN uds[p]
  BY <1>t
<1>1. /\ g[p] # <<>> /\ Tail(g[p]) \in Seq(Conns) /\ DOMAIN Tail(g[p]) = DOMAIN Tail(uds[p])
      /\ \A i \in DOMAIN Tail(uds[p]) : /\ i \in Nat /\ i + 1 \in DOMAIN uds[p]
                                        /\ Tail(uds[p])[i] = uds[p][i + 1]
                                        /\ Tail(g[p])[i] = g[p][i + 1]
  BY ONLY <1>0, uds[p] # <<>>
<1>2. /\ uds'[p] = Tail(uds[p]) /\ h[p] = Tail(g[p])
      /\ \A l \in Listeners \ {p} : uds'[l] = uds[l] /\ h[l] = g[l]
  BY <1>t
<1>3. /\ h \in [Listeners -> Seq(Conns)]
      /\ \A l \in Listeners : DOMAIN h[l] = DOMAIN uds'[l]
  <2>1. h \in [Listeners -> Seq(Conns)]
    BY <1>t, <1>1
  <2> HIDE DEF h
  <2>2. ASSUME NEW l \in Listeners PROVE DOMAIN h[l] = DOMAIN uds'[l]
    <3>1. CASE l = p
      BY <1>1, <1>2, <3>1
    <3>2. CASE l # p
      BY <1>t, <1>2, <3>2
    <3> QED BY <3>1, <3>2
  <2> QED BY <2>1, <2>2
<1> HIDE DEF h
<1>4. \A l \in Listeners : \A i \in DOMAIN uds'[l] :
        /\ up1(l, i) \in DOMAIN uds[l] /\ uds'[l][i] = uds[l][up1(l, i)]
        /\ h[l][i] = g[l][up1(l, i)]
  <2> SUFFICES ASSUME NEW l \in Listeners, NEW i \in DOMAIN uds'[l]
               PROVE  /\ up1(l, i) \in DOMAIN uds[l] /\ uds'[l][i] = uds[l][up1(l, i)]
                      /\ h[l][i] = g[l][up1(l, i)]
    OBVIOUS
  <2>1. CASE l = p
    BY <1>1, <1>2, <2>1
  <2>2. CASE l # p
    BY <1>2, <2>2
  <2> QED BY <2>1, <2>2
<1>5. \A l \in Listeners : \A i, j \in DOMAIN uds'[l] : up1(l, i) = up1(l, j) => i = j
  <2> SUFFICES ASSUME NEW l \in Listeners, NEW i \in DOMAIN uds'[l], NEW j \in DOMAIN uds'[l],
                      up1(l, i) = up1(l, j)
               PROVE  i = j
    OBVIOUS
  <2>1. CASE l = p
    <3>1. i \in Nat /\ j \in Nat /\ i + 1 = j + 1
      BY <1>1, <1>2, <2>1
    <3> QED BY ONLY <3>1
  <2> QED BY <2>1
<1> HIDE DEF up1
<1>6. ASSUME NEW l \in Listeners, NEW i \in DOMAIN uds'[l], NEW c \in Conns, c = h[l][i]
      PROVE  /\ client'[c] # "idle"
             /\ uds'[l][i].conn \in Conns => c = uds'[l][i].conn
             /\ uds'[l][i].conn = NoConn => ~Open(c)'
  <2>1. PICK k \in DOMAIN uds[l] : uds'[l][i] = uds[l][k] /\ c = g[l][k]
    BY <1>4, <1>6
  <2>2. /\ c \in Conns /\ client'[c] # "idle"
        /\ uds[l][k].conn \in Conns => c = uds[l][k].conn
        /\ uds[l][k].conn = NoConn => ~Open(c)'
    BY <2>1, StillStands
  <2> QED BY <2>1, <2>2
<1>7. ASSUME NEW l \in Listeners, NEW m \in Listeners, NEW i \in DOMAIN uds'[l],
             NEW j \in DOMAIN uds'[m], h[l][i] = h[m][j]
      PROVE  l = m /\ i = j
  <2>1. l = m /\ up1(l, i) = up1(m, j)
    BY <1>4, <1>7 DEF Stands
  <2> QED BY <1>5, <2>1
<1>8. Stands(h)'
  BY <1>3, <1>6, <1>7, StandsNext
<1> QED BY <1>8

(* connect() adds one: the sender's own connection, in the message or closed. *)
LEMMA StandsAppend ==
  ASSUME Inv, Inv', [Next]_vars, NEW g, Stands(g), NEW l \in Listeners, NEW e \in Entry,
         uds' = [uds EXCEPT ![l] = Append(uds[l], e)],
         NEW p \in Procs, NEW c \in Conns, conn[p] = c,
         e.conn = c \/ (e.conn = NoConn /\ ~Open(c)')
  PROVE  \E h : Stands(h)'
<1> DEFINE h == [g EXCEPT ![l] = Append(g[l], c)]
           n == Len(uds[l]) + 1
<1>t. /\ uds \in [Listeners -> Seq(Entry)] /\ g \in [Listeners -> Seq(Conns)]
      /\ \A m \in Listeners : DOMAIN g[m] = DOMAIN uds[m]
  BY DEF Inv, TypeInv, TypeOK, Stands
<1>0. uds[l] \in Seq(Entry) /\ g[l] \in Seq(Conns) /\ DOMAIN g[l] = DOMAIN uds[l]
  BY <1>t
<1>1. /\ Append(g[l], c) \in Seq(Conns)
      /\ DOMAIN Append(g[l], c) = DOMAIN Append(uds[l], e)
      /\ \A i \in DOMAIN Append(uds[l], e) :
           \/ /\ i \in DOMAIN uds[l] /\ Append(uds[l], e)[i] = uds[l][i]
              /\ Append(g[l], c)[i] = g[l][i]
           \/ i = n /\ Append(uds[l], e)[i] = e /\ Append(g[l], c)[i] = c
  <2>1. Len(g[l]) = Len(uds[l])
    BY ONLY <1>0
  <2> QED BY ONLY <1>0, <2>1, c \in Conns, e \in Entry
<1>2. /\ uds'[l] = Append(uds[l], e) /\ h[l] = Append(g[l], c)
      /\ \A m \in Listeners \ {l} : uds'[m] = uds[m] /\ h[m] = g[m]
  BY <1>t
<1>3. /\ h \in [Listeners -> Seq(Conns)]
      /\ \A m \in Listeners : DOMAIN h[m] = DOMAIN uds'[m]
  <2>1. h \in [Listeners -> Seq(Conns)]
    BY <1>t, <1>1
  <2> HIDE DEF h
  <2>2. ASSUME NEW m \in Listeners PROVE DOMAIN h[m] = DOMAIN uds'[m]
    <3>1. CASE m = l
      BY <1>1, <1>2, <3>1
    <3>2. CASE m # l
      BY <1>t, <1>2, <3>2
    <3> QED BY <3>1, <3>2
  <2> QED BY <2>1, <2>2
<1> HIDE DEF h, n
<1>4. \A m \in Listeners : \A i \in DOMAIN uds'[m] :
        \/ i \in DOMAIN uds[m] /\ uds'[m][i] = uds[m][i] /\ h[m][i] = g[m][i]
        \/ m = l /\ i = n /\ uds'[m][i] = e /\ h[m][i] = c
  <2> SUFFICES ASSUME NEW m \in Listeners, NEW i \in DOMAIN uds'[m]
               PROVE  \/ i \in DOMAIN uds[m] /\ uds'[m][i] = uds[m][i] /\ h[m][i] = g[m][i]
                      \/ m = l /\ i = n /\ uds'[m][i] = e /\ h[m][i] = c
    OBVIOUS
  <2>1. CASE m = l
    BY <1>1, <1>2, <2>1
  <2>2. CASE m # l
    BY <1>2, <2>2
  <2> QED BY <2>1, <2>2
<1>5. /\ client[c] # "idle" /\ Open(c)
      /\ \A m \in Listeners : \A i \in DOMAIN uds[m] : uds[m][i].conn # c
  BY Exclusive DEF Inv, Open
<1>6. client'[c] # "idle"
  BY <1>5, ClosedStays
<1>7. \A m \in Listeners : \A i \in DOMAIN uds[m] : g[m][i] # c
  <2> SUFFICES ASSUME NEW m \in Listeners, NEW i \in DOMAIN uds[m], g[m][i] = c PROVE FALSE
    OBVIOUS
  <2>1. uds[m][i] \in Entry
    BY <1>t
  <2>2. uds[m][i].conn \in Conns \/ uds[m][i].conn = NoConn
    BY <2>1 DEF Entry
  <2>3. uds[m][i].conn \in Conns => uds[m][i].conn = c
    BY DEF Stands
  <2>4. uds[m][i].conn = NoConn => ~Open(g[m][i])
    BY DEF Stands
  <2>5. Open(g[m][i])
    BY <1>5
  <2> QED BY <1>5, <2>2, <2>3, <2>4, <2>5
<1>8. ASSUME NEW m \in Listeners, NEW i \in DOMAIN uds'[m], NEW d \in Conns, d = h[m][i]
      PROVE  /\ client'[d] # "idle"
             /\ uds'[m][i].conn \in Conns => d = uds'[m][i].conn
             /\ uds'[m][i].conn = NoConn => ~Open(d)'
  <2>1. CASE i \in DOMAIN uds[m] /\ uds'[m][i] = uds[m][i] /\ h[m][i] = g[m][i]
    <3>1. /\ d \in Conns /\ client'[d] # "idle"
          /\ uds[m][i].conn \in Conns => d = uds[m][i].conn
          /\ uds[m][i].conn = NoConn => ~Open(d)'
      BY <1>8, <2>1, StillStands
    <3> QED BY <2>1, <3>1
  <2>2. CASE uds'[m][i] = e /\ h[m][i] = c
    BY <1>6, <1>8, <2>2, ProcFacts
  <2> QED BY <1>4, <2>1, <2>2
<1>9. ASSUME NEW m \in Listeners, NEW k \in Listeners, NEW i \in DOMAIN uds'[m],
             NEW j \in DOMAIN uds'[k], h[m][i] = h[k][j]
      PROVE  m = k /\ i = j
  BY <1>4, <1>7, <1>9 DEF Stands
<1>10. Stands(h)'
  BY <1>3, <1>8, <1>9, StandsNext
<1> QED BY <1>10

(* The socket calls of a step, seen from the queues. *)
LEMMA StandsHandOff ==
  ASSUME Inv, Inv', [Next]_vars, NEW g, Stands(g), NEW p \in Procs, NEW l, HandOff(p, l),
         pc[p] \notin {"accept", "down"}
  PROVE  \E h : Stands(h)'
<1> USE ProcFacts
<1>1. PICK c \in Conns : conn[p] = c
  BY Busy DEF Inv
<1>2. ConnectRefused(p, l) \/ SendFd(p, l) \/ SendFdFails(p, l)
  BY DEF HandOff
<1>3. CASE ConnectRefused(p, l)
  BY <1>3, StandsShrink DEF ConnectRefused
<1>4. CASE SendFd(p, l)
  <2>1. l \in Listeners /\ uds' = [uds EXCEPT ![l] = Append(uds[l], Message(p))]
    BY <1>4 DEF SendFd, Listening
  <2>2. Message(p) \in Entry /\ Message(p).conn = c
    BY <1>1 DEF Message, Entry, Inv, TypeInv, TypeOK
  <2> QED BY <1>1, <2>1, <2>2, StandsAppend
<1>5. CASE SendFdFails(p, l)
  <2>1. /\ l \in Listeners /\ uds' = [uds EXCEPT ![l] = Append(uds[l], EmptyEntry)]
        /\ Drop(p) /\ backlog' = backlog
    BY <1>5 DEF SendFdFails, Listening, HandOff
  <2>2. EmptyEntry \in Entry /\ EmptyEntry.conn = NoConn
    BY DefaultTypes DEF EmptyEntry
  <2>3. ~Open(c)'
    <3>1. conn'[p] = NoConn /\ \A q \in Procs \ {p} : conn'[q] = conn[q]
      BY <2>1, DropConns DEF Inv
    <3>2. /\ c \notin backlog /\ \A q \in Procs \ {p} : conn[q] # c
          /\ \A m \in Listeners : \A i \in DOMAIN uds[m] : uds[m][i].conn # c
      BY <1>1, Exclusive DEF Inv
    <3>3. ~InTransit(c)
      BY <3>2 DEF InTransit
    <3>4. ~InTransit(c)'
      BY <2>1, <2>2, <3>3, TransitAppend DEF Inv
    <3>5. ~AtGateway(c)' /\ ~AtWorker(c)'
      BY <2>1, <3>1, <3>2 DEF AtGateway, AtWorker
    <3> QED BY <3>4, <3>5, HolderNext DEF HolderMap
  <2> QED BY <1>1, <2>1, <2>2, <2>3, StandsAppend
<1> QED BY <1>2, <1>3, <1>4, <1>5

LEMMA CrowdStep ==
  ASSUME Inv, Inv', [Next]_vars, NEW g, Stands(g)
  PROVE  \E h : Stands(h)'
<1> USE ProcFacts
<1>1. CASE \E p \in Listeners : RecvFdFails(p) \/ \E next \in {"dispatch", "restore"} : RecvFd(p, next)
  <2>1. PICK p \in Listeners : uds[p] # <<>> /\ uds' = [uds EXCEPT ![p] = Tail(uds[p])]
    BY <1>1 DEF RecvFd, RecvFdFails
  <2> QED BY <2>1, StandsTail
<1>2. CASE \E p \in Procs : \E l : pc[p] \in {"dispatch", "relay"} /\ HandOff(p, l)
  BY <1>2, StandsHandOff
<1>3. CASE \E P : Die(P)
  BY <1>3, StandsShrink DEF Die
<1>4. CASE uds' = uds
  BY <1>4, StandsShrink
<1>5. \/ uds' = uds
      \/ \E p \in Listeners : RecvFdFails(p) \/ \E next \in {"dispatch", "restore"} : RecvFd(p, next)
      \/ \E p \in Procs : \E l : pc[p] \in {"dispatch", "relay"} /\ HandOff(p, l)
      \/ \E P : Die(P)
  <2>1. ASSUME NEW c \in Conns, ClientStep(c) PROVE uds' = uds
    BY <2>1 DEF ClientStep, Connect, Hello, IssueRequest, RestArrives, ClientClose, SendRecord
  <2>2. CASE AcceptorStep
    BY <2>2 DEF AcceptorStep, Accept, Handshake, HandshakeFails, PeekAndExport,
         PeekAndExportFails, DispatchToFunction, CloseConn
  <2>3. CASE RelayerStep
    BY <2>3 DEF RelayerStep, DispatchToFunction
  <2>4. ASSUME NEW w \in Functions, WorkerStep(w)
        PROVE  \/ uds' = uds \/ RecvFdFails(w) \/ RecvFd(w, "restore")
               \/ pc[w] = "relay" /\ HandOff(w, Relayer)
    BY <2>4 DEF WorkerStep, Restore, RestoreFails, PeekOwn, PeekOther, PeekOwnerFails,
         RelayToGateway, ReadHeadersPending, ReadHeaders, ReadBody, ReadRequestFails,
         RespondAndKeep, RespondAndClose, RespondFails, CloseConn
  <2>5. CASE \E w \in Functions : WorkerDies(w)
    BY <2>5 DEF WorkerDies
  <2>6. CASE GatewayDies
    BY <2>6 DEF GatewayDies
  <2>7. CASE UNCHANGED vars \/ Finished \/ \E p \in Procs : Start(p)
    BY <2>7 DEF Finished, Start, vars
  <2> QED BY <2>1, <2>2, <2>3, <2>4, <2>5, <2>6, <2>7 DEF Next
<1> QED BY <1>1, <1>2, <1>3, <1>4, <1>5

(* One client connects at a time. *)
LEMMA ConnectedFinite ==
  ASSUME Inv, [Next]_vars, IsFiniteSet(Connected)
  PROVE  IsFiniteSet(Connected)'
<1>1. ASSUME NEW c \in Conns, ClientStep(c)
      PROVE  \A d \in Conns : client'[d] # "idle" => client[d] # "idle" \/ d = c
  BY <1>1 DEF ClientStep, Connect, Hello, IssueRequest, RestArrives, ClientClose, SendRecord,
     Inv, TypeInv, TypeOK
<1>2. CASE Handshake
  <2>1. conn[Acceptor] \in Conns /\ client[conn[Acceptor]] = "hello"
    BY <1>2, Busy, ProcFacts DEF Handshake, Inv
  <2> QED BY <1>2, <2>1 DEF Handshake, Inv, TypeInv, TypeOK, Connected
<1>3. CASE ~Handshake /\ ~\E c \in Conns : ClientStep(c)
  <2>1. client' = client
    BY <1>3, ZenonT(60) DEF Next, AcceptorStep, Accept, HandshakeFails, PeekAndExport, PeekAndExportFails,
       DispatchToFunction, RelayerStep, HandOff, CloseConn, RecvFd, RecvFdFails, WorkerStep,
       Restore, RestoreFails, PeekOwn, PeekOther, PeekOwnerFails, RelayToGateway,
       ReadHeadersPending, ReadHeaders, ReadBody, ReadRequestFails, RespondAndKeep,
       RespondAndClose, RespondFails, WorkerDies, GatewayDies, Die, Finished, Start, vars,
       clientVars
  <2> QED BY <2>1 DEF Connected
<1>4. ASSUME NEW c \in Conns, ClientStep(c) PROVE IsFiniteSet(Connected)'
  <2>1. Connected' \in SUBSET (Connected \cup {c})
    BY <1>1, <1>4 DEF Connected
  <2>2. IsFiniteSet(Connected \cup {c})
    BY FS_AddElement
  <2> QED BY <2>1, <2>2, FS_Subset
<1> QED BY <1>2, <1>3, <1>4

LEMMA CrowdInvariant == Spec => []CrowdInv
<1>1. Init => CrowdInv
  <2> SUFFICES ASSUME Init PROVE CrowdInv
    OBVIOUS
  <2>1. Connected = {}
    BY DEF Init, Connected
  <2>2. Stands([l \in Listeners |-> <<>>])
    BY DEF Init, Stands
  <2> QED BY <2>1, <2>2, FS_EmptySet DEF CrowdInv
<1>2. Inv /\ Inv' /\ CrowdInv /\ [Next]_vars => CrowdInv'
  <2> SUFFICES ASSUME Inv, Inv', CrowdInv, [Next]_vars PROVE CrowdInv'
    OBVIOUS
  <2>1. PICK g : Stands(g)
    BY DEF CrowdInv
  <2>2. \E h : Stands(h)'
    BY <2>1, CrowdStep
  <2>3. IsFiniteSet(Connected)'
    BY ConnectedFinite DEF CrowdInv
  <2> QED BY <2>2, <2>3 DEF CrowdInv
<1> QED BY <1>1, <1>2, InvHolds, PTL DEF Spec

(* A pending connection stands for another client than any process works on. *)
LEMMA StandsApart ==
  ASSUME Inv, NEW g, Stands(g), NEW p \in Procs, conn[p] \in Conns,
         NEW l \in Listeners, NEW i \in DOMAIN uds[l]
  PROVE  g[l][i] # conn[p]
<1> SUFFICES ASSUME g[l][i] = conn[p] PROVE FALSE
  OBVIOUS
<1>1. Open(g[l][i]) /\ uds[l][i].conn # conn[p]
  BY Exclusive DEF Inv, Open
<1>2. uds[l][i] \in Entry
  BY DEF Inv, TypeInv, TypeOK
<1> QED BY <1>1, <1>2 DEF Stands, Entry

(* Two full queues and the two processes that wait for room in them.        *)
LEMMA CircleNeedsCrowd ==
  ASSUME Inv, CrowdInv, NEW w \in Functions, CircularWait(w)
  PROVE  Cardinality(Connected) >= 2 * MaxQueue + 2
<1> USE ProcFacts
<1>1. PICK g : Stands(g)
  BY DEF CrowdInv
<1> DEFINE n == MaxQueue
           f == [i \in 1..(2 * n + 2) |->
                   IF i <= n THEN g[w][i]
                   ELSE IF i <= 2 * n THEN g[Relayer][i - n]
                   ELSE IF i = 2 * n + 1 THEN conn[w] ELSE conn[Relayer]]
<1>0. n \in Nat
  BY ConstantsOK
<1>2. DOMAIN uds[w] = 1..n /\ DOMAIN uds[Relayer] = 1..n
  <2>1. uds[w] \in Seq(Entry) /\ uds[Relayer] \in Seq(Entry)
    BY DEF Inv, TypeInv, TypeOK
  <2> QED BY <2>1 DEF CircularWait
<1>3. /\ conn[w] \in Conns /\ conn[Relayer] \in Conns /\ conn[w] # conn[Relayer]
      /\ client[conn[w]] # "idle" /\ client[conn[Relayer]] # "idle"
  <2>1. conn[w] \in Conns /\ conn[Relayer] \in Conns
    BY Busy DEF CircularWait, Inv
  <2> QED BY <2>1, Exclusive DEF Inv
<1>4. \A l \in Listeners : \A i \in DOMAIN uds[l] :
        g[l][i] \in Conns /\ client[g[l][i]] # "idle"
  BY <1>1 DEF Stands
<1>5. ASSUME NEW p \in Procs, conn[p] \in Conns, NEW l \in Listeners, NEW i \in DOMAIN uds[l]
      PROVE  g[l][i] # conn[p]
  BY <1>1, <1>5, StandsApart
<1>6. /\ \A i \in 1..n : g[w][i] \in Connected /\ g[Relayer][i] \in Connected
      /\ \A i, j \in 1..n : g[w][i] # g[Relayer][j]
      /\ \A i, j \in 1..n : g[w][i] = g[w][j] => i = j
      /\ \A i, j \in 1..n : g[Relayer][i] = g[Relayer][j] => i = j
      /\ conn[w] \in Connected /\ conn[Relayer] \in Connected
      /\ \A i \in 1..n : /\ g[w][i] # conn[w] /\ g[w][i] # conn[Relayer]
                         /\ g[Relayer][i] # conn[w] /\ g[Relayer][i] # conn[Relayer]
  <2>1. \A i \in 1..n : g[w][i] \in Connected /\ g[Relayer][i] \in Connected
    BY <1>2, <1>4 DEF Connected
  <2>2. /\ \A i, j \in 1..n : g[w][i] # g[Relayer][j]
        /\ \A i, j \in 1..n : g[w][i] = g[w][j] => i = j
        /\ \A i, j \in 1..n : g[Relayer][i] = g[Relayer][j] => i = j
    <3>0. \A l, m \in Listeners : \A i \in DOMAIN uds[l], j \in DOMAIN uds[m] :
            g[l][i] = g[m][j] => l = m /\ i = j
      BY <1>1 DEF Stands
    <3> HIDE DEF n
    <3>1. ASSUME NEW l \in {w, Relayer}, NEW m \in {w, Relayer}, NEW i \in 1..n, NEW j \in 1..n,
                 g[l][i] = g[m][j]
          PROVE  l = m /\ i = j
      <4>1. l \in Listeners /\ m \in Listeners /\ i \in DOMAIN uds[l] /\ j \in DOMAIN uds[m]
        BY <1>2
      <4> QED BY ONLY <3>0, <3>1, <4>1
    <3> QED BY <3>1
  <2>3. conn[w] \in Connected /\ conn[Relayer] \in Connected
    BY <1>3 DEF Connected
  <2>4. \A i \in 1..n : /\ g[w][i] # conn[w] /\ g[w][i] # conn[Relayer]
                        /\ g[Relayer][i] # conn[w] /\ g[Relayer][i] # conn[Relayer]
    BY <1>2, <1>3, <1>5
  <2> QED BY <2>1, <2>2, <2>3, <2>4
<1>7. f \in Injection(1..(2 * n + 2), Connected)
  <2> HIDE DEF n
  <2>1. ASSUME NEW i \in 1..(2 * n + 2) PROVE f[i] \in Connected
    BY <1>0, <1>6, <2>1
  <2>2. ASSUME NEW i \in 1..(2 * n + 2), NEW j \in 1..(2 * n + 2), f[i] = f[j]
        PROVE  i = j
    <3> DEFINE a == g[w]
               b == g[Relayer]
               x == conn[w]
               y == conn[Relayer]
    <3>1. /\ \A k, m \in 1..n : a[k] # b[m]
          /\ \A k, m \in 1..n : a[k] = a[m] => k = m
          /\ \A k, m \in 1..n : b[k] = b[m] => k = m
          /\ \A k \in 1..n : a[k] # x /\ a[k] # y /\ b[k] # x /\ b[k] # y
          /\ x # y
      BY <1>3, <1>6
    <3>2. /\ f[i] = IF i <= n THEN a[i] ELSE IF i <= 2 * n THEN b[i - n]
                    ELSE IF i = 2 * n + 1 THEN x ELSE y
          /\ f[j] = IF j <= n THEN a[j] ELSE IF j <= 2 * n THEN b[j - n]
                    ELSE IF j = 2 * n + 1 THEN x ELSE y
      OBVIOUS
    <3> HIDE DEF f, a, b, x, y
    <3> DEFINE part(k) == \/ k \in 1..n /\ f[k] = a[k]
                          \/ k - n \in 1..n /\ f[k] = b[k - n]
                          \/ k = 2 * n + 1 /\ f[k] = x
                          \/ k = 2 * n + 2 /\ f[k] = y
    <3>3. part(i) /\ part(j) /\ i \in Nat /\ j \in Nat
      BY ONLY <1>0, <3>2, i \in 1..(2 * n + 2), j \in 1..(2 * n + 2)
    <3>4. \/ i = j
          \/ i - n = j - n
      BY <2>2, <3>1, <3>3
    <3> QED BY ONLY <1>0, <3>3, <3>4
  <2> QED BY <2>1, <2>2 DEF Injection, IsInjective
<1>8. Cardinality(1..(2 * n + 2)) = 2 * n + 2
  <2> HIDE DEF n
  <2> QED BY <1>0, FS_Interval
<1>9. IsFiniteSet(Connected)
  BY DEF CrowdInv
<1>10. Cardinality(1..(2 * n + 2)) <= Cardinality(Connected)
  BY <1>7, <1>9, FS_Injection
<1>11. Cardinality(Connected) \in Nat
  BY <1>9, FS_CardinalityType
<1> QED BY <1>0, <1>8, <1>10, <1>11

(* The relay's full queue and the relay itself.                             *)
LEMMA SelfNeedsCrowd ==
  ASSUME Inv, CrowdInv, SelfWait
  PROVE  Cardinality(Connected) >= MaxQueue + 1
<1> USE ProcFacts
<1>1. PICK g : Stands(g)
  BY DEF CrowdInv
<1> DEFINE n == MaxQueue
           f == [i \in 1..(n + 1) |-> IF i <= n THEN g[Relayer][i] ELSE conn[Relayer]]
<1>2. n \in Nat
  BY ConstantsOK
<1>3. Relayer \in Listeners /\ 1..n \subseteq DOMAIN uds[Relayer]
  <2>1. uds[Relayer] \in Seq(Entry)
    BY DEF Inv, TypeInv, TypeOK
  <2>2. ~(Len(uds[Relayer]) < n)
    BY DEF SelfWait, NoRoom
  <2> HIDE DEF n
  <2> QED BY <1>2, <2>1, <2>2
<1>4. conn[Relayer] \in Conns /\ client[conn[Relayer]] # "idle"
  <2>1. conn[Relayer] \in Conns
    BY Busy DEF SelfWait, Inv
  <2> QED BY <2>1, Exclusive DEF Inv
<1> HIDE DEF n
<1>5. \A i \in 1..n : g[Relayer][i] \in Connected /\ g[Relayer][i] # conn[Relayer]
  BY <1>1, <1>3, <1>4, StandsApart DEF Stands, Connected
<1>6. \A i, j \in 1..n : g[Relayer][i] = g[Relayer][j] => i = j
  <2> TAKE i, j \in 1..n
  <2>1. i \in DOMAIN uds[Relayer] /\ j \in DOMAIN uds[Relayer]
    BY <1>3
  <2> QED BY <1>1, <1>3, <2>1 DEF Stands
<1>7. conn[Relayer] \in Connected
  BY <1>4 DEF Connected
<1>8. f \in Injection(1..(n + 1), Connected)
  <2>1. ASSUME NEW i \in 1..(n + 1) PROVE f[i] \in Connected
    BY <1>2, <1>5, <1>7
  <2>2. ASSUME NEW i \in 1..(n + 1), NEW j \in 1..(n + 1), f[i] = f[j] PROVE i = j
    <3>1. i \in 1..n \/ i = n + 1
      BY ONLY <1>2, i \in 1..(n + 1)
    <3>2. j \in 1..n \/ j = n + 1
      BY ONLY <1>2, j \in 1..(n + 1)
    <3>3. ~(n + 1 <= n) /\ \A k \in 1..n : k <= n
      BY ONLY <1>2
    <3> QED BY <1>5, <1>6, <2>2, <3>1, <3>2, <3>3
  <2> QED BY <2>1, <2>2 DEF Injection, IsInjective
<1>9. Cardinality(1..(n + 1)) = n + 1
  BY <1>2, FS_Interval
<1>10. IsFiniteSet(Connected)
  BY DEF CrowdInv
<1>11. Cardinality(1..(n + 1)) <= Cardinality(Connected)
  BY <1>8, <1>10, FS_Injection
<1> QED BY <1>9, <1>11 DEF n

(***************************************************************************)
(* The relay goroutine and a worker block on each other's listening queue  *)
(* only when 2 * MaxQueue + 2 clients have connected, and the relay blocks *)
(* on its own queue only when MaxQueue + 1 have: a pending connection      *)
(* stands for a client of its own even when sendmsg failed after connect   *)
(* and left it empty.                                                      *)
(***************************************************************************)
THEOREM DeadlockNeedsCrowd == Spec => []DeadlockNeedsConnections
<1>1. Inv /\ CrowdInv => DeadlockNeedsConnections
  BY CircleNeedsCrowd, SelfNeedsCrowd DEF DeadlockNeedsConnections
<1> QED BY <1>1, InvHolds, CrowdInvariant, PTL

(***************************************************************************)
(* Hence the system as a whole stops, with every process blocked and every *)
(* client waiting, only when more than MaxQueue clients have connected,    *)
(* and 2 * MaxQueue + 2 of them unless the relay waits for itself.         *)
(***************************************************************************)
THEOREM StopNeedsCrowd ==
  Spec => [](Stuck /\ (\A c \in Conns : Unmixed(c)) =>
               /\ Cardinality(Connected) >= MaxQueue + 1
               /\ SelfWait \/ Cardinality(Connected) >= 2 * MaxQueue + 2)
<1>1. Inv /\ CrowdInv /\ StuckOnlyInRelayDeadlock /\ DeadlockNeedsConnections =>
        (Stuck /\ (\A c \in Conns : Unmixed(c)) =>
           /\ Cardinality(Connected) >= MaxQueue + 1
           /\ SelfWait \/ Cardinality(Connected) >= 2 * MaxQueue + 2)
  <2>1. MaxQueue \in Nat
    BY ConstantsOK
  <2>2. CrowdInv => Cardinality(Connected) \in Nat
    BY FS_CardinalityType DEF CrowdInv
  <2>3. \A k \in Nat : k >= 2 * MaxQueue + 2 => k >= MaxQueue + 1
    BY <2>1
  <2> QED BY <2>2, <2>3 DEF StuckOnlyInRelayDeadlock, RelayDeadlock, DeadlockNeedsConnections
<1> QED BY <1>1, InvHolds, CrowdInvariant, NoOtherDeadlock, DeadlockNeedsCrowd, PTL
=============================================================================
