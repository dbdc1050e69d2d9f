-------------------------- MODULE SniRoutingProofs --------------------------
(***************************************************************************)
(* Proofs about SniRouting, for every set of connections and functions,    *)
(* every queue length, process limit and fault: descriptors do not spread  *)
(* from one client's children to another's, each side forks one child for  *)
(* a connection, and the system comes to rest only when every client has   *)
(* what it can get.                                                        *)
(***************************************************************************)
EXTENDS SniRouting, TLAPS

-----------------------------------------------------------------------------
(* The inductive invariant *)

(* What a parent's loop and a child know before their next call. *)
ControlInv ==
  /\ \A w \in Functions : "uds" \in rev[w] => uds[w] # <<>>
  /\ \A c \in Conns : gpc[c] = "send" => plan[c].fn \in Functions

TypeInv == TypeOK /\ ControlInv

(* Parents keep nothing, a child at most its own client's descriptor, and   *)
(* the worker's child only between recvmsg and the acknowledgement.         *)
CopyInv ==
  /\ \A p \in Parents : kept[p] = {}
  /\ \A c \in Conns :
       /\ gfds[c] \subseteq {c} /\ (gfds[c] # {} => gpc[c] \notin {"none", "exited"})
       /\ wfds[c] \subseteq {c} /\ (wfds[c] # {} => wpc[c] \in {"accept", "finish", "read"})

(* How far a connection has come, by the place it is in. *)
Stage(c) ==
  /\ client[c] = "idle" => c \notin backlog
  /\ client[c] = "idle" \/ c \in backlog => gpc[c] = "none" /\ wpc[c] = "none"
  /\ gpc[c] \in {"poll", "peek", "send"} => wpc[c] = "none"
  /\ Queued(c) => gpc[c] = "ack" /\ wpc[c] = "none"
  /\ c \in msgs => Queued(c) \/ wpc[c] = "recv"
  /\ c \in acked => wpc[c] = "exited"

StageInv ==
  /\ \A c \in Conns : Stage(c)
  /\ \A v, w \in Functions : \A i \in DOMAIN uds[v], j \in DOMAIN uds[w] :
       uds[v][i] = uds[w][j] => v = w /\ i = j

-----------------------------------------------------------------------------
(* Sequences *)

LEMMA AppendTo ==
  ASSUME NEW T, NEW s \in Seq(T), NEW e \in T
  PROVE  /\ Append(s, e) \in Seq(T) /\ Append(s, e) # <<>> /\ Len(Append(s, e)) = Len(s) + 1
         /\ \A i \in DOMAIN Append(s, e) :
              \/ i \in DOMAIN s /\ Append(s, e)[i] = s[i]
              \/ i = Len(s) + 1 /\ Append(s, e)[i] = e
         /\ \A i \in DOMAIN s : i \in DOMAIN Append(s, e) /\ Append(s, e)[i] = s[i]
         /\ Len(s) + 1 \in DOMAIN Append(s, e) /\ Append(s, e)[Len(s) + 1] = e
OBVIOUS

LEMMA TailOf ==
  ASSUME NEW T, NEW s \in Seq(T), s # <<>>
  PROVE  /\ Tail(s) \in Seq(T) /\ 1 \in DOMAIN s /\ Head(s) = s[1] /\ Head(s) \in T
         /\ \A i \in DOMAIN Tail(s) : i \in Nat /\ i >= 1 /\ i + 1 \in DOMAIN s /\ Tail(s)[i] = s[i + 1]
         /\ \A i \in DOMAIN s : i # 1 => i - 1 \in DOMAIN Tail(s) /\ Tail(s)[i - 1] = s[i]
<1>1. Tail(s) \in Seq(T) /\ 1 \in DOMAIN s /\ Head(s) = s[1] /\ Head(s) \in T
  OBVIOUS
<1>2. \A i \in DOMAIN Tail(s) : i \in Nat /\ i >= 1 /\ i + 1 \in DOMAIN s /\ Tail(s)[i] = s[i + 1]
  OBVIOUS
<1>3. \A i \in DOMAIN s : i # 1 => i - 1 \in DOMAIN Tail(s)
  OBVIOUS
<1>4. \A i \in DOMAIN s : i # 1 => Tail(s)[i - 1] = s[i]
  BY <1>2, <1>3
<1> QED BY <1>1, <1>2, <1>3, <1>4

-----------------------------------------------------------------------------
(* Typing *)

LEMMA InitType == Init => TypeInv
<1> SUFFICES ASSUME Init PROVE TypeInv
  OBVIOUS
<1>1. plan \in [Conns -> Plan]
  BY SniConstants DEF Init
<1>2. TypeOK
  BY <1>1 DEF Init, TypeOK
<1>3. ControlInv
  BY DEF Init, ControlInv
<1> QED BY <1>2, <1>3 DEF TypeInv

LEMMA ClientType ==
  ASSUME TypeInv, NEW c \in Conns, ClientStep(c)
  PROVE  TypeInv'
<1> USE DEF TypeInv, TypeOK
<1>0. ControlInv' /\ UNCHANGED <<plan, answered, udsVars, parentVars, childVars>>
  BY DEF ClientStep, Connect, ClientClose, Finish, SendFlight, SendRequest, clientVars, udsVars,
         parentVars, childVars, ControlInv
<1>1. CASE Connect(c) \/ Finish(c) \/ ClientClose(c)
  BY <1>0, <1>1 DEF Connect, Finish, ClientClose, udsVars, parentVars, childVars
<1>2. ASSUME NEW k \in 1..plan[c].size, SendFlight(c, k) PROVE TypeInv'
  <2>1. k \in Nat
    BY DEF Plan
  <2>2. arrived' \in [Conns -> Nat]
    BY <1>2, <2>1 DEF SendFlight
  <2> QED BY <1>0, <1>2, <2>2 DEF SendFlight, clientVars, udsVars, parentVars, childVars
<1>3. ASSUME NEW r \in Requests, SendRequest(c, r) PROVE TypeInv'
  <2>1. r \in Functions \cup {NoName}
    BY SniConstants
  <2>2. reqs' = [reqs EXCEPT ![c] = Append(reqs[c], r)]
    BY <1>3 DEF SendRequest
  <2>3. /\ Append(reqs[c], r) \in Seq(Functions \cup {NoName})
        /\ Len(Append(reqs[c], r)) = Len(reqs[c]) + 1
    BY <2>1, AppendTo
  <2>4. reqs' \in [Conns -> Seq(Functions \cup {NoName})]
    BY <2>2, <2>3
  <2>5. ASSUME NEW d \in Conns PROVE answered'[d] <= Len(reqs'[d])
    <3>1. answered[d] <= Len(reqs[d]) /\ answered[d] \in Nat /\ Len(reqs[d]) \in Nat
      OBVIOUS
    <3>2. CASE d = c
      BY <1>0, <2>2, <2>3, <3>1, <3>2
    <3>3. CASE d # c
      BY <1>0, <2>2, <3>1, <3>3
    <3> QED BY <3>2, <3>3
  <2> QED BY <1>0, <1>3, <2>4, <2>5 DEF SendRequest, udsVars, parentVars, childVars
<1> QED BY <1>1, <1>2, <1>3 DEF ClientStep

LEMMA ParentFacts ==
  /\ Gateway \in Parents /\ \A w \in Functions : w \in Parents
BY DEF Parents

LEMMA AcceptClientType ==
  ASSUME TypeInv, NEW c \in Conns, AcceptClient(c)
  PROVE  TypeInv'
<1> USE DEF TypeInv, TypeOK
<1>1. ControlInv'
  BY DEF AcceptClient, ControlInv, clientVars, udsVars
<1>2. gpc' \in [Conns -> {"none", "poll", "peek", "send", "ack", "exited"}]
  BY DEF AcceptClient
<1>3. gfds' \in [Conns -> SUBSET Conns]
  <2>1. kept[Gateway] \cup {c} \in SUBSET Conns
    BY ParentFacts
  <2>2. gfds' = gfds \/ gfds' = [gfds EXCEPT ![c] = kept[Gateway] \cup {c}]
    BY DEF AcceptClient
  <2>3. gfds \in [Conns -> SUBSET Conns]
    OBVIOUS
  <2> QED BY ONLY <2>1, <2>2, <2>3
<1>4. refused' \subseteq Conns /\ backlog' \subseteq Conns
  BY DEF AcceptClient, Refuse
<1> QED BY <1>1, <1>2, <1>3, <1>4 DEF AcceptClient, clientVars, udsVars

LEMMA GatewayChildType ==
  ASSUME TypeInv, NEW c \in Conns, GatewayChild(c)
  PROVE  TypeInv'
<1> USE DEF TypeInv, TypeOK
<1>0. /\ UNCHANGED <<client, plan, reqs, answered, backlog, rev, kept, refused, wpc, wfds, arrived>>
      /\ acked' = acked
  BY DEF GatewayChild, PollReturns, PollTimesOut, Peek, PeekFails, SendToWorker, ConnectFails,
         AckReturns, GatewayChildExits, GatewayChildMoves, clientVars, parentVars, udsVars
<1>1. gpc' \in [Conns -> {"none", "poll", "peek", "send", "ack", "exited"}]
  <2>1. \E to \in {"peek", "send", "ack", "exited"} : gpc' = [gpc EXCEPT ![c] = to]
    BY DEF GatewayChild, PollReturns, PollTimesOut, Peek, PeekFails, SendToWorker,
           ConnectFails, AckReturns, GatewayChildExits, GatewayChildMoves
  <2>2. gpc \in [Conns -> {"none", "poll", "peek", "send", "ack", "exited"}]
    OBVIOUS
  <2> QED BY ONLY <2>1, <2>2
<1>2. gfds' \in [Conns -> SUBSET Conns]
  BY DEF GatewayChild, PollReturns, PollTimesOut, Peek, PeekFails, SendToWorker, ConnectFails,
         AckReturns, GatewayChildExits
<1>3. CASE SendToWorker(c)
  <2> DEFINE w == plan[c].fn
  <2>1. /\ w \in Functions /\ uds' = [uds EXCEPT ![w] = Append(uds[w], c)]
        /\ gpc' = [gpc EXCEPT ![c] = "ack"] /\ msgs' \subseteq Conns
    BY <1>3 DEF SendToWorker, ControlInv, GatewayChildMoves
  <2> HIDE DEF w
  <2>2. uds[w] \in Seq(Conns) /\ c \in Conns
    BY <2>1
  <2>3. Append(uds[w], c) \in Seq(Conns) /\ Append(uds[w], c) # <<>>
    BY ONLY <2>2, AppendTo
  <2>4. uds' \in [Functions -> Seq(Conns)] /\ \A v \in Functions : uds[v] # <<>> => uds'[v] # <<>>
    BY <2>1, <2>3
  <2>5. ControlInv'
    BY <1>0, <2>1, <2>4 DEF ControlInv
  <2> QED BY <1>0, <1>1, <1>2, <2>1, <2>4, <2>5
<1>4. CASE ~SendToWorker(c)
  <2>1. UNCHANGED <<uds, msgs>>
    BY <1>4 DEF GatewayChild, PollReturns, PollTimesOut, Peek, PeekFails, ConnectFails,
         AckReturns, udsVars
  <2>2. \A d \in Conns : gpc'[d] = "send" => plan[d].fn \in Functions
    <3>1. CASE Peek(c)
      <4>1. gpc' = [gpc EXCEPT ![c] = "send"] /\ Target(c) # NoName
        BY <3>1 DEF Peek, GatewayChildMoves
      <4>2. plan[c] \in Plan /\ plan[c].fn # NoName
        BY <4>1 DEF Target
      <4>3. plan[c].fn \in Functions
        BY <4>2 DEF Plan
      <4> QED BY <4>1, <4>3 DEF ControlInv
    <3>2. CASE ~Peek(c)
      <4>1. \A d \in Conns : gpc'[d] = "send" => gpc[d] = "send"
        BY <1>4, <3>2 DEF GatewayChild, PollReturns, PollTimesOut, PeekFails, ConnectFails,
           AckReturns, GatewayChildExits, GatewayChildMoves
      <4> QED BY <4>1 DEF ControlInv
    <3> QED BY <3>1, <3>2
  <2>3. ControlInv'
    BY <1>0, <2>1, <2>2 DEF ControlInv
  <2> QED BY <1>0, <1>1, <1>2, <2>1, <2>3
<1> QED BY <1>3, <1>4

LEMMA WorkerParentType ==
  ASSUME TypeInv, NEW w \in Functions, WorkerParent(w)
  PROVE  TypeInv'
<1> USE DEF TypeInv, TypeOK
<1>1. CASE Poll(w)
  <2>1. /\ rev' = [rev EXCEPT ![w] = (IF uds[w] # <<>> THEN {"uds"} ELSE {})
                                 \cup (IF DirectClients(w) # {} THEN {"tcp"} ELSE {})]
        /\ UNCHANGED <<clientVars, arrived, answered, backlog, udsVars, kept, refused, childVars>>
    BY <1>1 DEF Poll
  <2>2. rev' \in [Functions -> SUBSET {"uds", "tcp"}]
    BY <2>1
  <2>3. \A v \in Functions : "uds" \in rev'[v] => uds[v] # <<>>
    BY <2>1 DEF ControlInv
  <2> QED BY <2>1, <2>2, <2>3 DEF ControlInv, clientVars, udsVars, childVars
<1>2. ASSUME NEW c \in Conns, NEW first \in {"recv", "accept"}, NEW own \in SUBSET Conns,
             ForkChild(w, c, first, own)
      PROVE  /\ wpc' \in [Conns -> {"none", "recv", "accept", "finish", "read", "ack", "exited"}]
             /\ wfds' \in [Conns -> SUBSET Conns] /\ refused' \subseteq Conns
  <2>1. kept[w] \cup own \in SUBSET Conns
    BY ParentFacts
  <2>2. /\ wpc' = wpc \/ wpc' = [wpc EXCEPT ![c] = first]
        /\ wfds' = wfds \/ wfds' = [wfds EXCEPT ![c] = kept[w] \cup own]
        /\ refused' = refused \/ refused' = refused \cup {c}
    BY <1>2 DEF ForkChild, Refuse
  <2>3. /\ wpc \in [Conns -> {"none", "recv", "accept", "finish", "read", "ack", "exited"}]
        /\ wfds \in [Conns -> SUBSET Conns] /\ refused \subseteq Conns
    OBVIOUS
  <2>4. wpc' \in [Conns -> {"none", "recv", "accept", "finish", "read", "ack", "exited"}]
    BY ONLY <2>2, <2>3, first \in {"recv", "accept"}
  <2>5. wfds' \in [Conns -> SUBSET Conns]
    BY ONLY <2>1, <2>2, <2>3
  <2> QED BY <2>2, <2>3, <2>4, <2>5
<1>3. CASE AcceptHandoff(w)
  <2> DEFINE c == Head(uds[w])
  <2>1. /\ "uds" \in rev[w] /\ rev' = [rev EXCEPT ![w] = rev[w] \ {"uds"}]
        /\ uds' = [uds EXCEPT ![w] = Tail(uds[w])] /\ msgs' \subseteq msgs
        /\ ForkChild(w, c, "recv", {})
        /\ UNCHANGED <<clientVars, arrived, answered, backlog, acked, kept, gpc, gfds>>
    BY <1>3 DEF AcceptHandoff
  <2>2. uds[w] # <<>> /\ uds[w] \in Seq(Conns)
    BY <2>1 DEF ControlInv
  <2>3. c \in Conns /\ Tail(uds[w]) \in Seq(Conns)
    BY <2>2, TailOf
  <2> HIDE DEF c
  <2>4. uds' \in [Functions -> Seq(Conns)] /\ rev' \in [Functions -> SUBSET {"uds", "tcp"}]
    BY <2>1, <2>3
  <2>5. \A v \in Functions : "uds" \in rev'[v] => uds'[v] # <<>>
    BY <2>1 DEF ControlInv
  <2> QED BY <1>2, <2>1, <2>3, <2>4, <2>5 DEF ControlInv, clientVars
<1>4. ASSUME NEW c \in Conns, AcceptDirect(w, c) PROVE TypeInv'
  <2>1. /\ rev' = [rev EXCEPT ![w] = {}] /\ backlog' \subseteq backlog
        /\ ForkChild(w, c, "accept", {c})
        /\ UNCHANGED <<clientVars, arrived, answered, udsVars, kept, gpc, gfds>>
    BY <1>4 DEF AcceptDirect
  <2>2. rev' \in [Functions -> SUBSET {"uds", "tcp"}]
    BY <2>1
  <2>3. \A v \in Functions : "uds" \in rev'[v] => uds'[v] # <<>>
    BY <2>1 DEF ControlInv, udsVars
  <2> QED BY <1>2, <2>1, <2>2, <2>3 DEF ControlInv, clientVars, udsVars
<1> QED BY <1>1, <1>3, <1>4 DEF WorkerParent

LEMMA WorkerChildType ==
  ASSUME TypeInv, NEW c \in Conns, WorkerChild(c) \/ ChildDies(c)
  PROVE  TypeInv'
<1> USE DEF TypeInv, TypeOK
<1>0. UNCHANGED <<plan, reqs, backlog, uds, rev, kept, refused, gpc, gfds>> /\ ControlInv'
  BY DEF WorkerChild, ChildDies, ReceiveHandoff, ReceiveNoFd, AnswerHello, Handshake, HandshakeFails, Respond,
         RequestsEnd, Ack, EndOfClient, WorkerChildMoves, parentVars, ControlInv
<1>1. /\ msgs' \subseteq Conns /\ acked' \subseteq Conns
      /\ wpc' \in [Conns -> {"none", "recv", "accept", "finish", "read", "ack", "exited"}]
  BY DEF WorkerChild, ChildDies, ReceiveHandoff, ReceiveNoFd, AnswerHello, Handshake, HandshakeFails, Respond,
         RequestsEnd, Ack, EndOfClient, WorkerChildMoves
<1>2. /\ client' \in [Conns -> {"idle", "connected", "greeted", "secure", "gone"}]
      /\ arrived' \in [Conns -> Nat] /\ wfds' \in [Conns -> SUBSET Conns]
  <2>1. /\ client' = client \/ client' = [client EXCEPT ![c] = "greeted"]
        /\ arrived' = arrived \/ arrived' = [arrived EXCEPT ![c] = 0]
        /\ \/ wfds' = wfds \/ wfds' = [wfds EXCEPT ![c] = {}]
           \/ wfds' = [wfds EXCEPT ![c] = wfds[c] \cup {c}]
    BY DEF WorkerChild, ChildDies, ReceiveHandoff, ReceiveNoFd, AnswerHello, Handshake, HandshakeFails, Respond,
           RequestsEnd, Ack, EndOfClient
  <2>2. wfds[c] \cup {c} \in SUBSET Conns /\ {} \in SUBSET Conns
    OBVIOUS
  <2>3. wfds' \in [Conns -> SUBSET Conns]
    <3>1. wfds \in [Conns -> SUBSET Conns] /\ c \in Conns
      OBVIOUS
    <3>2. CASE wfds' = wfds
      BY <3>1, <3>2
    <3>3. CASE wfds' = [wfds EXCEPT ![c] = {}]
      BY ONLY <3>1, <3>3, <2>2
    <3>4. CASE wfds' = [wfds EXCEPT ![c] = wfds[c] \cup {c}]
      BY ONLY <3>1, <3>4, <2>2
    <3> QED BY <2>1, <3>2, <3>3, <3>4
  <2>4. /\ client \in [Conns -> {"idle", "connected", "greeted", "secure", "gone"}]
        /\ arrived \in [Conns -> Nat] /\ c \in Conns
    OBVIOUS
  <2>5. client' \in [Conns -> {"idle", "connected", "greeted", "secure", "gone"}]
    BY ONLY <2>1, <2>4
  <2>6. arrived' \in [Conns -> Nat]
    BY ONLY <2>1, <2>4
  <2> QED BY ONLY <2>3, <2>5, <2>6
<1>3. answered' \in [Conns -> Nat] /\ \A d \in Conns : answered'[d] <= Len(reqs[d])
  <2>1. CASE Respond(c)
    <3>1. answered[c] < Len(reqs[c]) /\ answered' = [answered EXCEPT ![c] = answered[c] + 1]
      BY <2>1 DEF Respond
    <3>2. \A d \in Conns : answered[d] \in Nat /\ Len(reqs[d]) \in Nat /\ answered[d] <= Len(reqs[d])
      OBVIOUS
    <3> QED BY <3>1, <3>2
  <2>2. CASE ~Respond(c)
    BY <2>2 DEF WorkerChild, ChildDies, ReceiveHandoff, ReceiveNoFd, AnswerHello, Handshake, HandshakeFails,
         RequestsEnd, Ack, EndOfClient
  <2> QED BY <2>1, <2>2
<1> QED BY <1>0, <1>1, <1>2, <1>3

LEMMA TypeStep == TypeInv /\ [Next]_vars => TypeInv'
<1> SUFFICES ASSUME TypeInv, [Next]_vars PROVE TypeInv'
  OBVIOUS
<1>1. CASE UNCHANGED vars
  BY <1>1 DEF TypeInv, TypeOK, ControlInv, vars, clientVars, udsVars, parentVars, childVars
<1> QED BY <1>1, ClientType, AcceptClientType, GatewayChildType, WorkerParentType, WorkerChildType
        DEF Next

-----------------------------------------------------------------------------
(* Copies *)

(* A step of one of c's children. *)
LEMMA CopyAt ==
  ASSUME CopyInv, kept' = kept, NEW c \in Conns,
         gfds'[c] \subseteq {c}, gfds'[c] # {} => gpc'[c] \notin {"none", "exited"},
         wfds'[c] \subseteq {c}, wfds'[c] # {} => wpc'[c] \in {"accept", "finish", "read"},
         \A d \in Conns \ {c} : /\ gfds'[d] = gfds[d] /\ gpc'[d] = gpc[d]
                                 /\ wfds'[d] = wfds[d] /\ wpc'[d] = wpc[d]
  PROVE  CopyInv'
BY DEF CopyInv

LEMMA CopyStep == TypeInv /\ CopyInv /\ [Next]_vars => CopyInv'
<1> SUFFICES ASSUME TypeInv, CopyInv, [Next]_vars PROVE CopyInv'
  OBVIOUS
<1> USE ParentFacts
<1>k. kept' = kept /\ \A p \in Parents : kept[p] = {}
  BY ZenonT(60) DEF CopyInv, Next, vars, clientVars, parentVars, ClientStep, Connect, ClientClose, Finish, SendFlight,
         SendRequest, AcceptClient, GatewayChild, PollReturns, PollTimesOut, Peek, PeekFails,
         SendToWorker, ConnectFails, AckReturns, GatewayChildExits, GatewayChildMoves,
         WorkerParent, Poll, AcceptHandoff, AcceptDirect, WorkerChild, ChildDies, ReceiveHandoff,
         ReceiveNoFd, AnswerHello, Handshake, HandshakeFails, Respond, RequestsEnd, Ack, EndOfClient,
         WorkerChildMoves
<1>1. CASE UNCHANGED vars
  BY <1>1 DEF CopyInv, vars, parentVars, childVars
<1>2. ASSUME NEW c \in Conns, ClientStep(c) PROVE CopyInv'
  BY <1>2 DEF CopyInv, ClientStep, Connect, ClientClose, Finish, SendFlight, SendRequest, parentVars, childVars
<1>3. ASSUME NEW c \in Conns, AcceptClient(c) PROVE CopyInv'
  <2>1. /\ UNCHANGED <<wpc, wfds>>
        /\ \/ UNCHANGED <<gpc, gfds>>
           \/ /\ gpc' = [gpc EXCEPT ![c] = "poll"]
              /\ gfds' = [gfds EXCEPT ![c] = kept[Gateway] \cup {c}]
    BY <1>3 DEF AcceptClient
  <2>2. /\ \A d \in Conns \ {c} : gfds'[d] = gfds[d] /\ gpc'[d] = gpc[d]
        /\ \/ gfds'[c] = gfds[c] /\ gpc'[c] = gpc[c]
           \/ gfds'[c] = {c} /\ gpc'[c] = "poll"
    BY <1>k, <2>1 DEF TypeInv, TypeOK
  <2> QED BY <1>k, <2>1, <2>2, CopyAt DEF CopyInv
<1>4. ASSUME NEW c \in Conns, GatewayChild(c) PROVE CopyInv'
  <2>1. /\ UNCHANGED <<wpc, wfds>>
        /\ \/ /\ gpc' = [gpc EXCEPT ![c] = "exited"] /\ gfds' = [gfds EXCEPT ![c] = {}]
           \/ /\ \E to \in {"peek", "send", "ack"} : gpc' = [gpc EXCEPT ![c] = to]
              /\ gfds' = gfds
    BY <1>4 DEF GatewayChild, PollReturns, PollTimesOut, Peek, PeekFails, SendToWorker,
         ConnectFails, AckReturns, GatewayChildExits, GatewayChildMoves
  <2>2. /\ \A d \in Conns \ {c} : gfds'[d] = gfds[d] /\ gpc'[d] = gpc[d]
        /\ \/ gfds'[c] = {}
           \/ gfds'[c] = gfds[c] /\ gpc'[c] \in {"peek", "send", "ack"}
    BY <2>1 DEF TypeInv, TypeOK
  <2> QED BY <1>k, <2>1, <2>2, CopyAt DEF CopyInv
<1>5. ASSUME NEW w \in Functions, WorkerParent(w) PROVE CopyInv'
  <2>1. CASE Poll(w)
    BY <1>k, <2>1 DEF Poll, CopyInv, childVars
  <2>2. ASSUME NEW c \in Conns, NEW first \in {"recv", "accept"}, NEW own \in {{}, {c}},
               first = "recv" => own = {},
               ForkChild(w, c, first, own), UNCHANGED <<gpc, gfds>>
        PROVE  CopyInv'
    <3>1. \/ UNCHANGED <<wpc, wfds>>
          \/ wpc' = [wpc EXCEPT ![c] = first] /\ wfds' = [wfds EXCEPT ![c] = own]
      BY <1>k, <2>2 DEF ForkChild
    <3>2. /\ \A d \in Conns \ {c} : wfds'[d] = wfds[d] /\ wpc'[d] = wpc[d]
          /\ \/ wfds'[c] = wfds[c] /\ wpc'[c] = wpc[c]
             \/ wfds'[c] = own /\ wpc'[c] = first
      BY <3>1 DEF TypeInv, TypeOK
    <3> QED BY <1>k, <2>2, <3>2, CopyAt DEF CopyInv
  <2>3. CASE AcceptHandoff(w)
    <3>1. uds[w] # <<>> /\ uds[w] \in Seq(Conns)
      BY <2>3 DEF AcceptHandoff, TypeInv, TypeOK, ControlInv
    <3>2. Head(uds[w]) \in Conns
      BY <3>1, TailOf
    <3>3. ForkChild(w, Head(uds[w]), "recv", {}) /\ UNCHANGED <<gpc, gfds>>
      BY <2>3 DEF AcceptHandoff
    <3> QED BY <2>2, <3>2, <3>3
  <2>4. ASSUME NEW c \in Conns, AcceptDirect(w, c) PROVE CopyInv'
    <3>1. ForkChild(w, c, "accept", {c}) /\ UNCHANGED <<gpc, gfds>>
      BY <2>4 DEF AcceptDirect
    <3> QED BY <2>2, <3>1
  <2> QED BY <1>5, <2>1, <2>3, <2>4 DEF WorkerParent
<1>6. ASSUME NEW c \in Conns, WorkerChild(c) \/ ChildDies(c) PROVE CopyInv'
  <2>1. /\ UNCHANGED <<gpc, gfds>>
        /\ \/ /\ \E to \in {"ack", "exited"} : wpc' = [wpc EXCEPT ![c] = to]
              /\ wfds' = [wfds EXCEPT ![c] = {}]
           \/ /\ \E to \in {"ack", "exited"} : wpc' = [wpc EXCEPT ![c] = to]
              /\ wpc[c] \in {"recv", "ack"} /\ wfds' = wfds
           \/ \E to \in {"finish", "read"} : wpc' = [wpc EXCEPT ![c] = to] /\ wfds' = wfds
           \/ wpc' = [wpc EXCEPT ![c] = "accept"] /\ wfds' = [wfds EXCEPT ![c] = wfds[c] \cup {c}]
    BY <1>6 DEF WorkerChild, ChildDies, ReceiveHandoff, ReceiveNoFd, AnswerHello, Handshake, HandshakeFails,
         Respond, RequestsEnd, Ack, EndOfClient, WorkerChildMoves
  <2>2. ASSUME NEW d \in Conns
        PROVE  wfds'[d] \subseteq {d} /\ (wfds'[d] # {} => wpc'[d] \in {"accept", "finish", "read"})
    <3>1. wfds[d] \subseteq {d} /\ (wfds[d] # {} => wpc[d] \in {"accept", "finish", "read"})
      BY DEF CopyInv
    <3>2. CASE d = c
      BY <2>1, <3>1, <3>2 DEF TypeInv, TypeOK
    <3>3. CASE d # c
      BY <2>1, <3>1, <3>3 DEF TypeInv, TypeOK
    <3> QED BY <3>2, <3>3
  <2> QED BY <1>k, <2>1, <2>2 DEF CopyInv
<1> QED BY <1>1, <1>2, <1>3, <1>4, <1>5, <1>6 DEF Next

-----------------------------------------------------------------------------
(* Stages *)

(* A step that changes nothing but c's place, and no queue. *)
LEMMA StageAt ==
  ASSUME StageInv, NEW c \in Conns, Stage(c)', uds' = uds,
         \A d \in Conns \ {c} : /\ client'[d] = client[d] /\ gpc'[d] = gpc[d] /\ wpc'[d] = wpc[d]
                                /\ d \in backlog' <=> d \in backlog
                                /\ d \in msgs' <=> d \in msgs
                                /\ d \in acked' <=> d \in acked
  PROVE  StageInv'
<1>1. \A d \in Conns : Queued(d)' = Queued(d)
  BY DEF Queued
<1>2. \A d \in Conns \ {c} : Stage(d)'
  BY <1>1 DEF StageInv, Stage
<1> QED BY <1>2 DEF StageInv

LEMMA ClientStage ==
  ASSUME TypeInv, StageInv, NEW c \in Conns, ClientStep(c)
  PROVE  StageInv'
<1>1. /\ UNCHANGED <<gpc, wpc, uds, msgs, acked>>
      /\ \A d \in Conns \ {c} : client'[d] = client[d] /\ (d \in backlog' <=> d \in backlog)
      /\ client'[c] # "idle" \/ (client'[c] = client[c] /\ backlog' = backlog)
      /\ c \in backlog' => c \in backlog \/ client[c] = "idle"
  BY DEF ClientStep, Connect, ClientClose, Finish, SendFlight, SendRequest, clientVars, udsVars, childVars,
         TypeInv, TypeOK
<1>2. Queued(c)' = Queued(c)
  BY <1>1 DEF Queued
<1>3. Stage(c)'
  BY <1>1, <1>2 DEF StageInv, Stage
<1> QED BY <1>1, <1>3, StageAt

LEMMA AcceptStage ==
  ASSUME TypeInv, StageInv, NEW c \in Conns, AcceptClient(c)
  PROVE  StageInv'
<1>1. /\ UNCHANGED <<client, wpc, uds, msgs, acked>> /\ c \in backlog /\ c \notin backlog'
      /\ \A d \in Conns \ {c} : gpc'[d] = gpc[d] /\ (d \in backlog' <=> d \in backlog)
      /\ gpc'[c] \in {gpc[c], "poll"}
  BY DEF AcceptClient, clientVars, udsVars, TypeInv, TypeOK
<1>2. Queued(c)' = Queued(c)
  BY <1>1 DEF Queued
<1>3. Stage(c) /\ gpc[c] = "none" /\ wpc[c] = "none" /\ ~Queued(c) /\ client[c] # "idle"
  BY <1>1 DEF StageInv, Stage
<1>4. Stage(c)'
  BY <1>1, <1>2, <1>3 DEF Stage
<1> QED BY <1>1, <1>4, StageAt

LEMMA GatewayChildStage ==
  ASSUME TypeInv, StageInv, NEW c \in Conns, GatewayChild(c)
  PROVE  StageInv'
<1>0. /\ UNCHANGED <<client, wpc, backlog, acked>>
      /\ \A d \in Conns \ {c} : gpc'[d] = gpc[d] /\ (d \in msgs' <=> d \in msgs)
  BY DEF GatewayChild, PollReturns, PollTimesOut, Peek, PeekFails, SendToWorker, ConnectFails,
         AckReturns, GatewayChildExits, GatewayChildMoves, clientVars, udsVars, TypeInv, TypeOK
<1>s. Stage(c)
  BY DEF StageInv
<1>1. CASE SendToWorker(c)
  <2> DEFINE w == plan[c].fn
  <2>1. /\ w \in Functions /\ uds' = [uds EXCEPT ![w] = Append(uds[w], c)]
        /\ gpc[c] = "send" /\ gpc'[c] = "ack"
    BY <1>1 DEF SendToWorker, ControlInv, GatewayChildMoves, TypeInv, TypeOK
  <2> HIDE DEF w
  <2>2. /\ uds[w] \in Seq(Conns) /\ c \in Conns /\ uds'[w] = Append(uds[w], c)
        /\ \A v \in Functions \ {w} : uds'[v] = uds[v]
    BY <2>1 DEF TypeInv, TypeOK
  <2>3. /\ \A i \in DOMAIN uds'[w] : \/ i \in DOMAIN uds[w] /\ uds'[w][i] = uds[w][i]
                                     \/ i = Len(uds[w]) + 1 /\ uds'[w][i] = c
        /\ \A i \in DOMAIN uds[w] : i \in DOMAIN uds'[w] /\ uds'[w][i] = uds[w][i]
        /\ \E i \in DOMAIN uds'[w] : uds'[w][i] = c
    BY ONLY <2>2, AppendTo
  <2>4. \A v \in Functions : \A i \in DOMAIN uds[v] : uds[v][i] # c
    BY <1>s, <2>1 DEF Stage, Queued
  <2>5. Queued(c)' /\ \A d \in Conns \ {c} : Queued(d)' = Queued(d)
    <3>1. Queued(c)'
      BY <2>1, <2>3 DEF Queued
    <3>2. ASSUME NEW d \in Conns \ {c} PROVE Queued(d)' => Queued(d)
      <4>1. \A v \in Functions : \A i \in DOMAIN uds'[v] : uds'[v][i] = d =>
              i \in DOMAIN uds[v] /\ uds[v][i] = d
        BY <2>2, <2>3
      <4> QED BY <4>1 DEF Queued
    <3>3. ASSUME NEW d \in Conns \ {c} PROVE Queued(d) => Queued(d)'
      <4>1. \A v \in Functions : \A i \in DOMAIN uds[v] : i \in DOMAIN uds'[v] /\ uds'[v][i] = uds[v][i]
        BY <2>2, <2>3
      <4> QED BY <4>1 DEF Queued
    <3> QED BY <3>1, <3>2, <3>3 DEF Queued
  <2>6. \A d \in Conns : Stage(d)'
    <3>1. Stage(c)'
      BY <1>0, <1>s, <2>1, <2>5 DEF Stage
    <3>2. \A d \in Conns \ {c} : Stage(d)'
      BY <1>0, <2>5 DEF StageInv, Stage
    <3> QED BY <3>1, <3>2
  <2>7. ASSUME NEW u \in Functions, NEW v \in Functions, NEW i \in DOMAIN uds'[u],
               NEW j \in DOMAIN uds'[v], uds'[u][i] = uds'[v][j]
        PROVE  u = v /\ i = j
    <3>1. /\ \/ i \in DOMAIN uds[u] /\ uds'[u][i] = uds[u][i]
             \/ u = w /\ i = Len(uds[w]) + 1 /\ uds'[u][i] = c
          /\ \/ j \in DOMAIN uds[v] /\ uds'[v][j] = uds[v][j]
             \/ v = w /\ j = Len(uds[w]) + 1 /\ uds'[v][j] = c
      BY <2>2, <2>3
    <3> QED BY <2>4, <2>7, <3>1 DEF StageInv
  <2> QED BY <2>6, <2>7 DEF StageInv
<1>2. CASE ~SendToWorker(c)
  <2>1. UNCHANGED <<uds, msgs>>
    BY <1>2 DEF GatewayChild, PollReturns, PollTimesOut, Peek, PeekFails, ConnectFails,
         AckReturns, udsVars
  <2>2. Queued(c)' = Queued(c)
    BY <2>1 DEF Queued
  <2>3. \/ gpc[c] \in {"poll", "peek", "send"} /\ gpc'[c] \in {"peek", "send", "exited"}
        \/ /\ gpc[c] = "ack" /\ gpc'[c] = "exited"
           /\ c \in acked \/ ~PeerOpen(c)
    BY <1>2 DEF GatewayChild, PollReturns, PollTimesOut, Peek, PeekFails, ConnectFails,
         AckReturns, GatewayChildExits, GatewayChildMoves, TypeInv, TypeOK
  <2>4. CASE gpc[c] \in {"poll", "peek", "send"} /\ gpc'[c] \in {"peek", "send", "exited"}
    <3>1. Stage(c)'
      BY <1>0, <1>s, <2>1, <2>2, <2>4 DEF Stage
    <3> QED BY <1>0, <2>1, <3>1, StageAt
  <2>5. CASE gpc[c] = "ack" /\ gpc'[c] = "exited" /\ (c \in acked \/ ~PeerOpen(c))
    <3>1. ~Queued(c)
      BY <1>s, <2>5 DEF Stage, PeerOpen
    <3>2. Stage(c)'
      BY <1>0, <1>s, <2>1, <2>2, <2>5, <3>1 DEF Stage
    <3> QED BY <1>0, <2>1, <3>2, StageAt
  <2> QED BY <2>3, <2>4, <2>5
<1> QED BY <1>1, <1>2

(* c, at the head of w's queue, is accepted. *)
HandedOff(w, c) ==
  /\ c = Head(uds[w])
  /\ UNCHANGED <<client, backlog, gpc, acked>>
  /\ uds'[w] = Tail(uds[w]) /\ \A v \in Functions \ {w} : uds'[v] = uds[v]
  /\ \A d \in Conns \ {c} : wpc'[d] = wpc[d] /\ (d \in msgs' <=> d \in msgs)
  /\ \/ wpc'[c] = "recv" /\ msgs' = msgs
     \/ wpc'[c] = wpc[c] /\ c \notin msgs'
  /\ \A i \in DOMAIN uds'[w] : i \in Nat /\ i >= 1 /\ i + 1 \in DOMAIN uds[w] /\ uds'[w][i] = uds[w][i + 1]
  /\ \A i \in DOMAIN uds[w] : i # 1 => i - 1 \in DOMAIN uds'[w] /\ uds'[w][i - 1] = uds[w][i]
  /\ 1 \in DOMAIN uds[w] /\ uds[w][1] = c
  /\ Queued(c) /\ Stage(c) /\ gpc[c] = "ack" /\ wpc[c] = "none"
  /\ ~Queued(c)' /\ \A d \in Conns \ {c} : Queued(d)' = Queued(d)

LEMMA HandoffQueue ==
  ASSUME TypeInv, StageInv, NEW w \in Functions, AcceptHandoff(w)
  PROVE  \E c \in Conns : HandedOff(w, c)
<1>0. uds[w] # <<>> /\ uds[w] \in Seq(Conns)
  BY DEF AcceptHandoff, TypeInv, TypeOK, ControlInv
<1>1. PICK c \in Conns : c = Head(uds[w])
  BY <1>0, TailOf
<1>2. /\ UNCHANGED <<client, backlog, gpc, acked>>
      /\ uds'[w] = Tail(uds[w]) /\ \A v \in Functions \ {w} : uds'[v] = uds[v]
      /\ \A d \in Conns \ {c} : wpc'[d] = wpc[d] /\ (d \in msgs' <=> d \in msgs)
      /\ \/ wpc'[c] = "recv" /\ msgs' = msgs
         \/ wpc'[c] = wpc[c] /\ c \notin msgs'
  <2>1. /\ uds \in [Functions -> Seq(Conns)] /\ wpc \in [Conns -> {"none", "recv", "accept", "finish", "read", "ack", "exited"}]
    BY DEF TypeInv, TypeOK
  <2>2. UNCHANGED <<client, backlog, gpc, acked>> /\ uds' = [uds EXCEPT ![w] = Tail(uds[w])]
    BY DEF AcceptHandoff, clientVars
  <2>3. CASE Full
    BY <1>1, <2>1, <2>2, <2>3 DEF AcceptHandoff, ForkChild
  <2>4. CASE ~Full
    BY <1>1, <2>1, <2>2, <2>4 DEF AcceptHandoff, ForkChild
  <2> QED BY <2>3, <2>4
<1>3. /\ \A i \in DOMAIN uds'[w] : i \in Nat /\ i >= 1 /\ i + 1 \in DOMAIN uds[w] /\ uds'[w][i] = uds[w][i + 1]
      /\ \A i \in DOMAIN uds[w] : i # 1 => i - 1 \in DOMAIN uds'[w] /\ uds'[w][i - 1] = uds[w][i]
      /\ 1 \in DOMAIN uds[w] /\ uds[w][1] = c
  BY <1>0, <1>1, <1>2, TailOf
<1>4. Queued(c) /\ Stage(c) /\ gpc[c] = "ack" /\ wpc[c] = "none"
  <2>1. Queued(c)
    BY <1>3 DEF Queued
  <2> QED BY <2>1 DEF StageInv, Stage
<1>5. ~Queued(c)'
  <2>1. ASSUME NEW v \in Functions, NEW i \in DOMAIN uds'[v], uds'[v][i] = c PROVE FALSE
    <3>1. CASE v = w
      <4>1. i + 1 \in DOMAIN uds[w] /\ uds[w][i + 1] = uds[w][1] /\ i \in Nat /\ i >= 1
        BY <1>3, <2>1, <3>1
      <4>2. i + 1 = 1
        BY <1>3, <4>1 DEF StageInv
      <4> QED BY <4>1, <4>2
    <3>2. CASE v # w
      BY <1>2, <1>3, <2>1, <3>2 DEF StageInv
    <3> QED BY <3>1, <3>2
  <2> QED BY <2>1 DEF Queued
<1>6. ASSUME NEW d \in Conns \ {c} PROVE Queued(d)' = Queued(d)
  <2>1. Queued(d)' => Queued(d)
    <3>1. ASSUME NEW v \in Functions, NEW i \in DOMAIN uds'[v], uds'[v][i] = d
          PROVE  \E j \in DOMAIN uds[v] : uds[v][j] = d
      <4>1. CASE v = w
        BY <1>3, <3>1, <4>1
      <4>2. CASE v # w
        BY <1>2, <3>1, <4>2
      <4> QED BY <4>1, <4>2
    <3> QED BY <3>1 DEF Queued
  <2>2. Queued(d) => Queued(d)'
    <3>1. ASSUME NEW v \in Functions, NEW i \in DOMAIN uds[v], uds[v][i] = d
          PROVE  \E j \in DOMAIN uds'[v] : uds'[v][j] = d
      <4>1. CASE v = w
        BY <1>3, <3>1, <4>1
      <4>2. CASE v # w
        BY <1>2, <3>1, <4>2
      <4> QED BY <4>1, <4>2
    <3> QED BY <3>1 DEF Queued
  <2> QED BY <2>1, <2>2 DEF Queued
<1> QED BY <1>1, <1>2, <1>3, <1>4, <1>5, <1>6 DEF HandedOff

LEMMA HandoffStage ==
  ASSUME TypeInv, StageInv, NEW w \in Functions, AcceptHandoff(w)
  PROVE  StageInv' /\ wpc[Head(uds[w])] = "none"
<1>0. PICK c \in Conns : HandedOff(w, c)
  BY HandoffQueue
<1>1. c = Head(uds[w])
  BY <1>0 DEF HandedOff
<1>2. /\ UNCHANGED <<client, backlog, gpc, acked>>
      /\ uds'[w] = Tail(uds[w]) /\ \A v \in Functions \ {w} : uds'[v] = uds[v]
      /\ \A d \in Conns \ {c} : wpc'[d] = wpc[d] /\ (d \in msgs' <=> d \in msgs)
      /\ \/ wpc'[c] = "recv"
         \/ wpc'[c] = wpc[c] /\ c \notin msgs'
  BY <1>0 DEF HandedOff
<1>3. /\ \A i \in DOMAIN uds'[w] : i \in Nat /\ i >= 1 /\ i + 1 \in DOMAIN uds[w] /\ uds'[w][i] = uds[w][i + 1]
      /\ \A i \in DOMAIN uds[w] : i # 1 => i - 1 \in DOMAIN uds'[w] /\ uds'[w][i - 1] = uds[w][i]
      /\ 1 \in DOMAIN uds[w] /\ uds[w][1] = c
  BY <1>0 DEF HandedOff
<1>4. Queued(c) /\ Stage(c) /\ gpc[c] = "ack" /\ wpc[c] = "none"
  BY <1>0 DEF HandedOff
<1>5. ~Queued(c)'
  BY <1>0 DEF HandedOff
<1>6. \A d \in Conns \ {c} : Queued(d)' = Queued(d)
  BY <1>0 DEF HandedOff
<1>7. Stage(c)'
  BY <1>2, <1>4, <1>5 DEF Stage
<1>8. ASSUME NEW d \in Conns \ {c} PROVE Stage(d)'
  <2>1. Stage(d)
    BY DEF StageInv
  <2> QED BY <1>2, <1>6, <2>1 DEF Stage
<1>9. ASSUME NEW u \in Functions, NEW v \in Functions, NEW i \in DOMAIN uds'[u],
             NEW j \in DOMAIN uds'[v], uds'[u][i] = uds'[v][j]
      PROVE  u = v /\ i = j
  <2>1. \/ u = w /\ i \in Nat /\ i + 1 \in DOMAIN uds[u] /\ uds'[u][i] = uds[u][i + 1]
        \/ u # w /\ i \in DOMAIN uds[u] /\ uds'[u][i] = uds[u][i]
    BY <1>2, <1>3
  <2>2. \/ v = w /\ j \in Nat /\ j + 1 \in DOMAIN uds[v] /\ uds'[v][j] = uds[v][j + 1]
        \/ v # w /\ j \in DOMAIN uds[v] /\ uds'[v][j] = uds[v][j]
    BY <1>2, <1>3
  <2>3. u = v
    BY <1>9, <2>1, <2>2 DEF StageInv
  <2>4. CASE u = w
    <3>1. i \in Nat /\ j \in Nat /\ i + 1 = j + 1
      BY <1>9, <2>1, <2>2, <2>3, <2>4 DEF StageInv
    <3> QED BY <2>3, <3>1
  <2>5. CASE u # w
    BY <1>9, <2>1, <2>2, <2>3, <2>5 DEF StageInv
  <2> QED BY <2>4, <2>5
<1> QED BY <1>1, <1>4, <1>7, <1>8, <1>9 DEF StageInv

LEMMA WorkerParentStage ==
  ASSUME TypeInv, StageInv, NEW w \in Functions, WorkerParent(w)
  PROVE  StageInv'
<1>1. CASE Poll(w)
  <2>1. UNCHANGED <<client, backlog, uds, msgs, acked, gpc, wpc>>
    BY <1>1 DEF Poll, clientVars, udsVars, childVars
  <2> QED BY <2>1 DEF StageInv, Stage, Queued
<1>2. ASSUME NEW c \in Conns, AcceptDirect(w, c) PROVE StageInv'
  <2>1. /\ UNCHANGED <<client, uds, msgs, acked, gpc>> /\ c \in backlog /\ c \notin backlog'
        /\ \A d \in Conns \ {c} : wpc'[d] = wpc[d] /\ (d \in backlog' <=> d \in backlog)
        /\ wpc'[c] \in {wpc[c], "accept"}
    BY <1>2 DEF AcceptDirect, ForkChild, DirectClients, clientVars, udsVars, TypeInv, TypeOK
  <2>2. Queued(c)' = Queued(c)
    BY <2>1 DEF Queued
  <2>3. Stage(c) /\ gpc[c] = "none" /\ wpc[c] = "none" /\ ~Queued(c) /\ client[c] # "idle"
    BY <2>1 DEF StageInv, Stage
  <2>4. Stage(c)'
    BY <2>1, <2>2, <2>3 DEF Stage
  <2> QED BY <2>1, <2>4, StageAt
<1> QED BY <1>1, <1>2, HandoffStage DEF WorkerParent

LEMMA WorkerChildStage ==
  ASSUME TypeInv, StageInv, NEW c \in Conns, WorkerChild(c) \/ ChildDies(c)
  PROVE  StageInv'
<1>1. /\ UNCHANGED <<backlog, uds, gpc>>
      /\ \A d \in Conns \ {c} : /\ client'[d] = client[d] /\ wpc'[d] = wpc[d]
                                /\ (d \in msgs' <=> d \in msgs) /\ (d \in acked' <=> d \in acked)
      /\ wpc[c] \notin {"none", "exited"} /\ wpc'[c] \notin {"none", "recv"}
      /\ client'[c] = "idle" => client[c] = "idle"
      /\ c \in msgs' => c \in msgs /\ wpc[c] # "recv"
      /\ c \in acked' => c \in acked \/ wpc'[c] = "exited"
  BY DEF WorkerChild, ChildDies, ReceiveHandoff, ReceiveNoFd, AnswerHello, Handshake, HandshakeFails, Respond,
         RequestsEnd, Ack, EndOfClient, WorkerChildMoves, TypeInv, TypeOK
<1>2. Queued(c)' = Queued(c)
  BY <1>1 DEF Queued
<1>3. Stage(c)
  BY DEF StageInv
<1>4. Stage(c)'
  BY <1>1, <1>2, <1>3 DEF Stage
<1> QED BY <1>1, <1>4, StageAt

-----------------------------------------------------------------------------
(* The invariant, and what it implies *)

Inv == TypeInv /\ CopyInv /\ StageInv

LEMMA StageStep == TypeInv /\ StageInv /\ [Next]_vars => StageInv'
<1> SUFFICES ASSUME TypeInv, StageInv, [Next]_vars PROVE StageInv'
  OBVIOUS
<1>1. CASE UNCHANGED vars
  <2>1. UNCHANGED <<client, backlog, uds, msgs, acked, gpc, wpc>>
    BY <1>1 DEF vars, clientVars, udsVars, childVars
  <2> QED BY <2>1 DEF StageInv, Stage, Queued
<1> QED BY <1>1, ClientStage, AcceptStage, GatewayChildStage, WorkerParentStage, WorkerChildStage
        DEF Next

LEMMA InitInv == Init => Inv
<1> SUFFICES ASSUME Init PROVE Inv
  OBVIOUS
<1>1. CopyInv
  BY DEF Init, CopyInv
<1>2. StageInv
  BY DEF Init, StageInv, Stage, Queued
<1> QED BY <1>1, <1>2, InitType DEF Inv

LEMMA Invariant == Spec => []Inv
<1>1. Inv /\ [Next]_vars => Inv'
  BY TypeStep, CopyStep, StageStep DEF Inv
<1> QED BY <1>1, InitInv, PTL DEF Spec

(***************************************************************************)
(* Every variable keeps its type: a worker accepts only when its queue     *)
(* holds a connection, the gateway sends only to a function it knows, and  *)
(* no more requests are answered than were sent.                           *)
(***************************************************************************)
THEOREM SniTypeCorrect == Spec => []TypeOK
<1>1. Inv => TypeOK
  BY DEF Inv, TypeInv
<1> QED BY <1>1, Invariant, PTL

(***************************************************************************)
(* A child never inherits another client's descriptor, in the gateway or   *)
(* in a worker: when nobody works on a connection any more no copy of its  *)
(* descriptor is left, so that close() is the end of file its client sees. *)
(***************************************************************************)
THEOREM SniNoStrayCopies == Spec => []NoStrayCopies
<1>1. Inv => NoStrayCopies
  <2> SUFFICES ASSUME Inv, NEW c \in Conns, Open(c)
               PROVE  c \in backlog \cup msgs \/ c \in Running(gpc) \cup Running(wpc)
    BY DEF NoStrayCopies
  <2>1. \A d \in Conns : c \in gfds[d] \cup wfds[d] => d = c
    BY DEF Inv, CopyInv
  <2>2. \/ c \in backlog \cup msgs \/ gfds[c] # {} \/ wfds[c] # {}
    BY <2>1 DEF Open, Inv, CopyInv
  <2> QED BY <2>2 DEF Inv, CopyInv, Running
<1> QED BY <1>1, Invariant, PTL

(* A descriptor that was sent is in a Unix connection the worker still has   *)
(* to accept, or has a child in recvmsg for.                                 *)
HandoffsHeld == \A c \in msgs : Queued(c) \/ wpc[c] = "recv"

(***************************************************************************)
(* A descriptor in flight is never forgotten: send_to_worker's message     *)
(* stays in the worker's accept queue until receive_handoff_v3 takes it or *)
(* the connection that carries it is closed, by a failed fork or by the    *)
(* death of the child.                                                     *)
(***************************************************************************)
THEOREM SniHandoffsHeld == Spec => []HandoffsHeld
<1>1. Inv => HandoffsHeld
  BY DEF Inv, TypeInv, TypeOK, StageInv, Stage, HandoffsHeld
<1> QED BY <1>1, Invariant, PTL

(* A fork of one of c's children is the first on that side, and a worker's   *)
(* parent forks for a connection of the gateway only while the gateway's     *)
(* child waits for its byte.                                                 *)
ForkedOnce ==
  \A c \in Conns :
    /\ gpc'[c] = "poll" => gpc[c] \in {"none", "poll"}
    /\ wpc'[c] = "recv" => wpc[c] = "recv" \/ (wpc[c] = "none" /\ gpc[c] = "ack")
    /\ wpc'[c] = "accept" =>
         wpc[c] \in {"recv", "accept"} \/ (wpc[c] = "none" /\ gpc[c] = "none")

(***************************************************************************)
(* Whatever the order in which the accept queues are served, each side     *)
(* forks at most one child for a connection: no descriptor is handed over  *)
(* twice, and none of a connection that came through the worker's own port *)
(* is taken for a hand-over.                                               *)
(***************************************************************************)
THEOREM SniForkedOnce == Spec => [][ForkedOnce]_vars
<1>1. Inv /\ Next => ForkedOnce
  <2> SUFFICES ASSUME Inv, Next, NEW c \in Conns
               PROVE  /\ gpc'[c] = "poll" => gpc[c] \in {"none", "poll"}
                      /\ wpc'[c] = "recv" => wpc[c] = "recv" \/ (wpc[c] = "none" /\ gpc[c] = "ack")
                      /\ wpc'[c] = "accept" =>
                           wpc[c] \in {"recv", "accept"} \/ (wpc[c] = "none" /\ gpc[c] = "none")
    BY DEF ForkedOnce
  <2>t. /\ gpc \in [Conns -> {"none", "poll", "peek", "send", "ack", "exited"}]
        /\ wpc \in [Conns -> {"none", "recv", "accept", "finish", "read", "ack", "exited"}]
        /\ TypeInv /\ StageInv
    BY DEF Inv, TypeInv, TypeOK
  <2>1. ASSUME NEW d \in Conns, ClientStep(d)
        PROVE  UNCHANGED <<gpc, wpc>>
    BY <2>1 DEF ClientStep, Connect, ClientClose, Finish, SendFlight, SendRequest, childVars
  <2>2. ASSUME NEW d \in Conns, AcceptClient(d)
        PROVE  wpc' = wpc /\ (gpc'[c] = "poll" => gpc[c] \in {"none", "poll"})
    <3>1. wpc' = wpc /\ (gpc' = gpc \/ gpc' = [gpc EXCEPT ![d] = "poll"]) /\ d \in backlog
      BY <2>2 DEF AcceptClient
    <3>2. gpc[d] = "none"
      BY <2>t, <3>1 DEF StageInv, Stage
    <3> QED BY <2>t, <3>1, <3>2
  <2>3. ASSUME NEW d \in Conns, GatewayChild(d)
        PROVE  wpc' = wpc /\ (gpc'[c] = "poll" => gpc[c] = "poll")
    <3>1. wpc' = wpc /\ \E to \in {"peek", "send", "ack", "exited"} : gpc' = [gpc EXCEPT ![d] = to]
      BY <2>3 DEF GatewayChild, PollReturns, PollTimesOut, Peek, PeekFails, SendToWorker,
           ConnectFails, AckReturns, GatewayChildExits, GatewayChildMoves
    <3> QED BY <2>t, <3>1
  <2>4. ASSUME NEW d \in Conns, WorkerChild(d) \/ ChildDies(d)
        PROVE  /\ gpc' = gpc /\ (wpc'[c] = "recv" => wpc[c] = "recv")
               /\ wpc'[c] = "accept" => wpc[c] \in {"recv", "accept"}
    <3>1. /\ gpc' = gpc
          /\ \/ \E to \in {"finish", "read", "ack", "exited"} : wpc' = [wpc EXCEPT ![d] = to]
             \/ wpc[d] = "recv" /\ wpc' = [wpc EXCEPT ![d] = "accept"]
      BY <2>4 DEF WorkerChild, ChildDies, ReceiveHandoff, ReceiveNoFd, AnswerHello, Handshake, HandshakeFails,
           Respond, RequestsEnd, Ack, EndOfClient, WorkerChildMoves
    <3> QED BY <2>t, <3>1
  <2>5. ASSUME NEW w \in Functions, WorkerParent(w)
        PROVE  /\ gpc' = gpc
               /\ wpc'[c] = "recv" => wpc[c] = "recv" \/ (wpc[c] = "none" /\ gpc[c] = "ack")
               /\ wpc'[c] = "accept" => wpc[c] = "accept" \/ (wpc[c] = "none" /\ gpc[c] = "none")
    <3>1. CASE Poll(w)
      BY <3>1 DEF Poll, childVars
    <3>2. CASE AcceptHandoff(w)
      <4>1. /\ gpc' = gpc /\ uds[w] # <<>> /\ uds[w] \in Seq(Conns)
            /\ wpc' = wpc \/ wpc' = [wpc EXCEPT ![Head(uds[w])] = "recv"]
        BY <2>t, <3>2 DEF AcceptHandoff, ForkChild, TypeInv, TypeOK, ControlInv
      <4>2. PICK d \in Conns : d = Head(uds[w])
        BY <4>1, TailOf
      <4>3. Queued(d)
        BY <4>1, <4>2, TailOf DEF Queued
      <4>4. gpc[d] = "ack" /\ wpc[d] = "none"
        BY <2>t, <4>3 DEF StageInv, Stage
      <4> QED BY <2>t, <4>1, <4>2, <4>4
    <3>3. ASSUME NEW d \in Conns, AcceptDirect(w, d)
          PROVE  /\ gpc' = gpc /\ (wpc'[c] = "recv" => wpc[c] = "recv")
                 /\ wpc'[c] = "accept" => wpc[c] = "accept" \/ (wpc[c] = "none" /\ gpc[c] = "none")
      <4>1. gpc' = gpc /\ (wpc' = wpc \/ wpc' = [wpc EXCEPT ![d] = "accept"]) /\ d \in backlog
        BY <3>3 DEF AcceptDirect, ForkChild, DirectClients
      <4>2. gpc[d] = "none" /\ wpc[d] = "none"
        BY <2>t, <4>1 DEF StageInv, Stage
      <4> QED BY <2>t, <4>1, <4>2
    <3> QED BY <2>5, <3>1, <3>2, <3>3 DEF WorkerParent
  <2> QED BY <2>1, <2>2, <2>3, <2>4, <2>5 DEF Next
<1> QED BY <1>1, Invariant, PTL DEF Spec

-----------------------------------------------------------------------------
(* Who waits for whom *)

(* The two children of a hand-over: the worker's has a counterpart that      *)
(* waits for its byte, and a message to read unless sendmsg failed; a        *)
(* session is the work of a worker's child.                                  *)
Pair(c) ==
  /\ wpc[c] = "recv" => gpc[c] = "ack"
  /\ gpc[c] = "ack" /\ (Queued(c) \/ wpc[c] = "recv") => c \in msgs \cup Faulty
  /\ client[c] = "greeted" => wpc[c] \in {"finish", "ack", "exited"}
  /\ client[c] = "secure" => wpc[c] \in {"finish", "read", "ack", "exited"}
  /\ wpc[c] = "finish" => client[c] \in {"greeted", "secure", "gone"}
  /\ wpc[c] = "read" => client[c] \in {"secure", "gone"}

PairInv == \A c \in Conns : Pair(c)

(* A step that changes nothing but c's place, and queues no other connection. *)
LEMMA PairAt ==
  ASSUME PairInv, NEW c \in Conns, Pair(c)',
         \A d \in Conns \ {c} : /\ client'[d] = client[d] /\ gpc'[d] = gpc[d] /\ wpc'[d] = wpc[d]
                                /\ d \in msgs' <=> d \in msgs
                                /\ Queued(d)' => Queued(d)
  PROVE  PairInv'
<1>1. \A d \in Conns \ {c} : Pair(d)'
  BY DEF PairInv, Pair
<1> QED BY <1>1 DEF PairInv

LEMMA ClientPair ==
  ASSUME Inv, PairInv, NEW c \in Conns, ClientStep(c)
  PROVE  PairInv'
<1>1. /\ UNCHANGED <<gpc, wpc, uds, msgs>>
      /\ \A d \in Conns \ {c} : client'[d] = client[d]
      /\ \/ client'[c] = client[c] \/ client'[c] = "gone"
         \/ client[c] = "idle" /\ client'[c] = "connected"
         \/ client[c] = "greeted" /\ client'[c] = "secure"
  BY DEF ClientStep, Connect, ClientClose, Finish, SendFlight, SendRequest, clientVars, udsVars, childVars,
         Inv, TypeInv, TypeOK
<1>2. \A d \in Conns : Queued(d)' = Queued(d)
  BY <1>1 DEF Queued
<1>3. Pair(c) /\ Stage(c)
  BY DEF PairInv, Inv, StageInv
<1>4. Pair(c)'
  BY <1>1, <1>2, <1>3 DEF Pair, Stage
<1> QED BY <1>1, <1>2, <1>4, PairAt

LEMMA AcceptPair ==
  ASSUME Inv, PairInv, NEW c \in Conns, AcceptClient(c)
  PROVE  PairInv'
<1>1. /\ UNCHANGED <<client, wpc, uds, msgs>> /\ c \in backlog
      /\ \A d \in Conns \ {c} : gpc'[d] = gpc[d]
      /\ gpc'[c] \in {gpc[c], "poll"}
  BY DEF AcceptClient, clientVars, udsVars, Inv, TypeInv, TypeOK
<1>2. \A d \in Conns : Queued(d)' = Queued(d)
  BY <1>1 DEF Queued
<1>3. Pair(c) /\ Stage(c)
  BY DEF PairInv, Inv, StageInv
<1>4. Pair(c)'
  BY <1>1, <1>2, <1>3 DEF Pair, Stage
<1> QED BY <1>1, <1>2, <1>4, PairAt

LEMMA GatewayChildPair ==
  ASSUME Inv, PairInv, NEW c \in Conns, GatewayChild(c)
  PROVE  PairInv'
<1>0. /\ UNCHANGED <<client, wpc>>
      /\ \A d \in Conns \ {c} : gpc'[d] = gpc[d] /\ (d \in msgs' <=> d \in msgs)
  BY DEF GatewayChild, PollReturns, PollTimesOut, Peek, PeekFails, SendToWorker, ConnectFails,
         AckReturns, GatewayChildExits, GatewayChildMoves, clientVars, udsVars, Inv, TypeInv, TypeOK
<1>s. Pair(c) /\ Stage(c)
  BY DEF PairInv, Inv, StageInv
<1>1. CASE SendToWorker(c)
  <2>1. /\ plan[c].fn \in Functions
        /\ uds' = [uds EXCEPT ![plan[c].fn] = Append(uds[plan[c].fn], c)]
        /\ gpc[c] = "send" /\ gpc'[c] = "ack" /\ c \in msgs' \cup Faulty
    BY <1>1 DEF SendToWorker, ControlInv, GatewayChildMoves, Inv, TypeInv, TypeOK
  <2>2. \A d \in Conns \ {c} : Queued(d)' => Queued(d)
    <3>1. PICK w \in Functions : w = plan[c].fn
      BY <2>1
    <3>2. uds[w] \in Seq(Conns) /\ uds'[w] = Append(uds[w], c) /\ \A v \in Functions \ {w} : uds'[v] = uds[v]
      BY <2>1, <3>1 DEF Inv, TypeInv, TypeOK
    <3>3. \A i \in DOMAIN uds'[w] :
            \/ i \in DOMAIN uds[w] /\ uds'[w][i] = uds[w][i]
            \/ uds'[w][i] = c
      BY ONLY <3>2, AppendTo
    <3> QED BY <3>2, <3>3 DEF Queued
  <2>3. wpc[c] = "none"
    BY <1>s, <2>1 DEF Stage
  <2>4. Pair(c)'
    BY <1>0, <1>s, <2>1, <2>3 DEF Pair
  <2> QED BY <1>0, <2>2, <2>4, PairAt
<1>2. CASE ~SendToWorker(c)
  <2>1. UNCHANGED <<uds, msgs>>
    BY <1>2 DEF GatewayChild, PollReturns, PollTimesOut, Peek, PeekFails, ConnectFails,
         AckReturns, udsVars
  <2>2. \A d \in Conns : Queued(d)' = Queued(d)
    BY <2>1 DEF Queued
  <2>3. \/ gpc[c] \in {"poll", "peek", "send"} /\ gpc'[c] \in {"peek", "send", "exited"}
        \/ /\ gpc[c] = "ack" /\ gpc'[c] = "exited"
           /\ c \in acked \/ ~PeerOpen(c)
    BY <1>2 DEF GatewayChild, PollReturns, PollTimesOut, Peek, PeekFails, ConnectFails,
         AckReturns, GatewayChildExits, GatewayChildMoves, Inv, TypeInv, TypeOK
  <2>4. wpc[c] # "recv"
    BY <1>s, <2>3 DEF Stage, PeerOpen
  <2>5. Pair(c)'
    BY <1>0, <1>s, <2>1, <2>2, <2>3, <2>4 DEF Pair
  <2> QED BY <1>0, <2>1, <2>2, <2>5, PairAt
<1> QED BY <1>1, <1>2

LEMMA WorkerParentPair ==
  ASSUME Inv, PairInv, NEW w \in Functions, WorkerParent(w)
  PROVE  PairInv'
<1>1. CASE Poll(w)
  <2>1. UNCHANGED <<client, uds, msgs, gpc, wpc>>
    BY <1>1 DEF Poll, clientVars, udsVars, childVars
  <2> QED BY <2>1 DEF PairInv, Pair, Queued
<1>2. CASE AcceptHandoff(w)
  <2>1. PICK c \in Conns : HandedOff(w, c)
    BY <1>2, HandoffQueue DEF Inv
  <2>2. Pair(c)
    BY DEF PairInv
  <2>3. Pair(c)'
    BY <2>1, <2>2 DEF HandedOff, Pair
  <2> QED BY <2>1, <2>3, PairAt DEF HandedOff
<1>3. ASSUME NEW c \in Conns, AcceptDirect(w, c) PROVE PairInv'
  <2>1. /\ UNCHANGED <<client, uds, msgs, gpc>> /\ c \in backlog
        /\ \A d \in Conns \ {c} : wpc'[d] = wpc[d]
        /\ wpc'[c] \in {wpc[c], "accept"}
    BY <1>3 DEF AcceptDirect, ForkChild, DirectClients, clientVars, udsVars, Inv, TypeInv, TypeOK
  <2>2. \A d \in Conns : Queued(d)' = Queued(d)
    BY <2>1 DEF Queued
  <2>3. Pair(c) /\ Stage(c)
    BY DEF PairInv, Inv, StageInv
  <2>4. Pair(c)'
    BY <2>1, <2>2, <2>3 DEF Pair, Stage
  <2> QED BY <2>1, <2>2, <2>4, PairAt
<1> QED BY <1>1, <1>2, <1>3 DEF WorkerParent

LEMMA WorkerChildPair ==
  ASSUME Inv, PairInv, NEW c \in Conns, WorkerChild(c) \/ ChildDies(c)
  PROVE  PairInv'
<1>1. /\ UNCHANGED <<uds, gpc>> /\ wpc[c] \notin {"none", "exited"}
      /\ \A d \in Conns \ {c} : client'[d] = client[d] /\ wpc'[d] = wpc[d] /\ (d \in msgs' <=> d \in msgs)
      /\ \/ client' = client /\ wpc'[c] \in {"ack", "exited"}
         \/ client' = client /\ wpc[c] = "recv" /\ wpc'[c] = "accept"
         \/ client' = client /\ wpc[c] = "read" /\ wpc'[c] = "read"
         \/ client' = client /\ client[c] = "secure" /\ wpc[c] = "finish" /\ wpc'[c] = "read"
         \/ client'[c] = "greeted" /\ wpc[c] = "accept" /\ wpc'[c] = "finish"
  BY DEF WorkerChild, ChildDies, ReceiveHandoff, ReceiveNoFd, AnswerHello, Handshake, HandshakeFails, Respond,
         RequestsEnd, Ack, EndOfClient, WorkerChildMoves, Inv, TypeInv, TypeOK
<1>2. \A d \in Conns : Queued(d)' = Queued(d)
  BY <1>1 DEF Queued
<1>3. Pair(c) /\ Stage(c)
  BY DEF PairInv, Inv, StageInv
<1>4. Pair(c)'
  BY <1>1, <1>2, <1>3 DEF Pair, Stage
<1> QED BY <1>1, <1>2, <1>4, PairAt

LEMMA PairStep == Inv /\ PairInv /\ [Next]_vars => PairInv'
<1> SUFFICES ASSUME Inv, PairInv, [Next]_vars PROVE PairInv'
  OBVIOUS
<1>1. CASE UNCHANGED vars
  <2>1. UNCHANGED <<client, uds, msgs, gpc, wpc>>
    BY <1>1 DEF vars, clientVars, udsVars, childVars
  <2> QED BY <2>1 DEF PairInv, Pair, Queued
<1> QED BY <1>1, ClientPair, AcceptPair, GatewayChildPair, WorkerParentPair, WorkerChildPair
        DEF Next

LEMMA PairInvariant == Spec => []PairInv
<1>1. Init => PairInv
  BY DEF Init, PairInv, Pair, Queued
<1>2. Inv /\ PairInv /\ [Next]_vars => PairInv'
  BY PairStep
<1> QED BY <1>1, <1>2, Invariant, PTL DEF Spec

(***************************************************************************)
(* The children of a hand-over wait for each other for ever only after a   *)
(* failure: the gateway's child awaits its byte whether sendmsg succeeded  *)
(* or not, and the worker's child then sits in recvmsg.  No order of the   *)
(* forks, of the accept queue and of the client's going away does it.      *)
(***************************************************************************)
THEOREM SniWedgeNeedsFault == Spec => [](\A c \in Conns : Wedged(c) => c \in Faulty)
<1>1. PairInv => \A c \in Conns : Wedged(c) => c \in Faulty
  BY DEF PairInv, Pair, Wedged
<1> QED BY <1>1, PairInvariant, PTL

(* What poll reported to a worker's parent is there to be accepted. *)
AcceptReady ==
  \A w \in Functions : /\ "uds" \in rev[w] => uds[w] # <<>>
                       /\ "tcp" \in rev[w] => DirectClients(w) # {}

DirectReady == \A w \in Functions : "tcp" \in rev[w] => DirectClients(w) # {}

LEMMA DirectStep == Inv /\ DirectReady /\ [Next]_vars => DirectReady'
<1> SUFFICES ASSUME Inv, DirectReady, [Next]_vars, NEW w \in Functions, "tcp" \in rev'[w]
             PROVE  DirectClients(w)' # {}
  BY DEF DirectReady
<1>1. rev \in [Functions -> SUBSET {"uds", "tcp"}] /\ Gateway \notin Functions
  BY SniConstants DEF Inv, TypeInv, TypeOK
<1>2. CASE UNCHANGED <<rev, plan>> /\ \A c \in backlog : plan[c].to = w => c \in backlog'
  BY <1>2 DEF DirectReady, DirectClients
<1>3. ASSUME NEW c \in Conns, ClientStep(c)
      PROVE  UNCHANGED <<rev, plan>> /\ backlog \subseteq backlog'
  BY <1>3 DEF ClientStep, Connect, ClientClose, Finish, SendFlight, SendRequest, clientVars, parentVars
<1>4. ASSUME NEW c \in Conns, AcceptClient(c)
      PROVE  UNCHANGED <<rev, plan>> /\ backlog' = backlog \ {c} /\ plan[c].to # w
  BY <1>1, <1>4 DEF AcceptClient, clientVars
<1>5. ASSUME NEW c \in Conns, GatewayChild(c) \/ WorkerChild(c) \/ ChildDies(c)
      PROVE  UNCHANGED <<rev, plan, backlog>>
  BY <1>5 DEF GatewayChild, PollReturns, PollTimesOut, Peek, PeekFails, SendToWorker, ConnectFails,
         AckReturns, GatewayChildExits, GatewayChildMoves, clientVars, parentVars,
         WorkerChild, ChildDies, ReceiveHandoff, ReceiveNoFd, AnswerHello, Handshake, HandshakeFails, Respond,
         RequestsEnd, Ack, EndOfClient, WorkerChildMoves
<1>6. ASSUME NEW v \in Functions, WorkerParent(v) PROVE DirectClients(w)' # {}
  <2>1. CASE Poll(v)
    <3>1. /\ rev' = [rev EXCEPT ![v] = (IF uds[v] # <<>> THEN {"uds"} ELSE {})
                                   \cup (IF DirectClients(v) # {} THEN {"tcp"} ELSE {})]
          /\ UNCHANGED <<plan, backlog>>
      BY <2>1 DEF Poll, clientVars
    <3>2. DirectClients(w) # {}
      BY <1>1, <3>1 DEF DirectReady
    <3> QED BY <3>1, <3>2 DEF DirectClients
  <2>2. CASE AcceptHandoff(v)
    <3>1. rev' = [rev EXCEPT ![v] = rev[v] \ {"uds"}] /\ UNCHANGED <<plan, backlog>>
      BY <2>2 DEF AcceptHandoff, clientVars
    <3>2. DirectClients(w) # {}
      BY <1>1, <3>1 DEF DirectReady
    <3> QED BY <3>1, <3>2 DEF DirectClients
  <2>3. ASSUME NEW c \in Conns, AcceptDirect(v, c) PROVE DirectClients(w)' # {}
    <3>1. /\ rev' = [rev EXCEPT ![v] = {}] /\ plan' = plan /\ backlog' = backlog \ {c}
          /\ plan[c].to = v
      BY <2>3 DEF AcceptDirect, DirectClients, clientVars
    <3>2. w # v /\ DirectClients(w) # {}
      BY <1>1, <3>1 DEF DirectReady
    <3> QED BY <3>1, <3>2 DEF DirectClients
  <2> QED BY <1>6, <2>1, <2>2, <2>3 DEF WorkerParent
<1>7. CASE UNCHANGED vars
  BY <1>2, <1>7 DEF vars, clientVars, parentVars
<1> QED BY <1>2, <1>3, <1>4, <1>5, <1>6, <1>7 DEF Next

(***************************************************************************)
(* A worker's parent never blocks in accept: between the poll that         *)
(* reported a connection and the accept nobody else takes it, and one that *)
(* its client has given up is still delivered.  (A parent that blocked     *)
(* there would serve neither hand-overs nor its own port.)                 *)
(***************************************************************************)
THEOREM SniAcceptNeverBlocks == Spec => []AcceptReady
<1>1. Init => DirectReady
  BY DEF Init, DirectReady
<1>2. Inv /\ DirectReady => AcceptReady
  BY DEF Inv, TypeInv, ControlInv, DirectReady, AcceptReady
<1>3. Inv /\ DirectReady /\ [Next]_vars => DirectReady'
  BY DirectStep
<1> QED BY <1>1, <1>2, <1>3, Invariant, PTL DEF Spec

(***************************************************************************)
(* Nothing to do: every parent sits in accept or poll with nothing to      *)
(* report, and every child in a call that nothing lets return (the         *)
(* gateway's wait for the first bytes counts until its second is over).    *)
(***************************************************************************)
ParentWaits(w) == rev[w] = {} /\ uds[w] = <<>> /\ DirectClients(w) = {}

GatewayChildWaits(c) ==
  \/ gpc[c] \in {"none", "exited"}
  \/ gpc[c] = "poll" /\ ~Readable(c)
  \/ gpc[c] = "send" /\ Len(uds[plan[c].fn]) >= MaxQueue
  \/ gpc[c] = "ack" /\ c \notin acked /\ PeerOpen(c)

WorkerChildWaits(c) ==
  \/ wpc[c] \in {"none", "exited"}
  \/ wpc[c] = "recv" /\ c \notin msgs
  \/ /\ wpc[c] = "accept" /\ client[c] = "connected"
     /\ arrived[c] > 0 => plan[c].kind = "tls" /\ arrived[c] < plan[c].size
  \/ wpc[c] = "finish" /\ client[c] = "greeted"
  \/ wpc[c] = "read" /\ answered[c] = Len(reqs[c]) /\ client[c] # "gone"

Quiet ==
  /\ \A c \in backlog : plan[c].to # Gateway
  /\ \A w \in Functions : ParentWaits(w)
  /\ \A c \in Conns : GatewayChildWaits(c) /\ WorkerChildWaits(c)

NothingLeft(c) == ~Open(c) /\ c \notin Running(gpc) \cup Running(wpc)

SettledAt(c) ==
  /\ client[c] = "connected" /\ arrived[c] = plan[c].size => ~Open(c) \/ Wedged(c)
  /\ client[c] = "greeted" /\ Open(c) => wpc[c] = "finish"
  /\ client[c] = "secure" /\ Open(c) => wpc[c] = "read" /\ answered[c] = Len(reqs[c])
  /\ client[c] = "gone" => NothingLeft(c) \/ Wedged(c)

Settled == Quiet => \A c \in Conns : SettledAt(c)

LEMMA QuietSettled ==
  Inv /\ PairInv /\ NoStrayCopies => Settled
<1> SUFFICES ASSUME Inv, PairInv, NoStrayCopies, Quiet, NEW c \in Conns PROVE SettledAt(c)
  BY DEF Settled
<1>0. /\ TypeOK /\ ControlInv /\ Stage(c) /\ Pair(c)
      /\ GatewayChildWaits(c) /\ WorkerChildWaits(c)
  BY DEF Inv, TypeInv, StageInv, PairInv, Quiet
<1>1. c \notin backlog
  <2>1. plan[c].to \in Functions \cup {Gateway}
    BY <1>0 DEF TypeOK, Plan, Parents
  <2> QED BY <1>0, <2>1 DEF Quiet, ParentWaits, DirectClients
<1>2. ~Queued(c)
  BY DEF Quiet, ParentWaits, Queued
<1>3. gpc[c] # "send"
  <2>1. CASE gpc[c] = "send"
    <3>1. plan[c].fn \in Functions
      BY <1>0, <2>1 DEF ControlInv
    <3>2. Len(uds[plan[c].fn]) = 0
      BY <3>1 DEF Quiet, ParentWaits
    <3> QED BY <1>0, <2>1, <3>2, SniConstants DEF GatewayChildWaits
  <2> QED BY <2>1
<1>4. c \notin msgs
  BY <1>0, <1>2 DEF Stage, WorkerChildWaits
<1>5. Open(c) => c \in Running(gpc) \cup Running(wpc)
  BY <1>1, <1>4 DEF NoStrayCopies
<1>6. \/ c \notin Running(gpc) \cup Running(wpc)
      \/ gpc[c] = "poll" /\ ~Readable(c)
      \/ wpc[c] \in {"recv", "accept", "finish", "read"}
  BY <1>0, <1>2, <1>3 DEF GatewayChildWaits, WorkerChildWaits, PeerOpen, Running
<1>7. wpc[c] = "recv" => Wedged(c)
  BY <1>0, <1>4 DEF Pair, Wedged
<1>8. wpc[c] = "accept" => client[c] = "connected" /\ arrived[c] # plan[c].size
  <2>1. arrived[c] \in Nat /\ plan[c].size \in Nat \ {0}
    BY <1>0 DEF TypeOK, Plan
  <2> QED BY <1>0, <2>1 DEF WorkerChildWaits
<1>9. wpc[c] = "read" => client[c] = "secure" /\ answered[c] = Len(reqs[c])
  BY <1>0 DEF Pair, WorkerChildWaits
<1>f. wpc[c] = "finish" => client[c] = "greeted"
  BY <1>0 DEF WorkerChildWaits
<1>10. gpc[c] = "poll" /\ ~Readable(c) =>
         wpc[c] = "none" /\ client[c] # "gone" /\ arrived[c] # plan[c].size
  <2>1. arrived[c] \in Nat /\ plan[c].size \in Nat \ {0}
    BY <1>0 DEF TypeOK, Plan
  <2> QED BY <1>0, <2>1 DEF Stage, Readable
<1>11. ASSUME client[c] = "connected", arrived[c] = plan[c].size PROVE ~Open(c) \/ Wedged(c)
  BY <1>5, <1>6, <1>7, <1>8, <1>9, <1>10, <1>11, <1>f
<1>12. ASSUME client[c] = "secure", Open(c) PROVE wpc[c] = "read" /\ answered[c] = Len(reqs[c])
  BY <1>0, <1>5, <1>6, <1>9, <1>10, <1>12, <1>f DEF Pair
<1>13. ASSUME client[c] = "gone" PROVE NothingLeft(c) \/ Wedged(c)
  BY <1>5, <1>6, <1>7, <1>8, <1>9, <1>10, <1>13, <1>f DEF NothingLeft
<1>14. ASSUME client[c] = "greeted", Open(c) PROVE wpc[c] = "finish"
  BY <1>0, <1>5, <1>6, <1>10, <1>14 DEF Pair
<1> QED BY <1>11, <1>12, <1>13, <1>14 DEF SettledAt

(***************************************************************************)
(* The system never comes to rest too early.  When no parent has anything  *)
(* to accept and no child a call that returns, then of every client,       *)
(* silent ones included: a whole ClientHello has been answered or the      *)
(* connection is closed; a connection on which the server's part of the    *)
(* handshake is out and the client's Finished is not is with a worker's    *)
(* child in wolfSSL_read, which waits for nothing but that Finished; after *)
(* the Finished there is a session with every request answered; and of a   *)
(* client that has gone nothing is left, no process and no descriptor.     *)
(* Excepted are the pairs that a failed sendmsg left waiting for each      *)
(* other.                                                                  *)
(***************************************************************************)
THEOREM SniSettlesWhenQuiet == Spec => []Settled
<1>1. Inv /\ PairInv /\ NoStrayCopies => Settled
  BY QuietSettled
<1> QED BY <1>1, Invariant, PairInvariant, SniNoStrayCopies, PTL
=============================================================================
