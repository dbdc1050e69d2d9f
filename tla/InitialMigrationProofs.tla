----------------------- MODULE InitialMigrationProofs -----------------------
(***************************************************************************)
(* Proofs about InitialMigration, and that it implements SessionOwnership, *)
(* for every set of connections, functions and requests, every way to cut  *)
(* a request into records, every buffer size and every fault.              *)
(***************************************************************************)
EXTENDS InitialOwnership, WellFoundedInduction, TLAPS

-----------------------------------------------------------------------------
(* The inductive invariant *)

GatewayPCs == {"accept", "handshake", "peek", "send"}
WorkerPCs == {"accept", "verify", "restore", "headers", "body", "respond"}
BeforeRead == GatewayPCs \cup {"verify", "restore"}

(* Which calls a process makes, and what it has before its first read. *)
ControlInv ==
  /\ pc[Gateway] \in GatewayPCs
  /\ \A w \in Functions : pc[w] \in WorkerPCs
  /\ \A p \in Procs : conn[p] = NoConn <=> pc[p] = "accept"
  /\ \A p \in Procs : seq[p] = 0
  /\ \A w \in Functions : \A i \in DOMAIN uds[w] : uds[w][i].seq = 0
  /\ \A p \in Procs : pc[p] \in BeforeRead => ssl[p] = NoSession /\ buf[p] = <<>>

TypeInv == TypeOK /\ ControlInv

(* A connection is in one place: the backlog, a message or a process.       *)
OwnInv ==
  /\ \A p \in Procs : fds[p] = {conn[p]} \ {NoConn}
  /\ \A p, q \in Procs : conn[p] = conn[q] /\ conn[p] # NoConn => p = q
  /\ \A p \in Procs : conn[p] \notin backlog
  /\ \A p \in Procs, w \in Functions : \A i \in DOMAIN uds[w] : uds[w][i].conn # conn[p]
  /\ \A w \in Functions : \A i \in DOMAIN uds[w] : uds[w][i].conn \notin backlog
  /\ \A v, w \in Functions : \A i \in DOMAIN uds[v], j \in DOMAIN uds[w] :
       uds[v][i].conn = uds[w][j].conn => v = w /\ i = j

(* Nothing has been read from c, answered or reset on it. *)
Untouched(c) == consumed[c] = 0 /\ resp[c] = <<>> /\ c \notin reset

(* How far a connection has been used, by the place it is in. *)
UseInv ==
  /\ \A c \in Conns : client[c] = "idle" => Untouched(c) /\ ~Open(c)
  /\ \A c \in backlog : Untouched(c)
  /\ \A w \in Functions : \A i \in DOMAIN uds[w] :
       Untouched(uds[w][i].conn) /\ Arrived(uds[w][i].conn) > 0
  /\ \A p \in Procs : conn[p] \in Conns =>
       /\ resp[conn[p]] = <<>> /\ conn[p] \notin reset
       /\ pc[p] \in BeforeRead => consumed[conn[p]] = 0
       /\ pc[p] \in {"send", "verify", "restore"} => Arrived(conn[p]) > 0
       /\ pc[p] \in {"restore", "headers", "body", "respond"} => req[conn[p]].fn = p
  /\ \A c \in Conns : resp[c] # <<>> => resp[c] = <<req[c].fn>>

(* off[i] is where record i of c ends in the request's plaintext. *)
CutAt(c, off) ==
  LET text == Plaintext(req[c]) IN
  /\ off[0] = 0
  /\ \A i \in 1..Len(sent[c]) : off[i] = off[i - 1] + Len(sent[c][i])
  /\ \A i, j \in 0..Len(sent[c]) : i < j => off[i] < off[j]
  /\ off[Len(sent[c])] + Len(todo[c]) = Len(text)
  /\ \A i \in 1..Len(sent[c]) : \A k \in 1..Len(sent[c][i]) :
       sent[c][i][k] = text[off[i - 1] + k]
  /\ \A k \in 1..Len(todo[c]) : todo[c][k] = text[off[Len(sent[c])] + k]

NoEnd(s) == \A i \in 1..Len(s) : s[i] # "end"

(* What w has read of c ends where its last record does, less what is still *)
(* in the session; the body it wants is what remains of the request, and    *)
(* never more than the client sends.                                        *)
ReadAt(w, c, off) ==
  LET text == Plaintext(req[c])
      pending == ssl[w].pending
  IN /\ pc[w] \in {"headers", "body"} => ssl[w].read = consumed[c]
     /\ pc[w] = "headers" =>
          /\ NoEnd(buf[w])
          /\ Len(buf[w]) + Len(pending) = off[consumed[c]]
          /\ \A k \in 1..Len(buf[w]) : buf[w][k] = text[k]
          /\ \A k \in 1..Len(pending) : pending[k] = text[Len(buf[w]) + k]
     /\ pc[w] = "body" =>
          want[w] > 0 /\ want[w] + off[consumed[c]] <= Len(text) + Len(pending)
     /\ pc[w] = "body" /\ WellFramed(c) =>
          want[w] + off[consumed[c]] = Len(text) + Len(pending)
     /\ pc[w] = "respond" /\ WellFramed(c) => off[consumed[c]] = Len(text)

(* The records and the reader of a connection agree on its plaintext. *)
Stream(c) ==
  /\ sent[c] # <<>> \/ todo[c] # <<>> => client[c] \in {"sending", "gone"}
  /\ consumed[c] <= Len(sent[c])
  /\ \A w \in Functions : conn[w] = c => sent[c] # <<>>
  /\ \/ sent[c] = <<>> /\ todo[c] = <<>>
     \/ \E off \in [0..Len(sent[c]) -> Nat] :
          CutAt(c, off) /\ \A w \in Functions : conn[w] = c => ReadAt(w, c, off)

StreamInv == \A c \in Conns : Stream(c)

(* A request that was answered and that ends where it says was read up. *)
AnswerInv ==
  \A c \in Conns : resp[c] # <<>> /\ WellFramed(c) =>
    c \notin reset /\ todo[c] = <<>> /\ sent[c] # <<>>

-----------------------------------------------------------------------------
(* Typing *)

LEMMA NoSessionType == NoSession \in Session
BY DEF NoSession, Session

LEMMA MinOfTwo ==
  ASSUME NEW m \in Nat, NEW n \in Nat
  PROVE  Min({m, n}) = IF m <= n THEN m ELSE n
<1> DEFINE x == IF m <= n THEN m ELSE n
<1>1. x \in {m, n} /\ \A y \in {m, n} : x =< y
  OBVIOUS
<1>2. \A z \in {m, n} : (\A y \in {m, n} : z =< y) => z = x
  OBVIOUS
<1> QED BY <1>1, <1>2 DEF Min

LEMMA Concat ==
  ASSUME NEW s \in Seq(Token), NEW t \in Seq(Token)
  PROVE  /\ s \o t \in Seq(Token) /\ Len(s \o t) = Len(s) + Len(t)
         /\ \A i \in 1..Len(s) : (s \o t)[i] = s[i]
         /\ \A i \in 1..Len(t) : (s \o t)[Len(s) + i] = t[i]
         /\ \A i \in 1..Len(s \o t) :
              \/ i \in 1..Len(s) /\ (s \o t)[i] = s[i]
              \/ i - Len(s) \in 1..Len(t) /\ (s \o t)[i] = t[i - Len(s)]
OBVIOUS

LEMMA AppendMsg ==
  ASSUME NEW s \in Seq(Msg), NEW m \in Msg
  PROVE  /\ Append(s, m) \in Seq(Msg)
         /\ \A i \in DOMAIN Append(s, m) :
              \/ i \in DOMAIN s /\ Append(s, m)[i] = s[i]
              \/ i = Len(s) + 1 /\ i \notin DOMAIN s /\ Append(s, m)[i] = m
         /\ \A i \in DOMAIN s : i \in DOMAIN Append(s, m)
         /\ Len(s) + 1 \in DOMAIN Append(s, m)
OBVIOUS

LEMMA TailMsg ==
  ASSUME NEW s \in Seq(Msg), s # <<>>
  PROVE  /\ Tail(s) \in Seq(Msg)
         /\ 1 \in DOMAIN s /\ Head(s) = s[1] /\ Head(s) \in Msg
         /\ \A i \in DOMAIN Tail(s) : /\ i \in Nat /\ i >= 1
                                      /\ i + 1 \in DOMAIN s
                                      /\ Tail(s)[i] = s[i + 1]
         /\ \A i \in DOMAIN s : i = 1 \/ (i - 1 \in DOMAIN Tail(s) /\ Tail(s)[i - 1] = s[i])
<1>1. Tail(s) \in Seq(Msg)
  OBVIOUS
<1>2. 1 \in DOMAIN s /\ Head(s) = s[1] /\ Head(s) \in Msg
  OBVIOUS
<1>3. \A i \in DOMAIN Tail(s) : i \in Nat /\ i >= 1 /\ i + 1 \in DOMAIN s /\ Tail(s)[i] = s[i + 1]
  OBVIOUS
<1>4. \A i \in DOMAIN s : i = 1 \/ i - 1 \in DOMAIN Tail(s)
  OBVIOUS
<1>5. \A i \in DOMAIN s : i # 1 => Tail(s)[i - 1] = s[i]
  BY <1>3, <1>4
<1> QED BY <1>1, <1>2, <1>3, <1>4, <1>5

(* The index of a request's blank line; there is just one. *)
LineLen(r) == IF r.line = "cut" THEN 2 ELSE 1
EndAt(r) == LineLen(r) + r.hdr + 1
ExtraLen(r) == IF r.extra THEN 1 ELSE 0

LEMMA NoEndConcat ==
  ASSUME NEW s \in Seq(Token), NEW t \in Seq(Token), NoEnd(s), NoEnd(t)
  PROVE  NoEnd(s \o t)
BY Concat DEF NoEnd

LEMMA PlaintextShape ==
  ASSUME NEW r \in Request
  PROVE  /\ Plaintext(r) \in Seq(Token)
         /\ EndAt(r) \in 1..Len(Plaintext(r))
         /\ Len(Plaintext(r)) = EndAt(r) + r.body + ExtraLen(r)
         /\ \A i \in 1..Len(Plaintext(r)) : Plaintext(r)[i] = "end" => i = EndAt(r)
         /\ r.body \in Nat /\ ExtraLen(r) \in {0, 1}
<1> DEFINE l == IF r.line = "cut" THEN <<"half", "line">> ELSE <<"line">>
           h == [i \in 1..r.hdr |-> "hdr"]
           e == <<"end">>
           b == [i \in 1..r.body |-> "body"]
           x == IF r.extra THEN <<"next">> ELSE <<>>
<1>t. r.hdr \in Nat /\ r.body \in Nat /\ r.extra \in BOOLEAN
  BY DEF Request
<1>1. l \in Seq(Token) /\ Len(l) = LineLen(r) /\ LineLen(r) \in Nat \ {0} /\ NoEnd(l)
  <2>1. CASE r.line = "cut"
    BY <2>1 DEF Token, LineLen, NoEnd
  <2>2. CASE r.line # "cut"
    BY <2>2 DEF Token, LineLen, NoEnd
  <2> QED BY <2>1, <2>2
<1>2. h \in Seq(Token) /\ Len(h) = r.hdr /\ NoEnd(h)
  BY <1>t DEF Token, NoEnd
<1>3. b \in Seq(Token) /\ Len(b) = r.body /\ NoEnd(b)
  BY <1>t DEF Token, NoEnd
<1>4. x \in Seq(Token) /\ Len(x) = ExtraLen(r) /\ ExtraLen(r) \in {0, 1} /\ NoEnd(x)
  <2>1. CASE r.extra
    BY <2>1 DEF Token, ExtraLen, NoEnd
  <2>2. CASE ~r.extra
    BY <2>2 DEF Token, ExtraLen, NoEnd
  <2> QED BY <2>1, <2>2
<1>5. e \in Seq(Token) /\ Len(e) = 1 /\ e[1] = "end"
  BY DEF Token
<1>12. EndAt(r) \in Nat /\ EndAt(r) >= 1
  BY <1>1, <1>t DEF EndAt
<1>6. Plaintext(r) = (((l \o h) \o e) \o b) \o x
  BY DEF Plaintext
<1> HIDE DEF l, h, e, b, x
<1>7. l \o h \in Seq(Token) /\ Len(l \o h) = LineLen(r) + r.hdr /\ NoEnd(l \o h)
  <2>1. l \o h \in Seq(Token) /\ Len(l \o h) = Len(l) + Len(h)
    BY <1>1, <1>2, Concat
  <2>2. NoEnd(l \o h)
    BY <1>1, <1>2, NoEndConcat
  <2> QED BY <2>1, <2>2, <1>1, <1>2
<1> DEFINE lh == l \o h
<1> HIDE DEF lh
<1>8. /\ lh \o e \in Seq(Token) /\ Len(lh \o e) = EndAt(r)
      /\ \A i \in 1..Len(lh \o e) : (lh \o e)[i] = "end" => i = EndAt(r)
  <2>1. lh \in Seq(Token) /\ Len(lh) = LineLen(r) + r.hdr /\ NoEnd(lh)
    BY <1>7 DEF lh
  <2>2. /\ lh \o e \in Seq(Token) /\ Len(lh \o e) = Len(lh) + Len(e)
        /\ \A i \in 1..Len(lh \o e) :
             \/ i \in 1..Len(lh) /\ (lh \o e)[i] = lh[i]
             \/ i - Len(lh) \in 1..Len(e) /\ (lh \o e)[i] = e[i - Len(lh)]
    BY <2>1, <1>5, Concat
  <2>3. Len(lh) \in Nat /\ Len(lh) + 1 = EndAt(r)
    BY <2>1, <1>1, <1>t DEF EndAt
  <2>4. ASSUME NEW i \in 1..Len(lh \o e), (lh \o e)[i] = "end"
        PROVE  i = EndAt(r)
    <3>1. i \notin 1..Len(lh)
      BY <2>1, <2>2, <2>3, <2>4 DEF NoEnd
    <3> QED BY <3>1, <2>2, <2>3, <1>5
  <2> QED BY <2>2, <2>3, <2>4, <1>5
<1> DEFINE lhe == lh \o e
<1> HIDE DEF lhe
<1>9. /\ lhe \o b \in Seq(Token) /\ Len(lhe \o b) = EndAt(r) + r.body
      /\ \A i \in 1..Len(lhe \o b) : (lhe \o b)[i] = "end" => i = EndAt(r)
  <2>1. lhe \in Seq(Token) /\ Len(lhe) = EndAt(r)
        /\ \A i \in 1..Len(lhe) : lhe[i] = "end" => i = EndAt(r)
    BY <1>8 DEF lhe
  <2>2. /\ lhe \o b \in Seq(Token) /\ Len(lhe \o b) = Len(lhe) + Len(b)
        /\ \A i \in 1..Len(lhe \o b) :
             \/ i \in 1..Len(lhe) /\ (lhe \o b)[i] = lhe[i]
             \/ i - Len(lhe) \in 1..Len(b) /\ (lhe \o b)[i] = b[i - Len(lhe)]
    BY <2>1, <1>3, Concat
  <2> QED BY <2>1, <2>2, <1>3, <1>12, <1>t DEF NoEnd
<1> DEFINE lheb == lhe \o b
<1> HIDE DEF lheb
<1>10. /\ lheb \o x \in Seq(Token) /\ Len(lheb \o x) = EndAt(r) + r.body + ExtraLen(r)
       /\ \A i \in 1..Len(lheb \o x) : (lheb \o x)[i] = "end" => i = EndAt(r)
  <2>1. lheb \in Seq(Token) /\ Len(lheb) = EndAt(r) + r.body
        /\ \A i \in 1..Len(lheb) : lheb[i] = "end" => i = EndAt(r)
    BY <1>9 DEF lheb
  <2>2. /\ lheb \o x \in Seq(Token) /\ Len(lheb \o x) = Len(lheb) + Len(x)
        /\ \A i \in 1..Len(lheb \o x) :
             \/ i \in 1..Len(lheb) /\ (lheb \o x)[i] = lheb[i]
             \/ i - Len(lheb) \in 1..Len(x) /\ (lheb \o x)[i] = x[i - Len(lheb)]
    BY <2>1, <1>4, Concat
  <2> QED BY <2>1, <2>2, <1>4, <1>12, <1>t DEF NoEnd
<1>11. Plaintext(r) = lheb \o x
  BY <1>6 DEF lheb, lhe, lh
<1>13. EndAt(r) \in 1..Len(Plaintext(r))
  BY <1>4, <1>10, <1>11, <1>12, <1>t
<1> QED BY <1>4, <1>10, <1>11, <1>13, <1>t

LEMMA ProcFacts ==
  /\ Gateway \in Procs /\ \A w \in Functions : w \in Procs /\ w # Gateway
  /\ \A p \in Procs : p = Gateway \/ p \in Functions
BY InitialConstants DEF Procs

LEMMA InitType == Init => TypeInv
<1> SUFFICES ASSUME Init PROVE TypeInv
  OBVIOUS
<1>1. req \in [Conns -> Request]
  BY InitialConstants DEF Init
<1>2. TypeOK
  BY <1>1, NoSessionType, ProcFacts, InitialConstants DEF Init, TypeOK
<1>3. ControlInv
  BY ProcFacts DEF Init, ControlInv, GatewayPCs, WorkerPCs
<1> QED BY <1>2, <1>3 DEF TypeInv

(* What a step that leaves the servers alone must keep for TypeInv. *)
LEMMA ClientType ==
  ASSUME TypeInv, NEW c \in Conns, ClientStep(c)
  PROVE  TypeInv'
<1>s. ControlInv' /\ UNCHANGED <<req, consumed, resp, uds, localVars>>
  BY DEF TypeInv, ControlInv, ClientStep, Connect, Hello, IssueRequest, RestArrives,
         ReadResponse, ClientClose, SendRecord, serverVars, localVars, workVars
<1>1. CASE Connect(c) \/ Hello(c) \/ RestArrives(c) \/ ReadResponse(c) \/ ClientClose(c)
  BY <1>1, <1>s DEF TypeInv, TypeOK, Connect, Hello, RestArrives, ReadResponse, ClientClose,
         serverVars, localVars, workVars
<1>2. CASE IssueRequest(c)
  <2>1. Plaintext(req[c]) \in Seq(Token)
    BY PlaintextShape DEF TypeInv, TypeOK
  <2> QED BY <1>2, <1>s, <2>1 DEF TypeInv, TypeOK, IssueRequest, serverVars, localVars, workVars
<1>3. ASSUME NEW k \in 1..Len(todo[c]), NEW cut \in BOOLEAN, SendRecord(c, k, cut)
      PROVE  TypeInv'
  <2>1. /\ todo[c] \in Seq(Token)
        /\ SubSeq(todo[c], 1, k) \in Seq(Token)
        /\ SubSeq(todo[c], k + 1, Len(todo[c])) \in Seq(Token)
    BY DEF TypeInv, TypeOK
  <2>2. /\ todo' = [todo EXCEPT ![c] = SubSeq(todo[c], k + 1, Len(todo[c]))]
        /\ sent' = [sent EXCEPT ![c] = Append(sent[c], SubSeq(todo[c], 1, k))]
    BY <1>3 DEF SendRecord
  <2>3. todo' \in [Conns -> Seq(Token)] /\ sent' \in [Conns -> Seq(Seq(Token))]
    BY <2>1, <2>2 DEF TypeInv, TypeOK
  <2> QED BY <1>3, <1>s, <2>3 DEF TypeInv, TypeOK, SendRecord, localVars, workVars
<1> QED BY <1>1, <1>2, <1>3 DEF ClientStep

(* p returns to its accept call, whatever else the step does. *)
LEMMA IdleType ==
  ASSUME TypeInv, NEW p \in Procs, Idle(p)
  PROVE  /\ pc' \in [Procs -> {"accept", "handshake", "peek", "send", "verify", "restore",
                               "headers", "body", "respond"}]
         /\ conn' \in [Procs -> Conns \cup {NoConn}]
         /\ target' \in Names \cup {NoName}
         /\ seq' \in [Procs -> Nat] /\ ssl' \in [Procs -> Session]
         /\ buf' \in [Procs -> Seq(Token)] /\ \A q \in Procs : Len(buf'[q]) <= BufSize
         /\ want' \in [Procs -> Nat]
         /\ (\A w \in Functions : \A i \in DOMAIN uds'[w] : uds'[w][i].seq = 0) => ControlInv'
<1> USE DEF TypeInv, TypeOK, Idle
<1>1. <<>> \in Seq(Token) /\ Len(<<>>) = 0 /\ BufSize \in Nat
  BY InitialConstants
<1>2. (\A w \in Functions : \A i \in DOMAIN uds'[w] : uds'[w][i].seq = 0) => ControlInv'
  BY <1>1, ProcFacts DEF ControlInv, GatewayPCs, WorkerPCs
<1>3. /\ pc' \in [Procs -> {"accept", "handshake", "peek", "send", "verify", "restore",
                            "headers", "body", "respond"}]
      /\ conn' \in [Procs -> Conns \cup {NoConn}]
      /\ target' \in Names \cup {NoName}
  OBVIOUS
<1>4. seq' \in [Procs -> Nat] /\ ssl' \in [Procs -> Session] /\ want' \in [Procs -> Nat]
  BY NoSessionType
<1>5. buf' \in [Procs -> Seq(Token)] /\ \A q \in Procs : Len(buf'[q]) <= BufSize
  BY <1>1
<1> QED BY <1>2, <1>3, <1>4, <1>5

LEMMA CloseConnType ==
  ASSUME TypeInv, NEW p \in Procs, CloseConn(p), conn[p] \in Conns
  PROVE  TypeInv'
<1>1. fds' \in [Procs -> SUBSET Conns] /\ reset' \subseteq Conns
  BY DEF CloseConn, Close, TypeInv, TypeOK
<1>2. UNCHANGED <<clientVars, consumed, resp, backlog, uds>> /\ Idle(p)
  BY DEF CloseConn
<1>3. \A w \in Functions : \A i \in DOMAIN uds'[w] : uds'[w][i].seq = 0
  BY <1>2 DEF TypeInv, ControlInv
<1> QED BY <1>1, <1>2, <1>3, IdleType DEF TypeInv, TypeOK, clientVars

(* A process past its accept call has a connection. *)
LEMMA HasConn ==
  ASSUME TypeInv, NEW p \in Procs, pc[p] # "accept"
  PROVE  conn[p] \in Conns
BY DEF TypeInv, TypeOK, ControlInv

LEMMA GatewayType ==
  ASSUME TypeInv, GatewayStep
  PROVE  TypeInv'
<1> USE ProcFacts
<1>1. ASSUME NEW c \in Conns, Accept(c) PROVE TypeInv'
  <2>1. ControlInv'
    BY <1>1, InitialConstants DEF TypeInv, TypeOK, ControlInv, Accept, workVars, GatewayPCs, WorkerPCs, BeforeRead
  <2> QED BY <2>1, <1>1 DEF TypeInv, TypeOK, Accept, clientVars, workVars
<1>2. CASE Handshake
  <2>0. conn[Gateway] \in Conns
    BY <1>2, HasConn DEF Handshake
  <2>1. ControlInv'
    BY <1>2 DEF TypeInv, TypeOK, ControlInv, Handshake, workVars, GatewayPCs, WorkerPCs, BeforeRead
  <2> QED BY <2>0, <2>1, <1>2 DEF TypeInv, TypeOK, Handshake, workVars
<1>3. CASE HandshakeFails
  BY <1>3, HasConn, CloseConnType DEF HandshakeFails
<1>4. ASSUME NEW f \in Names, PeekAndExport(f) PROVE TypeInv'
  <2>1. ControlInv'
    BY <1>4 DEF TypeInv, TypeOK, ControlInv, PeekAndExport, workVars, GatewayPCs, WorkerPCs, BeforeRead
  <2> QED BY <2>1, <1>4 DEF TypeInv, TypeOK, PeekAndExport, clientVars, workVars
<1>5. CASE PeekAndExportFails
  BY <1>5, HasConn, CloseConnType DEF PeekAndExportFails
<1>6. CASE SendFd
  <2>0. conn[Gateway] \in Conns
    BY <1>6, HasConn DEF SendFd
  <2>1. Idle(Gateway) /\ UNCHANGED <<clientVars, consumed, resp, reset, backlog>>
    BY <1>6 DEF SendFd
  <2>2. fds' \in [Procs -> SUBSET Conns]
    BY <1>6 DEF SendFd, TypeInv, TypeOK
  <2>3. [conn |-> conn[Gateway], seq |-> seq[Gateway]] \in Msg
    BY <2>0 DEF Msg, TypeInv, TypeOK
  <2>4. uds' \in [Functions -> Seq(Msg)]
    BY <2>3, <1>6 DEF SendFd, TypeInv, TypeOK
  <2>5. \A w \in Functions : \A i \in DOMAIN uds'[w] : uds'[w][i].seq = 0
    <3> SUFFICES ASSUME NEW w \in Functions, NEW i \in DOMAIN uds'[w]
                 PROVE  uds'[w][i].seq = 0
      OBVIOUS
    <3>1. CASE w # target
      BY <3>1, <1>6 DEF SendFd, TypeInv, TypeOK, ControlInv
    <3>2. CASE w = target
      <4>1. uds[w] \in Seq(Msg) /\ uds'[w] = Append(uds[w], [conn |-> conn[Gateway], seq |-> seq[Gateway]])
        BY <3>2, <1>6 DEF SendFd, TypeInv, TypeOK
      <4> QED BY <4>1, <2>3, AppendMsg DEF TypeInv, ControlInv
    <3> QED BY <3>1, <3>2
  <2> QED BY <2>1, <2>2, <2>4, <2>5, IdleType DEF TypeInv, TypeOK, clientVars
<1>7. CASE SendFdFails
  BY <1>7, HasConn, CloseConnType DEF SendFdFails
<1> QED BY <1>1, <1>2, <1>3, <1>4, <1>5, <1>6, <1>7 DEF GatewayStep

LEMMA LeastNat ==
  ASSUME NEW T \in SUBSET Nat, T # {}
  PROVE  \E x \in T : \A y \in T : x =< y
<1> DEFINE R == OpToRel(<, Nat)
<1>1. IsWellFoundedOn(R, Nat)
  BY NatLessThanWellFounded
<1>2. \A x, y \in Nat : <<y, x>> \in R <=> y < x
  BY DEF OpToRel
<1> HIDE DEF R
<1>3. \E x \in T : \A y \in T : <<y, x>> \notin R
  BY <1>1, WFMin
<1>4. PICK x \in T : \A y \in T : <<y, x>> \notin R
  BY <1>3
<1>5. \A y \in T : y \in Nat /\ x \in Nat /\ ~(y < x)
  BY <1>2, <1>4
<1>6. \A y \in T : x =< y
  BY <1>5
<1> QED BY <1>6

(* find_subseq: 0, or the first index that ends the headers. *)
LEMMA HeaderEndFacts ==
  ASSUME NEW b \in Seq(Token)
  PROVE  \/ HeaderEnd(b) = 0 /\ NoEnd(b)
         \/ HeaderEnd(b) \in 1..Len(b) /\ b[HeaderEnd(b)] = "end"
<1> DEFINE ends == {i \in DOMAIN b : b[i] = "end"}
<1>1. CASE ends = {}
  BY <1>1 DEF HeaderEnd, NoEnd
<1>2. CASE ends # {}
  <2>1. ends \in SUBSET Nat
    OBVIOUS
  <2>2. \E x \in ends : \A y \in ends : x =< y
    BY <1>2, <2>1, LeastNat
  <2>3. Min(ends) \in ends
    BY <2>2 DEF Min
  <2> QED BY <1>2, <2>3 DEF HeaderEnd
<1> QED BY <1>1, <1>2

(* Records that have arrived as a whole. *)
LEMMA ArrivedBound ==
  ASSUME TypeInv, NEW c \in Conns
  PROVE  /\ Len(sent[c]) \in Nat /\ Arrived(c) \in Int
         /\ Arrived(c) <= Len(sent[c]) /\ Arrived(c) >= Len(sent[c]) - 1
         /\ c \notin partial => Arrived(c) = Len(sent[c])
<1>1. sent[c] \in Seq(Seq(Token))
  BY DEF TypeInv, TypeOK
<1>2. Len(sent[c]) \in Nat
  BY <1>1
<1>3. CASE c \in partial
  BY <1>2, <1>3 DEF Arrived
<1>4. CASE c \notin partial
  BY <1>2, <1>4 DEF Arrived
<1> QED BY <1>2, <1>3, <1>4

(* What wolfSSL_read returns is the start of what is available. *)
LEMMA ReadFacts ==
  ASSUME TypeInv, NEW w \in Functions, conn[w] \in Conns, CanRead(w), NEW n \in Nat
  PROVE  /\ Available(w) \in Seq(Token)
         /\ Returned(w, n) \in Seq(Token)
         /\ Len(Returned(w, n)) = IF n <= Len(Available(w)) THEN n ELSE Len(Available(w))
         /\ \A k \in 1..Len(Returned(w, n)) : Returned(w, n)[k] = Available(w)[k]
<1>1. Available(w) \in Seq(Token)
  <2>1. CASE ssl[w].pending # <<>>
    BY <2>1, ProcFacts DEF Available, TypeInv, TypeOK, Session
  <2>2. CASE ssl[w].pending = <<>>
    <3>1. consumed[conn[w]] < Arrived(conn[w])
      BY <2>2 DEF CanRead, RecordReadable
    <3>2. sent[conn[w]] \in Seq(Seq(Token)) /\ consumed[conn[w]] \in Nat
      BY DEF TypeInv, TypeOK
    <3>4. consumed[conn[w]] + 1 \in 1..Len(sent[conn[w]])
      BY <3>1, <3>2, ArrivedBound
    <3> QED BY <2>2, <3>2, <3>4 DEF Available, Peeked
  <2> QED BY <2>1, <2>2
<1> DEFINE a == Available(w)
           m == IF n <= Len(a) THEN n ELSE Len(a)
<1>2. a \in Seq(Token)
  BY <1>1
<1>3. Returned(w, n) = SubSeq(a, 1, m)
  BY <1>2, MinOfTwo DEF Returned
<1> HIDE DEF a
<1>4. m \in Nat /\ m <= Len(a)
  BY <1>2
<1> HIDE DEF m
<1>5. /\ SubSeq(a, 1, m) \in Seq(Token) /\ Len(SubSeq(a, 1, m)) = m
      /\ \A k \in 1..m : SubSeq(a, 1, m)[k] = a[k]
  BY <1>2, <1>4
<1> QED BY <1>2, <1>3, <1>5 DEF a, m

LEMMA TakeRecordType ==
  ASSUME TypeInv, NEW w \in Functions, conn[w] \in Conns, CanRead(w), NEW n \in Nat,
         TakeRecord(w, n)
  PROVE  consumed' \in [Conns -> Nat] /\ ssl' \in [Procs -> Session]
<1>1. consumed' \in [Conns -> Nat]
  BY DEF TakeRecord, TypeInv, TypeOK
<1>2. Available(w) \in Seq(Token)
  BY ReadFacts
<1>3. SubSeq(Available(w), n + 1, Len(Available(w))) \in Seq(Token)
  BY <1>2
<1>4. ssl[w].read \in Nat
  BY ProcFacts DEF TypeInv, TypeOK, Session
<1>5. [read |-> IF ssl[w].pending = <<>> THEN ssl[w].read + 1 ELSE ssl[w].read,
       pending |-> SubSeq(Available(w), n + 1, Len(Available(w)))] \in Session
  BY <1>3, <1>4 DEF Session
<1>6. ssl' = [ssl EXCEPT ![w] =
        [read |-> IF ssl[w].pending = <<>> THEN ssl[w].read + 1 ELSE ssl[w].read,
         pending |-> SubSeq(Available(w), n + 1, Len(Available(w)))]]
  BY ProcFacts DEF TakeRecord, TypeInv, TypeOK
<1> QED BY <1>1, <1>5, <1>6 DEF TypeInv, TypeOK

LEMMA WorkerType ==
  ASSUME TypeInv, NEW w \in Functions, WorkerStep(w)
  PROVE  TypeInv'
<1> USE ProcFacts
<1>1. CASE RecvFd(w)
  <2>1. uds[w] \in Seq(Msg) /\ uds[w] # <<>>
    BY <1>1 DEF RecvFd, TypeInv, TypeOK
  <2>2. Tail(uds[w]) \in Seq(Msg) /\ Head(uds[w]).conn \in Conns /\ Head(uds[w]).seq = 0
    <3>1. Tail(uds[w]) \in Seq(Msg) /\ 1 \in DOMAIN uds[w] /\ Head(uds[w]) = uds[w][1] /\ Head(uds[w]) \in Msg
      BY <2>1, TailMsg
    <3>2. Head(uds[w]).conn \in Conns
      BY <3>1 DEF Msg
    <3>3. Head(uds[w]).seq = 0
      BY <3>1 DEF TypeInv, ControlInv
    <3> QED BY <3>1, <3>2, <3>3
  <2>3. uds' = [uds EXCEPT ![w] = Tail(uds[w])]
    BY <1>1 DEF RecvFd
  <2>4. uds' \in [Functions -> Seq(Msg)]
    BY <2>2, <2>3 DEF TypeInv, TypeOK
  <2>5. \A v \in Functions : \A i \in DOMAIN uds'[v] : uds'[v][i].seq = 0
    <3>1. uds'[w] = Tail(uds[w]) /\ \A v \in Functions \ {w} : uds'[v] = uds[v]
      BY <2>3 DEF TypeInv, TypeOK
    <3>2. \A i \in DOMAIN uds'[w] : uds'[w][i].seq = 0
      BY <2>1, <3>1, TailMsg DEF TypeInv, ControlInv
    <3>3. \A v \in Functions : \A i \in DOMAIN uds[v] : uds[v][i].seq = 0
      BY DEF TypeInv, ControlInv
    <3> QED BY <3>1, <3>2, <3>3
  <2>6. ControlInv'
    BY <1>1, <2>2, <2>5, InitialConstants
    DEF RecvFd, TypeInv, TypeOK, ControlInv, GatewayPCs, WorkerPCs, BeforeRead
  <2>7. /\ pc' = [pc EXCEPT ![w] = "verify"] /\ conn' = [conn EXCEPT ![w] = Head(uds[w]).conn]
        /\ fds' = [fds EXCEPT ![w] = fds[w] \cup {Head(uds[w]).conn}]
        /\ seq' = [seq EXCEPT ![w] = Head(uds[w]).seq]
        /\ UNCHANGED <<clientVars, consumed, resp, reset, backlog, target, ssl, buf, want>>
    BY <1>1 DEF RecvFd
  <2>8. seq' \in [Procs -> Nat] /\ fds' \in [Procs -> SUBSET Conns]
    BY <2>2, <2>7 DEF TypeInv, TypeOK
  <2> QED BY <2>2, <2>4, <2>6, <2>7, <2>8 DEF TypeInv, TypeOK, clientVars
<1>2. CASE RecvFdFails(w)
  <2>1. uds[w] \in Seq(Msg) /\ uds[w] # <<>>
    BY <1>2 DEF RecvFdFails, TypeInv, TypeOK
  <2>2. Tail(uds[w]) \in Seq(Msg) /\ Head(uds[w]).conn \in Conns
    BY <2>1, TailMsg DEF Msg
  <2>3. uds' = [uds EXCEPT ![w] = Tail(uds[w])]
    BY <1>2 DEF RecvFdFails
  <2>4. uds' \in [Functions -> Seq(Msg)]
    BY <2>2, <2>3 DEF TypeInv, TypeOK
  <2>5. \A v \in Functions : \A i \in DOMAIN uds'[v] : uds'[v][i].seq = 0
    <3>1. uds'[w] = Tail(uds[w]) /\ \A v \in Functions \ {w} : uds'[v] = uds[v]
      BY <2>3 DEF TypeInv, TypeOK
    <3>2. \A i \in DOMAIN uds'[w] : uds'[w][i].seq = 0
      BY <2>1, <3>1, TailMsg DEF TypeInv, ControlInv
    <3>3. \A v \in Functions : \A i \in DOMAIN uds[v] : uds[v][i].seq = 0
      BY DEF TypeInv, ControlInv
    <3> QED BY <3>1, <3>2, <3>3
  <2>6. ControlInv'
    BY <1>2, <2>5 DEF RecvFdFails, TypeInv, ControlInv, localVars, workVars
  <2> QED BY <1>2, <2>2, <2>4, <2>6 DEF RecvFdFails, TypeInv, TypeOK, clientVars, localVars, workVars
<1>3. CASE Verify(w)
  <2>1. ControlInv'
    BY <1>3 DEF Verify, TypeInv, TypeOK, ControlInv, workVars, GatewayPCs, WorkerPCs, BeforeRead
  <2> QED BY <1>3, <2>1 DEF Verify, TypeInv, TypeOK, clientVars, workVars
<1>4. CASE Restore(w)
  <2>1. ControlInv'
    BY <1>4 DEF Restore, TypeInv, TypeOK, ControlInv, GatewayPCs, WorkerPCs, BeforeRead
  <2>2. ssl' \in [Procs -> Session]
    BY <1>4 DEF Restore, TypeInv, TypeOK, Session
  <2> QED BY <1>4, <2>1, <2>2 DEF Restore, TypeInv, TypeOK, clientVars
<1>5. CASE Refuse(w) \/ RestoreFails(w) \/ HeadersTooLong(w) \/ ReadFails(w) \/ RespondFails(w)
  <2>1. CloseConn(w) /\ pc[w] # "accept"
    BY <1>5 DEF Refuse, RestoreFails, HeadersTooLong, ReadFails, RespondFails
  <2> QED BY <2>1, HasConn, CloseConnType
<1>6. CASE ReadHeaders(w)
  <2> DEFINE n == Room(w)
             b == buf[w] \o Returned(w, n)
             h == HeaderEnd(b)
             lacks == BodyLacks(conn[w], Len(b) - h)
  <2>0. /\ conn[w] \in Conns /\ CanRead(w) /\ TakeRecord(w, n)
        /\ buf' = [buf EXCEPT ![w] = b]
        /\ want' = [want EXCEPT ![w] = IF h = 0 THEN 0 ELSE lacks]
        /\ pc' = [pc EXCEPT ![w] = IF h = 0 THEN "headers"
                                   ELSE IF lacks > 0 THEN "body" ELSE "respond"]
        /\ UNCHANGED <<clientVars, resp, reset, backlog, uds, conn, fds, target, seq>>
        /\ pc[w] = "headers"
    BY <1>6, HasConn DEF ReadHeaders
  <2>1. buf[w] \in Seq(Token) /\ Len(buf[w]) \in Nat /\ n \in Nat /\ Len(buf[w]) + n = BufSize
    BY InitialConstants DEF TypeInv, TypeOK, Room
  <2>2. Returned(w, n) \in Seq(Token) /\ Len(Returned(w, n)) <= n
    BY <2>0, <2>1, ReadFacts
  <2>3. b \in Seq(Token) /\ Len(b) \in Nat /\ Len(b) <= BufSize
    BY <2>1, <2>2, InitialConstants
  <2> HIDE DEF b, n
  <2>4. h \in Nat /\ h <= Len(b)
    BY <2>3, HeaderEndFacts
  <2> HIDE DEF h
  <2>5. lacks \in Nat
    <3>1. ContentLength(conn[w]) \in Nat
      BY <2>0 DEF ContentLength, TypeInv, TypeOK, Request
    <3> QED BY <2>3, <2>4, <3>1 DEF BodyLacks
  <2> HIDE DEF lacks
  <2>6. consumed' \in [Conns -> Nat] /\ ssl' \in [Procs -> Session]
    BY <2>0, <2>1, TakeRecordType
  <2>7. /\ pc' \in [Procs -> {"accept", "handshake", "peek", "send", "verify", "restore",
                              "headers", "body", "respond"}]
        /\ want' \in [Procs -> Nat]
        /\ buf' \in [Procs -> Seq(Token)] /\ \A p \in Procs : Len(buf'[p]) <= BufSize
    BY <2>0, <2>3, <2>5 DEF TypeInv, TypeOK
  <2>8. \A q \in Procs \ {w} : ssl'[q] = ssl[q] /\ buf'[q] = buf[q] /\ pc'[q] = pc[q]
    BY <2>0 DEF TakeRecord, TypeInv, TypeOK
  <2>9. pc'[w] \in {"headers", "body", "respond"}
    BY <2>0 DEF TypeInv, TypeOK
  <2>10. ControlInv'
    BY <2>0, <2>8, <2>9 DEF TypeInv, TypeOK, ControlInv, GatewayPCs, WorkerPCs, BeforeRead
  <2> QED BY <2>0, <2>6, <2>7, <2>10 DEF TypeInv, TypeOK, clientVars
<1>7. CASE ReadBody(w)
  <2> DEFINE n == Len(Returned(w, want[w]))
  <2>0. /\ conn[w] \in Conns /\ CanRead(w) /\ TakeRecord(w, n)
        /\ want' = [want EXCEPT ![w] = want[w] - n]
        /\ pc' = [pc EXCEPT ![w] = IF n = want[w] THEN "respond" ELSE "body"]
        /\ UNCHANGED <<clientVars, resp, reset, backlog, uds, conn, fds, target, seq, buf>>
        /\ pc[w] = "body"
    BY <1>7, HasConn DEF ReadBody
  <2>1. want[w] \in Nat
    BY DEF TypeInv, TypeOK
  <2>2. n \in Nat /\ n <= want[w]
    BY <2>0, <2>1, ReadFacts
  <2> HIDE DEF n
  <2>6. consumed' \in [Conns -> Nat] /\ ssl' \in [Procs -> Session]
    BY <2>0, <2>2, TakeRecordType
  <2>7. /\ pc' \in [Procs -> {"accept", "handshake", "peek", "send", "verify", "restore",
                              "headers", "body", "respond"}]
        /\ want' \in [Procs -> Nat]
    BY <2>0, <2>1, <2>2 DEF TypeInv, TypeOK
  <2>8. \A q \in Procs \ {w} : ssl'[q] = ssl[q] /\ pc'[q] = pc[q]
    BY <2>0 DEF TakeRecord, TypeInv, TypeOK
  <2>9. pc'[w] \in {"body", "respond"}
    BY <2>0 DEF TypeInv, TypeOK
  <2>10. ControlInv'
    BY <2>0, <2>8, <2>9 DEF TypeInv, TypeOK, ControlInv, GatewayPCs, WorkerPCs, BeforeRead
  <2> QED BY <2>0, <2>6, <2>7, <2>10 DEF TypeInv, TypeOK, clientVars
<1>8. CASE Respond(w)
  <2>0. conn[w] \in Conns /\ Idle(w) /\ UNCHANGED <<clientVars, consumed, backlog, uds>>
    BY <1>8, HasConn DEF Respond
  <2>1. fds' \in [Procs -> SUBSET Conns] /\ reset' \subseteq Conns
    BY <1>8, <2>0 DEF Respond, Close, TypeInv, TypeOK
  <2>2. resp' \in [Conns -> Seq(Functions)]
    BY <1>8, <2>0 DEF Respond, TypeInv, TypeOK
  <2>3. \A v \in Functions : \A i \in DOMAIN uds'[v] : uds'[v][i].seq = 0
    BY <2>0 DEF TypeInv, ControlInv
  <2> QED BY <2>0, <2>1, <2>2, <2>3, IdleType DEF TypeInv, TypeOK, clientVars
<1> QED BY <1>1, <1>2, <1>3, <1>4, <1>5, <1>6, <1>7, <1>8 DEF WorkerStep

LEMMA TypeStep == TypeInv /\ [Next]_vars => TypeInv'
<1> SUFFICES ASSUME TypeInv, [Next]_vars PROVE TypeInv'
  OBVIOUS
<1>1. CASE Next
  BY <1>1, ClientType, GatewayType, WorkerType DEF Next
<1>2. CASE UNCHANGED vars
  BY <1>2 DEF TypeInv, TypeOK, ControlInv, vars, clientVars, serverVars, localVars, workVars
<1> QED BY <1>1, <1>2

-----------------------------------------------------------------------------
(* Places *)

(* Where an open connection is. *)
LEMMA OpenPlaces ==
  ASSUME TypeInv, OwnInv, NEW c \in Conns
  PROVE  Open(c) <=> \/ c \in backlog
                     \/ \E p \in Procs : conn[p] = c
                     \/ \E w \in Functions : \E i \in DOMAIN uds[w] : uds[w][i].conn = c
<1>1. \A p \in Procs : c \in fds[p] <=> conn[p] = c
  BY InitialConstants DEF OwnInv
<1> QED BY <1>1 DEF Open, InTransit

(* Every place holds a connection. *)
LEMMA MsgConn ==
  ASSUME TypeInv, NEW w \in Functions, NEW i \in DOMAIN uds[w]
  PROVE  uds[w][i] \in Msg /\ uds[w][i].conn \in Conns
<1>1. uds[w] \in Seq(Msg)
  BY DEF TypeInv, TypeOK
<1>2. uds[w][i] \in Msg
  BY <1>1
<1> QED BY <1>2 DEF Msg

(* Steps that move no descriptor and open no connection. *)
LEMMA OwnKept ==
  ASSUME OwnInv, UNCHANGED <<backlog, uds, conn, fds>>
  PROVE  OwnInv'
BY DEF OwnInv

(* p closes its connection. *)
LEMMA OwnClose ==
  ASSUME TypeInv, OwnInv, NEW p \in Procs, conn[p] \in Conns,
         UNCHANGED <<backlog, uds>>,
         conn' = [conn EXCEPT ![p] = NoConn],
         fds' = [fds EXCEPT ![p] = fds[p] \ {conn[p]}]
  PROVE  OwnInv' /\ \A q \in Procs \ {p} : conn'[q] = conn[q]
<1>1. conn'[p] = NoConn /\ fds'[p] = {}
  BY DEF TypeInv, TypeOK, OwnInv
<1>2. \A q \in Procs \ {p} : conn'[q] = conn[q] /\ fds'[q] = fds[q]
  BY DEF TypeInv, TypeOK
<1>3. NoConn \notin backlog
  BY InitialConstants DEF TypeInv, TypeOK
<1>4. \A w \in Functions : \A i \in DOMAIN uds[w] : uds[w][i].conn # NoConn
  BY MsgConn, InitialConstants
<1>a. \A q \in Procs : fds'[q] = {conn'[q]} \ {NoConn}
  BY <1>1, <1>2 DEF OwnInv
<1>b. \A q, r \in Procs : conn'[q] = conn'[r] /\ conn'[q] # NoConn => q = r
  BY <1>1, <1>2 DEF OwnInv
<1>c. \A q \in Procs : conn'[q] \notin backlog'
  BY <1>1, <1>2, <1>3 DEF OwnInv
<1>d. \A q \in Procs, w \in Functions : \A i \in DOMAIN uds'[w] : uds'[w][i].conn # conn'[q]
  BY <1>1, <1>2, <1>4 DEF OwnInv
<1> QED BY <1>a, <1>b, <1>c, <1>d, <1>2 DEF OwnInv

(* p takes up a connection that was nowhere else. *)
LEMMA OwnTake ==
  ASSUME TypeInv, OwnInv, NEW p \in Procs, conn[p] = NoConn, NEW c \in Conns,
         conn' = [conn EXCEPT ![p] = c], fds' = [fds EXCEPT ![p] = fds[p] \cup {c}],
         c \notin backlog', backlog' \subseteq backlog,
         \A q \in Procs : conn[q] # c,
         \A w \in Functions : \A i \in DOMAIN uds'[w] :
           /\ uds'[w][i].conn # c
           /\ \E j \in DOMAIN uds[w] : uds'[w][i].conn = uds[w][j].conn,
         \A v, w \in Functions : \A i \in DOMAIN uds'[v], j \in DOMAIN uds'[w] :
           uds'[v][i].conn = uds'[w][j].conn => v = w /\ i = j
  PROVE  OwnInv' /\ conn'[p] = c /\ \A q \in Procs \ {p} : conn'[q] = conn[q]
<1>0. c # NoConn
  BY InitialConstants
<1>1. conn'[p] = c /\ fds'[p] = {c}
  BY DEF TypeInv, TypeOK, OwnInv
<1>2. \A q \in Procs \ {p} : conn'[q] = conn[q] /\ fds'[q] = fds[q]
  BY DEF TypeInv, TypeOK
<1>a. \A q \in Procs : fds'[q] = {conn'[q]} \ {NoConn}
  BY <1>0, <1>1, <1>2 DEF OwnInv
<1>b. \A q, r \in Procs : conn'[q] = conn'[r] /\ conn'[q] # NoConn => q = r
  BY <1>1, <1>2 DEF OwnInv
<1>c. \A q \in Procs : conn'[q] \notin backlog'
  BY <1>1, <1>2 DEF OwnInv
<1>d. \A q \in Procs, w \in Functions : \A i \in DOMAIN uds'[w] : uds'[w][i].conn # conn'[q]
  BY <1>1, <1>2 DEF OwnInv
<1>e. \A w \in Functions : \A i \in DOMAIN uds'[w] : uds'[w][i].conn \notin backlog'
  BY DEF OwnInv
<1> QED BY <1>1, <1>2, <1>a, <1>b, <1>c, <1>d, <1>e DEF OwnInv

(* The queue of w loses its first message. *)
LEMMA UdsTail ==
  ASSUME TypeInv, OwnInv, NEW w \in Functions, uds[w] # <<>>,
         uds' = [uds EXCEPT ![w] = Tail(uds[w])]
  PROVE  LET c == Head(uds[w]).conn IN
         /\ c \in Conns /\ 1 \in DOMAIN uds[w] /\ c = uds[w][1].conn
         /\ \A v \in Functions : \A i \in DOMAIN uds'[v] :
              /\ uds'[v][i].conn # c
              /\ \E j \in DOMAIN uds[v] : uds'[v][i] = uds[v][j]
         /\ \A u, v \in Functions : \A i \in DOMAIN uds'[u], j \in DOMAIN uds'[v] :
              uds'[u][i].conn = uds'[v][j].conn => u = v /\ i = j
<1> DEFINE c == Head(uds[w]).conn
<1>0. uds[w] \in Seq(Msg)
  BY DEF TypeInv, TypeOK
<1>1. uds'[w] = Tail(uds[w]) /\ \A v \in Functions \ {w} : uds'[v] = uds[v]
  BY DEF TypeInv, TypeOK
<1>2. 1 \in DOMAIN uds[w] /\ Head(uds[w]) = uds[w][1] /\ Head(uds[w]) \in Msg
  BY <1>0, TailMsg
<1>3. c \in Conns /\ c = uds[w][1].conn
  BY <1>2 DEF Msg
<1>4. \A i \in DOMAIN uds'[w] : /\ i \in Nat /\ i >= 1 /\ i + 1 \in DOMAIN uds[w]
                                /\ uds'[w][i] = uds[w][i + 1]
  <2>1. \A i \in DOMAIN Tail(uds[w]) : /\ i \in Nat /\ i >= 1 /\ i + 1 \in DOMAIN uds[w]
                                       /\ Tail(uds[w])[i] = uds[w][i + 1]
    BY <1>0, TailMsg
  <2> QED BY <2>1, <1>1
<1> HIDE DEF c
<1>u. \A u, v \in Functions : \A i \in DOMAIN uds[u], j \in DOMAIN uds[v] :
        uds[u][i].conn = uds[v][j].conn => u = v /\ i = j
  BY DEF OwnInv
<1>5. ASSUME NEW v \in Functions, NEW i \in DOMAIN uds'[v]
      PROVE  uds'[v][i].conn # c /\ \E j \in DOMAIN uds[v] : uds'[v][i] = uds[v][j]
  <2>1. CASE v = w
    <3>1. i + 1 \in DOMAIN uds[w] /\ uds'[w][i] = uds[w][i + 1] /\ i + 1 # 1
      BY <2>1, <1>4
    <3> QED BY <2>1, <3>1, <1>2, <1>3, <1>u
  <2>2. CASE v # w
    <3>1. uds'[v] = uds[v]
      BY <2>2, <1>1
    <3> QED BY <2>2, <3>1, <1>2, <1>3, <1>u
  <2> QED BY <2>1, <2>2
<1>6. ASSUME NEW u \in Functions, NEW v \in Functions,
             NEW i \in DOMAIN uds'[u], NEW j \in DOMAIN uds'[v],
             uds'[u][i].conn = uds'[v][j].conn
      PROVE  u = v /\ i = j
  <2>1. u = v
    <3>1. PICK a \in DOMAIN uds[u] : uds'[u][i] = uds[u][a]
      BY <1>5
    <3>2. PICK b \in DOMAIN uds[v] : uds'[v][j] = uds[v][b]
      BY <1>5
    <3> QED BY <3>1, <3>2, <1>6, <1>u
  <2>2. CASE u = w
    <3>1. i \in Nat /\ j \in Nat /\ i + 1 \in DOMAIN uds[w] /\ j + 1 \in DOMAIN uds[w]
          /\ uds[w][i + 1].conn = uds[w][j + 1].conn
      BY <2>1, <2>2, <1>4, <1>6
    <3>2. i + 1 = j + 1
      BY <3>1, <1>u
    <3> QED BY <2>1, <3>1, <3>2
  <2>3. CASE u # w
    BY <2>1, <2>3, <1>1, <1>6, <1>u
  <2> QED BY <2>1, <2>2, <2>3
<1> QED BY <1>2, <1>3, <1>5, <1>6 DEF c

(* What a client's step does to the connections. *)
LEMMA ClientEffect ==
  ASSUME TypeInv, NEW c \in Conns, ClientStep(c)
  PROVE  /\ UNCHANGED <<req, consumed, resp, uds, localVars>>
         /\ \A d \in Conns : client'[d] = "idle" => client[d] = "idle"
         /\ \A d \in Conns : Arrived(d)' >= Arrived(d)
         /\ \A d \in Conns : d \in reset' => d \in reset \/ (~Open(d) /\ client[d] = "sending")
         /\ backlog' = backlog \/ Connect(c)
<1>0. UNCHANGED <<req, consumed, resp, uds, localVars>>
  BY DEF ClientStep, Connect, Hello, IssueRequest, RestArrives, ReadResponse, ClientClose,
         SendRecord, serverVars, localVars, workVars
<1>s. \A d \in Conns : Len(sent[d]) \in Nat
  BY ArrivedBound
<1>1. CASE Connect(c) \/ Hello(c) \/ IssueRequest(c) \/ ReadResponse(c) \/ ClientClose(c)
  <2>1. UNCHANGED <<sent, partial, reset>>
    BY <1>1 DEF Connect, Hello, IssueRequest, ReadResponse, ClientClose, serverVars
  <2>2. \A d \in Conns : Arrived(d)' >= Arrived(d)
    BY <2>1, ArrivedBound DEF Arrived
  <2>3. \A d \in Conns : client'[d] = "idle" => client[d] = "idle"
    BY <1>1 DEF Connect, Hello, IssueRequest, ReadResponse, ClientClose, TypeInv, TypeOK
  <2>4. backlog' = backlog \/ Connect(c)
    BY <1>1 DEF Hello, IssueRequest, ReadResponse, ClientClose, serverVars
  <2> QED BY <1>0, <2>1, <2>2, <2>3, <2>4
<1>2. CASE RestArrives(c)
  <2>1. partial' = partial \ {c} /\ UNCHANGED <<client, sent, reset, backlog>>
    BY <1>2 DEF RestArrives, serverVars
  <2>2. ASSUME NEW d \in Conns PROVE Arrived(d)' >= Arrived(d)
    <3>1. CASE d \in partial
      BY <3>1, <2>1, <1>s DEF Arrived
    <3>2. CASE d \notin partial
      BY <3>2, <2>1, <1>s DEF Arrived
    <3> QED BY <3>1, <3>2
  <2> QED BY <1>0, <2>1, <2>2
<1>3. ASSUME NEW k \in 1..Len(todo[c]), NEW cut \in BOOLEAN, SendRecord(c, k, cut)
      PROVE  /\ UNCHANGED <<client, backlog>>
             /\ \A d \in Conns : Arrived(d)' >= Arrived(d)
             /\ \A d \in Conns : d \in reset' => d \in reset \/ (~Open(d) /\ client[d] = "sending")
  <2>1. /\ client[c] = "sending" /\ c \notin partial
        /\ sent' = [sent EXCEPT ![c] = Append(sent[c], SubSeq(todo[c], 1, k))]
        /\ partial' = (IF cut THEN partial \cup {c} ELSE partial)
        /\ reset' = (IF Open(c) THEN reset ELSE reset \cup {c})
        /\ UNCHANGED <<client, backlog>>
    BY <1>3 DEF SendRecord
  <2>2. sent[c] \in Seq(Seq(Token)) /\ SubSeq(todo[c], 1, k) \in Seq(Token)
    <3>1. todo[c] \in Seq(Token) /\ sent[c] \in Seq(Seq(Token))
      BY DEF TypeInv, TypeOK
    <3> QED BY <3>1
  <2>3. Len(Append(sent[c], SubSeq(todo[c], 1, k))) = Len(sent[c]) + 1
    BY <2>2
  <2>4. Len(sent'[c]) = Len(sent[c]) + 1
    BY <2>1, <2>3 DEF TypeInv, TypeOK
  <2>5. Arrived(c)' >= Arrived(c)
    <3>1. CASE cut
      <4>1. c \in partial'
        BY <2>1, <3>1
      <4> QED BY <2>1, <2>4, <4>1, <1>s DEF Arrived
    <3>2. CASE ~cut
      <4>1. c \notin partial'
        BY <2>1, <3>2
      <4> QED BY <2>1, <2>4, <4>1, <1>s DEF Arrived
    <3> QED BY <3>1, <3>2
  <2>6. ASSUME NEW d \in Conns, d # c PROVE Arrived(d)' >= Arrived(d)
    <3>1. sent'[d] = sent[d] /\ (d \in partial' <=> d \in partial)
      BY <2>1, <2>6 DEF TypeInv, TypeOK
    <3>2. Arrived(d)' = Arrived(d)
      BY <3>1 DEF Arrived
    <3> QED BY <3>2, ArrivedBound
  <2> QED BY <2>1, <2>5, <2>6
<1> QED BY <1>0, <1>1, <1>2, <1>3 DEF ClientStep

LEMMA ClientSafe ==
  ASSUME TypeInv, OwnInv, UseInv, NEW c \in Conns, ClientStep(c)
  PROVE  OwnInv' /\ UseInv'
<1>e. /\ UNCHANGED <<req, consumed, resp, uds, pc, conn, fds>>
      /\ \A d \in Conns : client'[d] = "idle" => client[d] = "idle"
      /\ \A d \in Conns : Arrived(d)' >= Arrived(d)
      /\ \A d \in Conns : d \in reset' => d \in reset \/ (~Open(d) /\ client[d] = "sending")
      /\ backlog' = backlog \/ Connect(c)
  BY ClientEffect DEF localVars
<1>a. \A d \in Conns : Arrived(d) > 0 => Arrived(d)' > 0
  <2>1. \A d \in Conns : Arrived(d) \in Int
    BY ArrivedBound
  <2>2. ASSUME NEW d \in Conns PROVE Arrived(d)' \in Int
    <3>1. sent'[d] \in Seq(Seq(Token))
      BY ClientType DEF TypeInv, TypeOK
    <3>2. Len(sent'[d]) \in Nat
      BY <3>1
    <3> QED BY <3>2 DEF Arrived
  <2> QED BY <2>1, <2>2, <1>e
<1>u. \A d \in Conns : Open(d) /\ Untouched(d) => Untouched(d)'
  BY <1>e DEF Untouched
<1>n. /\ backlog' \subseteq backlog \cup {c}
      /\ c \in backlog' \ backlog => client[c] = "idle" /\ client'[c] # "idle" /\ Untouched(c)'
  <2>1. CASE backlog' = backlog
    BY <2>1
  <2>2. CASE Connect(c)
    BY <2>2, <1>e DEF Connect, UseInv, Untouched, TypeInv, TypeOK
  <2> QED BY <1>e, <2>1, <2>2
<1>o. \A d \in Conns : client[d] = "idle" => ~Open(d)
  BY DEF UseInv
<1>1. OwnInv'
  <2>1. CASE backlog' = backlog
    BY <2>1, <1>e, OwnKept
  <2>2. CASE c \in backlog' \ backlog
    <3>1. ~Open(c)
      BY <2>2, <1>n, <1>o
    <3>2. /\ \A p \in Procs : conn[p] # c
          /\ \A w \in Functions : \A i \in DOMAIN uds[w] : uds[w][i].conn # c
      BY <3>1, OpenPlaces
    <3> QED BY <3>2, <1>e, <1>n DEF OwnInv
  <2>3. CASE backlog' # backlog /\ c \notin backlog' \ backlog
    BY <2>3, <1>e DEF Connect
  <2> QED BY <2>1, <2>2, <2>3
<1>p. \A d \in Conns : Open(d)' => Open(d) \/ (d = c /\ client'[c] # "idle")
  BY <1>e, <1>n DEF Open, InTransit
<1>2. \A d \in Conns : client'[d] = "idle" => Untouched(d)' /\ ~Open(d)'
  BY <1>e, <1>p DEF UseInv, Untouched
<1>3. \A d \in backlog' : Untouched(d)'
  <2>1. \A d \in backlog : Untouched(d) /\ Open(d) /\ d \in Conns
    BY DEF UseInv, Open, TypeInv, TypeOK
  <2> QED BY <2>1, <1>n, <1>u
<1>4. ASSUME NEW w \in Functions, NEW i \in DOMAIN uds'[w]
      PROVE  Untouched(uds[w][i].conn)' /\ Arrived(uds[w][i].conn)' > 0
  <2>1. i \in DOMAIN uds[w] /\ uds[w][i].conn \in Conns /\ Open(uds[w][i].conn)
    BY <1>e, MsgConn DEF Open, InTransit
  <2>2. Untouched(uds[w][i].conn) /\ Arrived(uds[w][i].conn) > 0
    BY <2>1 DEF UseInv
  <2>3. Untouched(uds[w][i].conn)'
    BY <2>1, <2>2, <1>e DEF Untouched
  <2> QED BY <2>1, <2>2, <2>3, <1>a, <1>e
<1>5. ASSUME NEW p \in Procs, conn'[p] \in Conns
      PROVE  /\ resp'[conn'[p]] = <<>> /\ conn'[p] \notin reset'
             /\ pc'[p] \in BeforeRead => consumed'[conn'[p]] = 0
             /\ pc'[p] \in {"send", "verify", "restore"} => Arrived(conn[p])' > 0
             /\ pc'[p] \in {"restore", "headers", "body", "respond"} => req'[conn'[p]].fn = p
  <2>1. Open(conn[p]) /\ conn[p] \in Conns
    BY <1>5, <1>e, OpenPlaces
  <2> QED BY <2>1, <1>a, <1>e DEF UseInv
<1>6. \A d \in Conns : resp'[d] # <<>> => resp'[d] = <<req'[d].fn>>
  BY <1>e DEF UseInv
<1> QED BY <1>1, <1>2, <1>3, <1>4, <1>5, <1>6 DEF UseInv

(* p closes its connection, perhaps after it answered. *)
LEMMA CloseSafe ==
  ASSUME TypeInv, OwnInv, UseInv, NEW p \in Procs, conn[p] \in Conns,
         Close(p, conn[p]), Idle(p), UNCHANGED <<clientVars, consumed, backlog, uds>>,
         \/ resp' = resp
         \/ resp' = [resp EXCEPT ![conn[p]] = <<req[conn[p]].fn>>]
  PROVE  OwnInv' /\ UseInv'
<1> DEFINE c == conn[p]
<1>0. /\ conn' = [conn EXCEPT ![p] = NoConn] /\ fds' = [fds EXCEPT ![p] = fds[p] \ {c}]
      /\ pc' = [pc EXCEPT ![p] = "accept"]
      /\ reset' \subseteq reset \cup {c}
  BY DEF Close, Idle
<1>1. OwnInv' /\ \A q \in Procs \ {p} : conn'[q] = conn[q]
  BY <1>0, OwnClose
<1>2. \A q \in Procs \ {p} : pc'[q] = pc[q]
  BY <1>0 DEF TypeInv, TypeOK
<1>3. conn'[p] = NoConn /\ NoConn \notin Conns
  BY <1>0, InitialConstants DEF TypeInv, TypeOK
<1>4. /\ client[c] # "idle" /\ c \notin backlog
      /\ \A q \in Procs \ {p} : conn[q] # c
      /\ \A w \in Functions : \A i \in DOMAIN uds[w] : uds[w][i].conn # c
  BY OpenPlaces, <1>3 DEF UseInv, OwnInv
<1>5. /\ \A d \in Conns : (Arrived(d)' > 0) = (Arrived(d) > 0)
      /\ \A d \in Conns \ {c} : Untouched(d) => Untouched(d)'
      /\ \A d \in Conns \ {c} : resp'[d] = resp[d] /\ (d \in reset' => d \in reset)
  BY <1>0 DEF Arrived, clientVars, Untouched, TypeInv, TypeOK
<1>6. \A d \in Conns : Open(d)' => Open(d)
  <2>1. \A q \in Procs : fds'[q] \subseteq fds[q]
    BY <1>0 DEF TypeInv, TypeOK
  <2> QED BY <2>1 DEF Open, InTransit
<1> HIDE DEF c
<1>a. \A d \in Conns : client'[d] = "idle" => Untouched(d)' /\ ~Open(d)'
  BY <1>4, <1>5, <1>6 DEF UseInv, clientVars
<1>b. \A d \in backlog' : Untouched(d)'
  BY <1>4, <1>5 DEF UseInv, TypeInv, TypeOK
<1>c. ASSUME NEW w \in Functions, NEW i \in DOMAIN uds'[w]
      PROVE  Untouched(uds[w][i].conn)' /\ Arrived(uds[w][i].conn)' > 0
  <2>1. i \in DOMAIN uds[w] /\ uds[w][i].conn \in Conns \ {c} /\ uds' = uds
    BY <1>4, MsgConn
  <2> QED BY <2>1, <1>5 DEF UseInv
<1>d. ASSUME NEW q \in Procs, conn'[q] \in Conns
      PROVE  /\ resp'[conn'[q]] = <<>> /\ conn'[q] \notin reset'
             /\ pc'[q] \in BeforeRead => consumed'[conn'[q]] = 0
             /\ pc'[q] \in {"send", "verify", "restore"} => Arrived(conn[q])' > 0
             /\ pc'[q] \in {"restore", "headers", "body", "respond"} => req'[conn'[q]].fn = q
  <2>1. q # p /\ conn'[q] = conn[q] /\ conn[q] # c /\ conn[q] \in Conns /\ pc'[q] = pc[q]
    BY <1>1, <1>2, <1>3, <1>4, <1>d
  <2>2. /\ resp[conn[q]] = <<>> /\ conn[q] \notin reset
        /\ pc[q] \in BeforeRead => consumed[conn[q]] = 0
        /\ pc[q] \in {"send", "verify", "restore"} => Arrived(conn[q]) > 0
        /\ pc[q] \in {"restore", "headers", "body", "respond"} => req[conn[q]].fn = q
    BY <2>1 DEF UseInv
  <2> QED BY <2>1, <2>2, <1>5 DEF clientVars
<1>e. \A d \in Conns : resp'[d] # <<>> => resp'[d] = <<req'[d].fn>>
  BY DEF UseInv, clientVars, TypeInv, TypeOK
<1> QED BY <1>1, <1>a, <1>b, <1>c, <1>d, <1>e DEF UseInv

(* p works on the connection it has. *)
LEMMA WorkSafe ==
  ASSUME TypeInv, OwnInv, UseInv, NEW p \in Procs, conn[p] \in Conns,
         UNCHANGED <<req, sent, partial, resp, reset, backlog, uds, conn, fds>>,
         \A d \in Conns : client'[d] = "idle" => client[d] = "idle",
         \A q \in Procs \ {p} : pc'[q] = pc[q],
         \A d \in Conns \ {conn[p]} : consumed'[d] = consumed[d],
         pc'[p] \in BeforeRead => consumed'[conn[p]] = 0,
         pc'[p] \in {"send", "verify", "restore"} => Arrived(conn[p]) > 0,
         pc'[p] \in {"restore", "headers", "body", "respond"} => req[conn[p]].fn = p
  PROVE  OwnInv' /\ UseInv'
<1> DEFINE c == conn[p]
<1>1. OwnInv'
  BY OwnKept
<1>4. /\ client[c] # "idle" /\ c \notin backlog
      /\ \A q \in Procs \ {p} : conn[q] # c
      /\ \A w \in Functions : \A i \in DOMAIN uds[w] : uds[w][i].conn # c
  BY OpenPlaces, InitialConstants DEF UseInv, OwnInv
<1>5. /\ \A d \in Conns : (Arrived(d)' > 0) = (Arrived(d) > 0)
      /\ \A d \in Conns \ {c} : Untouched(d) => Untouched(d)'
      /\ \A d \in Conns : Open(d)' = Open(d)
  BY DEF Arrived, Untouched, Open, InTransit
<1>a. \A d \in Conns : client'[d] = "idle" => Untouched(d)' /\ ~Open(d)'
  BY <1>4, <1>5 DEF UseInv
<1>b. \A d \in backlog' : Untouched(d)'
  BY <1>4, <1>5 DEF UseInv, TypeInv, TypeOK
<1>c. ASSUME NEW w \in Functions, NEW i \in DOMAIN uds'[w]
      PROVE  Untouched(uds[w][i].conn)' /\ Arrived(uds[w][i].conn)' > 0
  <2>1. i \in DOMAIN uds[w] /\ uds[w][i].conn \in Conns \ {c} /\ uds' = uds
    BY <1>4, MsgConn
  <2> QED BY <2>1, <1>5 DEF UseInv
<1>d. ASSUME NEW q \in Procs, conn'[q] \in Conns
      PROVE  /\ resp'[conn'[q]] = <<>> /\ conn'[q] \notin reset'
             /\ pc'[q] \in BeforeRead => consumed'[conn'[q]] = 0
             /\ pc'[q] \in {"send", "verify", "restore"} => Arrived(conn[q])' > 0
             /\ pc'[q] \in {"restore", "headers", "body", "respond"} => req'[conn'[q]].fn = q
  <2>1. CASE q = p
    BY <2>1, <1>5 DEF UseInv
  <2>2. CASE q # p
    BY <2>2, <1>d, <1>4, <1>5 DEF UseInv
  <2> QED BY <2>1, <2>2
<1>e. \A d \in Conns : resp'[d] # <<>> => resp'[d] = <<req'[d].fn>>
  BY DEF UseInv
<1> QED BY <1>1, <1>a, <1>b, <1>c, <1>d, <1>e DEF UseInv

(* p takes up a connection that nobody has touched. *)
LEMMA TakeSafe ==
  ASSUME TypeInv, OwnInv, UseInv, NEW p \in Procs, conn[p] = NoConn, NEW c \in Conns,
         UNCHANGED <<clientVars, consumed, resp, reset>>,
         conn' = [conn EXCEPT ![p] = c], fds' = [fds EXCEPT ![p] = fds[p] \cup {c}],
         c \notin backlog', backlog' \subseteq backlog,
         \A w \in Functions : \A i \in DOMAIN uds'[w] :
           /\ uds'[w][i].conn # c
           /\ \E j \in DOMAIN uds[w] : uds'[w][i].conn = uds[w][j].conn,
         \A v, w \in Functions : \A i \in DOMAIN uds'[v], j \in DOMAIN uds'[w] :
           uds'[v][i].conn = uds'[w][j].conn => v = w /\ i = j,
         \A q \in Procs \ {p} : pc'[q] = pc[q],
         pc'[p] \in {"handshake", "verify"},
         \A q \in Procs : conn[q] # c, Untouched(c), client[c] # "idle",
         pc'[p] = "verify" => Arrived(c) > 0
  PROVE  OwnInv' /\ UseInv'
<1>1. OwnInv' /\ conn'[p] = c /\ \A q \in Procs \ {p} : conn'[q] = conn[q]
  BY OwnTake
<1>5. \A d \in Conns : /\ (Arrived(d)' > 0) = (Arrived(d) > 0)
                       /\ Untouched(d)' = Untouched(d)
  BY DEF Arrived, Untouched, clientVars
<1>6. \A d \in Conns : Open(d)' => Open(d) \/ d = c
  <2>1. \A q \in Procs : fds'[q] \subseteq fds[q] \cup {c}
    BY DEF TypeInv, TypeOK
  <2> QED BY <2>1 DEF Open, InTransit
<1>a. \A d \in Conns : client'[d] = "idle" => Untouched(d)' /\ ~Open(d)'
  BY <1>5, <1>6 DEF UseInv, clientVars
<1>b. \A d \in backlog' : Untouched(d)'
  BY <1>5 DEF UseInv, TypeInv, TypeOK
<1>c. ASSUME NEW w \in Functions, NEW i \in DOMAIN uds'[w]
      PROVE  Untouched(uds[w][i].conn)' /\ Arrived(uds[w][i].conn)' > 0
  <2>1. PICK j \in DOMAIN uds[w] : uds'[w][i].conn = uds[w][j].conn
    OBVIOUS
  <2>2. uds[w][j].conn \in Conns
    BY MsgConn
  <2> QED BY <2>1, <2>2, <1>5 DEF UseInv
<1>d. ASSUME NEW q \in Procs, conn'[q] \in Conns
      PROVE  /\ resp'[conn'[q]] = <<>> /\ conn'[q] \notin reset'
             /\ pc'[q] \in BeforeRead => consumed'[conn'[q]] = 0
             /\ pc'[q] \in {"send", "verify", "restore"} => Arrived(conn[q])' > 0
             /\ pc'[q] \in {"restore", "headers", "body", "respond"} => req'[conn'[q]].fn = q
  <2>1. CASE q = p
    BY <2>1, <1>1, <1>5 DEF UseInv, Untouched
  <2>2. CASE q # p
    BY <2>2, <1>d, <1>1, <1>5 DEF UseInv, clientVars
  <2> QED BY <2>1, <2>2
<1>e. \A d \in Conns : resp'[d] # <<>> => resp'[d] = <<req'[d].fn>>
  BY DEF UseInv, clientVars
<1> QED BY <1>1, <1>a, <1>b, <1>c, <1>d, <1>e DEF UseInv

LEMMA GatewaySafe ==
  ASSUME TypeInv, OwnInv, UseInv, GatewayStep
  PROVE  OwnInv' /\ UseInv'
<1> USE ProcFacts
<1>1. ASSUME NEW c \in Conns, Accept(c) PROVE OwnInv' /\ UseInv'
  <2>1. /\ pc[Gateway] = "accept" /\ c \in backlog
        /\ backlog' = backlog \ {c} /\ uds' = uds
        /\ pc' = [pc EXCEPT ![Gateway] = "handshake"]
        /\ conn' = [conn EXCEPT ![Gateway] = c]
        /\ fds' = [fds EXCEPT ![Gateway] = fds[Gateway] \cup {c}]
        /\ UNCHANGED <<clientVars, consumed, resp, reset>>
    BY <1>1 DEF Accept
  <2>2. conn[Gateway] = NoConn
    BY <2>1 DEF TypeInv, ControlInv
  <2>3. pc'[Gateway] = "handshake" /\ \A q \in Procs \ {Gateway} : pc'[q] = pc[q]
    BY <2>1 DEF TypeInv, TypeOK
  <2>4. Untouched(c) /\ Open(c) /\ client[c] # "idle"
    BY <2>1 DEF UseInv, Open
  <2>5. /\ \A q \in Procs : conn[q] # c
        /\ \A w \in Functions : \A i \in DOMAIN uds[w] : uds[w][i].conn # c
    BY <2>1 DEF OwnInv
  <2>6. \A v, w \in Functions : \A i \in DOMAIN uds'[v], j \in DOMAIN uds'[w] :
          uds'[v][i].conn = uds'[w][j].conn => v = w /\ i = j
    BY <2>1 DEF OwnInv
  <2>7. \A w \in Functions : \A i \in DOMAIN uds'[w] :
          uds'[w][i].conn # c /\ \E j \in DOMAIN uds[w] : uds'[w][i].conn = uds[w][j].conn
    BY <2>1, <2>5
  <2>8. c \notin backlog' /\ backlog' \subseteq backlog /\ Gateway \in Procs
    BY <2>1
  <2> QED BY ONLY TypeInv, OwnInv, UseInv, <2>1, <2>2, <2>3, <2>4, <2>5, <2>6, <2>7, <2>8, TakeSafe
<1>2. CASE Handshake
  <2>1. /\ pc[Gateway] = "handshake"
        /\ client' = [client EXCEPT ![conn[Gateway]] = "secure"]
        /\ pc' = [pc EXCEPT ![Gateway] = "peek"]
        /\ UNCHANGED <<req, sent, partial, consumed, resp, reset, backlog, uds, conn, fds>>
    BY <1>2 DEF Handshake
  <2>2. conn[Gateway] \in Conns
    BY <2>1, HasConn
  <2>3. pc'[Gateway] = "peek" /\ \A q \in Procs \ {Gateway} : pc'[q] = pc[q]
    BY <2>1 DEF TypeInv, TypeOK
  <2>4. \A d \in Conns : client'[d] = "idle" => client[d] = "idle"
    BY <2>1 DEF TypeInv, TypeOK
  <2>5. consumed[conn[Gateway]] = 0
    BY <2>1, <2>2 DEF UseInv, BeforeRead, GatewayPCs
  <2> QED BY <2>1, <2>2, <2>3, <2>4, <2>5, WorkSafe
<1>4. ASSUME NEW f \in Names, PeekAndExport(f) PROVE OwnInv' /\ UseInv'
  <2>1. /\ pc[Gateway] = "peek" /\ PeekDecrypts(conn[Gateway], seq[Gateway])
        /\ pc' = [pc EXCEPT ![Gateway] = "send"]
        /\ UNCHANGED <<clientVars, consumed, resp, reset, backlog, uds, conn, fds>>
    BY <1>4 DEF PeekAndExport
  <2>2. conn[Gateway] \in Conns
    BY <2>1, HasConn
  <2>3. pc'[Gateway] = "send" /\ \A q \in Procs \ {Gateway} : pc'[q] = pc[q]
    BY <2>1 DEF TypeInv, TypeOK
  <2>4. consumed[conn[Gateway]] = 0 /\ Arrived(conn[Gateway]) > 0
    BY <2>1, <2>2 DEF UseInv, BeforeRead, GatewayPCs, PeekDecrypts
  <2> QED BY <2>1, <2>2, <2>3, <2>4, WorkSafe DEF clientVars
<1>3. CASE HandshakeFails \/ PeekAndExportFails \/ SendFdFails
  <2>1. CloseConn(Gateway) /\ pc[Gateway] # "accept"
    BY <1>3 DEF HandshakeFails, PeekAndExportFails, SendFdFails
  <2> QED BY <2>1, HasConn, CloseSafe DEF CloseConn
<1>6. CASE SendFd
  <2> DEFINE c == conn[Gateway]
             m == [conn |-> c, seq |-> seq[Gateway]]
  <2>1. /\ pc[Gateway] = "send" /\ target \in Functions
        /\ uds' = [uds EXCEPT ![target] = Append(uds[target], m)]
        /\ fds' = [fds EXCEPT ![Gateway] = fds[Gateway] \ {c}]
        /\ conn' = [conn EXCEPT ![Gateway] = NoConn]
        /\ pc' = [pc EXCEPT ![Gateway] = "accept"]
        /\ UNCHANGED <<clientVars, consumed, resp, reset, backlog>>
    BY <1>6 DEF SendFd, Idle
  <2>2. c \in Conns /\ c # NoConn /\ m \in Msg /\ m.conn = c
    BY <2>1, HasConn, InitialConstants DEF TypeInv, TypeOK, Msg
  <2>3. /\ conn'[Gateway] = NoConn /\ pc'[Gateway] = "accept" /\ fds'[Gateway] = {}
        /\ \A q \in Procs \ {Gateway} : conn'[q] = conn[q] /\ pc'[q] = pc[q] /\ fds'[q] = fds[q]
    BY <2>1 DEF TypeInv, TypeOK, OwnInv
  <2>4. /\ client[c] # "idle" /\ c \notin backlog /\ Untouched(c) /\ Arrived(c) > 0
        /\ \A q \in Procs \ {Gateway} : conn[q] # c
        /\ \A w \in Functions : \A i \in DOMAIN uds[w] : uds[w][i].conn # c
    BY <2>1, <2>2, OpenPlaces DEF UseInv, OwnInv, Untouched, BeforeRead, GatewayPCs
  <2> HIDE DEF c, m
  <2>5. /\ \A w \in Functions \ {target} : uds'[w] = uds[w]
        /\ uds'[target] = Append(uds[target], m) /\ uds[target] \in Seq(Msg)
    BY <2>1 DEF TypeInv, TypeOK
  (* Every message is an old one, with its index, or the new one. *)
  <2>6. ASSUME NEW w \in Functions, NEW i \in DOMAIN uds'[w]
        PROVE  \/ i \in DOMAIN uds[w] /\ uds'[w][i] = uds[w][i]
               \/ w = target /\ i = Len(uds[target]) + 1 /\ uds'[w][i] = m
    BY <2>5, <2>2, AppendMsg
  <2>7. \A w \in Functions : \A i \in DOMAIN uds'[w] :
          \/ uds'[w][i].conn = c
          \/ i \in DOMAIN uds[w] /\ uds'[w][i].conn = uds[w][i].conn
    BY <2>6, <2>2
  <2>n. NoConn \notin backlog /\ NoConn \notin Conns
    BY InitialConstants DEF TypeInv, TypeOK
  <2>8. OwnInv'
    <3>1. \A q \in Procs : fds'[q] = {conn'[q]} \ {NoConn}
      BY <2>3 DEF OwnInv
    <3>2. \A q, r \in Procs : conn'[q] = conn'[r] /\ conn'[q] # NoConn => q = r
      BY <2>3 DEF OwnInv
    <3>3. \A q \in Procs : conn'[q] \notin backlog'
      BY <2>1, <2>3, <2>n DEF OwnInv
    <3>4. ASSUME NEW q \in Procs, NEW w \in Functions, NEW i \in DOMAIN uds'[w]
          PROVE  uds'[w][i].conn # conn'[q]
      <4>1. CASE uds'[w][i].conn = c
        BY <4>1, <2>2, <2>3, <2>4
      <4>2. CASE i \in DOMAIN uds[w] /\ uds'[w][i].conn = uds[w][i].conn
        <5>1. uds[w][i].conn \in Conns
          BY <4>2, MsgConn
        <5>2. uds[w][i].conn # conn[q]
          BY <4>2 DEF OwnInv
        <5> QED BY <4>2, <5>1, <5>2, <2>3, <2>n
      <4> QED BY <4>1, <4>2, <2>7
    <3>5. \A w \in Functions : \A i \in DOMAIN uds'[w] : uds'[w][i].conn \notin backlog'
      BY <2>7, <2>4, <2>1 DEF OwnInv
    <3>6. ASSUME NEW v \in Functions, NEW w \in Functions,
                 NEW i \in DOMAIN uds'[v], NEW j \in DOMAIN uds'[w],
                 uds'[v][i].conn = uds'[w][j].conn
          PROVE  v = w /\ i = j
      <4>1. CASE i \in DOMAIN uds[v] /\ uds'[v][i] = uds[v][i]
        <5>1. uds'[w][j].conn # c
          BY <4>1, <3>6, <2>4
        <5>2. j \in DOMAIN uds[w] /\ uds'[w][j] = uds[w][j]
          BY <5>1, <2>6, <2>2
        <5> QED BY <4>1, <5>2, <3>6 DEF OwnInv
      <4>2. CASE v = target /\ i = Len(uds[target]) + 1 /\ uds'[v][i] = m
        <5>1. ~(j \in DOMAIN uds[w] /\ uds'[w][j] = uds[w][j])
          BY <4>2, <3>6, <2>4, <2>2
        <5> QED BY <4>2, <5>1, <2>6
      <4> QED BY <4>1, <4>2, <2>6
    <3> QED BY <3>1, <3>2, <3>3, <3>4, <3>5, <3>6 DEF OwnInv
  <2>9. \A d \in Conns : /\ (Arrived(d)' > 0) = (Arrived(d) > 0)
                         /\ Untouched(d)' = Untouched(d)
    BY <2>1 DEF Arrived, Untouched, clientVars
  <2>10. \A d \in Conns : Open(d)' => Open(d) \/ d = c
    <3>1. \A q \in Procs : fds'[q] \subseteq fds[q]
      BY <2>3
    <3> QED BY <3>1, <2>1, <2>7 DEF Open, InTransit
  <2>a. \A d \in Conns : client'[d] = "idle" => Untouched(d)' /\ ~Open(d)'
    BY <2>1, <2>4, <2>9, <2>10 DEF UseInv, clientVars
  <2>b. \A d \in backlog' : Untouched(d)'
    BY <2>1, <2>9 DEF UseInv, TypeInv, TypeOK
  <2>c. ASSUME NEW w \in Functions, NEW i \in DOMAIN uds'[w]
        PROVE  Untouched(uds[w][i].conn)' /\ Arrived(uds[w][i].conn)' > 0
    <3>1. CASE uds'[w][i].conn = c
      BY <3>1, <2>2, <2>4, <2>9
    <3>2. CASE i \in DOMAIN uds[w] /\ uds'[w][i].conn = uds[w][i].conn
      <4>1. uds[w][i].conn \in Conns /\ Untouched(uds[w][i].conn) /\ Arrived(uds[w][i].conn) > 0
        BY <3>2, MsgConn DEF UseInv
      <4> QED BY <3>2, <4>1, <2>9
    <3> QED BY <3>1, <3>2, <2>7
  <2>d. ASSUME NEW q \in Procs, conn'[q] \in Conns
        PROVE  /\ resp'[conn'[q]] = <<>> /\ conn'[q] \notin reset'
               /\ pc'[q] \in BeforeRead => consumed'[conn'[q]] = 0
               /\ pc'[q] \in {"send", "verify", "restore"} => Arrived(conn[q])' > 0
               /\ pc'[q] \in {"restore", "headers", "body", "respond"} => req'[conn'[q]].fn = q
    <3>1. q # Gateway /\ conn'[q] = conn[q] /\ pc'[q] = pc[q]
      BY <2>d, <2>3, <2>n
    <3> QED BY <3>1, <2>d, <2>1, <2>9 DEF UseInv, clientVars
  <2>e. \A d \in Conns : resp'[d] # <<>> => resp'[d] = <<req'[d].fn>>
    BY <2>1 DEF UseInv, clientVars
  <2> QED BY <2>8, <2>a, <2>b, <2>c, <2>d, <2>e DEF UseInv
<1> QED BY <1>1, <1>2, <1>3, <1>4, <1>6 DEF GatewayStep

LEMMA WorkerSafe ==
  ASSUME TypeInv, OwnInv, UseInv, NEW w \in Functions, WorkerStep(w)
  PROVE  OwnInv' /\ UseInv'
<1> USE ProcFacts
<1>1. CASE RecvFd(w)
  <2> DEFINE c == Head(uds[w]).conn
  <2>1. /\ pc[w] = "accept" /\ uds[w] # <<>>
        /\ uds' = [uds EXCEPT ![w] = Tail(uds[w])]
        /\ pc' = [pc EXCEPT ![w] = "verify"]
        /\ conn' = [conn EXCEPT ![w] = c]
        /\ fds' = [fds EXCEPT ![w] = fds[w] \cup {c}]
        /\ UNCHANGED <<clientVars, consumed, resp, reset>> /\ backlog' = backlog
    BY <1>1 DEF RecvFd
  <2>2. conn[w] = NoConn
    BY <2>1 DEF TypeInv, ControlInv
  <2>3. pc'[w] = "verify" /\ \A q \in Procs \ {w} : pc'[q] = pc[q]
    BY <2>1 DEF TypeInv, TypeOK
  <2>4. /\ c \in Conns /\ 1 \in DOMAIN uds[w] /\ c = uds[w][1].conn
        /\ \A v \in Functions : \A i \in DOMAIN uds'[v] :
             /\ uds'[v][i].conn # c
             /\ \E j \in DOMAIN uds[v] : uds'[v][i] = uds[v][j]
        /\ \A u, v \in Functions : \A i \in DOMAIN uds'[u], j \in DOMAIN uds'[v] :
             uds'[u][i].conn = uds'[v][j].conn => u = v /\ i = j
    BY <2>1, UdsTail
  <2> HIDE DEF c
  <2>5. Untouched(c) /\ Arrived(c) > 0 /\ (\A q \in Procs : conn[q] # c) /\ c \notin backlog
    BY <2>4 DEF UseInv, OwnInv
  <2>6. client[c] # "idle"
    <3>1. Open(c)
      BY <2>4 DEF Open, InTransit
    <3> QED BY <3>1, <2>4 DEF UseInv
  <2>7. \A v \in Functions : \A i \in DOMAIN uds'[v] :
          uds'[v][i].conn # c /\ \E j \in DOMAIN uds[v] : uds'[v][i].conn = uds[v][j].conn
    BY <2>4
  <2>8. c \notin backlog' /\ backlog' \subseteq backlog /\ w \in Procs /\ c \in Conns
    BY <2>1, <2>4, <2>5
  <2>9. \A u, v \in Functions : \A i \in DOMAIN uds'[u], j \in DOMAIN uds'[v] :
          uds'[u][i].conn = uds'[v][j].conn => u = v /\ i = j
    BY <2>4
  <2>10. /\ conn' = [conn EXCEPT ![w] = c] /\ fds' = [fds EXCEPT ![w] = fds[w] \cup {c}]
         /\ UNCHANGED <<clientVars, consumed, resp, reset>>
         /\ \A q \in Procs : conn[q] # c
    BY <2>1, <2>5
  <2> QED BY ONLY TypeInv, OwnInv, UseInv, <2>2, <2>3, <2>5, <2>6, <2>7, <2>8, <2>9, <2>10,
                  TakeSafe
<1>2. CASE RecvFdFails(w)
  <2> DEFINE c == Head(uds[w]).conn
  <2>1. /\ uds[w] # <<>> /\ uds' = [uds EXCEPT ![w] = Tail(uds[w])]
        /\ reset' \subseteq reset \cup {c}
        /\ UNCHANGED <<clientVars, consumed, resp, backlog, pc, conn, fds>>
    BY <1>2 DEF RecvFdFails, localVars
  <2>2. /\ c \in Conns /\ 1 \in DOMAIN uds[w] /\ c = uds[w][1].conn
        /\ \A v \in Functions : \A i \in DOMAIN uds'[v] :
             /\ uds'[v][i].conn # c
             /\ \E j \in DOMAIN uds[v] : uds'[v][i] = uds[v][j]
        /\ \A u, v \in Functions : \A i \in DOMAIN uds'[u], j \in DOMAIN uds'[v] :
             uds'[u][i].conn = uds'[v][j].conn => u = v /\ i = j
    BY <2>1, UdsTail
  <2> HIDE DEF c
  <2>3. (\A q \in Procs : conn[q] # c) /\ c \notin backlog /\ client[c] # "idle"
    <3>1. Open(c)
      BY <2>2 DEF Open, InTransit
    <3> QED BY <3>1, <2>2 DEF OwnInv, UseInv
  <2>4. \A v \in Functions : \A i \in DOMAIN uds'[v] :
          uds'[v][i].conn # c /\ \E j \in DOMAIN uds[v] : uds'[v][i].conn = uds[v][j].conn
    BY <2>2
  <2>5. OwnInv'
    <3>1. \A q \in Procs, v \in Functions : \A i \in DOMAIN uds'[v] : uds'[v][i].conn # conn'[q]
      BY <2>1, <2>4 DEF OwnInv
    <3>2. \A v \in Functions : \A i \in DOMAIN uds'[v] : uds'[v][i].conn \notin backlog'
      BY <2>1, <2>4 DEF OwnInv
    <3> QED BY <2>1, <2>2, <3>1, <3>2 DEF OwnInv
  <2>6. /\ \A d \in Conns : (Arrived(d)' > 0) = (Arrived(d) > 0)
        /\ \A d \in Conns \ {c} : Untouched(d) => Untouched(d)'
        /\ \A d \in Conns : Open(d)' => Open(d)
    BY <2>1, <2>4 DEF Arrived, Untouched, clientVars, Open, InTransit
  <2>a. \A d \in Conns : client'[d] = "idle" => Untouched(d)' /\ ~Open(d)'
    BY <2>1, <2>3, <2>6 DEF UseInv, clientVars
  <2>b. \A d \in backlog' : Untouched(d)'
    BY <2>1, <2>3, <2>6 DEF UseInv, TypeInv, TypeOK
  <2>c. ASSUME NEW v \in Functions, NEW i \in DOMAIN uds'[v]
        PROVE  Untouched(uds[v][i].conn)' /\ Arrived(uds[v][i].conn)' > 0
    <3>1. PICK j \in DOMAIN uds[v] : uds'[v][i].conn = uds[v][j].conn
      BY <2>4
    <3>2. uds[v][j].conn \in Conns \ {c}
      BY <3>1, <2>4, MsgConn
    <3> QED BY <3>1, <3>2, <2>6 DEF UseInv
  <2>d. ASSUME NEW q \in Procs, conn'[q] \in Conns
        PROVE  /\ resp'[conn'[q]] = <<>> /\ conn'[q] \notin reset'
               /\ pc'[q] \in BeforeRead => consumed'[conn'[q]] = 0
               /\ pc'[q] \in {"send", "verify", "restore"} => Arrived(conn[q])' > 0
               /\ pc'[q] \in {"restore", "headers", "body", "respond"} => req'[conn'[q]].fn = q
    BY <2>d, <2>1, <2>3, <2>6 DEF UseInv, clientVars
  <2>e. \A d \in Conns : resp'[d] # <<>> => resp'[d] = <<req'[d].fn>>
    BY <2>1 DEF UseInv, clientVars
  <2> QED BY <2>5, <2>a, <2>b, <2>c, <2>d, <2>e DEF UseInv
<1>3. CASE Verify(w)
  <2>1. /\ pc[w] = "verify" /\ RequestOwner(conn[w], seq[w]) = w
        /\ pc' = [pc EXCEPT ![w] = "restore"]
        /\ UNCHANGED <<clientVars, consumed, resp, reset, backlog, uds, conn, fds>>
    BY <1>3 DEF Verify
  <2>2. conn[w] \in Conns
    BY <2>1, HasConn
  <2>3. pc'[w] = "restore" /\ \A q \in Procs \ {w} : pc'[q] = pc[q]
    BY <2>1 DEF TypeInv, TypeOK
  <2>4. consumed[conn[w]] = 0 /\ Arrived(conn[w]) > 0
    BY <2>1, <2>2 DEF UseInv, BeforeRead
  <2>5. req[conn[w]].fn = w
    <3>1. w # NoName
      BY InitialConstants
    <3> QED BY <3>1, <2>1 DEF RequestOwner
  <2> QED BY <2>1, <2>2, <2>3, <2>4, <2>5, WorkSafe DEF clientVars
<1>4. CASE Restore(w)
  <2>1. /\ pc[w] = "restore" /\ pc' = [pc EXCEPT ![w] = "headers"]
        /\ UNCHANGED <<clientVars, consumed, resp, reset, backlog, uds, conn, fds>>
    BY <1>4 DEF Restore
  <2>2. conn[w] \in Conns
    BY <2>1, HasConn
  <2>3. pc'[w] = "headers" /\ \A q \in Procs \ {w} : pc'[q] = pc[q]
    BY <2>1 DEF TypeInv, TypeOK
  <2>4. req[conn[w]].fn = w
    BY <2>1, <2>2 DEF UseInv
  <2> QED BY <2>1, <2>2, <2>3, <2>4, WorkSafe DEF clientVars, BeforeRead, GatewayPCs
<1>5. CASE Refuse(w) \/ RestoreFails(w) \/ HeadersTooLong(w) \/ ReadFails(w) \/ RespondFails(w)
  <2>1. CloseConn(w) /\ pc[w] # "accept"
    BY <1>5 DEF Refuse, RestoreFails, HeadersTooLong, ReadFails, RespondFails
  <2> QED BY <2>1, HasConn, CloseSafe DEF CloseConn
<1>6. CASE ReadHeaders(w) \/ ReadBody(w)
  <2>1. /\ pc[w] \in {"headers", "body"}
        /\ pc' = [pc EXCEPT ![w] = pc'[w]] /\ pc'[w] \in {"headers", "body", "respond"}
        /\ consumed' = consumed \/ consumed' = [consumed EXCEPT ![conn[w]] = consumed[conn[w]] + 1]
        /\ UNCHANGED <<clientVars, resp, reset, backlog, uds, conn, fds>>
    BY <1>6 DEF ReadHeaders, ReadBody, TakeRecord, TypeInv, TypeOK
  <2>2. conn[w] \in Conns
    BY <2>1, HasConn
  <2>3. \A q \in Procs \ {w} : pc'[q] = pc[q]
    BY <2>1 DEF TypeInv, TypeOK
  <2>4. req[conn[w]].fn = w
    BY <2>1, <2>2 DEF UseInv
  <2>5. \A d \in Conns \ {conn[w]} : consumed'[d] = consumed[d]
    BY <2>1 DEF TypeInv, TypeOK
  <2> QED BY <2>1, <2>2, <2>3, <2>4, <2>5, WorkSafe DEF clientVars, BeforeRead, GatewayPCs
<1>7. CASE Respond(w)
  <2>1. /\ pc[w] = "respond" /\ resp' = [resp EXCEPT ![conn[w]] = Append(resp[conn[w]], w)]
        /\ Close(w, conn[w]) /\ Idle(w) /\ UNCHANGED <<clientVars, consumed, backlog, uds>>
    BY <1>7 DEF Respond
  <2>2. conn[w] \in Conns
    BY <2>1, HasConn
  <2>3. resp[conn[w]] = <<>> /\ req[conn[w]].fn = w
    BY <2>1, <2>2 DEF UseInv
  <2>4. Append(resp[conn[w]], w) = <<req[conn[w]].fn>>
    BY <2>3
  <2> QED BY <2>1, <2>2, <2>4, CloseSafe
<1> QED BY <1>1, <1>2, <1>3, <1>4, <1>5, <1>6, <1>7 DEF WorkerStep

-----------------------------------------------------------------------------
(* The plaintext of a connection *)

LEMMA SentType ==
  ASSUME TypeInv, NEW c \in Conns
  PROVE  /\ sent[c] \in Seq(Seq(Token)) /\ Len(sent[c]) \in Nat
         /\ todo[c] \in Seq(Token) /\ Len(todo[c]) \in Nat
         /\ consumed[c] \in Nat /\ req[c] \in Request
         /\ sent[c] = <<>> <=> Len(sent[c]) = 0
<1>1. sent[c] \in Seq(Seq(Token)) /\ todo[c] \in Seq(Token) /\ consumed[c] \in Nat /\ req[c] \in Request
  BY DEF TypeInv, TypeOK
<1>2. Len(sent[c]) \in Nat /\ Len(todo[c]) \in Nat /\ (sent[c] = <<>> <=> Len(sent[c]) = 0)
  BY <1>1
<1> QED BY <1>1, <1>2

LEMMA AppendAny ==
  ASSUME NEW T, NEW s \in Seq(T), NEW e \in T
  PROVE  /\ Append(s, e) # <<>> /\ Len(Append(s, e)) = Len(s) + 1
         /\ Append(s, e)[Len(s) + 1] = e
         /\ \A i \in 1..Len(s) : Append(s, e)[i] = s[i]
OBVIOUS

LEMMA AppendRecord ==
  ASSUME NEW s \in Seq(Seq(Token)), NEW e \in Seq(Token)
  PROVE  /\ Append(s, e) # <<>> /\ Len(Append(s, e)) = Len(s) + 1
         /\ Append(s, e)[Len(s) + 1] = e
         /\ \A i \in 1..Len(s) : Append(s, e)[i] = s[i]
<1> DEFINE T == Seq(Token)
<1>1. s \in Seq(T) /\ e \in T
  OBVIOUS
<1> HIDE DEF T
<1> QED BY <1>1, AppendAny

(* A step that adds nothing to the connection and moves no reader of it. *)
LEMMA StreamKept ==
  ASSUME NEW c \in Conns, Stream(c),
         sent'[c] = sent[c], todo'[c] = todo[c], req'[c] = req[c], consumed'[c] = consumed[c],
         client[c] \in {"sending", "gone"} => client'[c] \in {"sending", "gone"},
         \A w \in Functions : conn'[w] = c =>
           /\ sent[c] # <<>>
           /\ \/ pc'[w] \notin {"headers", "body", "respond"}
              \/ /\ conn[w] = c /\ pc'[w] = pc[w] /\ buf'[w] = buf[w]
                 /\ ssl'[w] = ssl[w] /\ want'[w] = want[w]
  PROVE  Stream(c)'
<1>1. CASE sent[c] = <<>> /\ todo[c] = <<>>
  BY <1>1 DEF Stream
<1>2. ASSUME NEW off \in [0..Len(sent[c]) -> Nat], CutAt(c, off),
             \A w \in Functions : conn[w] = c => ReadAt(w, c, off)
      PROVE  Stream(c)'
  <2>1. CutAt(c, off)'
    BY <1>2 DEF CutAt
  <2>2. ASSUME NEW w \in Functions, conn'[w] = c PROVE ReadAt(w, c, off)'
    <3>1. CASE pc'[w] \notin {"headers", "body", "respond"}
      BY <3>1 DEF ReadAt
    <3>2. CASE pc'[w] \in {"headers", "body", "respond"}
      <4>1. /\ conn[w] = c /\ pc'[w] = pc[w] /\ buf'[w] = buf[w]
            /\ ssl'[w] = ssl[w] /\ want'[w] = want[w]
        BY <2>2, <3>2
      <4>2. ReadAt(w, c, off)
        BY <4>1, <1>2
      <4> QED BY <4>1, <4>2, ZenonT(60) DEF ReadAt, WellFramed
    <3> QED BY <3>1, <3>2
  <2> QED BY <2>1, <2>2 DEF Stream
<1> QED BY <1>1, <1>2 DEF Stream

LEMMA IssueStream ==
  ASSUME TypeInv, NEW c \in Conns, Stream(c), IssueRequest(c)
  PROVE  Stream(c)'
<1>1. /\ client[c] = "secure" /\ client'[c] = "sending" /\ todo'[c] = Plaintext(req[c])
      /\ sent'[c] = sent[c] /\ req'[c] = req[c] /\ UNCHANGED <<consumed, conn>>
  BY DEF IssueRequest, TypeInv, TypeOK, serverVars, localVars
<1>2. sent[c] = <<>> /\ Len(sent[c]) = 0
  BY <1>1, SentType DEF Stream
<1>3. \A w \in Functions : conn[w] # c
  BY <1>2 DEF Stream
<1> DEFINE off == [i \in {0} |-> 0]
           text == Plaintext(req[c])
<1>4. text \in Seq(Token) /\ Len(text) \in Nat
  BY PlaintextShape, SentType
<1>5. 0..0 = {0} /\ 1..0 = {}
  OBVIOUS
<1>6. off \in [0..Len(sent[c]) -> Nat] /\ off[0] = 0
  BY <1>2, <1>5
<1> HIDE DEF off
<1>7. CutAt(c, off)'
  BY <1>1, <1>2, <1>4, <1>5, <1>6 DEF CutAt
<1> QED BY <1>1, <1>2, <1>3, <1>6, <1>7 DEF Stream

LEMMA SendStream ==
  ASSUME TypeInv, NEW c \in Conns, Stream(c),
         NEW k \in 1..Len(todo[c]), NEW cut \in BOOLEAN, SendRecord(c, k, cut)
  PROVE  Stream(c)'
<1> DEFINE n == Len(sent[c])
           rec == SubSeq(todo[c], 1, k)
           rest == SubSeq(todo[c], k + 1, Len(todo[c]))
           text == Plaintext(req[c])
<1>t. /\ sent[c] \in Seq(Seq(Token)) /\ n \in Nat /\ todo[c] \in Seq(Token) /\ Len(todo[c]) \in Nat
      /\ consumed[c] \in Nat
  BY SentType
<1>1. /\ client[c] = "sending" /\ client'[c] = "sending"
      /\ todo'[c] = rest /\ sent'[c] = Append(sent[c], rec)
      /\ UNCHANGED <<req, consumed, conn, pc, buf, ssl, want>>
  BY DEF SendRecord, TypeInv, TypeOK, localVars, workVars
<1>2. /\ rec \in Seq(Token) /\ Len(rec) = k /\ \A i \in 1..k : rec[i] = todo[c][i]
      /\ rest \in Seq(Token) /\ Len(rest) = Len(todo[c]) - k
      /\ \A i \in 1..Len(rest) : rest[i] = todo[c][k + i]
  BY <1>t
<1>k. n \in Nat /\ k \in Nat /\ k >= 1 /\ k <= Len(todo[c]) /\ Len(todo[c]) \in Nat
  BY <1>t
<1>l. Len(rest) \in Nat /\ Len(rest) + k = Len(todo[c])
  BY <1>2, <1>k
<1> HIDE DEF rec, rest, n
<1>3. /\ Len(sent'[c]) = n + 1 /\ sent'[c][n + 1] = rec /\ sent'[c] # <<>>
      /\ \A i \in 1..n : sent'[c][i] = sent[c][i]
  <2>1. /\ Len(Append(sent[c], rec)) = n + 1 /\ Append(sent[c], rec)[n + 1] = rec
        /\ Append(sent[c], rec) # <<>>
        /\ \A i \in 1..n : Append(sent[c], rec)[i] = sent[c][i]
    BY <1>t, <1>2, AppendRecord DEF n
  <2> QED BY <2>1, <1>1
<1>4. PICK off \in [0..n -> Nat] :
        CutAt(c, off) /\ \A w \in Functions : conn[w] = c => ReadAt(w, c, off)
  <2>1. todo[c] # <<>>
    BY <1>t
  <2> QED BY <2>1 DEF Stream, n
<1>5. /\ off[0] = 0
      /\ \A i \in 1..n : off[i] = off[i - 1] + Len(sent[c][i])
      /\ \A i, j \in 0..n : i < j => off[i] < off[j]
      /\ off[n] + Len(todo[c]) = Len(text)
      /\ \A i \in 1..n : \A m \in 1..Len(sent[c][i]) : sent[c][i][m] = text[off[i - 1] + m]
      /\ \A m \in 1..Len(todo[c]) : todo[c][m] = text[off[n] + m]
  BY <1>4 DEF CutAt, n
<1>6. PICK new \in [0..(n + 1) -> Nat] :
        /\ new[n + 1] = off[n] + k /\ off[n] \in Nat
        /\ \A i \in 0..n : new[i] = off[i] /\ off[i] \in Nat
  <2> DEFINE ext == [i \in 0..(n + 1) |-> IF i = n + 1 THEN off[n] + k ELSE off[i]]
  <2>1. off[n] \in Nat /\ off[n] + k \in Nat /\ \A i \in 0..n : off[i] \in Nat
    BY <1>k, <1>4
  <2>2. \A i \in 0..(n + 1) : i = n + 1 \/ i \in 0..n
    BY <1>k
  <2>3. /\ \A i \in 0..n : i \in 0..(n + 1) /\ i # n + 1
        /\ n + 1 \in 0..(n + 1)
    BY <1>k
  <2>4. /\ ext \in [0..(n + 1) -> Nat] /\ ext[n + 1] = off[n] + k
        /\ \A i \in 0..n : ext[i] = off[i]
    BY <2>1, <2>2, <2>3
  <2> HIDE DEF ext
  <2> QED BY <2>1, <2>4
<1> HIDE DEF text
<1>7. CutAt(c, new)'
  <2>1. new[0] = 0
    BY <1>5, <1>6, <1>t
  <2>2. ASSUME NEW i \in 1..(n + 1) PROVE new[i] = new[i - 1] + Len(sent'[c][i])
    <3>1. CASE i = n + 1
      BY <3>1, <1>2, <1>3, <1>6, <1>t
    <3>2. CASE i \in 1..n
      <4>1. i \in 0..n /\ i - 1 \in 0..n
        BY <3>2, <1>t
      <4> QED BY <3>2, <4>1, <1>3, <1>5, <1>6
    <3> QED BY <3>1, <3>2, <1>t
  <2>3. ASSUME NEW i \in 0..(n + 1), NEW j \in 0..(n + 1), i < j PROVE new[i] < new[j]
    <3>1. i \in 0..n
      BY <2>3, <1>t
    <3>2. CASE j = n + 1
      <4>1. i = n \/ i < n
        BY <3>1, <1>k
      <4>2. n \in 0..n
        BY <1>k
      <4>3. i < n => off[i] < off[n]
        BY <3>1, <4>2, <1>5
      <4>4. new[i] = off[i] /\ off[i] \in Nat /\ new[j] = off[n] + k /\ off[n] \in Nat
        BY <3>1, <3>2, <1>6
      <4> QED BY <4>1, <4>3, <4>4, <1>k
    <3>3. CASE j \in 0..n
      BY <3>1, <3>3, <2>3, <1>5, <1>6
    <3> QED BY <3>2, <3>3, <1>t
  <2>4. new[n + 1] + Len(rest) = Len(text)
    <3>1. off[n] + Len(todo[c]) = Len(text)
      BY <1>5
    <3>2. new[n + 1] = off[n] + k /\ off[n] \in Nat
      BY <1>6
    <3> DEFINE o == off[n]
               z == new[n + 1]
               l == Len(rest)
               t == Len(todo[c])
    <3>3. /\ o \in Nat /\ k \in Nat /\ l \in Nat /\ t \in Nat
          /\ z = o + k /\ l + k = t /\ o + t = Len(text)
      BY <3>1, <3>2, <1>l, <1>k
    <3> HIDE DEF o, z, l, t
    <3>4. z + l = Len(text)
      BY ONLY <3>3
    <3> QED BY <3>4 DEF z, l
  <2>5. ASSUME NEW i \in 1..(n + 1), NEW m \in 1..Len(sent'[c][i])
        PROVE  sent'[c][i][m] = text[new[i - 1] + m]
    <3>1. CASE i = n + 1
      <4>1. m \in 1..k /\ m \in 1..Len(todo[c])
        BY <3>1, <1>2, <1>3, <1>t
      <4>2. new[i - 1] = off[n]
        BY <3>1, <1>6, <1>t
      <4> QED BY <3>1, <4>1, <4>2, <1>2, <1>3, <1>5
    <3>2. CASE i \in 1..n
      <4>1. i - 1 \in 0..n
        BY <3>2, <1>k
      <4>2. new[i - 1] = off[i - 1] /\ sent'[c][i] = sent[c][i]
        BY <3>2, <4>1, <1>3, <1>6
      <4>3. sent[c][i][m] = text[off[i - 1] + m]
        BY <3>2, <4>2, <1>5
      <4> QED BY <4>2, <4>3
    <3> QED BY <3>1, <3>2, <1>k
  <2>6. ASSUME NEW m \in 1..Len(rest) PROVE rest[m] = text[new[n + 1] + m]
    <3>1. k + m \in 1..Len(todo[c])
      BY <1>2, <1>t
    <3>2. rest[m] = todo[c][k + m] /\ todo[c][k + m] = text[off[n] + (k + m)]
      BY <3>1, <1>2, <1>5
    <3>3. off[n] + (k + m) = new[n + 1] + m
      BY <1>6
    <3> QED BY <3>2, <3>3
  <2>7. Plaintext(req'[c]) = text /\ todo'[c] = rest /\ Len(sent'[c]) = n + 1
    BY <1>1, <1>3 DEF text
  <2>8. /\ \A i \in 1..Len(sent'[c]) : new[i] = new[i - 1] + Len(sent'[c][i])
        /\ \A i, j \in 0..Len(sent'[c]) : i < j => new[i] < new[j]
    BY <2>2, <2>3, <2>7
  <2>9. \A i \in 1..Len(sent'[c]) : \A m \in 1..Len(sent'[c][i]) :
          sent'[c][i][m] = Plaintext(req'[c])[new[i - 1] + m]
    BY <2>5, <2>7
  <2>10. /\ new[Len(sent'[c])] + Len(todo'[c]) = Len(Plaintext(req'[c]))
         /\ \A m \in 1..Len(todo'[c]) : todo'[c][m] = Plaintext(req'[c])[new[Len(sent'[c])] + m]
    BY <2>4, <2>6, <2>7
  <2> QED BY <2>1, <2>8, <2>9, <2>10 DEF CutAt
<1>8. consumed[c] \in 0..n
  BY <1>t DEF Stream, n
<1>9. ASSUME NEW w \in Functions, conn'[w] = c PROVE ReadAt(w, c, new)'
  <2>1. ReadAt(w, c, off)
    BY <1>1, <1>4, <1>9
  <2>2. new[consumed[c]] = off[consumed[c]]
    BY <1>6, <1>8
  <2>3. /\ consumed'[c] = consumed[c] /\ req'[c] = req[c] /\ pc'[w] = pc[w] /\ buf'[w] = buf[w]
        /\ ssl'[w] = ssl[w] /\ want'[w] = want[w] /\ WellFramed(c)' = WellFramed(c)
    BY <1>1 DEF WellFramed
  <2> QED BY <2>1, <2>2, <2>3 DEF ReadAt
<1>10. consumed'[c] <= Len(sent'[c]) /\ client'[c] \in {"sending", "gone"}
  BY <1>1, <1>3, <1>8, <1>t
<1>11. new \in [0..Len(sent'[c]) -> Nat]
  BY <1>3, <1>6
<1> QED BY <1>3, <1>7, <1>9, <1>10, <1>11 DEF Stream

LEMMA ClientStream ==
  ASSUME TypeInv, UseInv, StreamInv, AnswerInv, NEW c \in Conns, ClientStep(c)
  PROVE  StreamInv' /\ AnswerInv'
<1>1. UNCHANGED <<req, consumed, resp, conn, pc, buf, ssl, want>>
  BY ClientEffect DEF localVars, workVars
<1>2. /\ \A d \in Conns \ {c} : client'[d] = client[d] /\ sent'[d] = sent[d] /\ todo'[d] = todo[d]
      /\ \A d \in Conns \ {c} : d \in reset' => d \in reset
  BY DEF ClientStep, Connect, Hello, IssueRequest, RestArrives, ReadResponse, ClientClose,
         SendRecord, serverVars, TypeInv, TypeOK
<1>3. CASE Connect(c) \/ Hello(c) \/ RestArrives(c) \/ ReadResponse(c) \/ ClientClose(c)
  <2>1. /\ sent' = sent /\ todo' = todo /\ reset' = reset
        /\ client[c] \in {"sending", "gone"} => client'[c] \in {"sending", "gone"}
    BY <1>3 DEF Connect, Hello, RestArrives, ReadResponse, ClientClose, serverVars, TypeInv, TypeOK
  <2>2. ASSUME NEW d \in Conns PROVE Stream(d)'
    <3>1. client[d] \in {"sending", "gone"} => client'[d] \in {"sending", "gone"}
      BY <2>1, <1>2
    <3>2. Stream(d) /\ \A w \in Functions : conn[w] = d => sent[d] # <<>>
      BY DEF StreamInv, Stream
    <3> QED BY <3>1, <3>2, <2>1, <1>1, StreamKept
  <2>3. AnswerInv'
    BY <1>1, <2>1 DEF AnswerInv, WellFramed
  <2> QED BY <2>2, <2>3 DEF StreamInv
<1>4. ASSUME NEW d \in Conns \ {c} PROVE Stream(d)'
  <2>1. Stream(d) /\ \A w \in Functions : conn[w] = d => sent[d] # <<>>
    BY DEF StreamInv, Stream
  <2> QED BY <2>1, <1>1, <1>2, StreamKept
<1>5. CASE IssueRequest(c)
  <2>1. Stream(c)'
    BY <1>5, IssueStream DEF StreamInv
  <2>2. sent[c] = <<>> /\ reset' = reset /\ sent' = sent
    BY <1>5 DEF IssueRequest, StreamInv, Stream, serverVars
  <2>3. AnswerInv'
    BY <1>1, <1>2, <2>2 DEF AnswerInv, WellFramed
  <2> QED BY <1>4, <2>1, <2>3 DEF StreamInv
<1>6. ASSUME NEW k \in 1..Len(todo[c]), NEW cut \in BOOLEAN, SendRecord(c, k, cut)
      PROVE  StreamInv' /\ AnswerInv'
  <2>1. Stream(c)'
    BY <1>6, SendStream DEF StreamInv
  <2>2. todo[c] # <<>>
    BY SentType
  <2>3. AnswerInv'
    BY <1>1, <1>2, <2>2 DEF AnswerInv, WellFramed
  <2> QED BY <1>4, <2>1, <2>3 DEF StreamInv
<1> QED BY <1>3, <1>5, <1>6 DEF ClientStep

(* A worker about to answer a request whose end it knows has read it up. *)
LEMMA FullyRead ==
  ASSUME TypeInv, NEW c \in Conns, Stream(c), NEW w \in Functions, conn[w] = c,
         pc[w] = "respond", WellFramed(c)
  PROVE  consumed[c] = Len(sent[c]) /\ todo[c] = <<>> /\ sent[c] # <<>>
<1> DEFINE n == Len(sent[c])
           text == Plaintext(req[c])
<1>t. /\ sent[c] # <<>> /\ n \in Nat /\ todo[c] \in Seq(Token) /\ Len(todo[c]) \in Nat
      /\ consumed[c] \in 0..n
  BY SentType DEF Stream
<1>1. PICK off \in [0..n -> Nat] : CutAt(c, off) /\ ReadAt(w, c, off)
  BY <1>t DEF Stream
<1>2. /\ \A i, j \in 0..n : i < j => off[i] < off[j]
      /\ off[n] + Len(todo[c]) = Len(text) /\ off[consumed[c]] = Len(text)
  BY <1>1 DEF CutAt, ReadAt
<1> HIDE DEF n, text
<1>3. off[n] \in Nat /\ off[consumed[c]] \in Nat /\ n \in 0..n
  BY <1>t
<1>4. consumed[c] = n
  <2>1. consumed[c] < n => off[consumed[c]] < off[n]
    BY <1>2, <1>3, <1>t
  <2> QED BY <2>1, <1>2, <1>3, <1>t
<1>5. Len(todo[c]) = 0
  BY <1>2, <1>3, <1>4, <1>t
<1> QED BY <1>4, <1>5, <1>t DEF n

(* What wolfSSL_read does to the position in the plaintext. *)
LEMMA TakeStream ==
  ASSUME TypeInv, NEW w \in Functions, NEW c \in Conns, conn[w] = c, Stream(c),
         NEW off \in [0..Len(sent[c]) -> Nat], CutAt(c, off),
         CanRead(w), NEW n \in Nat, TakeRecord(w, n)
  PROVE  LET a == Available(w)
             pending == ssl[w].pending
             text == Plaintext(req[c])
         IN /\ consumed'[c] \in 0..Len(sent[c])
            /\ off[consumed[c]] \in Nat /\ off[consumed'[c]] \in Nat
            /\ off[consumed'[c]] + Len(pending) = off[consumed[c]] + Len(a)
            /\ off[consumed'[c]] <= Len(text)
            /\ pending = <<>> => \A k \in 1..Len(a) : a[k] = text[off[consumed[c]] + k]
            /\ pending # <<>> => a = pending
            /\ ssl'[w].pending = SubSeq(a, n + 1, Len(a))
            /\ ssl[w].read = consumed[c] => ssl'[w].read = consumed'[c]
<1> DEFINE a == Available(w)
           pending == ssl[w].pending
           text == Plaintext(req[c])
           m == Len(sent[c])
<1>t. m \in Nat /\ consumed[c] \in 0..m /\ pending \in Seq(Token)
  <2>1. m \in Nat /\ consumed[c] \in 0..m
    BY SentType DEF Stream
  <2>2. ssl[w] \in Session
    BY ProcFacts DEF TypeInv, TypeOK
  <2> QED BY <2>1, <2>2 DEF Session
<1>1. /\ \A i \in 1..m : off[i] = off[i - 1] + Len(sent[c][i])
      /\ \A i, j \in 0..m : i < j => off[i] < off[j]
      /\ off[m] + Len(todo[c]) = Len(text) /\ Len(todo[c]) \in Nat
      /\ \A i \in 1..m : \A k \in 1..Len(sent[c][i]) : sent[c][i][k] = text[off[i - 1] + k]
  BY SentType DEF CutAt
<1>2. /\ ssl'[w].pending = SubSeq(a, n + 1, Len(a))
      /\ ssl[w].read = consumed[c] => ssl'[w].read = consumed'[c]
  BY ProcFacts DEF TakeRecord, TypeInv, TypeOK
<1>3. \A i \in 0..m : off[i] \in Nat /\ off[i] <= Len(text)
  <2> HIDE DEF text, m
  <2>1. ASSUME NEW i \in 0..m PROVE off[i] \in Nat /\ off[i] <= Len(text)
    <3>1. off[i] \in Nat /\ off[m] \in Nat
      BY <1>t DEF m
    <3>2. i = m \/ i < m
      BY <1>t
    <3>3. i < m => off[i] < off[m]
      BY <1>1, <1>t
    <3> QED BY <3>1, <3>2, <3>3, <1>1
  <2> QED BY <2>1
<1>4. CASE pending # <<>>
  <2>1. a = pending /\ consumed' = consumed
    BY <1>4 DEF Available, TakeRecord
  <2> QED BY <1>4, <2>1, <1>2, <1>3, <1>t
<1>5. CASE pending = <<>>
  <2>1. consumed[c] < Arrived(c) /\ a = sent[c][consumed[c] + 1]
    BY <1>5 DEF CanRead, RecordReadable, Available, Peeked
  <2>2. consumed'[c] = consumed[c] + 1
    BY <1>5 DEF TakeRecord, TypeInv, TypeOK
  <2>3. consumed[c] + 1 \in 1..m /\ consumed[c] + 1 \in 0..m /\ (consumed[c] + 1) - 1 = consumed[c]
    BY <2>1, <1>t, ArrivedBound
  <2>4. /\ off[consumed[c] + 1] = off[consumed[c]] + Len(a)
        /\ \A k \in 1..Len(a) : a[k] = text[off[consumed[c]] + k]
    <3> DEFINE i == consumed[c] + 1
    <3>1. i \in 1..m /\ i - 1 = consumed[c] /\ a = sent[c][i]
      BY <2>1, <2>3
    <3> HIDE DEF i, a, m, text
    <3>2. /\ off[i] = off[i - 1] + Len(sent[c][i])
          /\ \A k \in 1..Len(sent[c][i]) : sent[c][i][k] = text[off[i - 1] + k]
      BY <3>1, <1>1
    <3>3. /\ off[i] = off[consumed[c]] + Len(a)
          /\ \A k \in 1..Len(a) : a[k] = text[off[consumed[c]] + k]
      BY <3>1, <3>2
    <3> QED BY <3>3 DEF i
  <2>5. Len(pending) = 0
    BY <1>5
  <2>6. /\ off[consumed[c]] \in Nat /\ off[consumed'[c]] \in Nat
        /\ off[consumed'[c]] <= Len(text)
    BY <2>2, <2>3, <1>3, <1>t
  <2>7. off[consumed'[c]] + Len(pending) = off[consumed[c]] + Len(a)
    BY <2>2, <2>4, <2>5, <2>6
  <2> HIDE DEF a, pending, text
  <2> QED BY <1>5, <2>2, <2>3, <2>4, <2>6, <2>7, <1>2 DEF a, pending, text, m
<1> QED BY <1>4, <1>5

(* What is left of a record after n tokens of it. *)
LEMMA RestOf ==
  ASSUME NEW a \in Seq(Token), NEW n \in Nat
  PROVE  /\ n <= Len(a) => Len(SubSeq(a, n + 1, Len(a))) = Len(a) - n
         /\ ~(n <= Len(a)) => Len(SubSeq(a, n + 1, Len(a))) = 0
         /\ \A k \in 1..Len(SubSeq(a, n + 1, Len(a))) :
              SubSeq(a, n + 1, Len(a))[k] = a[n + k] /\ n + k \in 1..Len(a)
<1> DEFINE rest == SubSeq(a, n + 1, Len(a))
<1>1. Len(a) \in Nat
  OBVIOUS
<1>2. CASE n <= Len(a)
  <2>1. Len(rest) = Len(a) - n
    BY <1>1, <1>2
  <2>2. \A k \in 1..(Len(a) - n) : rest[k] = a[(n + 1) + k - 1] /\ n + k \in 1..Len(a)
    BY <1>1, <1>2
  <2>3. \A k \in 1..(Len(a) - n) : (n + 1) + k - 1 = n + k
    BY <1>1
  <2>4. \A k \in 1..(Len(a) - n) : rest[k] = a[n + k] /\ n + k \in 1..Len(a)
    BY <2>2, <2>3
  <2> HIDE DEF rest
  <2> QED BY <1>2, <2>1, <2>4 DEF rest
<1>3. CASE ~(n <= Len(a))
  <2>1. rest = <<>>
    BY <1>1, <1>3
  <2> HIDE DEF rest
  <2>2. Len(rest) = 0
    BY <2>1
  <2>e. 1..0 = {}
    OBVIOUS
  <2> QED BY <1>3, <2>2, <2>e DEF rest
<1> QED BY <1>2, <1>3

(* A read that leaves Stream(c) to be shown for the reader only. *)
LEMMA ReaderStream ==
  ASSUME TypeInv, OwnInv, NEW w \in Functions, NEW c \in Conns, conn[w] = c, Stream(c),
         NEW off \in [0..Len(sent[c]) -> Nat], CutAt(c, off),
         UNCHANGED <<client, req, sent, todo, conn>>,
         consumed'[c] \in 0..Len(sent[c]), ReadAt(w, c, off)'
  PROVE  Stream(c)'
<1>1. CutAt(c, off)'
  BY DEF CutAt
<1>2. \A v \in Functions : conn'[v] = c => v = w
  BY ProcFacts, InitialConstants DEF OwnInv
<1>3. \A v \in Functions : conn'[v] = c => ReadAt(v, c, off)'
  BY <1>2
<1>4. consumed'[c] <= Len(sent'[c])
  BY SentType
<1> QED BY <1>1, <1>3, <1>4 DEF Stream

LEMMA HeaderStream ==
  ASSUME TypeInv, OwnInv, NEW w \in Functions, NEW c \in Conns, conn[w] = c, Stream(c),
         ReadHeaders(w)
  PROVE  Stream(c)'
<1> DEFINE n == Room(w)
           a == Available(w)
           ret == Returned(w, n)
           b == buf[w] \o ret
           h == HeaderEnd(b)
           lacks == BodyLacks(c, Len(b) - h)
           pending == ssl[w].pending
           text == Plaintext(req[c])
<1>0. /\ pc[w] = "headers" /\ CanRead(w) /\ TakeRecord(w, n)
      /\ buf'[w] = b /\ want'[w] = (IF h = 0 THEN 0 ELSE lacks)
      /\ pc'[w] = (IF h = 0 THEN "headers" ELSE IF lacks > 0 THEN "body" ELSE "respond")
      /\ UNCHANGED <<clientVars, conn>>
  BY ProcFacts DEF ReadHeaders, TypeInv, TypeOK
<1>t. /\ buf[w] \in Seq(Token) /\ Len(buf[w]) \in Nat /\ n \in Nat
      /\ pending \in Seq(Token) /\ Len(pending) \in Nat /\ req[c] \in Request
  <2>1. ssl[w] \in Session /\ buf[w] \in Seq(Token) /\ Len(buf[w]) <= BufSize /\ req[c] \in Request
    BY ProcFacts DEF TypeInv, TypeOK
  <2>2. pending \in Seq(Token)
    BY <2>1 DEF Session
  <2> QED BY <2>1, <2>2, InitialConstants DEF Room
<1>1. PICK off \in [0..Len(sent[c]) -> Nat] : CutAt(c, off) /\ ReadAt(w, c, off)
  BY DEF Stream
<1>2. /\ Len(buf[w]) + Len(pending) = off[consumed[c]]
      /\ \A k \in 1..Len(buf[w]) : buf[w][k] = text[k]
      /\ \A k \in 1..Len(pending) : pending[k] = text[Len(buf[w]) + k]
  BY <1>0, <1>1 DEF ReadAt
<1>3. /\ consumed'[c] \in 0..Len(sent[c])
      /\ off[consumed[c]] \in Nat /\ off[consumed'[c]] \in Nat
      /\ off[consumed'[c]] + Len(pending) = off[consumed[c]] + Len(a)
      /\ off[consumed'[c]] <= Len(text)
      /\ pending = <<>> => \A k \in 1..Len(a) : a[k] = text[off[consumed[c]] + k]
      /\ pending # <<>> => a = pending
      /\ ssl'[w].pending = SubSeq(a, n + 1, Len(a))
      /\ ssl'[w].read = consumed'[c]
  BY <1>0, <1>1, <1>t, TakeStream DEF ReadAt
<1>4. /\ a \in Seq(Token) /\ ret \in Seq(Token) /\ Len(a) \in Nat /\ Len(ret) \in Nat
      /\ Len(ret) = (IF n <= Len(a) THEN n ELSE Len(a))
      /\ \A k \in 1..Len(ret) : ret[k] = a[k]
  BY <1>0, <1>t, ReadFacts
<1>5. /\ text \in Seq(Token) /\ Len(text) = EndAt(req[c]) + req[c].body + ExtraLen(req[c])
      /\ \A i \in 1..Len(text) : text[i] = "end" => i = EndAt(req[c])
      /\ Len(text) \in Nat /\ EndAt(req[c]) \in Nat /\ req[c].body \in Nat
  <2>1. req[c] \in Request
    BY <1>t
  <2>2. /\ text \in Seq(Token) /\ Len(text) = EndAt(req[c]) + req[c].body + ExtraLen(req[c])
        /\ \A i \in 1..Len(text) : text[i] = "end" => i = EndAt(req[c])
        /\ EndAt(req[c]) \in 1..Len(text) /\ req[c].body \in Nat
    BY ONLY <2>1, PlaintextShape
  <2> HIDE DEF text
  <2>3. Len(text) \in Nat /\ EndAt(req[c]) \in Nat
    BY ONLY <2>2
  <2> QED BY ONLY <2>2, <2>3
<1> HIDE DEF a, ret, pending, text, n
<1>6. \A k \in 1..Len(a) : a[k] = text[Len(buf[w]) + k]
  <2>1. CASE pending = <<>>
    <3>1. Len(pending) = 0
      BY <2>1
    <3>2. off[consumed[c]] = Len(buf[w])
      BY <3>1, <1>2, <1>t
    <3> QED BY <2>1, <3>2, <1>3
  <2>2. CASE pending # <<>>
    BY <2>2, <1>2, <1>3
  <2> QED BY <2>1, <2>2
<1>7. off[consumed'[c]] = Len(buf[w]) + Len(a)
  <2> DEFINE from == off[consumed[c]]
             to == off[consumed'[c]]
             lb == Len(buf[w])
             lp == Len(pending)
             la == Len(a)
  <2>1. /\ lb + lp = from /\ to + lp = from + la
        /\ to \in Nat /\ lb \in Nat /\ lp \in Nat /\ la \in Nat
    BY <1>2, <1>3, <1>4, <1>t
  <2> HIDE DEF from, to, lb, lp, la
  <2>2. to = lb + la
    BY ONLY <2>1
  <2> QED BY ONLY <2>2 DEF to, lb, la
<1>8. /\ b \in Seq(Token) /\ Len(b) = Len(buf[w]) + Len(ret) /\ Len(b) \in Nat
      /\ \A k \in 1..Len(b) : b[k] = text[k]
  <2>1. /\ b \in Seq(Token) /\ Len(b) = Len(buf[w]) + Len(ret)
        /\ \A i \in 1..Len(b) :
             \/ i \in 1..Len(buf[w]) /\ b[i] = buf[w][i]
             \/ i - Len(buf[w]) \in 1..Len(ret) /\ b[i] = ret[i - Len(buf[w])]
    BY <1>t, <1>4, Concat
  <2> HIDE DEF b
  <2>2. ASSUME NEW i \in 1..Len(b) PROVE b[i] = text[i]
    <3>1. CASE i \in 1..Len(buf[w]) /\ b[i] = buf[w][i]
      BY <3>1, <1>2
    <3>2. CASE i - Len(buf[w]) \in 1..Len(ret) /\ b[i] = ret[i - Len(buf[w])]
      <4>1. i - Len(buf[w]) \in 1..Len(a)
        BY <3>2, <1>4
      <4>2. b[i] = text[Len(buf[w]) + (i - Len(buf[w]))]
        BY <3>2, <4>1, <1>4, <1>6
      <4>3. Len(buf[w]) + (i - Len(buf[w])) = i
        <5>1. i \in Int /\ Len(buf[w]) \in Int
          BY <1>t
        <5>2. \A x, y \in Int : x + (y - x) = y
          OBVIOUS
        <5> QED BY ONLY <5>1, <5>2
      <4> QED BY <4>2, <4>3
    <3> QED BY <2>1, <3>1, <3>2
  <2>3. Len(b) \in Nat
    BY ONLY <2>1
  <2> QED BY ONLY <2>1, <2>2, <2>3
<1> HIDE DEF b
<1> DEFINE rest == ssl'[w].pending
<1>9. /\ n <= Len(a) => Len(rest) = Len(a) - n
      /\ ~(n <= Len(a)) => Len(rest) = 0
      /\ \A k \in 1..Len(rest) : rest[k] = a[n + k] /\ n + k \in 1..Len(a)
  <2>1. rest = SubSeq(a, n + 1, Len(a)) /\ a \in Seq(Token) /\ n \in Nat
    BY <1>3, <1>4, <1>t
  <2> HIDE DEF rest
  <2> QED BY <2>1, RestOf
<1> HIDE DEF rest
<1>10. Len(b) + Len(rest) = off[consumed'[c]] /\ Len(rest) \in Nat
  <2>1. /\ off[consumed'[c]] = Len(buf[w]) + Len(a) /\ Len(b) = Len(buf[w]) + Len(ret)
        /\ Len(buf[w]) \in Nat /\ Len(a) \in Nat /\ n \in Nat
    BY <1>4, <1>7, <1>8, <1>t
  <2>2. CASE n <= Len(a)
    <3>1. Len(ret) = n /\ Len(rest) = Len(a) - n
      BY <2>2, <1>4, <1>9
    <3> QED BY <2>1, <2>2, <3>1
  <2>3. CASE ~(n <= Len(a))
    <3>1. Len(ret) = Len(a) /\ Len(rest) = 0
      BY <2>3, <1>4, <1>9
    <3> QED BY <2>1, <3>1
  <2> QED BY <2>2, <2>3
<1>11. CASE h = 0
  <2>1. pc'[w] = "headers"
    BY <1>0, <1>11
  <2>2. ASSUME NEW k \in 1..Len(rest) PROVE rest[k] = text[Len(b) + k]
    <3>1. n + k \in 1..Len(a) /\ rest[k] = a[n + k]
      BY <1>9
    <3>2. n <= Len(a) /\ Len(ret) = n
      <4>1. n <= Len(a)
        BY <3>1, <1>t, <1>4, <1>10
      <4> QED BY <4>1, <1>4
    <3>3. a[n + k] = text[Len(buf[w]) + (n + k)]
      BY <3>1, <1>6
    <3>4. Len(buf[w]) + (n + k) = Len(b) + k
      <4>1. Len(b) = Len(buf[w]) + n /\ Len(buf[w]) \in Nat /\ n \in Nat /\ Len(rest) \in Nat
        BY <3>2, <1>8, <1>t, <1>10
      <4>2. k \in Nat
        BY <4>1
      <4>3. \A x, y, z \in Nat : x + (y + z) = (x + y) + z
        OBVIOUS
      <4>4. Len(buf[w]) + (n + k) = (Len(buf[w]) + n) + k
        BY <4>1, <4>2, <4>3
      <4> QED BY <4>1, <4>4, Zenon
    <3> QED BY <3>1, <3>3, <3>4
  <2>n. NoEnd(b)
    BY <1>8, <1>11, HeaderEndFacts
  <2>3. ReadAt(w, c, off)'
    BY <2>1, <2>2, <2>n, <1>0, <1>3, <1>8, <1>10 DEF ReadAt, NoEnd, clientVars, text, rest
  <2> QED BY <2>3, <1>0, <1>1, <1>3, ReaderStream DEF clientVars
<1>12. CASE h # 0
  <2>1. h \in 1..Len(b) /\ b[h] = "end"
    BY <1>8, <1>12, HeaderEndFacts
  <2> HIDE DEF h
  <2>2. h = EndAt(req[c])
    <3>1. h \in 1..Len(text)
      BY <2>1, <1>3, <1>5, <1>8, <1>10
    <3> QED BY <2>1, <3>1, <1>5, <1>8
  <2>3. pc'[w] = (IF lacks > 0 THEN "body" ELSE "respond") /\ want'[w] = lacks
    BY <1>0, <1>12
  <2>4. WellFramed(c) => lacks \in Nat /\ lacks + Len(b) = Len(text)
    <3> HAVE WellFramed(c)
    <3>1. ContentLength(c) = req[c].body /\ ExtraLen(req[c]) = 0
      BY <1>t DEF WellFramed, ContentLength, ExtraLen, Request
    <3>2. Len(text) = h + req[c].body /\ Len(b) <= Len(text)
      <4>1. Len(text) = h + req[c].body
        <5>1. /\ Len(text) = h + req[c].body + ExtraLen(req[c]) /\ h \in Nat
              /\ req[c].body \in Nat /\ ExtraLen(req[c]) = 0
          BY <3>1, <2>2, <1>5
        <5> QED BY ONLY <5>1
      <4>2. Len(b) <= Len(text)
        <5>1. /\ Len(b) + Len(rest) <= Len(text) /\ Len(b) \in Nat /\ Len(rest) \in Nat
              /\ Len(text) \in Nat
          BY <1>3, <1>5, <1>8, <1>10
        <5> QED BY ONLY <5>1
      <4> QED BY <4>1, <4>2
    <3>3. lacks = (IF Len(b) - h < req[c].body THEN req[c].body - (Len(b) - h) ELSE 0)
      BY <3>1 DEF BodyLacks
    <3>4. Len(b) \in Nat /\ h \in Nat /\ req[c].body \in Nat /\ Len(text) \in Nat
      BY <2>1, <1>5, <1>8
    <3> HIDE DEF lacks
    <3>5. CASE Len(b) - h < req[c].body
      BY <3>5, <3>2, <3>3, <3>4
    <3>6. CASE ~(Len(b) - h < req[c].body)
      BY <3>6, <3>2, <3>3, <3>4
    <3> QED BY <3>5, <3>6
  <2>b. lacks > 0 => lacks \in Nat /\ lacks + Len(b) <= Len(text)
    <3> DEFINE content == ContentLength(c)
               x == Len(b)
    <3>1. content \in Nat /\ content <= req[c].body
      BY <1>5 DEF ContentLength
    <3>2. /\ Len(text) = h + req[c].body + ExtraLen(req[c]) /\ ExtraLen(req[c]) \in {0, 1}
          /\ h \in Nat /\ req[c].body \in Nat /\ x \in Nat
      BY <2>1, <2>2, <1>5, <1>8, <1>t, PlaintextShape
    <3>3. lacks = (IF x - h < content THEN content - (x - h) ELSE 0)
      BY DEF BodyLacks
    <3> HIDE DEF lacks, content, x
    <3>4. lacks > 0 => lacks \in Nat /\ lacks + x <= Len(text)
      BY ONLY <3>1, <3>2, <3>3
    <3> QED BY <3>4 DEF x
  <2> HIDE DEF lacks
  <2>c. lacks > 0 => lacks + off[consumed'[c]] <= Len(text) + Len(rest)
    <3>1. /\ Len(b) \in Nat /\ Len(rest) \in Nat /\ Len(text) \in Nat
          /\ Len(b) + Len(rest) = off[consumed'[c]]
      BY <1>3, <1>5, <1>8, <1>10
    <3> QED BY ONLY <2>b, <3>1
  <2>5. ASSUME WellFramed(c) PROVE /\ lacks + off[consumed'[c]] = Len(text) + Len(rest)
                                   /\ ~(lacks > 0) => off[consumed'[c]] = Len(text)
    <3>1. /\ lacks \in Nat /\ lacks + Len(b) = Len(text) /\ Len(b) \in Nat /\ Len(rest) \in Nat
          /\ Len(b) + Len(rest) = off[consumed'[c]] /\ off[consumed'[c]] <= Len(text)
          /\ Len(text) \in Nat
      BY <2>4, <2>5, <1>3, <1>5, <1>8, <1>10
    <3> QED BY ONLY <3>1
  <2>6. WellFramed(c)' = WellFramed(c) /\ Plaintext(req'[c]) = text
    BY <1>0 DEF WellFramed, clientVars, text
  <2>7. ReadAt(w, c, off)'
    BY <2>3, <2>5, <2>6, <2>c, <1>3 DEF ReadAt, rest
  <2> QED BY <2>7, <1>0, <1>1, <1>3, ReaderStream DEF clientVars
<1> QED BY <1>11, <1>12

LEMMA BodyStream ==
  ASSUME TypeInv, OwnInv, NEW w \in Functions, NEW c \in Conns, conn[w] = c, Stream(c),
         ReadBody(w)
  PROVE  Stream(c)'
<1> DEFINE n == Len(Returned(w, want[w]))
           a == Available(w)
           pending == ssl[w].pending
           text == Plaintext(req[c])
           rest == ssl'[w].pending
<1>0. /\ pc[w] = "body" /\ CanRead(w) /\ TakeRecord(w, n)
      /\ want'[w] = want[w] - n
      /\ pc'[w] = (IF n = want[w] THEN "respond" ELSE "body")
      /\ UNCHANGED <<clientVars, conn>>
  BY ProcFacts DEF ReadBody, TypeInv, TypeOK
<1>t. want[w] \in Nat /\ pending \in Seq(Token) /\ req[c] \in Request
  <2>1. ssl[w] \in Session /\ want[w] \in Nat /\ req[c] \in Request
    BY ProcFacts DEF TypeInv, TypeOK
  <2> QED BY <2>1 DEF Session
<1>1. PICK off \in [0..Len(sent[c]) -> Nat] : CutAt(c, off) /\ ReadAt(w, c, off)
  BY DEF Stream
<1>2. /\ a \in Seq(Token) /\ Len(a) \in Nat /\ n \in Nat /\ n <= Len(a) /\ n <= want[w]
  BY <1>0, <1>t, ReadFacts
<1>3. /\ consumed'[c] \in 0..Len(sent[c])
      /\ off[consumed[c]] \in Nat /\ off[consumed'[c]] \in Nat
      /\ off[consumed'[c]] + Len(pending) = off[consumed[c]] + Len(a)
      /\ off[consumed'[c]] <= Len(text)
      /\ ssl'[w].pending = SubSeq(a, n + 1, Len(a))
      /\ ssl'[w].read = consumed'[c]
  BY <1>0, <1>1, <1>2, TakeStream DEF ReadAt
<1>4. text \in Seq(Token) /\ Len(text) \in Nat /\ Len(pending) \in Nat
  BY <1>t, PlaintextShape
<1> HIDE DEF a, n, text
<1>5. Len(rest) = Len(a) - n
  BY <1>2, <1>3, RestOf
<1> HIDE DEF rest, pending
<1>6. ASSUME WellFramed(c)
      PROVE  /\ want'[w] + off[consumed'[c]] = Len(text) + Len(rest)
             /\ n = want[w] => off[consumed'[c]] = Len(text)
  <2> DEFINE wanted == want[w]
             from == off[consumed[c]]
             to == off[consumed'[c]]
             la == Len(a)
             lt == Len(text)
             lp == Len(pending)
  <2>1. wanted + from = lt + lp
    BY <1>0, <1>1, <1>6 DEF ReadAt, text, pending
  <2>2. /\ wanted \in Nat /\ n \in Nat /\ la \in Nat /\ n <= la /\ lt \in Nat
        /\ from \in Nat /\ to \in Nat /\ lp \in Nat /\ to + lp = from + la /\ to <= lt
    BY <1>0, <1>t, <1>2, <1>3, <1>4
  <2> HIDE DEF wanted, from, to, la, lt, lp
  <2>3. (wanted - n) + to = lt + (la - n) /\ (n = wanted => to = lt)
    BY ONLY <2>1, <2>2
  <2>4. want'[w] = want[w] - n /\ Len(rest) = Len(a) - n
    BY <1>0, <1>5
  <2> QED BY ONLY <2>3, <2>4 DEF wanted, to, la, lt
<1>b. /\ want'[w] + off[consumed'[c]] <= Len(text) + Len(rest)
      /\ n # want[w] => want'[w] > 0
  <2> DEFINE wanted == want[w]
             from == off[consumed[c]]
             to == off[consumed'[c]]
             la == Len(a)
             lt == Len(text)
             lp == Len(pending)
  <2>1. wanted + from <= lt + lp
    BY <1>0, <1>1 DEF ReadAt, text, pending
  <2>2. /\ wanted \in Nat /\ n \in Nat /\ la \in Nat /\ n <= la /\ n <= wanted /\ lt \in Nat
        /\ from \in Nat /\ to \in Nat /\ lp \in Nat /\ to + lp = from + la
    BY <1>t, <1>2, <1>3, <1>4
  <2> HIDE DEF wanted, from, to, la, lt, lp
  <2>3. (wanted - n) + to <= lt + (la - n) /\ (n # wanted => wanted - n > 0)
    BY ONLY <2>1, <2>2
  <2>4. want'[w] = want[w] - n /\ Len(rest) = Len(a) - n
    BY <1>0, <1>5
  <2> QED BY ONLY <2>3, <2>4 DEF wanted, to, la, lt
<1>7. WellFramed(c)' = WellFramed(c) /\ Plaintext(req'[c]) = text
  BY <1>0 DEF WellFramed, clientVars, text
<1>8. ReadAt(w, c, off)'
  BY <1>0, <1>3, <1>6, <1>7, <1>b DEF ReadAt, rest
<1> QED BY <1>0, <1>1, <1>3, <1>8, ReaderStream DEF clientVars

(* A process closes a connection on which nothing was answered. *)
LEMMA CloseStream ==
  ASSUME TypeInv, UseInv, StreamInv, AnswerInv, NEW p \in Procs, conn[p] \in Conns,
         Close(p, conn[p]), Idle(p), UNCHANGED <<clientVars, consumed>>,
         \A c \in Conns \ {conn[p]} : resp'[c] = resp[c],
         \/ resp' = resp
         \/ WellFramed(conn[p]) =>
              /\ consumed[conn[p]] = Len(sent[conn[p]])
              /\ todo[conn[p]] = <<>> /\ sent[conn[p]] # <<>>
  PROVE  StreamInv' /\ AnswerInv'
<1>1. /\ \A q \in Procs \ {p} : /\ conn'[q] = conn[q] /\ pc'[q] = pc[q] /\ buf'[q] = buf[q]
                                /\ ssl'[q] = ssl[q] /\ want'[q] = want[q]
      /\ conn'[p] = NoConn
      /\ reset' = (IF consumed[conn[p]] < Len(sent[conn[p]]) THEN reset \cup {conn[p]} ELSE reset)
  BY DEF Close, Idle, TypeInv, TypeOK
<1>2. ASSUME NEW c \in Conns PROVE Stream(c)'
  <2>1. Stream(c) /\ \A w \in Functions : conn[w] = c => sent[c] # <<>>
    BY DEF StreamInv, Stream
  <2>2. \A w \in Functions : conn'[w] = c => w \in Procs \ {p}
    BY <1>1, ProcFacts, InitialConstants
  <2> QED BY <1>1, <2>1, <2>2, StreamKept DEF clientVars
<1>3. ASSUME NEW c \in Conns, resp'[c] # <<>>, WellFramed(c)'
      PROVE  c \notin reset' /\ todo'[c] = <<>> /\ sent'[c] # <<>>
  <2>0. WellFramed(c)
    BY <1>3 DEF WellFramed, clientVars
  <2>1. CASE c # conn[p]
    BY <2>0, <2>1, <1>1, <1>3 DEF AnswerInv, clientVars
  <2>2. CASE c = conn[p]
    <3>1. resp[c] = <<>> /\ c \notin reset
      BY <2>2 DEF UseInv
    <3>2. consumed[c] = Len(sent[c]) /\ todo[c] = <<>> /\ sent[c] # <<>>
      BY <2>0, <2>2, <3>1, <1>3
    <3>3. reset' = reset
      BY <2>2, <3>2, <1>1, SentType
    <3> QED BY <3>1, <3>2, <3>3 DEF clientVars
  <2> QED BY <2>1, <2>2
<1> QED BY <1>2, <1>3 DEF StreamInv, AnswerInv

(* A step of a process that reads nothing and closes nothing. *)
LEMMA QuietStream ==
  ASSUME TypeInv, StreamInv, AnswerInv,
         UNCHANGED <<req, todo, sent, consumed, resp, reset>>,
         \A c \in Conns : client[c] \in {"sending", "gone"} => client'[c] \in {"sending", "gone"},
         \A w \in Functions : conn'[w] \in Conns =>
           /\ sent[conn'[w]] # <<>>
           /\ \/ pc'[w] \notin {"headers", "body", "respond"}
              \/ /\ conn'[w] = conn[w] /\ pc'[w] = pc[w] /\ buf'[w] = buf[w]
                 /\ ssl'[w] = ssl[w] /\ want'[w] = want[w]
  PROVE  StreamInv' /\ AnswerInv'
<1>1. ASSUME NEW c \in Conns PROVE Stream(c)'
  <2>1. Stream(c)
    BY DEF StreamInv
  <2> QED BY <2>1, StreamKept
<1>2. AnswerInv'
  BY DEF AnswerInv, WellFramed
<1> QED BY <1>1, <1>2 DEF StreamInv

LEMMA GatewayStream ==
  ASSUME TypeInv, OwnInv, UseInv, StreamInv, AnswerInv, GatewayStep
  PROVE  StreamInv' /\ AnswerInv'
<1> USE ProcFacts
<1>s. \A w \in Functions : conn[w] \in Conns => sent[conn[w]] # <<>>
  BY DEF StreamInv, Stream
<1>1. CASE HandshakeFails \/ PeekAndExportFails \/ SendFdFails
  <2>1. CloseConn(Gateway) /\ pc[Gateway] # "accept"
    BY <1>1 DEF HandshakeFails, PeekAndExportFails, SendFdFails
  <2>2. conn[Gateway] \in Conns
    BY <2>1, HasConn
  <2> QED BY <2>1, <2>2, CloseStream DEF CloseConn
<1>2. CASE (\E c \in Conns : Accept(c)) \/ Handshake \/ (\E f \in Names : PeekAndExport(f)) \/ SendFd
  <2>1. /\ UNCHANGED <<req, todo, sent, consumed, resp, reset>>
        /\ \A c \in Conns : client[c] \in {"sending", "gone"} => client'[c] \in {"sending", "gone"}
    BY <1>2 DEF Accept, Handshake, PeekAndExport, SendFd, clientVars, TypeInv, TypeOK
  <2>2. \A w \in Functions : /\ conn'[w] = conn[w] /\ pc'[w] = pc[w] /\ buf'[w] = buf[w]
                             /\ ssl'[w] = ssl[w] /\ want'[w] = want[w]
    BY <1>2 DEF Accept, Handshake, PeekAndExport, SendFd, Idle, workVars, TypeInv, TypeOK
  <2> QED BY <2>1, <2>2, <1>s, QuietStream
<1> QED BY <1>1, <1>2 DEF GatewayStep

(* A read: its connection is at a new place in the plaintext, the others    *)
(* are where they were.                                                     *)
LEMMA ReadStream ==
  ASSUME TypeInv, OwnInv, StreamInv, AnswerInv, NEW w \in Functions,
         ReadHeaders(w) \/ ReadBody(w)
  PROVE  StreamInv' /\ AnswerInv'
<1> USE ProcFacts
<1>1. /\ pc[w] # "accept" /\ UNCHANGED <<clientVars, resp, reset, conn>>
      /\ consumed' = consumed \/ consumed' = [consumed EXCEPT ![conn[w]] = consumed[conn[w]] + 1]
      /\ \A v \in Functions \ {w} : /\ pc'[v] = pc[v] /\ buf'[v] = buf[v]
                                    /\ ssl'[v] = ssl[v] /\ want'[v] = want[v]
  BY DEF ReadHeaders, ReadBody, TakeRecord, TypeInv, TypeOK
<1>2. conn[w] \in Conns
  BY <1>1, HasConn
<1>3. ASSUME NEW c \in Conns PROVE Stream(c)'
  <2>1. Stream(c) /\ \A v \in Functions : conn[v] = c => sent[c] # <<>>
    BY DEF StreamInv, Stream
  <2>2. CASE conn[w] = c
    BY <2>1, <2>2, HeaderStream, BodyStream
  <2>3. CASE conn[w] # c
    <3>1. consumed'[c] = consumed[c]
      BY <1>1, <2>3 DEF TypeInv, TypeOK
    <3>2. \A v \in Functions : conn'[v] = c => v \in Functions \ {w} /\ conn[v] = c
      BY <1>1, <2>3
    <3> QED BY <1>1, <2>1, <3>1, <3>2, StreamKept DEF clientVars
  <2> QED BY <2>2, <2>3
<1>4. AnswerInv'
  BY <1>1 DEF AnswerInv, WellFramed, clientVars
<1> QED BY <1>3, <1>4 DEF StreamInv

LEMMA WorkerStream ==
  ASSUME TypeInv, OwnInv, UseInv, StreamInv, AnswerInv, NEW w \in Functions, WorkerStep(w)
  PROVE  StreamInv' /\ AnswerInv'
<1> USE ProcFacts
<1>s. \A v \in Functions : conn[v] \in Conns => sent[conn[v]] # <<>>
  BY DEF StreamInv, Stream
<1>1. CASE RecvFd(w)
  <2> DEFINE c == Head(uds[w]).conn
  <2>1. /\ uds[w] # <<>> /\ UNCHANGED <<clientVars, consumed, resp, reset, ssl, buf, want>>
        /\ pc' = [pc EXCEPT ![w] = "verify"] /\ conn' = [conn EXCEPT ![w] = c]
    BY <1>1 DEF RecvFd
  <2>2. c \in Conns /\ Arrived(c) > 0
    <3>1. uds[w] \in Seq(Msg)
      BY DEF TypeInv, TypeOK
    <3>2. 1 \in DOMAIN uds[w] /\ Head(uds[w]) = uds[w][1]
      BY <3>1, <2>1, TailMsg
    <3> QED BY <3>2, MsgConn DEF UseInv
  <2> HIDE DEF c
  <2>3. sent[c] # <<>>
    BY <2>2, ArrivedBound, SentType
  <2>4. /\ pc'[w] = "verify" /\ conn'[w] = c
        /\ \A v \in Functions \ {w} : pc'[v] = pc[v] /\ conn'[v] = conn[v]
    BY <2>1, <2>2 DEF TypeInv, TypeOK
  <2>5. \A v \in Functions : conn'[v] \in Conns =>
          /\ sent[conn'[v]] # <<>>
          /\ \/ pc'[v] \notin {"headers", "body", "respond"}
             \/ /\ conn'[v] = conn[v] /\ pc'[v] = pc[v] /\ buf'[v] = buf[v]
                /\ ssl'[v] = ssl[v] /\ want'[v] = want[v]
    BY <1>s, <2>1, <2>3, <2>4
  <2>6. UNCHANGED <<req, todo, sent, consumed, resp, reset>> /\ UNCHANGED client
    BY <2>1 DEF clientVars
  <2> QED BY <2>5, <2>6, QuietStream
<1>2. CASE RecvFdFails(w)
  <2> DEFINE c == Head(uds[w]).conn
  <2>1. /\ uds[w] # <<>> /\ UNCHANGED <<clientVars, consumed, resp, ssl, buf, want, pc, conn>>
        /\ reset' \subseteq reset \cup {c}
    BY <1>2 DEF RecvFdFails, localVars, workVars
  <2>2. c \in Conns /\ resp[c] = <<>>
    <3>1. uds[w] \in Seq(Msg)
      BY DEF TypeInv, TypeOK
    <3>2. 1 \in DOMAIN uds[w] /\ Head(uds[w]) = uds[w][1]
      BY <3>1, <2>1, TailMsg
    <3> QED BY <3>2, MsgConn DEF UseInv, Untouched
  <2> HIDE DEF c
  <2>3. ASSUME NEW d \in Conns PROVE Stream(d)'
    <3>1. Stream(d) /\ \A v \in Functions : conn[v] = d => sent[d] # <<>>
      BY DEF StreamInv, Stream
    <3> QED BY <2>1, <3>1, StreamKept DEF clientVars
  <2>4. AnswerInv'
    BY <2>1, <2>2 DEF AnswerInv, WellFramed, clientVars
  <2> QED BY <2>3, <2>4 DEF StreamInv
<1>3. CASE Verify(w)
  <2>1. /\ UNCHANGED <<clientVars, consumed, resp, reset, conn, ssl, buf, want>>
        /\ pc' = [pc EXCEPT ![w] = "restore"]
    BY <1>3 DEF Verify, workVars
  <2>2. pc'[w] = "restore" /\ \A v \in Functions \ {w} : pc'[v] = pc[v]
    BY <2>1 DEF TypeInv, TypeOK
  <2>3. \A v \in Functions : conn'[v] \in Conns =>
          /\ sent[conn'[v]] # <<>>
          /\ \/ pc'[v] \notin {"headers", "body", "respond"}
             \/ /\ conn'[v] = conn[v] /\ pc'[v] = pc[v] /\ buf'[v] = buf[v]
                /\ ssl'[v] = ssl[v] /\ want'[v] = want[v]
    BY <1>s, <2>1, <2>2
  <2>4. UNCHANGED <<req, todo, sent, consumed, resp, reset>> /\ UNCHANGED client
    BY <2>1 DEF clientVars
  <2> QED BY <2>3, <2>4, QuietStream
<1>4. CASE Restore(w)
  <2>1. /\ pc[w] = "restore" /\ UNCHANGED <<clientVars, consumed, resp, reset, conn, buf, want>>
        /\ pc' = [pc EXCEPT ![w] = "headers"] /\ ssl' = [ssl EXCEPT ![w].read = seq[w]]
    BY <1>4 DEF Restore
  <2>2. /\ pc'[w] = "headers" /\ ssl'[w].pending = ssl[w].pending
        /\ \A v \in Functions \ {w} : pc'[v] = pc[v] /\ ssl'[v] = ssl[v]
    BY <2>1 DEF TypeInv, TypeOK, Session
  <2>3. /\ conn[w] \in Conns /\ ssl[w] = NoSession /\ buf[w] = <<>>
        /\ consumed[conn[w]] = 0
    <3>1. conn[w] \in Conns
      BY <2>1, HasConn
    <3> QED BY <3>1, <2>1 DEF TypeInv, ControlInv, UseInv, BeforeRead
  <2>4. ASSUME NEW c \in Conns PROVE Stream(c)'
    <3>1. Stream(c) /\ \A v \in Functions : conn[v] = c => sent[c] # <<>>
      BY DEF StreamInv, Stream
    <3>2. CASE conn[w] = c
      <4>1. PICK off \in [0..Len(sent[c]) -> Nat] : CutAt(c, off)
        BY <3>1, <3>2 DEF Stream
      <4>2. off[0] = 0 /\ Len(buf'[w]) = 0 /\ Len(ssl'[w].pending) = 0 /\ consumed'[c] = 0
        BY <4>1, <2>1, <2>2, <2>3, <3>2 DEF CutAt, NoSession
      <4>3. ReadAt(w, c, off)'
        <5>1. seq[w] = 0 /\ ssl[w] \in Session
          BY ProcFacts DEF TypeInv, TypeOK, ControlInv
        <5>2. ssl'[w].read = 0
          BY <2>1, <5>1 DEF TypeInv, TypeOK, Session
        <5> QED BY <4>2, <5>2, <2>1, <2>2, <2>3 DEF ReadAt, NoEnd
      <4>4. consumed'[c] \in 0..Len(sent[c])
        BY <4>2, SentType
      <4> QED BY <2>1, <3>1, <3>2, <4>1, <4>3, <4>4, ReaderStream DEF clientVars
    <3>3. CASE conn[w] # c
      <4>1. \A v \in Functions : conn'[v] = c => v \in Functions \ {w} /\ conn[v] = c
        BY <2>1, <3>3
      <4> QED BY <2>1, <2>2, <3>1, <4>1, StreamKept DEF clientVars
    <3> QED BY <3>2, <3>3
  <2>5. AnswerInv'
    BY <2>1 DEF AnswerInv, WellFramed, clientVars
  <2> QED BY <2>4, <2>5 DEF StreamInv
<1>5. CASE Refuse(w) \/ RestoreFails(w) \/ HeadersTooLong(w) \/ ReadFails(w) \/ RespondFails(w)
  <2>1. CloseConn(w) /\ pc[w] # "accept"
    BY <1>5 DEF Refuse, RestoreFails, HeadersTooLong, ReadFails, RespondFails
  <2>2. conn[w] \in Conns
    BY <2>1, HasConn
  <2> QED BY <2>1, <2>2, CloseStream DEF CloseConn
<1>6. CASE ReadHeaders(w) \/ ReadBody(w)
  BY <1>6, ReadStream
<1>7. CASE Respond(w)
  <2>1. /\ pc[w] = "respond" /\ resp' = [resp EXCEPT ![conn[w]] = Append(resp[conn[w]], w)]
        /\ Close(w, conn[w]) /\ Idle(w) /\ UNCHANGED <<clientVars, consumed>>
    BY <1>7 DEF Respond
  <2>2. conn[w] \in Conns /\ Stream(conn[w])
    BY <2>1, HasConn DEF StreamInv
  <2>3. WellFramed(conn[w]) => /\ consumed[conn[w]] = Len(sent[conn[w]])
                               /\ todo[conn[w]] = <<>> /\ sent[conn[w]] # <<>>
    BY <2>1, <2>2, FullyRead
  <2>4. \A c \in Conns \ {conn[w]} : resp'[c] = resp[c]
    BY <2>1 DEF TypeInv, TypeOK
  <2> QED BY <2>1, <2>2, <2>3, <2>4, CloseStream
<1> QED BY <1>1, <1>2, <1>3, <1>4, <1>5, <1>6, <1>7 DEF WorkerStep

-----------------------------------------------------------------------------
(* The invariant, and the properties it implies *)

Inv == TypeInv /\ OwnInv /\ UseInv /\ StreamInv /\ AnswerInv

LEMMA InitInv == Init => Inv
<1> SUFFICES ASSUME Init PROVE Inv
  OBVIOUS
<1>1. TypeInv
  BY InitType
<1>2. OwnInv
  BY InitialConstants DEF Init, OwnInv
<1>3. UseInv
  BY ProcFacts, InitialConstants DEF Init, UseInv, Untouched, Open, InTransit
<1>4. StreamInv
  <2> SUFFICES ASSUME NEW c \in Conns PROVE Stream(c)
    BY DEF StreamInv
  <2>1. \A w \in Functions : conn[w] # c
    BY ProcFacts, InitialConstants DEF Init
  <2> QED BY <2>1 DEF Init, Stream
<1>5. AnswerInv
  BY DEF Init, AnswerInv
<1> QED BY <1>1, <1>2, <1>3, <1>4, <1>5 DEF Inv

LEMMA InvStep == Inv /\ [Next]_vars => Inv'
<1> SUFFICES ASSUME Inv, [Next]_vars PROVE Inv'
  OBVIOUS
<1> USE DEF Inv
<1>1. TypeInv'
  BY TypeStep
<1>2. ASSUME NEW c \in Conns, ClientStep(c) PROVE Inv'
  BY <1>1, <1>2, ClientSafe, ClientStream
<1>3. CASE GatewayStep
  BY <1>1, <1>3, GatewaySafe, GatewayStream
<1>4. ASSUME NEW w \in Functions, WorkerStep(w) PROVE Inv'
  BY <1>1, <1>4, WorkerSafe, WorkerStream
<1>5. CASE UNCHANGED vars
  <2> USE <1>5 DEF vars, clientVars, serverVars, localVars, workVars
  <2>1. OwnInv'
    BY DEF OwnInv
  <2>2. UseInv'
    <3>1. \A c : Untouched(c)' = Untouched(c) /\ Arrived(c)' = Arrived(c) /\ Open(c)' = Open(c)
      BY DEF Untouched, Arrived, Open, InTransit
    <3> QED BY <3>1, Zenon DEF UseInv
  <2>3. StreamInv' /\ AnswerInv'
    <3>1. ASSUME NEW c \in Conns PROVE Stream(c)'
      <4>1. Stream(c) /\ \A w \in Functions : conn[w] = c => sent[c] # <<>>
        BY DEF StreamInv, Stream
      <4> QED BY <4>1, StreamKept
    <3> QED BY <3>1 DEF StreamInv, AnswerInv, WellFramed
  <2> QED BY <1>1, <2>1, <2>2, <2>3
<1> QED BY <1>2, <1>3, <1>4, <1>5 DEF Next

LEMMA Invariant == Spec => []Inv
BY InitInv, InvStep, PTL DEF Spec

(***************************************************************************)
(* Every variable keeps its type and no header loop writes past its buffer *)
(* (handle_one_request), whatever arrives and in whatever pieces.          *)
(***************************************************************************)
THEOREM InitialTypeCorrect == Spec => []TypeOK
<1>1. Inv => TypeOK
  BY DEF Inv, TypeInv
<1> QED BY <1>1, Invariant, PTL

(***************************************************************************)
(* On every path of Run, tlsmigrate_send_fd and the worker's main, errors  *)
(* included, a process has the descriptor of the connection it works on    *)
(* and no other, and a connection is open in one place.                    *)
(***************************************************************************)
THEOREM InitialOneHolder == Spec => []OneHolder
<1>1. ASSUME Inv PROVE OneHolder
  <2>1. \A p \in Procs, c \in Conns : c \in fds[p] <=> conn[p] = c
    BY <1>1, InitialConstants DEF Inv, OwnInv
  <2>2. \A c \in Conns, p \in Procs : conn[p] = c => ~InTransit(c) /\ c \notin backlog
    BY <1>1 DEF Inv, OwnInv, InTransit
  <2>3. \A c \in Conns : \A p, q \in Procs : c \in fds[p] \cap fds[q] => p = q
    BY <1>1, <2>1, InitialConstants DEF Inv, OwnInv
  <2> QED BY <1>1, <2>1, <2>2, <2>3 DEF Inv, OwnInv, OneHolder
<1> QED BY <1>1, Invariant, PTL

(***************************************************************************)
(* Between the gateway's tls_read_peek and the worker's, the record stays  *)
(* whole in the kernel's buffer and the payload keeps its number: the      *)
(* second peek decrypts what the first did.                                *)
(***************************************************************************)
THEOREM InitialSecondPeekAgrees == Spec => []SecondPeekAgrees
<1>1. ASSUME Inv PROVE SecondPeekAgrees
  <2>0. /\ ControlInv /\ TypeInv /\ UseInv /\ \A c \in Conns : consumed[c] \in Nat
    BY <1>1 DEF Inv, TypeInv, TypeOK
  <2>1. ASSUME NEW p \in Procs, pc[p] \in {"send", "verify", "restore"}
        PROVE  PeekDecrypts(conn[p], seq[p])
    <3>1. conn[p] \in Conns
      BY <2>0, <2>1, HasConn
    <3>2. consumed[conn[p]] = 0 /\ Arrived(conn[p]) > 0 /\ seq[p] = 0
      BY <2>0, <2>1, <3>1 DEF UseInv, ControlInv, BeforeRead, GatewayPCs
    <3> QED BY <3>2 DEF PeekDecrypts
  <2>2. ASSUME NEW w \in Functions, NEW i \in DOMAIN uds[w]
        PROVE  PeekDecrypts(uds[w][i].conn, uds[w][i].seq)
    <3>1. consumed[uds[w][i].conn] = 0 /\ Arrived(uds[w][i].conn) > 0 /\ uds[w][i].seq = 0
      BY <2>0 DEF UseInv, ControlInv, Untouched
    <3> QED BY <3>1 DEF PeekDecrypts
  <2> QED BY <2>1, <2>2, ProcFacts DEF SecondPeekAgrees
<1> QED BY <1>1, Invariant, PTL

(***************************************************************************)
(* Whatever part of the request line the gateway's parseFunctionName took  *)
(* for the name, only the worker the whole line names (peek_owner_from_    *)
(* kernel) takes a record from the connection or answers on it, once.      *)
(***************************************************************************)
THEOREM InitialOnlyNamedConsumes == Spec => []OnlyNamedConsumes
<1>1. ASSUME Inv PROVE OnlyNamedConsumes
  <2> SUFFICES ASSUME NEW c \in Conns
               PROVE  /\ \A w \in Functions : conn[w] = c /\ consumed[c] > 0 => w = req[c].fn
                      /\ resp[c] # <<>> => resp[c] = <<req[c].fn>>
    BY DEF OnlyNamedConsumes
  <2>1. ASSUME NEW w \in Functions, conn[w] = c, consumed[c] > 0 PROVE w = req[c].fn
    <3>1. pc[w] \in WorkerPCs /\ pc[w] \notin BeforeRead
      BY <1>1, <2>1, ProcFacts DEF Inv, TypeInv, ControlInv, UseInv
    <3> QED BY <1>1, <2>1, <3>1, ProcFacts DEF Inv, UseInv, WorkerPCs, BeforeRead, GatewayPCs
  <2> QED BY <1>1, <2>1 DEF Inv, UseInv
<1> QED BY <1>1, Invariant, PTL

(***************************************************************************)
(* When Content-Length says where a request ends and nothing follows it,   *)
(* handle_one_request has read all of it when it answers, so the close     *)
(* that follows the response is never turned into a reset.                 *)
(***************************************************************************)
THEOREM InitialNoResetAfterAnswer == Spec => []NoResetAfterAnswer
<1>1. Inv => NoResetAfterAnswer
  BY DEF Inv, AnswerInv, NoResetAfterAnswer
<1> QED BY <1>1, Invariant, PTL

-----------------------------------------------------------------------------
(* Refinement *)

(* Where the refinement mapping finds a session. *)
HolderMap ==
  \A c \in Conns :
    /\ client[c] = "idle" => Holder(c) = "none" /\ ~Open(c)
    /\ client[c] # "idle" =>
         /\ c \in backlog \/ conn[Gateway] = c => Holder(c) = "gateway"
         /\ InTransit(c) => Holder(c) = "transit"
         /\ \A w \in Functions : conn[w] = c => Holder(c) = w
         /\ ~Open(c) => Holder(c) = "lost"

LEMMA HolderIs == Inv => HolderMap
<1> SUFFICES ASSUME Inv, NEW c \in Conns
             PROVE  /\ client[c] = "idle" => Holder(c) = "none" /\ ~Open(c)
                    /\ client[c] # "idle" =>
                         /\ c \in backlog \/ conn[Gateway] = c => Holder(c) = "gateway"
                         /\ InTransit(c) => Holder(c) = "transit"
                         /\ \A w \in Functions : conn[w] = c => Holder(c) = w
                         /\ ~Open(c) => Holder(c) = "lost"
  BY DEF HolderMap
<1> USE ProcFacts, InitialConstants
<1>1. \A p \in Procs : c \in fds[p] <=> conn[p] = c
  BY DEF Inv, OwnInv
<1>2. client[c] = "idle" => Holder(c) = "none" /\ ~Open(c)
  BY DEF Inv, UseInv, Holder
<1>3. /\ \A p, q \in Procs : conn[p] = c /\ conn[q] = c => p = q
      /\ \A p \in Procs : conn[p] = c => c \notin backlog /\ ~InTransit(c)
      /\ c \in backlog => ~InTransit(c)
  BY DEF Inv, OwnInv, InTransit
<1>4. client[c] # "idle" /\ (c \in backlog \/ conn[Gateway] = c) => Holder(c) = "gateway"
  BY <1>1 DEF Holder
<1>5. client[c] # "idle" /\ InTransit(c) => Holder(c) = "transit"
  BY <1>1, <1>3 DEF Holder
<1>6. ASSUME client[c] # "idle", NEW w \in Functions, conn[w] = c PROVE Holder(c) = w
  <2>1. c \in fds[w] /\ c \notin fds[Gateway] /\ c \notin backlog /\ ~InTransit(c)
    BY <1>1, <1>3, <1>6
  <2>2. Open(c)
    BY <2>1 DEF Open
  <2>3. \A v \in Functions : c \in fds[v] <=> v = w
    BY <1>1, <1>3, <1>6
  <2>4. (CHOOSE v \in Functions : c \in fds[v]) = w
    BY <2>3
  <2> QED BY <1>6, <2>1, <2>2, <2>4 DEF Holder
<1>7. client[c] # "idle" /\ ~Open(c) => Holder(c) = "lost"
  BY DEF Holder, Open
<1> QED BY <1>2, <1>4, <1>5, <1>6, <1>7

LEMMA HolderNext == Inv' => HolderMap'
BY HolderIs, PTL

(* A connection that stays where it is. *)
LEMMA HolderKept ==
  ASSUME Inv, Inv', NEW c \in Conns,
         client'[c] = "idle" <=> client[c] = "idle",
         (c \in backlog' \/ conn'[Gateway] = c) <=> (c \in backlog \/ conn[Gateway] = c),
         InTransit(c)' <=> InTransit(c),
         \A w \in Functions : conn'[w] = c <=> conn[w] = c
  PROVE  Holder(c)' = Holder(c)
<1>1. HolderMap /\ HolderMap'
  BY HolderIs, HolderNext
<1>2. Open(c) <=> \/ c \in backlog \/ conn[Gateway] = c \/ InTransit(c)
                  \/ \E w \in Functions : conn[w] = c
  BY ProcFacts, InitialConstants DEF Inv, OwnInv, Open
<1>3. Open(c)' <=> \/ c \in backlog' \/ conn'[Gateway] = c \/ InTransit(c)'
                   \/ \E w \in Functions : conn'[w] = c
  BY ProcFacts, InitialConstants DEF Inv, OwnInv, Open
<1> QED BY <1>1, <1>2, <1>3 DEF HolderMap

(* SessionOwnership's actions, in terms of the mapping. *)
LEMMA SOArrive ==
  ASSUME NEW c \in Conns, Holder(c) = "none", Holder(c)' = "gateway",
         \A d \in Conns \ {c} : Holder(d)' = Holder(d), UNCHANGED <<consumed, resp>>
  PROVE  SO!Next
<1>1. SO!Arrive(c)
  BY DEF SO!Arrive
<1> QED BY <1>1 DEF SO!Next

LEMMA SOLose ==
  ASSUME NEW c \in Conns, Holder(c) \notin {"none", "lost"}, Holder(c)' = "lost",
         \A d \in Conns \ {c} : Holder(d)' = Holder(d), UNCHANGED <<consumed, resp>>
  PROVE  SO!Next
<1>1. SO!Lose({c})
  BY DEF SO!Lose
<1> QED BY <1>1 DEF SO!Next

LEMMA SOHandOver ==
  ASSUME NEW c \in Conns, Holder(c) = "gateway", Holder(c)' = "transit",
         \A d \in Conns \ {c} : Holder(d)' = Holder(d), UNCHANGED <<consumed, resp>>
  PROVE  SO!Next
<1>1. SO!HandOver(c)
  BY DEF SO!HandOver
<1> QED BY <1>1 DEF SO!Next

LEMMA SOReceive ==
  ASSUME NEW c \in Conns, NEW w \in Functions, Holder(c) = "transit", Holder(c)' = w,
         \A d \in Conns \ {c} : Holder(d)' = Holder(d), UNCHANGED <<consumed, resp>>
  PROVE  SO!Next
<1>1. SO!Receive(c, w)
  BY DEF SO!Receive
<1> QED BY <1>1 DEF SO!Next

LEMMA SOTake ==
  ASSUME NEW c \in Conns, Holder(c) \in Functions,
         consumed' = [consumed EXCEPT ![c] = consumed[c] + 1],
         \A d \in Conns : Holder(d)' = Holder(d), resp' = resp
  PROVE  SO!Next
<1>1. SO!Use(c)
  BY DEF SO!Use, SO!Take
<1> QED BY <1>1 DEF SO!Next

LEMMA SOAnswer ==
  ASSUME NEW c \in Conns, Holder(c) \in Functions, Holder(c)' = "lost",
         \A d \in Conns \ {c} : Holder(d)' = Holder(d) /\ Len(resp'[d]) = Len(resp[d]),
         Len(resp'[c]) = Len(resp[c]) + 1, consumed' = consumed
  PROVE  SO!Next
<1>1. SO!Use(c)
  BY DEF SO!Use, SO!Answer
<1> QED BY <1>1 DEF SO!Next

LEMMA SOStutter ==
  ASSUME \A d \in Conns : Holder(d)' = Holder(d), UNCHANGED <<consumed, resp>>
  PROVE  UNCHANGED SO!svars
BY DEF SO!svars

(* The process that closes a connection was its holder. *)
LEMMA CloseLoses ==
  ASSUME Inv, Inv', NEW p \in Procs, NEW c \in Conns, conn[p] = c, Idle(p),
         UNCHANGED <<client, backlog, uds>>
  PROVE  /\ Holder(c) \in Functions \cup {"gateway"} /\ Holder(c)' = "lost"
         /\ p \in Functions => Holder(c) = p
         /\ \A d \in Conns \ {c} : Holder(d)' = Holder(d)
<1> USE ProcFacts, InitialConstants
<1>1. HolderMap /\ HolderMap'
  BY HolderIs, HolderNext
<1>2. /\ conn'[p] = NoConn /\ \A q \in Procs \ {p} : conn'[q] = conn[q]
  BY DEF Idle, Inv, TypeInv, TypeOK
<1>3. /\ c \notin backlog /\ \A q \in Procs : conn[q] = c => q = p
      /\ \A w \in Functions : \A i \in DOMAIN uds[w] : uds[w][i].conn # c
      /\ c \in fds[p]
  BY DEF Inv, OwnInv
<1>4. client[c] # "idle"
  BY <1>3 DEF Inv, UseInv, Open
<1>5. ~Open(c)'
  <2>1. \A q \in Procs : conn'[q] # c
    BY <1>2, <1>3
  <2>2. \A q \in Procs : c \notin fds'[q]
    BY <2>1 DEF Inv, OwnInv
  <2> QED BY <1>3, <2>2 DEF Open, InTransit
<1>6. \A d \in Conns \ {c} : Holder(d)' = Holder(d)
  <2> SUFFICES ASSUME NEW d \in Conns \ {c} PROVE Holder(d)' = Holder(d)
    OBVIOUS
  <2>1. \A q \in Procs : conn'[q] = d <=> conn[q] = d
    BY <1>2
  <2>2. InTransit(d)' <=> InTransit(d)
    BY DEF InTransit
  <2> QED BY <2>1, <2>2, HolderKept
<1>7. Holder(c)' = "lost"
  BY <1>1, <1>4, <1>5 DEF HolderMap
<1>8. Holder(c) \in Functions \cup {"gateway"} /\ (p \in Functions => Holder(c) = p)
  BY <1>1, <1>4 DEF HolderMap
<1> QED BY <1>6, <1>7, <1>8

LEMMA ClientRefines ==
  ASSUME Inv, Inv', NEW c \in Conns, ClientStep(c)
  PROVE  SO!Next \/ UNCHANGED SO!svars
<1> USE ProcFacts, InitialConstants
<1>1. HolderMap /\ HolderMap'
  BY HolderIs, HolderNext
<1>0. UNCHANGED <<consumed, resp, uds, conn, fds>>
  BY DEF ClientStep, Connect, Hello, IssueRequest, RestArrives, ReadResponse, ClientClose,
         SendRecord, serverVars, localVars
<1>2. CASE Connect(c)
  <2>1. /\ client[c] = "idle" /\ client'[c] = "connected" /\ c \in backlog'
        /\ \A d \in Conns \ {c} : client'[d] = client[d] /\ (d \in backlog' <=> d \in backlog)
    BY <1>2 DEF Connect, Inv, TypeInv, TypeOK
  <2>2. Holder(c) = "none" /\ Holder(c)' = "gateway"
    BY <1>1, <2>1 DEF HolderMap
  <2>3. ASSUME NEW d \in Conns \ {c} PROVE Holder(d)' = Holder(d)
    <3>1. InTransit(d)' <=> InTransit(d)
      BY <1>0 DEF InTransit
    <3> QED BY <1>0, <2>1, <3>1, HolderKept
  <2> QED BY <1>0, <2>2, <2>3, SOArrive
<1>3. CASE ~Connect(c)
  <2>1. backlog' = backlog /\ \A d \in Conns : client'[d] = "idle" <=> client[d] = "idle"
    BY <1>3, ZenonT(60) DEF ClientStep, Hello, IssueRequest, RestArrives, ReadResponse, ClientClose,
         SendRecord, serverVars, Inv, TypeInv, TypeOK
  <2>2. ASSUME NEW d \in Conns PROVE Holder(d)' = Holder(d)
    <3>1. InTransit(d)' <=> InTransit(d)
      BY <1>0 DEF InTransit
    <3> QED BY <1>0, <2>1, <3>1, HolderKept
  <2> QED BY <1>0, <2>2, SOStutter
<1> QED BY <1>2, <1>3

LEMMA GatewayRefines ==
  ASSUME Inv, Inv', GatewayStep
  PROVE  SO!Next \/ UNCHANGED SO!svars
<1> USE ProcFacts, InitialConstants
<1>1. HolderMap /\ HolderMap'
  BY HolderIs, HolderNext
<1>2. CASE HandshakeFails \/ PeekAndExportFails \/ SendFdFails
  <2>1. CloseConn(Gateway) /\ pc[Gateway] # "accept"
    BY <1>2 DEF HandshakeFails, PeekAndExportFails, SendFdFails
  <2>2. PICK c \in Conns : conn[Gateway] = c
    BY <2>1, HasConn DEF Inv
  <2>3. UNCHANGED <<client, backlog, uds, consumed, resp>> /\ Idle(Gateway)
    BY <2>1 DEF CloseConn, clientVars
  <2>4. /\ Holder(c) \in Functions \cup {"gateway"} /\ Holder(c)' = "lost"
        /\ \A d \in Conns \ {c} : Holder(d)' = Holder(d)
    BY <2>2, <2>3, CloseLoses
  <2> QED BY <2>3, <2>4, SOLose, PlacesDistinct
<1>3. ASSUME NEW c \in Conns, Accept(c) PROVE SO!Next \/ UNCHANGED SO!svars
  <2>1. /\ c \in backlog /\ backlog' = backlog \ {c} /\ pc[Gateway] = "accept"
        /\ conn' = [conn EXCEPT ![Gateway] = c] /\ UNCHANGED <<client, uds, consumed, resp>>
    BY <1>3 DEF Accept, clientVars
  <2>2. conn[Gateway] = NoConn
    BY <2>1 DEF Inv, TypeInv, ControlInv
  <2>3. conn'[Gateway] = c /\ \A w \in Functions : conn'[w] = conn[w]
    BY <2>1 DEF Inv, TypeInv, TypeOK
  <2>4. ASSUME NEW d \in Conns PROVE Holder(d)' = Holder(d)
    <3>1. InTransit(d)' <=> InTransit(d)
      BY <2>1 DEF InTransit
    <3>2. (d \in backlog' \/ conn'[Gateway] = d) <=> (d \in backlog \/ conn[Gateway] = d)
      BY <2>1, <2>2, <2>3
    <3> QED BY <2>1, <2>3, <3>1, <3>2, HolderKept
  <2> QED BY <2>1, <2>4, SOStutter
<1>4. CASE Handshake \/ \E f \in Names : PeekAndExport(f)
  <2>1. UNCHANGED <<backlog, uds, conn, consumed, resp>>
    BY <1>4 DEF Handshake, PeekAndExport
  <2>2. \A d \in Conns : client'[d] = "idle" <=> client[d] = "idle"
    BY <1>4 DEF Handshake, PeekAndExport, clientVars, Inv, TypeInv, TypeOK
  <2>3. ASSUME NEW d \in Conns PROVE Holder(d)' = Holder(d)
    <3>1. InTransit(d)' <=> InTransit(d)
      BY <2>1 DEF InTransit
    <3> QED BY <2>1, <2>2, <3>1, HolderKept
  <2> QED BY <2>1, <2>3, SOStutter
<1>5. CASE SendFd
  <2>0. PICK c \in Conns : conn[Gateway] = c
    BY <1>5, HasConn DEF SendFd, Inv
  <2> DEFINE m == [conn |-> c, seq |-> seq[Gateway]]
  <2>1. /\ target \in Functions /\ uds' = [uds EXCEPT ![target] = Append(uds[target], m)]
        /\ Idle(Gateway) /\ UNCHANGED <<client, backlog, consumed, resp>>
    BY <1>5, <2>0 DEF SendFd, clientVars
  <2>2. uds[target] \in Seq(Msg) /\ m \in Msg
    BY <2>1 DEF Inv, TypeInv, TypeOK, Msg
  <2>3. /\ \A i \in DOMAIN uds'[target] : \/ i \in DOMAIN uds[target] /\ uds'[target][i] = uds[target][i]
                                          \/ uds'[target][i] = m
        /\ \A i \in DOMAIN uds[target] : i \in DOMAIN uds'[target] /\ uds'[target][i] = uds[target][i]
        /\ \E i \in DOMAIN uds'[target] : uds'[target][i] = m
        /\ \A w \in Functions \ {target} : uds'[w] = uds[w]
    <3>1. uds'[target] = Append(uds[target], m) /\ \A w \in Functions \ {target} : uds'[w] = uds[w]
      BY <2>1 DEF Inv, TypeInv, TypeOK
    <3> HIDE DEF m
    <3>2. /\ \A i \in DOMAIN Append(uds[target], m) :
               \/ i \in DOMAIN uds[target] /\ Append(uds[target], m)[i] = uds[target][i]
               \/ i = Len(uds[target]) + 1 /\ Append(uds[target], m)[i] = m
          /\ \A i \in DOMAIN uds[target] :
               i \in DOMAIN Append(uds[target], m) /\ Append(uds[target], m)[i] = uds[target][i]
          /\ Append(uds[target], m)[Len(uds[target]) + 1] = m
          /\ Len(uds[target]) + 1 \in DOMAIN Append(uds[target], m)
      BY ONLY <2>2
    <3> QED BY <3>1, <3>2
  <2>4. /\ conn'[Gateway] = NoConn /\ \A w \in Functions : conn'[w] = conn[w]
    BY <2>1 DEF Idle, Inv, TypeInv, TypeOK
  <2>5. m.conn = c
    OBVIOUS
  <2> HIDE DEF m
  <2>6. client[c] # "idle"
    BY <2>0 DEF Inv, OwnInv, UseInv, Open
  <2>7. Holder(c) = "gateway" /\ Holder(c)' = "transit"
    <3>1. InTransit(c)'
      BY <2>1, <2>3, <2>5 DEF InTransit
    <3> QED BY <1>1, <2>0, <2>1, <2>6, <3>1 DEF HolderMap
  <2>8. ASSUME NEW d \in Conns \ {c} PROVE Holder(d)' = Holder(d)
    <3>1. InTransit(d)' => InTransit(d)
      BY <2>3, <2>5 DEF InTransit
    <3>2. InTransit(d) => InTransit(d)'
      BY <2>3 DEF InTransit
    <3> QED BY <2>0, <2>1, <2>4, <3>1, <3>2, HolderKept
  <2> QED BY <2>1, <2>7, <2>8, SOHandOver
<1> QED BY <1>2, <1>3, <1>4, <1>5 DEF GatewayStep

LEMMA WorkerRefines ==
  ASSUME Inv, Inv', NEW w \in Functions, WorkerStep(w)
  PROVE  SO!Next \/ UNCHANGED SO!svars
<1> USE ProcFacts, InitialConstants
<1>1. HolderMap /\ HolderMap'
  BY HolderIs, HolderNext
<1>2. CASE RecvFd(w) \/ RecvFdFails(w)
  <2>0. uds[w] # <<>> /\ uds' = [uds EXCEPT ![w] = Tail(uds[w])]
    BY <1>2 DEF RecvFd, RecvFdFails
  <2>1. uds[w] \in Seq(Msg)
    BY DEF Inv, TypeInv, TypeOK
  <2>2. PICK c \in Conns : c = Head(uds[w]).conn
    BY <2>0, <2>1, TailMsg DEF Msg
  <2>3. /\ UNCHANGED <<client, backlog, consumed, resp>>
        /\ uds'[w] = Tail(uds[w]) /\ \A v \in Functions \ {w} : uds'[v] = uds[v]
        /\ \/ RecvFd(w) /\ conn'[w] = c /\ conn[w] = NoConn /\ \A q \in Procs \ {w} : conn'[q] = conn[q]
           \/ RecvFdFails(w) /\ conn' = conn
    <3>1. uds \in [Functions -> Seq(Msg)] /\ conn \in [Procs -> Conns \cup {NoConn}]
      BY DEF Inv, TypeInv, TypeOK
    <3>2. uds'[w] = Tail(uds[w]) /\ \A v \in Functions \ {w} : uds'[v] = uds[v]
      BY <2>0, <3>1
    <3>3. UNCHANGED <<client, backlog, consumed, resp>>
      BY <1>2 DEF RecvFd, RecvFdFails, clientVars
    <3>4. CASE RecvFd(w)
      <4>1. pc[w] = "accept" /\ conn' = [conn EXCEPT ![w] = c]
        BY <2>2, <3>4 DEF RecvFd
      <4>2. conn[w] = NoConn
        BY <4>1 DEF Inv, TypeInv, ControlInv
      <4> QED BY <3>1, <3>2, <3>3, <3>4, <4>1, <4>2
    <3>5. CASE RecvFdFails(w)
      BY <3>2, <3>3, <3>5 DEF RecvFdFails, localVars
    <3> QED BY <1>2, <3>4, <3>5
  <2>4. /\ InTransit(c) /\ client[c] # "idle" /\ \A q \in Procs : conn[q] # c
    <3>1. 1 \in DOMAIN uds[w] /\ uds[w][1].conn = c
      BY <2>0, <2>1, <2>2, TailMsg
    <3>2. InTransit(c)
      BY <3>1 DEF InTransit
    <3> QED BY <3>1, <3>2 DEF Inv, UseInv, Open, OwnInv
  <2>5. Holder(c) = "transit"
    BY <1>1, <2>4 DEF HolderMap
  <2>6. ASSUME NEW d \in Conns \ {c} PROVE Holder(d)' = Holder(d)
    <3>1. InTransit(d)' => InTransit(d)
      <4>1. \A i \in DOMAIN Tail(uds[w]) : i + 1 \in DOMAIN uds[w] /\ Tail(uds[w])[i] = uds[w][i + 1]
        BY <2>0, <2>1, TailMsg
      <4>2. ASSUME NEW v \in Functions, NEW i \in DOMAIN uds'[v], uds'[v][i].conn = d
            PROVE  \E j \in DOMAIN uds[v] : uds[v][j].conn = d
        <5>1. CASE v = w
          BY <2>3, <4>1, <4>2, <5>1, ZenonT(60)
        <5>2. CASE v # w
          BY <2>3, <4>2, <5>2
        <5> QED BY <5>1, <5>2
      <4> QED BY <4>2 DEF InTransit
    <3>2. InTransit(d) => InTransit(d)'
      <4>1. \A i \in DOMAIN uds[w] : uds[w][i].conn = d =>
              i - 1 \in DOMAIN Tail(uds[w]) /\ Tail(uds[w])[i - 1] = uds[w][i]
        BY <2>0, <2>1, <2>2, TailMsg
      <4>2. ASSUME NEW v \in Functions, NEW i \in DOMAIN uds[v], uds[v][i].conn = d
            PROVE  \E j \in DOMAIN uds'[v] : uds'[v][j].conn = d
        <5>1. CASE v = w
          BY <2>3, <4>1, <4>2, <5>1
        <5>2. CASE v # w
          BY <2>3, <4>2, <5>2
        <5> QED BY <5>1, <5>2
      <4> QED BY <4>2 DEF InTransit
    <3>3. \A q \in Procs : conn'[q] = d <=> conn[q] = d
      BY <2>3
    <3> QED BY <2>3, <3>1, <3>2, <3>3, HolderKept
  <2>7. CASE RecvFd(w) /\ conn'[w] = c
    <3>1. Holder(c)' = w
      BY <1>1, <2>3, <2>4, <2>7 DEF HolderMap
    <3> QED BY <2>3, <2>5, <2>6, <3>1, SOReceive
  <2>8. CASE RecvFdFails(w) /\ conn' = conn
    <3>1. ~Open(c)'
      <4>1. \A q \in Procs : c \notin fds'[q]
        BY <2>4, <2>8 DEF Inv, OwnInv
      <4>2. c \notin backlog'
        BY <2>3, <2>4 DEF Inv, OwnInv, InTransit
      <4>3. ~InTransit(c)'
        <5>0. TypeInv /\ OwnInv
          BY DEF Inv
        <5> DEFINE e == Head(uds[w]).conn
        <5>1. /\ e \in Conns /\ 1 \in DOMAIN uds[w] /\ e = uds[w][1].conn
              /\ \A v \in Functions : \A i \in DOMAIN uds'[v] :
                   /\ uds'[v][i].conn # e
                   /\ \E j \in DOMAIN uds[v] : uds'[v][i] = uds[v][j]
              /\ \A u, v \in Functions : \A i \in DOMAIN uds'[u], j \in DOMAIN uds'[v] :
                   uds'[u][i].conn = uds'[v][j].conn => u = v /\ i = j
          BY <2>0, <5>0, UdsTail
        <5> QED BY <2>2, <5>1 DEF InTransit
      <4> QED BY <4>1, <4>2, <4>3 DEF Open
    <3>2. Holder(c)' = "lost"
      BY <1>1, <2>3, <2>4, <3>1 DEF HolderMap
    <3> QED BY <2>3, <2>5, <2>6, <3>2, SOLose
  <2> QED BY <2>3, <2>7, <2>8
<1>3. CASE Verify(w) \/ Restore(w) \/ ReadHeaders(w) \/ ReadBody(w)
  <2>1. /\ UNCHANGED <<client, backlog, uds, conn, resp>>
        /\ \/ consumed' = consumed
           \/ /\ pc[w] # "accept" /\ conn[w] \in Conns
              /\ consumed' = [consumed EXCEPT ![conn[w]] = consumed[conn[w]] + 1]
    BY <1>3, HasConn DEF Verify, Restore, ReadHeaders, ReadBody, TakeRecord, clientVars, Inv
  <2>2. ASSUME NEW d \in Conns PROVE Holder(d)' = Holder(d)
    <3>1. InTransit(d)' <=> InTransit(d)
      BY <2>1 DEF InTransit
    <3> QED BY <2>1, <3>1, HolderKept
  <2>3. conn[w] \in Conns => Holder(conn[w]) = w
    <3>1. conn[w] \in Conns => client[conn[w]] # "idle"
      BY DEF Inv, OwnInv, UseInv, Open
    <3> QED BY <1>1, <3>1 DEF HolderMap
  <2>4. CASE consumed' = consumed
    BY <2>1, <2>2, <2>4, SOStutter
  <2>5. CASE conn[w] \in Conns /\ consumed' = [consumed EXCEPT ![conn[w]] = consumed[conn[w]] + 1]
    BY <2>1, <2>2, <2>3, <2>5, SOTake
  <2> QED BY <2>1, <2>4, <2>5
<1>4. CASE Refuse(w) \/ RestoreFails(w) \/ HeadersTooLong(w) \/ ReadFails(w) \/ RespondFails(w)
  <2>1. CloseConn(w) /\ pc[w] # "accept"
    BY <1>4 DEF Refuse, RestoreFails, HeadersTooLong, ReadFails, RespondFails
  <2>2. PICK c \in Conns : conn[w] = c
    BY <2>1, HasConn DEF Inv
  <2>3. UNCHANGED <<client, backlog, uds, consumed, resp>> /\ Idle(w)
    BY <2>1 DEF CloseConn, clientVars
  <2>4. /\ Holder(c) \in Functions \cup {"gateway"} /\ Holder(c)' = "lost"
        /\ \A d \in Conns \ {c} : Holder(d)' = Holder(d)
    BY <2>2, <2>3, CloseLoses
  <2> QED BY <2>3, <2>4, SOLose, PlacesDistinct
<1>5. CASE Respond(w)
  <2>1. /\ pc[w] = "respond" /\ resp' = [resp EXCEPT ![conn[w]] = Append(resp[conn[w]], w)]
        /\ Idle(w) /\ UNCHANGED <<client, backlog, uds, consumed>>
    BY <1>5 DEF Respond, clientVars
  <2>2. PICK c \in Conns : conn[w] = c
    BY <2>1, HasConn DEF Inv
  <2>3. /\ Holder(c) = w /\ Holder(c)' = "lost"
        /\ \A d \in Conns \ {c} : Holder(d)' = Holder(d)
    BY <2>1, <2>2, CloseLoses
  <2>4. /\ \A d \in Conns \ {c} : Len(resp'[d]) = Len(resp[d])
        /\ Len(resp'[c]) = Len(resp[c]) + 1
    <3>1. resp[c] \in Seq(Functions) /\ resp'[c] = Append(resp[c], w)
      BY <2>1, <2>2 DEF Inv, TypeInv, TypeOK
    <3>2. \A d \in Conns \ {c} : resp'[d] = resp[d]
      BY <2>1, <2>2 DEF Inv, TypeInv, TypeOK
    <3> QED BY <3>1, <3>2
  <2> QED BY <2>1, <2>3, <2>4, SOAnswer
<1> QED BY <1>2, <1>3, <1>4, <1>5 DEF WorkerStep

(***************************************************************************)
(* The one-request migration implements SessionOwnership: every step of a  *)
(* client, of Run or of a worker is a step of the abstract specification   *)
(* or leaves it alone.  A session has one holder, two processes may peek   *)
(* at it but only the worker that restored it moves its receive position,  *)
(* and a connection closed on any path is never used again.                *)
(***************************************************************************)
THEOREM InitialImplementsOwnership == Spec => ImplementsOwnership
<1>1. Init => SO!Init
  BY DEF Init, SO!Init, Holder
<1>2. Inv /\ Inv' /\ [Next]_vars => [SO!Next]_SO!svars
  <2> SUFFICES ASSUME Inv, Inv', [Next]_vars PROVE SO!Next \/ UNCHANGED SO!svars
    OBVIOUS
  <2>1. CASE UNCHANGED vars
    <3>1. ASSUME NEW c \in Conns PROVE Holder(c)' = Holder(c)
      BY <2>1 DEF Holder, Open, InTransit, vars, clientVars, serverVars, localVars
    <3> QED BY <2>1, <3>1, SOStutter DEF vars, serverVars
  <2> QED BY <2>1, ClientRefines, GatewayRefines, WorkerRefines DEF Next
<1> QED BY <1>1, <1>2, Invariant, PTL DEF Spec, SO!Spec, ImplementsOwnership

-----------------------------------------------------------------------------
(* Servable requests are answered *)

(* A client that behaves, with a request a deployed function can answer. *)
Straight(c) == c \notin Faulty /\ Servable(c)

(* Where a straight connection is bound for, once the gateway has peeked.   *)
RouteInv ==
  /\ pc[Gateway] = "send" /\ Straight(conn[Gateway]) => target = req[conn[Gateway]].fn
  /\ \A w \in Functions : \A i \in DOMAIN uds[w] :
       Straight(uds[w][i].conn) => req[uds[w][i].conn].fn = w
  /\ \A w \in Functions : pc[w] = "verify" /\ Straight(conn[w]) => req[conn[w]].fn = w

(* The client of a straight connection stays as long as it is open. *)
ServedInv ==
  /\ \A c \in got : resp[c] # <<>>
  /\ \A c \in Conns : Straight(c) /\ Open(c) => client[c] # "gone"

PathInv == RouteInv /\ ServedInv

(* Nobody lets go of c before it is answered, but the gateway if its one     *)
(* peek finds a part of the first record.                                   *)
GivenUp(c) == PeekAndExportFails /\ conn[Gateway] = c /\ FirstCut(c)
HeldOn(c) == Straight(c) /\ Open(c) => Open(c)' \/ resp'[c] # <<>> \/ GivenUp(c)
Held == \A c \in Conns : HeldOn(c)

(* What a request's plaintext has at its start and at its blank line. *)
LEMMA PlaintextMarks ==
  ASSUME NEW r \in Request
  PROVE  /\ Plaintext(r)[EndAt(r)] = "end"
         /\ r.line = "whole" => Plaintext(r)[1] = "line" /\ EndAt(r) = r.hdr + 2
<1> DEFINE l == IF r.line = "cut" THEN <<"half", "line">> ELSE <<"line">>
           h == [i \in 1..r.hdr |-> "hdr"]
           e == <<"end">>
           b == [i \in 1..r.body |-> "body"]
           x == IF r.extra THEN <<"next">> ELSE <<>>
           n == LineLen(r)
<1>1. r.hdr \in Nat /\ r.body \in Nat /\ r.extra \in BOOLEAN
  BY DEF Request
<1>2. /\ l \in Seq(Token) /\ Len(l) = n /\ n \in Nat \ {0}
      /\ r.line = "whole" => l[1] = "line" /\ n = 1
  <2>1. CASE r.line = "cut"
    BY <2>1 DEF Token, LineLen
  <2>2. CASE r.line # "cut"
    BY <2>2 DEF Token, LineLen
  <2> QED BY <2>1, <2>2
<1>e. e \in Seq(Token) /\ Len(e) = 1 /\ e[1] = "end"
  BY DEF Token
<1>3. h \in Seq(Token) /\ Len(h) = r.hdr /\ b \in Seq(Token)
  BY <1>1 DEF Token
<1>4. x \in Seq(Token)
  <2>1. CASE r.extra
    BY <2>1 DEF Token
  <2>2. CASE ~r.extra
    BY <2>2
  <2> QED BY <2>1, <2>2
<1>5. Plaintext(r) = (((l \o h) \o e) \o b) \o x
  BY DEF Plaintext
<1>6. EndAt(r) = n + r.hdr + 1
  BY DEF EndAt
<1> HIDE DEF l, h, e, b, x, n
<1> DEFINE lh == l \o h
<1>7. lh \in Seq(Token) /\ Len(lh) = n + r.hdr /\ lh[1] = l[1]
  <2>1. /\ lh \in Seq(Token) /\ Len(lh) = Len(l) + Len(h)
        /\ \A i \in 1..Len(l) : lh[i] = l[i]
    BY <1>2, <1>3, Concat
  <2> QED BY <2>1, <1>1, <1>2, <1>3
<1> HIDE DEF lh
<1> DEFINE lhe == lh \o e
<1>8. /\ lhe \in Seq(Token) /\ Len(lhe) = n + r.hdr + 1
      /\ lhe[1] = l[1] /\ lhe[n + r.hdr + 1] = "end"
  <2>1. /\ lhe \in Seq(Token) /\ Len(lhe) = Len(lh) + Len(e)
        /\ \A i \in 1..Len(lh) : lhe[i] = lh[i]
        /\ \A i \in 1..Len(e) : lhe[Len(lh) + i] = e[i]
    BY <1>e, <1>7, Concat
  <2>2. 1 \in 1..Len(lh) /\ 1 \in 1..Len(e) /\ Len(lh) + 1 = n + r.hdr + 1
    BY <1>1, <1>2, <1>e, <1>7
  <2>3. lhe[Len(lh) + 1] = "end"
    BY <2>1, <2>2, <1>e
  <2> QED BY <2>1, <2>2, <2>3, <1>1, <1>2, <1>e, <1>7
<1> HIDE DEF lhe
<1> DEFINE lheb == lhe \o b
<1>9. /\ lheb \in Seq(Token) /\ Len(lheb) \in Nat /\ n + r.hdr + 1 <= Len(lheb)
      /\ lheb[1] = l[1] /\ lheb[n + r.hdr + 1] = "end"
  <2>0. Len(b) \in Nat
    BY <1>3
  <2>1. /\ lheb \in Seq(Token) /\ Len(lheb) = Len(lhe) + Len(b) /\ Len(b) \in Nat
        /\ \A i \in 1..Len(lhe) : lheb[i] = lhe[i]
    BY <2>0, <1>3, <1>8, Concat
  <2>2. Len(lhe) \in Nat /\ Len(lhe) >= 1
    BY <1>1, <1>2, <1>8
  <2>3. 1 \in 1..Len(lhe) /\ Len(lhe) \in 1..Len(lhe)
    BY <2>2
  <2>4. lheb[1] = lhe[1] /\ lheb[Len(lhe)] = lhe[Len(lhe)]
    BY <2>1, <2>3
  <2>5. Len(lheb) \in Nat /\ Len(lhe) <= Len(lheb)
    BY <2>1, <2>2
  <2> QED BY <2>1, <2>4, <2>5, <1>8
<1> HIDE DEF lheb
<1>10. (lheb \o x)[1] = l[1] /\ (lheb \o x)[n + r.hdr + 1] = "end"
  <2>1. \A i \in 1..Len(lheb) : (lheb \o x)[i] = lheb[i]
    BY <1>4, <1>9, Concat
  <2>2. 1 \in 1..Len(lheb) /\ n + r.hdr + 1 \in 1..Len(lheb)
    BY <1>1, <1>2, <1>9
  <2> QED BY <2>1, <2>2, <1>9
<1>11. Plaintext(r) = lheb \o x
  BY <1>5 DEF lheb, lhe, lh
<1>12. r.line = "whole" => EndAt(r) = r.hdr + 2
  BY <1>1, <1>2, <1>6
<1> QED BY <1>2, <1>6, <1>10, <1>11, <1>12

(* The first record of such a request shows its line. *)
LEMMA PeeksLine ==
  ASSUME Inv, NEW c \in Conns, req[c].line = "whole", sent[c] # <<>>, consumed[c] = 0
  PROVE  Peeked(c)[1] = "line"
<1>1. /\ sent[c] \in Seq(Seq(Token)) /\ Len(sent[c]) \in Nat /\ Len(sent[c]) # 0
      /\ req[c] \in Request
  BY SentType DEF Inv
<1>2. PICK off \in [0..Len(sent[c]) -> Nat] : CutAt(c, off)
  BY DEF Inv, StreamInv, Stream
<1>3. 0 \in 0..Len(sent[c]) /\ 1 \in 0..Len(sent[c]) /\ 1 \in 1..Len(sent[c]) /\ 1 - 1 = 0
  BY <1>1
<1>4. off[0] = 0 /\ off[0] < off[1] /\ off[1] = off[0] + Len(sent[c][1])
  BY <1>2, <1>3 DEF CutAt
<1>5. sent[c][1] \in Seq(Token)
  BY <1>1, <1>3
<1>6. 1 \in 1..Len(sent[c][1])
  BY <1>4, <1>5
<1>7. sent[c][1][1] = Plaintext(req[c])[off[1 - 1] + 1]
  BY <1>2, <1>3, <1>6 DEF CutAt
<1>8. off[1 - 1] + 1 = 1
  BY <1>3, <1>4
<1>9. Plaintext(req[c])[1] = "line"
  BY <1>1, PlaintextMarks
<1>10. Peeked(c) = sent[c][1]
  BY DEF Peeked
<1> QED BY <1>7, <1>8, <1>9, <1>10

(* The client of a straight connection that a process has is still there.   *)
LEMMA StraightPresent ==
  ASSUME Inv, PathInv, NEW p \in Procs, pc[p] # "accept", Straight(conn[p])
  PROVE  /\ conn[p] \in Conns /\ conn[p] \notin Faulty /\ Servable(conn[p])
         /\ Open(conn[p]) /\ resp[conn[p]] = <<>> /\ client[conn[p]] # "gone"
         /\ Arrived(conn[p]) \in Int /\ Len(sent[conn[p]]) \in Nat
         /\ Arrived(conn[p]) <= Len(sent[conn[p]]) /\ Arrived(conn[p]) >= Len(sent[conn[p]]) - 1
         /\ seq[p] = 0
         /\ pc[p] \in BeforeRead => consumed[conn[p]] = 0
<1>1. conn[p] \in Conns
  BY HasConn DEF Inv
<1>2. resp[conn[p]] = <<>> /\ (pc[p] \in BeforeRead => consumed[conn[p]] = 0)
  BY <1>1 DEF Inv, UseInv
<1>o. Open(conn[p])
  BY <1>1, OpenPlaces DEF Inv
<1>3. client[conn[p]] # "gone"
  BY <1>1, <1>o DEF PathInv, ServedInv
<1>4. conn[p] \notin Faulty /\ Servable(conn[p])
  BY DEF Straight
<1>6. /\ Arrived(conn[p]) \in Int /\ Len(sent[conn[p]]) \in Nat
      /\ Arrived(conn[p]) <= Len(sent[conn[p]]) /\ Arrived(conn[p]) >= Len(sent[conn[p]]) - 1
  BY <1>1, ArrivedBound DEF Inv
<1>7. seq[p] = 0
  BY DEF Inv, TypeInv, ControlInv
<1> QED BY <1>1, <1>2, <1>o, <1>3, <1>4, <1>6, <1>7

(* The one name the gateway can read in a straight connection's record. *)
LEMMA StraightNames ==
  ASSUME Inv, NEW c \in Conns, Servable(c), sent[c] # <<>>, consumed[c] = 0
  PROVE  ParsedNames(c) = {req[c].fn} /\ req[c].fn # NoName
<1>1. /\ req[c].line = "whole" /\ req[c].fn \in Functions
      /\ req[c].fn \in GatewayNames
  BY DEF Servable
<1>2. Peeked(c)[1] = "line"
  BY <1>1, PeeksLine
<1>3. req[c].fn # NoName
  BY <1>1, InitialConstants
<1> QED BY <1>1, <1>2, <1>3 DEF ParsedNames

LEMMA GatewayKeeps ==
  ASSUME Inv, PathInv, HandshakeFails \/ PeekAndExportFails \/ SendFdFails
  PROVE  Straight(conn[Gateway]) => GivenUp(conn[Gateway])
<1> SUFFICES ASSUME Straight(conn[Gateway]) PROVE GivenUp(conn[Gateway])
  OBVIOUS
<1> DEFINE c == conn[Gateway]
<1>1. Gateway \in Procs /\ pc[Gateway] # "accept"
  BY ProcFacts DEF HandshakeFails, PeekAndExportFails, SendFdFails
<1>2. /\ c \in Conns /\ c \notin Faulty /\ Servable(c) /\ client[c] # "gone"
      /\ Arrived(c) \in Int /\ Len(sent[c]) \in Nat /\ seq[Gateway] = 0
      /\ Arrived(c) <= Len(sent[c]) /\ Arrived(c) >= Len(sent[c]) - 1
      /\ pc[Gateway] \in BeforeRead => consumed[c] = 0
  BY <1>1, StraightPresent
<1>3. CASE HandshakeFails
  BY <1>2, <1>3 DEF HandshakeFails
<1>4. CASE PeekAndExportFails
  <2>1. pc[Gateway] = "peek" /\ PeekReturns(c)
        /\ (PeekDecrypts(c, seq[Gateway]) => c \in Faulty \/ NoName \in ParsedNames(c))
    BY <1>4 DEF PeekAndExportFails
  <2>2. consumed[c] = 0
    BY <2>1, <1>2 DEF BeforeRead, GatewayPCs
  <2>3. 0 < Len(sent[c])
    BY <2>1, <2>2, <1>2 DEF PeekReturns
  <2>5. sent[c] # <<>>
    BY <2>3
  <2>6. NoName \notin ParsedNames(c)
    BY <2>2, <2>5, <1>2, StraightNames
  <2>7. ~PeekDecrypts(c, seq[Gateway])
    BY <2>1, <2>6, <1>2
  <2>8. Arrived(c) = 0
    BY <2>2, <2>3, <2>7, <1>2 DEF PeekDecrypts
  <2> QED BY <2>5, <2>8, <1>4 DEF GivenUp, FirstCut
<1>5. CASE SendFdFails
  <2>1. pc[Gateway] = "send" /\ (target \notin Functions \/ c \in Faulty)
    BY <1>5 DEF SendFdFails
  <2>2. target = req[c].fn
    BY <2>1 DEF PathInv, RouteInv
  <2>3. req[c].fn \in Functions
    BY <1>2 DEF Servable
  <2> QED BY <2>1, <2>2, <2>3, <1>2
<1> QED BY <1>3, <1>4, <1>5

(* The headers of a servable request fit. *)
LEMMA HeadersFit ==
  ASSUME Inv, NEW w \in Functions, pc[w] = "headers", conn[w] \in Conns, Servable(conn[w])
  PROVE  Len(buf[w]) < req[conn[w]].hdr + 2
<1> DEFINE c == conn[w]
<1>1. req[c] \in Request /\ req[c].line = "whole" /\ req[c].hdr \in Nat
  BY SentType DEF Inv, Servable, Request
<1>2. buf[w] \in Seq(Token) /\ Len(buf[w]) \in Nat
  BY ProcFacts DEF Inv, TypeInv, TypeOK
<1>3. PICK off \in [0..Len(sent[c]) -> Nat] : ReadAt(w, c, off)
  BY DEF Inv, StreamInv, Stream
<1>4. NoEnd(buf[w]) /\ \A k \in 1..Len(buf[w]) : buf[w][k] = Plaintext(req[c])[k]
  BY <1>3 DEF ReadAt
<1>5. EndAt(req[c]) = req[c].hdr + 2 /\ Plaintext(req[c])[EndAt(req[c])] = "end"
  BY <1>1, PlaintextMarks
<1>6. req[c].hdr + 2 \notin 1..Len(buf[w])
  BY <1>4, <1>5 DEF NoEnd
<1> QED BY <1>1, <1>2, <1>6

LEMMA WorkerKeeps ==
  ASSUME Inv, PathInv, NEW w \in Functions,
         Refuse(w) \/ RestoreFails(w) \/ HeadersTooLong(w) \/ ReadFails(w) \/ RespondFails(w)
  PROVE  ~Straight(conn[w])
<1> SUFFICES ASSUME Straight(conn[w]) PROVE FALSE
  OBVIOUS
<1> DEFINE c == conn[w]
<1>1. w \in Procs /\ pc[w] # "accept"
  BY ProcFacts DEF Refuse, RestoreFails, HeadersTooLong, ReadFails, RespondFails
<1>2. /\ c \in Conns /\ c \notin Faulty /\ Servable(c) /\ client[c] # "gone"
      /\ Arrived(c) \in Int /\ Len(sent[c]) \in Nat /\ seq[w] = 0
      /\ Arrived(c) <= Len(sent[c])
      /\ pc[w] \in BeforeRead => consumed[c] = 0
  BY <1>1, StraightPresent
<1>3. CASE Refuse(w)
  <2>1. pc[w] = "verify" /\ RequestOwner(c, seq[w]) # w
    BY <1>3 DEF Refuse
  <2>2. consumed[c] = 0 /\ Arrived(c) > 0
    BY <2>1, <1>1, <1>2 DEF BeforeRead, Inv, UseInv
  <2>3. PeekDecrypts(c, seq[w]) /\ sent[c] # <<>>
    BY <2>2, <1>2 DEF PeekDecrypts
  <2>4. Peeked(c)[1] = "line" /\ req[c].line = "whole" /\ req[c].fn \in WorkerNames
    BY <2>2, <2>3, <1>2, PeeksLine DEF Servable
  <2>5. req[c].fn = w
    BY <2>1 DEF PathInv, RouteInv
  <2> QED BY <2>1, <2>3, <2>4, <2>5 DEF RequestOwner
<1>4. CASE RestoreFails(w)
  BY <1>2, <1>4 DEF RestoreFails
<1>5. CASE HeadersTooLong(w)
  <2>1. pc[w] = "headers" /\ Len(buf[w]) = BufSize
    BY <1>5 DEF HeadersTooLong
  <2>2. Len(buf[w]) < req[c].hdr + 2 /\ req[c].hdr + 2 <= BufSize
    BY <2>1, <1>2, HeadersFit DEF Servable
  <2>3. BufSize \in Nat /\ req[c].hdr \in Nat
    BY <1>2, SentType, InitialConstants DEF Inv, Request
  <2> QED BY <2>1, <2>2, <2>3
<1>6. CASE ReadFails(w) \/ RespondFails(w)
  BY <1>2, <1>6 DEF ReadFails, RespondFails
<1> QED BY <1>3, <1>4, <1>5, <1>6

(* A servable request stays one. *)
LEMMA StraightKept ==
  ASSUME req' = req, NEW c PROVE Straight(c)' = Straight(c)
BY DEF Straight, Servable, WellFramed

(* An open connection has not been answered or reset. *)
LEMMA OpenUntouched ==
  ASSUME Inv, NEW c \in Conns, Open(c)
  PROVE  resp[c] = <<>> /\ c \notin reset
<1>1. TypeInv /\ OwnInv /\ UseInv
  BY DEF Inv
<1>2. CASE c \in backlog
  BY <1>1, <1>2 DEF UseInv, Untouched
<1>3. CASE \E p \in Procs : conn[p] = c
  BY <1>1, <1>3 DEF UseInv
<1>4. CASE \E w \in Functions : \E i \in DOMAIN uds[w] : uds[w][i].conn = c
  BY <1>1, <1>4 DEF UseInv, Untouched
<1> QED BY <1>1, <1>2, <1>3, <1>4, OpenPlaces

LEMMA ClientPath ==
  ASSUME Inv, PathInv, NEW c \in Conns, ClientStep(c)
  PROVE  PathInv' /\ Held
<1>1. /\ UNCHANGED <<req, resp, uds, pc, conn, fds, target>>
      /\ backlog' = backlog \/ Connect(c)
  BY ClientEffect DEF Inv, localVars
<1>2. \A d : Straight(d)' = Straight(d)
  BY <1>1, StraightKept
<1>3. RouteInv'
  BY <1>1, <1>2 DEF PathInv, RouteInv
<1>o. ASSUME NEW d, Open(d) PROVE Open(d)'
  BY <1>1, <1>o DEF Open, InTransit, Connect
<1>h. Held
  BY <1>o DEF Held, HeldOn
<1>p. ASSUME NEW d, d # c, Open(d)' PROVE Open(d)
  BY <1>1, <1>p DEF Open, InTransit, Connect
<1>4. CASE Connect(c) \/ Hello(c) \/ IssueRequest(c)
  <2>1. /\ client'[c] # "gone" /\ \A d \in Conns \ {c} : client'[d] = client[d]
        /\ UNCHANGED got
    BY <1>4 DEF Connect, Hello, IssueRequest, Inv, TypeInv, TypeOK
  <2>2. ServedInv'
    BY <2>1, <1>1, <1>2, <1>p DEF PathInv, ServedInv
  <2> QED BY <1>3, <1>h, <2>2 DEF PathInv
<1>5. ASSUME NEW k \in 1..Len(todo[c]), NEW cut \in BOOLEAN, SendRecord(c, k, cut)
      PROVE  PathInv'
  <2>1. UNCHANGED <<client, backlog, got>>
    BY <1>5 DEF SendRecord
  <2>2. Open(c)' = Open(c)
    BY <1>1, <2>1 DEF Open, InTransit
  <2>3. ServedInv'
    BY <2>1, <2>2, <1>1, <1>2, <1>p DEF PathInv, ServedInv
  <2> QED BY <1>3, <2>3 DEF PathInv
<1>6. CASE RestArrives(c) \/ ReadResponse(c)
  <2>1. /\ UNCHANGED <<client, backlog>>
        /\ \A d \in got' : d \in got \/ resp[d] # <<>>
    BY <1>6 DEF RestArrives, ReadResponse, serverVars
  <2>2. Open(c)' = Open(c)
    BY <1>1, <2>1 DEF Open, InTransit
  <2>3. ServedInv'
    BY <2>1, <2>2, <1>1, <1>2, <1>p DEF PathInv, ServedInv
  <2> QED BY <1>3, <1>h, <2>3 DEF PathInv
<1>7. CASE ClientClose(c)
  <2>1. /\ client' = [client EXCEPT ![c] = "gone"]
        /\ c \in Faulty \cup got \cup reset \/ (~Open(c) /\ resp[c] = <<>>)
        /\ UNCHANGED <<got, backlog>>
    BY <1>7 DEF ClientClose, serverVars
  <2>2. client'[c] = "gone" /\ \A d \in Conns \ {c} : client'[d] = client[d]
    BY <2>1 DEF Inv, TypeInv, TypeOK
  <2>3. Open(c)' = Open(c)
    BY <1>1, <2>1 DEF Open, InTransit
  <2>4. Straight(c) => ~Open(c)
    BY <2>1, OpenUntouched DEF Straight, PathInv, ServedInv
  <2>5. ServedInv'
    BY <2>1, <2>2, <2>3, <2>4, <1>1, <1>2, <1>p DEF PathInv, ServedInv
  <2> QED BY <1>3, <1>h, <2>5 DEF PathInv
<1> QED BY <1>4, <1>5, <1>6, <1>7, <1>h DEF ClientStep

(* A server's step keeps what the clients see of a straight connection: it  *)
(* opens none.                                                              *)
LEMMA ServedKept ==
  ASSUME Inv, PathInv, UNCHANGED <<req, got>>,
         \A c \in Conns : client'[c] = "gone" <=> client[c] = "gone",
         \A c \in Conns : resp[c] # <<>> => resp'[c] # <<>>,
         \A c \in Conns : Open(c)' => Open(c)
  PROVE  ServedInv'
<1>1. \A d : Straight(d)' = Straight(d)
  BY StraightKept
<1>2. got \subseteq Conns
  BY DEF Inv, TypeInv, TypeOK
<1> QED BY <1>1, <1>2 DEF PathInv, ServedInv

(* The requests stay what they are. *)
LEMMA RequestFixed == ASSUME [Next]_vars PROVE req' = req
BY DEF Next, ClientStep, Connect, Hello, IssueRequest, RestArrives, ReadResponse,
       ClientClose, SendRecord, GatewayStep, Accept, Handshake, HandshakeFails,
       PeekAndExport, PeekAndExportFails, SendFd, SendFdFails, WorkerStep, RecvFd,
       RecvFdFails, Verify, Refuse, Restore, RestoreFails, ReadHeaders, HeadersTooLong,
       ReadBody, ReadFails, Respond, RespondFails, CloseConn, vars, clientVars

(* p closes a connection that is not straight, answers it or gives it up. *)
LEMMA ClosePath ==
  ASSUME Inv, PathInv, NEW p \in Procs, conn[p] \in Conns,
         Close(p, conn[p]), Idle(p), UNCHANGED <<clientVars, backlog, uds>>,
         \A c \in Conns \ {conn[p]} : resp'[c] = resp[c],
         resp[conn[p]] # <<>> => resp'[conn[p]] # <<>>,
         Straight(conn[p]) => resp'[conn[p]] # <<>> \/ GivenUp(conn[p])
  PROVE  PathInv' /\ Held
<1>1. /\ pc'[p] = "accept" /\ \A q \in Procs \ {p} : pc'[q] = pc[q] /\ conn'[q] = conn[q]
      /\ p # Gateway => target' = target
      /\ \A q \in Procs \ {p} : fds'[q] = fds[q]
      /\ fds'[p] = fds[p] \ {conn[p]}
  BY DEF Idle, Close, Inv, TypeInv, TypeOK
<1>2. UNCHANGED <<client, req, partial, got>>
  BY DEF clientVars
<1>3. \A d : Straight(d)' = Straight(d)
  BY <1>2, StraightKept
<1>4. RouteInv'
  <2>1. pc'[Gateway] = "send" /\ Straight(conn[Gateway])' => target' = req'[conn'[Gateway]].fn
    BY <1>1, <1>2, <1>3, ProcFacts DEF PathInv, RouteInv
  <2>2. \A w \in Functions : pc'[w] = "verify" /\ Straight(conn[w])' => req'[conn'[w]].fn = w
    BY <1>1, <1>2, <1>3, ProcFacts DEF PathInv, RouteInv
  <2> QED BY <2>1, <2>2, <1>2, <1>3 DEF PathInv, RouteInv
<1>5. ASSUME NEW c \in Conns PROVE HeldOn(c)
  <2>1. CASE c = conn[p]
    BY <2>1 DEF HeldOn
  <2>2. CASE c # conn[p]
    BY <2>2, <1>1 DEF HeldOn, Open, InTransit
  <2> QED BY <2>1, <2>2
<1>6. \A c \in Conns : Open(c)' => Open(c)
  BY <1>1 DEF Open, InTransit
<1>7. ServedInv'
  BY <1>2, <1>6, ServedKept
<1> QED BY <1>4, <1>5, <1>7 DEF PathInv, Held

LEMMA GatewayPath ==
  ASSUME Inv, PathInv, GatewayStep
  PROVE  PathInv' /\ Held
<1> USE ProcFacts
<1>1. CASE HandshakeFails \/ PeekAndExportFails \/ SendFdFails
  <2>1. /\ CloseConn(Gateway) /\ pc[Gateway] # "accept"
        /\ Straight(conn[Gateway]) => GivenUp(conn[Gateway])
    BY <1>1, GatewayKeeps DEF HandshakeFails, PeekAndExportFails, SendFdFails
  <2>2. conn[Gateway] \in Conns
    BY <2>1, HasConn DEF Inv
  <2> QED BY <2>1, <2>2, ClosePath DEF CloseConn
<1>2. ASSUME NEW c \in Conns, Accept(c) PROVE PathInv' /\ Held
  <2>1. /\ pc[Gateway] = "accept" /\ c \in backlog /\ backlog' = backlog \ {c} /\ UNCHANGED <<clientVars, resp, uds, target>>
        /\ pc' = [pc EXCEPT ![Gateway] = "handshake"]
        /\ conn' = [conn EXCEPT ![Gateway] = c]
        /\ fds' = [fds EXCEPT ![Gateway] = fds[Gateway] \cup {c}]
    BY <1>2 DEF Accept
  <2>2. /\ pc'[Gateway] = "handshake" /\ \A w \in Functions : pc'[w] = pc[w] /\ conn'[w] = conn[w]
        /\ fds'[Gateway] = fds[Gateway] \cup {c} /\ \A w \in Functions : fds'[w] = fds[w]
    BY <2>1 DEF Inv, TypeInv, TypeOK
  <2>3. \A d : Straight(d)' = Straight(d)
    BY <2>1, StraightKept DEF clientVars
  <2>4. RouteInv'
    BY <2>1, <2>2, <2>3 DEF PathInv, RouteInv, clientVars
  <2>5. \A d \in Conns : Open(d)' <=> Open(d)
    BY <2>1, <2>2 DEF Open, InTransit
  <2>6. ServedInv'
    BY <2>1, <2>5, ServedKept DEF clientVars
  <2> QED BY <2>4, <2>5, <2>6 DEF PathInv, Held, HeldOn
<1>3. CASE Handshake
  <2>1. /\ client[conn[Gateway]] = "hello" /\ client' = [client EXCEPT ![conn[Gateway]] = "secure"]
        /\ pc' = [pc EXCEPT ![Gateway] = "peek"]
        /\ UNCHANGED <<req, partial, got, resp, backlog, uds, conn, fds, target>>
    BY <1>3 DEF Handshake
  <2>2. pc'[Gateway] = "peek" /\ \A w \in Functions : pc'[w] = pc[w]
    BY <2>1 DEF Inv, TypeInv, TypeOK
  <2>3. \A d : Straight(d)' = Straight(d)
    BY <2>1, StraightKept
  <2>4. RouteInv'
    BY <2>1, <2>2, <2>3 DEF PathInv, RouteInv
  <2>5. \A d \in Conns : /\ Open(d)' <=> Open(d)
                         /\ client'[d] = "gone" <=> client[d] = "gone"
    BY <2>1 DEF Open, InTransit, Inv, TypeInv, TypeOK
  <2>6. ServedInv'
    BY <2>1, <2>5, ServedKept
  <2> QED BY <2>4, <2>5, <2>6 DEF PathInv, Held, HeldOn
<1>4. ASSUME NEW f \in Names, PeekAndExport(f) PROVE PathInv' /\ Held
  <2> DEFINE c == conn[Gateway]
  <2>1. /\ pc[Gateway] = "peek" /\ PeekDecrypts(c, seq[Gateway])
        /\ f \in ParsedNames(c) \ {NoName}
        /\ pc' = [pc EXCEPT ![Gateway] = "send"] /\ target' = f
        /\ UNCHANGED <<clientVars, resp, backlog, uds, conn, fds>>
    BY <1>4 DEF PeekAndExport
  <2>2. pc'[Gateway] = "send" /\ \A w \in Functions : pc'[w] = pc[w]
    BY <2>1 DEF Inv, TypeInv, TypeOK
  <2>3. \A d : Straight(d)' = Straight(d)
    BY <2>1, StraightKept DEF clientVars
  <2>4. Straight(c) => f = req[c].fn
    <3> SUFFICES ASSUME Straight(c) PROVE f = req[c].fn
      OBVIOUS
    <3>1. /\ c \in Conns /\ Servable(c) /\ consumed[c] = 0
          /\ Arrived(c) \in Int /\ Arrived(c) <= Len(sent[c]) /\ Len(sent[c]) \in Nat
      BY <2>1, StraightPresent DEF BeforeRead, GatewayPCs
    <3>2. 0 < Len(sent[c])
      BY <2>1, <3>1 DEF PeekDecrypts
    <3>3. sent[c] # <<>>
      BY <3>2
    <3> QED BY <2>1, <3>1, <3>3, StraightNames
  <2>5. RouteInv'
    BY <2>1, <2>2, <2>3, <2>4 DEF PathInv, RouteInv, clientVars
  <2>6. \A d \in Conns : Open(d)' <=> Open(d)
    BY <2>1 DEF Open, InTransit
  <2>7. ServedInv'
    BY <2>1, <2>6, ServedKept DEF clientVars
  <2> QED BY <2>5, <2>6, <2>7 DEF PathInv, Held, HeldOn
<1>5. CASE SendFd
  <2>0. PICK c \in Conns : c = conn[Gateway]
    BY <1>5, HasConn DEF SendFd, Inv
  <2> DEFINE m == [conn |-> c, seq |-> seq[Gateway]]
  <2>1. /\ pc[Gateway] = "send" /\ target \in Functions
        /\ uds' = [uds EXCEPT ![target] = Append(uds[target], m)]
        /\ fds' = [fds EXCEPT ![Gateway] = fds[Gateway] \ {c}]
        /\ pc' = [pc EXCEPT ![Gateway] = "accept"] /\ conn' = [conn EXCEPT ![Gateway] = NoConn]
        /\ UNCHANGED <<clientVars, resp, backlog>>
    BY <1>5, <2>0 DEF SendFd, Idle
  <2>2. /\ pc'[Gateway] = "accept" /\ \A w \in Functions : pc'[w] = pc[w] /\ conn'[w] = conn[w]
        /\ fds'[Gateway] = fds[Gateway] \ {c} /\ \A w \in Functions : fds'[w] = fds[w]
        /\ \A w \in Functions \ {target} : uds'[w] = uds[w]
        /\ uds'[target] = Append(uds[target], m) /\ uds[target] \in Seq(Msg)
    BY <2>1 DEF Inv, TypeInv, TypeOK
  <2>3. c \in Conns /\ m \in Msg /\ m.conn = c
    BY <2>0 DEF Inv, TypeInv, TypeOK, Msg
  <2>4. \A d : Straight(d)' = Straight(d)
    BY <2>1, StraightKept DEF clientVars
  <2>5. Straight(c) => req[c].fn = target
    BY <2>0, <2>1 DEF PathInv, RouteInv
  <2>k. UNCHANGED <<req, partial, got, client, resp, backlog>>
    BY <2>1 DEF clientVars
  <2> HIDE DEF m
  <2>6. /\ \A i \in DOMAIN uds'[target] : \/ i \in DOMAIN uds[target] /\ uds'[target][i] = uds[target][i]
                                          \/ uds'[target][i] = m
        /\ \A i \in DOMAIN uds[target] : i \in DOMAIN uds'[target] /\ uds'[target][i] = uds[target][i]
        /\ \E i \in DOMAIN uds'[target] : uds'[target][i] = m
    <3>1. /\ \A i \in DOMAIN Append(uds[target], m) :
               \/ i \in DOMAIN uds[target] /\ Append(uds[target], m)[i] = uds[target][i]
               \/ Append(uds[target], m)[i] = m
          /\ \A i \in DOMAIN uds[target] :
               i \in DOMAIN Append(uds[target], m) /\ Append(uds[target], m)[i] = uds[target][i]
          /\ Append(uds[target], m)[Len(uds[target]) + 1] = m
          /\ Len(uds[target]) + 1 \in DOMAIN Append(uds[target], m)
      BY ONLY <2>2, <2>3
    <3> QED BY <3>1, <2>2
  <2>7. \A w \in Functions : \A i \in DOMAIN uds'[w] :
          Straight(uds[w][i].conn)' => req'[uds'[w][i].conn].fn = w
    <3> SUFFICES ASSUME NEW w \in Functions, NEW i \in DOMAIN uds'[w],
                        Straight(uds'[w][i].conn)
                 PROVE  req[uds'[w][i].conn].fn = w
      BY <2>4, <2>k
    <3>1. CASE i \in DOMAIN uds[w] /\ uds'[w][i] = uds[w][i]
      BY <3>1 DEF PathInv, RouteInv
    <3>2. CASE w = target /\ uds'[w][i] = m
      BY <3>2, <2>3, <2>5
    <3> QED BY <3>1, <3>2, <2>2, <2>6
  <2>8. RouteInv'
    BY <2>2, <2>4, <2>7, <2>k DEF PathInv, RouteInv
  <2>9. ASSUME NEW d \in Conns, Open(d) PROVE Open(d)'
    <3>1. InTransit(d) => InTransit(d)'
      BY <2>1, <2>2, <2>6 DEF InTransit
    <3>2. InTransit(c)'
      BY <2>1, <2>3, <2>6 DEF InTransit
    <3>3. CASE d = c
      BY <3>2, <3>3 DEF Open
    <3>4. CASE d # c
      <4>1. \A p \in Procs : d \in fds[p] => d \in fds'[p]
        BY <3>4, <2>2
      <4> QED BY <3>1, <4>1, <2>9, <2>k DEF Open
    <3> QED BY <3>3, <3>4
  <2>o. c \in fds[Gateway]
    BY <2>0, <2>3, InitialConstants DEF Inv, OwnInv
  <2>p. ASSUME NEW d \in Conns, Open(d)' PROVE Open(d)
    <3>1. InTransit(d)' => InTransit(d) \/ d = c
      BY <2>2, <2>3, <2>6 DEF InTransit
    <3> QED BY <3>1, <2>2, <2>k, <2>o, <2>p DEF Open
  <2>10. ServedInv'
    BY <2>p, <2>k, ServedKept
  <2> QED BY <2>8, <2>9, <2>10 DEF PathInv, Held, HeldOn
<1> QED BY <1>1, <1>2, <1>3, <1>4, <1>5 DEF GatewayStep

LEMMA WorkerPath ==
  ASSUME Inv, PathInv, NEW w \in Functions, WorkerStep(w)
  PROVE  PathInv' /\ Held
<1> USE ProcFacts
<1>1. CASE RecvFd(w) \/ RecvFdFails(w)
  <2> DEFINE c == Head(uds[w]).conn
  <2>1. /\ uds[w] # <<>> /\ uds' = [uds EXCEPT ![w] = Tail(uds[w])]
        /\ UNCHANGED <<clientVars, resp, backlog, target>>
        /\ \/ /\ pc' = [pc EXCEPT ![w] = "verify"] /\ conn' = [conn EXCEPT ![w] = c]
              /\ fds' = [fds EXCEPT ![w] = fds[w] \cup {c}]
           \/ c \in Faulty /\ UNCHANGED <<pc, conn, fds>>
    BY <1>1 DEF RecvFd, RecvFdFails, localVars
  <2>2. uds[w] \in Seq(Msg) /\ uds'[w] = Tail(uds[w]) /\ \A v \in Functions \ {w} : uds'[v] = uds[v]
    BY <2>1 DEF Inv, TypeInv, TypeOK
  <2>3. /\ 1 \in DOMAIN uds[w] /\ Head(uds[w]) = uds[w][1]
        /\ \A i \in DOMAIN Tail(uds[w]) : i + 1 \in DOMAIN uds[w] /\ Tail(uds[w])[i] = uds[w][i + 1]
        /\ \A i \in DOMAIN uds[w] : i = 1 \/ (i - 1 \in DOMAIN Tail(uds[w]) /\ Tail(uds[w])[i - 1] = uds[w][i])
    BY <2>1, <2>2, TailMsg
  <2>4. Straight(c) => req[c].fn = w
    BY <2>3 DEF PathInv, RouteInv
  <2>5. c = uds[w][1].conn
    BY <2>3
  <2>k. UNCHANGED <<req, partial, got, client>>
    BY <2>1 DEF clientVars
  <2>6. \A d : Straight(d)' = Straight(d)
    BY <2>k, StraightKept
  <2> HIDE DEF c
  <2>7. \A v \in Functions : \A i \in DOMAIN uds'[v] :
          Straight(uds[v][i].conn)' => req'[uds'[v][i].conn].fn = v
    <3> SUFFICES ASSUME NEW v \in Functions, NEW i \in DOMAIN uds'[v],
                        Straight(uds'[v][i].conn)
                 PROVE  req[uds'[v][i].conn].fn = v
      BY <2>6, <2>k
    <3>1. PICK j \in DOMAIN uds[v] : uds'[v][i] = uds[v][j]
      <4>1. CASE v = w
        BY <4>1, <2>2, <2>3
      <4>2. CASE v # w
        BY <4>2, <2>2
      <4> QED BY <4>1, <4>2
    <3> QED BY <3>1 DEF PathInv, RouteInv
  <2>t. ASSUME NEW d \in Conns, InTransit(d)' PROVE InTransit(d)
    <3>1. ASSUME NEW v \in Functions, NEW i \in DOMAIN uds'[v], uds'[v][i].conn = d
          PROVE  \E j \in DOMAIN uds[v] : uds[v][j].conn = d
      <4>1. CASE v = w
        BY <4>1, <3>1, <2>2, <2>3
      <4>2. CASE v # w
        BY <4>2, <3>1, <2>2
      <4> QED BY <4>1, <4>2
    <3> QED BY <3>1, <2>t DEF InTransit
  <2>8. CASE /\ pc' = [pc EXCEPT ![w] = "verify"] /\ conn' = [conn EXCEPT ![w] = c]
             /\ fds' = [fds EXCEPT ![w] = fds[w] \cup {c}]
    <3>1. /\ conn'[w] = c /\ c \in fds'[w]
          /\ \A q \in Procs \ {w} : pc'[q] = pc[q] /\ conn'[q] = conn[q]
          /\ \A q \in Procs : fds[q] \subseteq fds'[q]
      BY <2>8 DEF Inv, TypeInv, TypeOK
    <3>2. pc'[Gateway] = "send" /\ Straight(conn[Gateway])' => target' = req'[conn'[Gateway]].fn
      BY <3>1, <2>1, <2>6, <2>k DEF PathInv, RouteInv
    <3>3. \A v \in Functions : pc'[v] = "verify" /\ Straight(conn[v])' => req'[conn'[v]].fn = v
      BY <3>1, <2>4, <2>6, <2>k DEF PathInv, RouteInv
    <3>4. RouteInv'
      BY <2>7, <3>2, <3>3 DEF RouteInv
    <3>5. ASSUME NEW d \in Conns, Open(d) PROVE Open(d)'
      <4>1. CASE d = c
        BY <4>1, <3>1 DEF Open
      <4>2. CASE d # c
        <5>1. InTransit(d) => InTransit(d)'
          <6>1. ASSUME NEW v \in Functions, NEW i \in DOMAIN uds[v], uds[v][i].conn = d
                PROVE  \E j \in DOMAIN uds'[v] : uds'[v][j].conn = d
            <7>1. CASE v = w
              <8>1. i # 1
                BY <7>1, <6>1, <4>2, <2>5
              <8>2. i - 1 \in DOMAIN uds'[v] /\ uds'[v][i - 1].conn = d
                BY <7>1, <8>1, <6>1, <2>2, <2>3
              <8> QED BY <8>2
            <7>2. CASE v # w
              BY <7>2, <6>1, <2>2
            <7> QED BY <7>1, <7>2
          <6> QED BY <6>1 DEF InTransit
        <5> QED BY <5>1, <3>1, <3>5, <2>1 DEF Open
      <4> QED BY <4>1, <4>2
    <3>o. InTransit(c)
      BY <2>3, <2>5 DEF InTransit
    <3>6. ASSUME NEW d \in Conns, Open(d)' PROVE Open(d)
      <4>1. CASE d = c
        BY <4>1, <3>o DEF Open
      <4>2. CASE d # c
        <5>1. \A q \in Procs : d \in fds'[q] => d \in fds[q]
          BY <4>2, <2>8 DEF Inv, TypeInv, TypeOK
        <5> QED BY <5>1, <3>6, <2>t, <2>1 DEF Open
      <4> QED BY <4>1, <4>2
    <3>7. ServedInv'
      BY <3>6, <2>1, <2>k, ServedKept
    <3> QED BY <3>4, <3>5, <3>7 DEF PathInv, Held, HeldOn
  <2>9. CASE c \in Faulty /\ UNCHANGED <<pc, conn, fds>>
    <3>1. RouteInv'
      BY <2>9, <2>1, <2>6, <2>7, <2>k DEF PathInv, RouteInv
    <3>2. ASSUME NEW d \in Conns, Straight(d), Open(d) PROVE Open(d)'
      <4>1. d # c
        BY <3>2, <2>9 DEF Straight
      <4>2. InTransit(d) => InTransit(d)'
        <5>1. ASSUME NEW v \in Functions, NEW i \in DOMAIN uds[v], uds[v][i].conn = d
              PROVE  \E j \in DOMAIN uds'[v] : uds'[v][j].conn = d
          <6>1. CASE v = w
            <7>1. i # 1
              BY <6>1, <5>1, <4>1, <2>5
            <7>2. i - 1 \in DOMAIN uds'[v] /\ uds'[v][i - 1].conn = d
              BY <6>1, <7>1, <5>1, <2>2, <2>3
            <7> QED BY <7>2
          <6>2. CASE v # w
            BY <6>2, <5>1, <2>2
          <6> QED BY <6>1, <6>2
        <5> QED BY <5>1 DEF InTransit
      <4> QED BY <4>2, <3>2, <2>1, <2>9 DEF Open
    <3>o. ASSUME NEW d \in Conns, Open(d)' PROVE Open(d)
      BY <3>o, <2>t, <2>1, <2>9 DEF Open
    <3>3. ServedInv'
      BY <3>o, <2>1, <2>k, ServedKept
    <3> QED BY <3>1, <3>2, <3>3 DEF PathInv, Held, HeldOn
  <2> QED BY <2>1, <2>8, <2>9
<1>2. CASE Verify(w) \/ Restore(w) \/ ReadHeaders(w) \/ ReadBody(w)
  <2>1. /\ pc' = [pc EXCEPT ![w] = pc'[w]] /\ pc'[w] # "verify"
        /\ UNCHANGED <<clientVars, resp, backlog, uds, conn, fds, target>>
    BY <1>2 DEF Verify, Restore, ReadHeaders, ReadBody, Inv, TypeInv, TypeOK
  <2>2. \A q \in Procs \ {w} : pc'[q] = pc[q]
    BY <2>1 DEF Inv, TypeInv, TypeOK
  <2>k. UNCHANGED <<req, partial, got, client>>
    BY <2>1 DEF clientVars
  <2>3. \A d : Straight(d)' = Straight(d)
    BY <2>k, StraightKept
  <2>4. RouteInv'
    BY <2>1, <2>2, <2>3, <2>k DEF PathInv, RouteInv
  <2>5. \A d \in Conns : Open(d)' <=> Open(d)
    BY <2>1 DEF Open, InTransit
  <2>6. ServedInv'
    BY <2>1, <2>5, <2>k, ServedKept
  <2> QED BY <2>4, <2>5, <2>6 DEF PathInv, Held, HeldOn
<1>3. CASE Refuse(w) \/ RestoreFails(w) \/ HeadersTooLong(w) \/ ReadFails(w) \/ RespondFails(w)
  <2>1. CloseConn(w) /\ pc[w] # "accept" /\ ~Straight(conn[w])
    BY <1>3, WorkerKeeps DEF Refuse, RestoreFails, HeadersTooLong, ReadFails, RespondFails
  <2>2. conn[w] \in Conns
    BY <2>1, HasConn DEF Inv
  <2> QED BY <2>1, <2>2, ClosePath DEF CloseConn
<1>4. CASE Respond(w)
  <2>1. /\ pc[w] = "respond" /\ resp' = [resp EXCEPT ![conn[w]] = Append(resp[conn[w]], w)]
        /\ Close(w, conn[w]) /\ Idle(w) /\ UNCHANGED <<clientVars, backlog, uds>>
    BY <1>4 DEF Respond
  <2>2. conn[w] \in Conns
    BY <2>1, HasConn DEF Inv
  <2>3. resp[conn[w]] \in Seq(Functions) /\ resp'[conn[w]] = Append(resp[conn[w]], w)
    BY <2>1, <2>2 DEF Inv, TypeInv, TypeOK
  <2>4. resp'[conn[w]] # <<>>
    BY <2>3
  <2>5. \A d \in Conns \ {conn[w]} : resp'[d] = resp[d]
    BY <2>1 DEF Inv, TypeInv, TypeOK
  <2> QED BY <2>1, <2>2, <2>4, <2>5, ClosePath
<1> QED BY <1>1, <1>2, <1>3, <1>4 DEF WorkerStep

LEMMA InitPath == Init => PathInv
BY ProcFacts DEF Init, PathInv, RouteInv, ServedInv

LEMMA PathStep ==
  ASSUME Inv, PathInv, [Next]_vars
  PROVE  PathInv' /\ Held
<1>1. CASE UNCHANGED vars
  <2>1. \A d : Straight(d)' = Straight(d) /\ Open(d)' = Open(d)
    BY <1>1, StraightKept DEF vars, clientVars, serverVars, localVars, Open, InTransit
  <2>2. PathInv'
    BY <1>1, <2>1 DEF PathInv, RouteInv, ServedInv, vars, clientVars, serverVars, localVars
  <2> QED BY <2>1, <2>2 DEF Held, HeldOn
<1> QED BY <1>1, ClientPath, GatewayPath, WorkerPath DEF Next

LEMMA PathInvariant == Spec => []PathInv
<1>1. Init => PathInv
  BY InitPath
<1>2. Inv /\ PathInv /\ [Next]_vars => PathInv'
  BY PathStep
<1> QED BY <1>1, <1>2, Invariant, PTL DEF Spec

(* An open connection with a servable request of a client that behaves      *)
(* stays open until the function it names has answered, with nothing that   *)
(* could reset the answer away; or the gateway, in its peek, closes it with *)
(* only a part of the first record there.                                   *)
ServableKept(c) ==
  Servable(c) /\ Open(c) =>
    \/ Open(c)'
    \/ resp'[c] = <<req[c].fn>> /\ c \notin reset'
    \/ pc[Gateway] = "peek" /\ conn[Gateway] = c /\ FirstCut(c)

ServableAnswered == [][\A c \in Conns \ Faulty : ServableKept(c)]_vars

(***************************************************************************)
(* No process closes, refuses, misroutes or drops a servable request of a  *)
(* client that behaves, however it is cut into records and segments,       *)
(* however many other clients there are and whatever fails on their        *)
(* connections, but for the gateway's peek at a first record that is there *)
(* in part: tls_read_peek asks the kernel once.                            *)
(***************************************************************************)
THEOREM InitialServableAnswered == Spec => ServableAnswered
<1>1. ASSUME Inv, Inv', PathInv, [Next]_vars PROVE \A c \in Conns \ Faulty : ServableKept(c)
  <2> SUFFICES ASSUME NEW c \in Conns \ Faulty, Servable(c), Open(c), ~Open(c)'
               PROVE  \/ resp'[c] = <<req[c].fn>> /\ c \notin reset'
                      \/ pc[Gateway] = "peek" /\ conn[Gateway] = c /\ FirstCut(c)
    BY DEF ServableKept
  <2>1. resp'[c] # <<>> \/ GivenUp(c)
    BY <1>1, PathStep DEF Held, HeldOn, Straight
  <2>2. CASE GivenUp(c)
    BY <2>2 DEF GivenUp, PeekAndExportFails
  <2>3. CASE resp'[c] # <<>>
    <3>1. req' = req
      BY <1>1, RequestFixed
    <3>2. WellFramed(c)'
      BY <3>1 DEF Servable, WellFramed
    <3> QED BY <1>1, <2>3, <3>1, <3>2 DEF Inv, UseInv, AnswerInv
  <2> QED BY <2>1, <2>2, <2>3
<1>2. Inv /\ Inv' /\ PathInv /\ [Next]_vars
        => [\A c \in Conns \ Faulty : ServableKept(c)]_vars
  BY <1>1
<1> QED BY <1>2, Invariant, PathInvariant, PTL DEF Spec, ServableAnswered

-----------------------------------------------------------------------------
(* Nobody waits for nothing *)

(* What a client has done when a process may have its connection. *)
StageInv ==
  /\ \A c \in Conns : c \in backlog \/ (pc[Gateway] = "handshake" /\ conn[Gateway] = c) =>
       client[c] \in {"connected", "hello", "gone"}
  /\ \A c \in Conns : pc[Gateway] = "peek" /\ conn[Gateway] = c =>
       client[c] \in {"secure", "sending", "gone"}
  /\ \A c \in Conns : client[c] = "sending" => sent[c] # <<>> \/ todo[c] # <<>>

LEMMA ClientStage ==
  ASSUME Inv, StageInv, NEW c \in Conns, ClientStep(c)
  PROVE  StageInv'
<1>1. UNCHANGED <<pc, conn>>
  BY ClientEffect DEF Inv, localVars
<1>2. CASE Connect(c) \/ Hello(c) \/ ClientClose(c)
  <2>1. /\ \/ client'[c] \in {"connected", "gone"}
           \/ client[c] = "connected" /\ client'[c] = "hello"
        /\ \A d \in Conns \ {c} : client'[d] = client[d]
        /\ UNCHANGED <<sent, todo>>
        /\ backlog' = backlog \/ (backlog' = backlog \cup {c} /\ client'[c] = "connected")
    BY <1>2 DEF Connect, Hello, ClientClose, serverVars, Inv, TypeInv, TypeOK
  <2>2. client'[c] = "connected" => client[c] = "idle" /\ ~Open(c)
    BY <1>2 DEF Connect, Hello, ClientClose, Inv, TypeInv, TypeOK, UseInv
  <2>3. \A p \in Procs : conn[p] = c => Open(c)
    BY OpenPlaces DEF Inv
  <2>4. Gateway \in Procs
    BY ProcFacts
  <2>5. \A d \in Conns : d \in backlog' \/ (pc'[Gateway] = "handshake" /\ conn'[Gateway] = d) =>
          client'[d] \in {"connected", "hello", "gone"}
    BY <1>1, <2>1 DEF StageInv
  <2>6. \A d \in Conns : pc'[Gateway] = "peek" /\ conn'[Gateway] = d =>
          client'[d] \in {"secure", "sending", "gone"}
    BY <1>1, <2>1, <2>2, <2>3, <2>4 DEF StageInv
  <2>7. \A d \in Conns : client'[d] = "sending" => sent'[d] # <<>> \/ todo'[d] # <<>>
    BY <2>1 DEF StageInv
  <2> QED BY <2>5, <2>6, <2>7 DEF StageInv
<1>3. CASE RestArrives(c) \/ ReadResponse(c)
  BY <1>1, <1>3 DEF RestArrives, ReadResponse, serverVars, StageInv
<1>4. CASE IssueRequest(c)
  <2>1. /\ client[c] = "secure" /\ client'[c] = "sending" /\ todo'[c] = Plaintext(req[c])
        /\ \A d \in Conns \ {c} : client'[d] = client[d] /\ todo'[d] = todo[d]
        /\ UNCHANGED <<sent, backlog>>
    BY <1>4 DEF IssueRequest, serverVars, Inv, TypeInv, TypeOK
  <2>2. Plaintext(req[c]) # <<>>
    <3>1. EndAt(req[c]) \in 1..Len(Plaintext(req[c]))
      BY SentType, PlaintextShape DEF Inv
    <3> QED BY <3>1
  <2> QED BY <1>1, <2>1, <2>2 DEF StageInv
<1>5. ASSUME NEW k \in 1..Len(todo[c]), NEW cut \in BOOLEAN, SendRecord(c, k, cut)
      PROVE  StageInv'
  <2>1. /\ sent' = [sent EXCEPT ![c] = Append(sent[c], SubSeq(todo[c], 1, k))]
        /\ todo' = [todo EXCEPT ![c] = SubSeq(todo[c], k + 1, Len(todo[c]))]
        /\ UNCHANGED <<client, backlog>>
    BY <1>5 DEF SendRecord
  <2>2. /\ \A d \in Conns \ {c} : sent'[d] = sent[d] /\ todo'[d] = todo[d]
        /\ sent'[c] = Append(sent[c], SubSeq(todo[c], 1, k))
    BY <2>1 DEF Inv, TypeInv, TypeOK
  <2>3. sent'[c] # <<>>
    <3>1. sent[c] \in Seq(Seq(Token)) /\ todo[c] \in Seq(Token)
      BY SentType DEF Inv
    <3>2. SubSeq(todo[c], 1, k) \in Seq(Token)
      BY <3>1
    <3> QED BY <2>2, <3>1, <3>2, AppendRecord
  <2> QED BY <1>1, <2>1, <2>2, <2>3 DEF StageInv
<1> QED BY <1>2, <1>3, <1>4, <1>5 DEF ClientStep

LEMMA ServerStage ==
  ASSUME Inv, StageInv, GatewayStep \/ \E w \in Functions : WorkerStep(w)
  PROVE  StageInv'
<1> USE ProcFacts
<1>1. CASE HandshakeFails \/ PeekAndExportFails \/ SendFdFails \/ SendFd
  <2>1. /\ pc' = [pc EXCEPT ![Gateway] = "accept"] /\ UNCHANGED <<client, sent, todo, backlog>>
    BY <1>1 DEF HandshakeFails, PeekAndExportFails, SendFdFails, SendFd, CloseConn, Idle, clientVars
  <2>2. pc'[Gateway] = "accept"
    BY <2>1 DEF Inv, TypeInv, TypeOK
  <2> QED BY <2>1, <2>2 DEF StageInv
<1>2. ASSUME NEW c \in Conns, Accept(c) PROVE StageInv'
  <2>1. /\ c \in backlog /\ backlog' = backlog \ {c} /\ UNCHANGED <<client, sent, todo>>
        /\ pc'[Gateway] = "handshake" /\ conn'[Gateway] = c
    BY <1>2 DEF Accept, clientVars, Inv, TypeInv, TypeOK
  <2> QED BY <2>1 DEF StageInv
<1>3. CASE Handshake
  <2>1. /\ pc[Gateway] = "handshake" /\ pc'[Gateway] = "peek"
        /\ client' = [client EXCEPT ![conn[Gateway]] = "secure"]
        /\ UNCHANGED <<sent, todo, backlog, conn>>
    BY <1>3 DEF Handshake, Inv, TypeInv, TypeOK
  <2>2. conn[Gateway] \in Conns /\ conn[Gateway] \notin backlog
    BY <2>1, HasConn DEF Inv, OwnInv
  <2>3. /\ client'[conn[Gateway]] = "secure"
        /\ \A d \in Conns \ {conn[Gateway]} : client'[d] = client[d]
    BY <2>1, <2>2 DEF Inv, TypeInv, TypeOK
  <2> QED BY <2>1, <2>2, <2>3 DEF StageInv
<1>4. ASSUME NEW f \in Names, PeekAndExport(f) PROVE StageInv'
  <2>1. pc'[Gateway] = "send" /\ UNCHANGED <<client, sent, todo, backlog, conn>>
    BY <1>4 DEF PeekAndExport, clientVars, Inv, TypeInv, TypeOK
  <2> QED BY <2>1 DEF StageInv
<1>5. ASSUME NEW w \in Functions, WorkerStep(w) PROVE StageInv'
  <2>1. UNCHANGED <<client, sent, todo, backlog>>
    BY <1>5 DEF WorkerStep, RecvFd, RecvFdFails, Verify, Refuse, Restore, RestoreFails,
           ReadHeaders, HeadersTooLong, ReadBody, ReadFails, Respond, RespondFails, CloseConn,
           clientVars
  <2>2. pc'[Gateway] = pc[Gateway] /\ conn'[Gateway] = conn[Gateway]
    <3>1. CASE RecvFd(w) \/ RecvFdFails(w)
      BY <3>1 DEF RecvFd, RecvFdFails, localVars, Inv, TypeInv, TypeOK
    <3>2. CASE Verify(w) \/ Restore(w) \/ ReadHeaders(w) \/ ReadBody(w)
      BY <3>2 DEF Verify, Restore, ReadHeaders, ReadBody, Inv, TypeInv, TypeOK
    <3>3. CASE \/ Refuse(w) \/ RestoreFails(w) \/ HeadersTooLong(w) \/ ReadFails(w)
               \/ Respond(w) \/ RespondFails(w)
      <4>1. Idle(w)
        BY <3>3 DEF Refuse, RestoreFails, HeadersTooLong, ReadFails, Respond, RespondFails, CloseConn
      <4> QED BY <4>1 DEF Idle, Inv, TypeInv, TypeOK
    <3> QED BY <1>5, <3>1, <3>2, <3>3 DEF WorkerStep
  <2> QED BY <2>1, <2>2 DEF StageInv
<1> QED BY <1>1, <1>2, <1>3, <1>4, <1>5 DEF GatewayStep

LEMMA StageInvariant == Spec => []StageInv
<1>1. Init => StageInv
  BY ProcFacts DEF Init, StageInv
<1>2. Inv /\ StageInv /\ [Next]_vars => StageInv'
  <2> SUFFICES ASSUME Inv, StageInv, [Next]_vars PROVE StageInv'
    OBVIOUS
  <2>1. CASE UNCHANGED vars
    BY <2>1 DEF StageInv, vars, clientVars, serverVars, localVars
  <2> QED BY <2>1, ClientStage, ServerStage DEF Next
<1> QED BY <1>1, <1>2, Invariant, PTL DEF Spec

(* A client with nothing more to do until a server does something. *)
ClientWaits(c) ==
  \/ client[c] \in {"idle", "hello", "gone"}
  \/ client[c] = "sending" /\ todo[c] = <<>> /\ c \notin partial

(* The calls in which a process waits. *)
GatewayWaits ==
  \/ pc[Gateway] = "accept" /\ backlog = {}
  \/ pc[Gateway] = "handshake" /\ client[conn[Gateway]] \notin {"hello", "gone"}
  \/ pc[Gateway] = "peek" /\ ~PeekReturns(conn[Gateway])
  \/ pc[Gateway] = "send" /\ target \in Functions /\ Len(uds[target]) >= MaxQueue

WorkerWaits(w) ==
  \/ pc[w] = "accept" /\ uds[w] = <<>>
  \/ /\ pc[w] \in {"headers", "body"} /\ (pc[w] = "headers" => Len(buf[w]) < BufSize)
     /\ ~CanRead(w) /\ client[conn[w]] # "gone"

Quiet ==
  /\ \A c \in Conns : ClientWaits(c)
  /\ GatewayWaits
  /\ \A w \in Functions : WorkerWaits(w)

(* When everybody waits, no connection is held anywhere. *)
Settled == Quiet => \A c \in Conns : ~Open(c)

(* A worker that has read all there is of a request does not read again. *)
LEMMA NoEndlessRead ==
  ASSUME Inv, NEW w \in Functions, pc[w] \in {"headers", "body"},
         ~CanRead(w), client[conn[w]] # "gone"
  PROVE  ~ClientWaits(conn[w])
<1> SUFFICES ASSUME ClientWaits(conn[w]) PROVE FALSE
  OBVIOUS
<1> DEFINE c == conn[w]
           text == Plaintext(req[c])
<1>1. c \in Conns /\ w \in Procs
  BY ProcFacts, HasConn DEF Inv
<1>2. /\ Len(sent[c]) \in Nat /\ Len(todo[c]) \in Nat /\ consumed[c] \in Nat /\ req[c] \in Request
      /\ buf[w] \in Seq(Token) /\ Len(buf[w]) \in Nat /\ want[w] \in Nat
  <2>1. buf[w] \in Seq(Token) /\ want[w] \in Nat
    BY <1>1 DEF Inv, TypeInv, TypeOK
  <2>2. Len(buf[w]) \in Nat
    BY <2>1
  <2> QED BY <1>1, <2>1, <2>2, SentType DEF Inv
<1>3. sent[c] # <<>> /\ consumed[c] <= Len(sent[c])
  BY <1>1 DEF Inv, StreamInv, Stream
<1>4. client[c] = "sending" /\ todo[c] = <<>> /\ c \notin partial
  BY <1>1, <1>3 DEF ClientWaits, Inv, StreamInv, Stream
<1>5. PICK off \in [0..Len(sent[c]) -> Nat] : CutAt(c, off) /\ ReadAt(w, c, off)
  BY <1>1, <1>3 DEF Inv, StreamInv, Stream
<1>6. ssl[w].read = consumed[c] /\ ssl[w].pending = <<>>
  BY <1>5 DEF ReadAt, CanRead
<1>7. Arrived(c) = Len(sent[c])
  BY <1>1, <1>4, ArrivedBound DEF Inv
<1>8. ~(consumed[c] < Len(sent[c]))
  BY <1>6, <1>7 DEF CanRead, RecordReadable
<1>9. consumed[c] = Len(sent[c])
  BY <1>2, <1>3, <1>8
<1>10. Len(todo[c]) = 0 /\ Len(ssl[w].pending) = 0
  BY <1>4, <1>6
<1>11. /\ text \in Seq(Token) /\ Len(text) \in Nat /\ EndAt(req[c]) \in 1..Len(text)
  <2>1. text \in Seq(Token) /\ EndAt(req[c]) \in 1..Len(text)
    BY <1>2, PlaintextShape
  <2> QED BY <2>1
<1>12. off[Len(sent[c])] \in Nat /\ off[Len(sent[c])] + Len(todo[c]) = Len(text)
  <2>1. Len(sent[c]) \in 0..Len(sent[c])
    BY <1>2
  <2>2. off[Len(sent[c])] \in Nat
    BY <2>1
  <2> QED BY <2>2, <1>5 DEF CutAt
<1>13. off[consumed[c]] = Len(text) /\ off[consumed[c]] \in Nat
  BY <1>9, <1>10, <1>12
<1>14. CASE pc[w] = "body"
  <2>1. want[w] > 0 /\ want[w] + off[consumed[c]] <= Len(text) + Len(ssl[w].pending)
    BY <1>5, <1>14 DEF ReadAt
  <2> HIDE DEF c, text
  <2> QED BY ONLY <2>1, <1>2, <1>10, <1>11, <1>13
<1>15. CASE pc[w] = "headers"
  <2>1. /\ NoEnd(buf[w]) /\ Len(buf[w]) + Len(ssl[w].pending) = off[consumed[c]]
        /\ \A k \in 1..Len(buf[w]) : buf[w][k] = text[k]
    BY <1>5, <1>15 DEF ReadAt
  <2>2. Len(buf[w]) = Len(text)
    BY <2>1, <1>2, <1>10, <1>13
  <2>3. text[EndAt(req[c])] # "end"
    BY <2>1, <2>2, <1>11 DEF NoEnd
  <2> QED BY <2>3, <1>2, PlaintextMarks
<1> QED BY <1>14, <1>15

LEMMA QuietWorker ==
  ASSUME Inv, Quiet, NEW w \in Functions
  PROVE  pc[w] = "accept" /\ uds[w] = <<>>
<1>1. WorkerWaits(w)
  BY DEF Quiet
<1>2. CASE pc[w] \in {"headers", "body"} /\ ~CanRead(w) /\ client[conn[w]] # "gone"
  <2>1. conn[w] \in Conns
    BY <1>2, ProcFacts, HasConn DEF Inv
  <2> QED BY <1>2, <2>1, NoEndlessRead DEF Quiet
<1> QED BY <1>1, <1>2 DEF WorkerWaits

LEMMA QuietGateway ==
  ASSUME Inv, StageInv, Quiet
  PROVE  pc[Gateway] = "accept" /\ backlog = {}
<1> DEFINE c == conn[Gateway]
<1>1. GatewayWaits /\ \A d \in Conns : ClientWaits(d)
  BY DEF Quiet
<1>2. pc[Gateway] # "accept" => c \in Conns
  BY ProcFacts, HasConn DEF Inv
<1>3. pc[Gateway] # "handshake"
  BY <1>1, <1>2 DEF GatewayWaits, ClientWaits, StageInv
<1>4. pc[Gateway] # "peek"
  <2> SUFFICES ASSUME pc[Gateway] = "peek" PROVE FALSE
    OBVIOUS
  <2>1. c \in Conns /\ ~PeekReturns(c)
    BY <1>1, <1>2 DEF GatewayWaits
  <2>2. consumed[c] = 0 /\ Len(sent[c]) \in Nat
    BY <2>1, ProcFacts, SentType DEF Inv, UseInv, BeforeRead, GatewayPCs
  <2>3. Len(sent[c]) = 0 /\ client[c] # "gone"
    BY <2>1, <2>2 DEF PeekReturns
  <2>4. sent[c] = <<>>
    BY <2>1, <2>3, SentType DEF Inv
  <2>5. client[c] = "sending" /\ todo[c] = <<>>
    BY <2>1, <2>3, <1>1 DEF StageInv, ClientWaits
  <2> QED BY <2>1, <2>4, <2>5 DEF StageInv
<1>5. pc[Gateway] # "send"
  <2> SUFFICES ASSUME pc[Gateway] = "send" PROVE FALSE
    OBVIOUS
  <2>1. target \in Functions /\ Len(uds[target]) >= MaxQueue
    BY <1>1 DEF GatewayWaits
  <2>2. uds[target] = <<>>
    BY <2>1, QuietWorker
  <2>3. Len(uds[target]) = 0
    BY <2>2
  <2>4. MaxQueue \in Nat \ {0}
    BY InitialConstants
  <2> QED BY <2>1, <2>3, <2>4
<1> QED BY <1>1, <1>3, <1>4, <1>5 DEF GatewayWaits

(***************************************************************************)
(* Run and the workers never wait for one another in a circle, and none    *)
(* waits for bytes that were already read, handed over or delivered: when  *)
(* every client has done its part and everybody waits, no connection is    *)
(* left in the backlog, in a queue or in a process, whatever failed before.*)
(***************************************************************************)
THEOREM InitialSettles == Spec => []Settled
<1>1. Inv /\ StageInv => Settled
  <2> SUFFICES ASSUME Inv, StageInv, Quiet, NEW c \in Conns PROVE ~Open(c)
    BY DEF Settled
  <2>1. pc[Gateway] = "accept" /\ backlog = {}
    BY QuietGateway
  <2>2. \A w \in Functions : pc[w] = "accept" /\ uds[w] = <<>>
    BY QuietWorker
  <2>3. \A p \in Procs : conn[p] = NoConn
    BY <2>1, <2>2, ProcFacts DEF Inv, TypeInv, ControlInv
  <2>4. \A w \in Functions : DOMAIN uds[w] = {}
    BY <2>2
  <2> QED BY <2>1, <2>3, <2>4, OpenPlaces, InitialConstants DEF Inv
<1> QED BY <1>1, Invariant, StageInvariant, PTL
=============================================================================
