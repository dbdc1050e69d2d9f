------------------------ MODULE KeepaliveSafetyProofs ------------------------
(***************************************************************************)
(* The safety theorems of KeepaliveMigration, for every set of             *)
(* connections, functions and requests, every queue length and every       *)
(* combination of faults: every connection has one holder, no descriptor   *)
(* leaks, exported state is current wherever it is used, and no write      *)
(* nonce repeats.                                                          *)
(*                                                                         *)
(* TypeInv (types, who makes which call, range of the request numbers) is  *)
(* inductive.                                                              *)
(* OwnInv (who holds what) is inductive given TypeInv; SeqInv (record      *)
(* numbers) is inductive given both, because the process that moves a      *)
(* connection's record numbers is then its only holder.                    *)
(***************************************************************************)
EXTENDS KeepaliveMigration, SequenceTheorems, TLAPS

-----------------------------------------------------------------------------
(* Sequences *)

(* A sequence over a set is one over any larger set. *)
LEMMA SeqMonotone ==
  ASSUME NEW S, NEW T, S \subseteq T, NEW s \in Seq(S)
  PROVE  s \in Seq(T)
OBVIOUS

LEMMA EmptySeqType == ASSUME NEW T PROVE <<>> \in Seq(T)
OBVIOUS

(* The plaintext of request i consists of tokens of request i. *)
LEMMA PlaintextType ==
  ASSUME NEW r \in Request, NEW i \in Nat, NEW T,
         \A k \in {"half", "line", "end", "body"} : [kind |-> k, id |-> i] \in T
  PROVE  Plaintext(r, i) \in Seq(T)
<1> DEFINE h == IF r.split THEN <<[kind |-> "half", id |-> i]>> ELSE <<>>
           l == <<[kind |-> "line", id |-> i], [kind |-> "end", id |-> i]>>
           b == [k \in 1..r.body |-> [kind |-> "body", id |-> i]]
<1>1. h \in Seq(T)
  OBVIOUS
<1>2. l \in Seq(T)
  OBVIOUS
<1>3. b \in Seq(T)
  <2>1. r.body \in Nat
    BY DEF Request
  <2> QED BY <2>1
<1>4. Plaintext(r, i) = h \o l \o b
  BY DEF Plaintext
<1> HIDE DEF h, l, b
<1> QED BY <1>1, <1>2, <1>3, <1>4

(* A record cut off the plaintext still to be sent, and what remains. *)
LEMMA SplitType ==
  ASSUME NEW T, NEW s \in Seq(T), NEW k \in 1..Len(s)
  PROVE  /\ SubSeq(s, 1, k) \in Seq(T)
         /\ SubSeq(s, k + 1, Len(s)) \in Seq(T)
OBVIOUS

-----------------------------------------------------------------------------
(* Typing *)

LEMMA DefaultTypes ==
  /\ NoSerial \in Serial /\ NoSession \in Session /\ NoRead \in ReadState
  /\ EmptyEntry \in Entry
BY DEF NoSerial, Serial, NoSession, Session, NoRead, ReadState, EmptyEntry, Entry

LEMMA InitTypes == Init => TypeInv
<1> SUFFICES ASSUME Init PROVE TypeInv
  OBVIOUS
<1>1. TypeOK
  BY DefaultTypes DEF Init, TypeOK
<1>2. PcOK
  BY ConstantsOK DEF Init, PcOK, Procs, Listeners
<1>3. IdsOK
  BY DEF Init, IdsOK
<1> QED BY <1>1, <1>2, <1>3 DEF TypeInv

(* Closing the descriptor and going back to the accept loop. *)
LEMMA DropTypes ==
  ASSUME TypeInv, NEW p \in Procs, Drop(p),
         UNCHANGED <<clientVars, consumed, backlog, up>>,
         uds' \in [Listeners -> Seq(Entry)],
         resp' \in [Conns -> Seq(Response)]
  PROVE  TypeInv'
<1> USE DEF TypeInv
<1>1. TypeOK'
  BY DefaultTypes DEF TypeOK, Drop, Reset, clientVars
<1>2. PcOK'
  BY ConstantsOK DEF TypeOK, PcOK, Drop, Reset, Procs, Listeners
<1>3. IdsOK'
  BY DEF TypeOK, IdsOK, Drop, Reset, clientVars
<1> QED BY <1>1, <1>2, <1>3

(* A process in some call other than accept works on a connection. *)
LEMMA Busy ==
  ASSUME TypeInv, NEW p \in Procs, pc[p] \notin {"accept", "down"}
  PROVE  conn[p] \in Conns
BY DEF TypeInv, TypeOK, PcOK

LEMMA ClientTypes ==
  ASSUME TypeInv, NEW c \in Conns, ClientStep(c)
  PROVE  TypeInv'
<1> USE DEF TypeInv
<1>1. CASE Connect(c) \/ Hello(c) \/ ClientClose(c) \/ RestArrives(c)
  <2>1. TypeOK'
    BY <1>1 DEF TypeOK, Connect, Hello, ClientClose, RestArrives, streamVars, localVars
  <2>2. PcOK' /\ IdsOK'
    BY <1>1 DEF PcOK, IdsOK, Connect, Hello, ClientClose, RestArrives,
                streamVars, localVars
  <2> QED BY <2>1, <2>2
<1>2. ASSUME NEW r \in Requests, IssueRequest(c, r)
      PROVE  TypeInv'
  <2> DEFINE n == Len(reqs[c]) + 1
             T == TokenUpTo(n)
  <2>1. r \in Request /\ n \in Nat
    BY ConstantsOK DEF TypeOK
  <2>2. /\ reqs' = [reqs EXCEPT ![c] = Append(@, r)]
        /\ todo' = [todo EXCEPT ![c] = @ \o Plaintext(r, n)]
        /\ UNCHANGED <<client, sent, partial, streamVars, backlog, uds, up, localVars>>
    BY <1>2 DEF IssueRequest
  <2>3. /\ \A d \in Conns : TokenUpTo(Len(reqs[d])) \subseteq TokenUpTo(Len(reqs'[d]))
        /\ Len(reqs'[c]) = n
    <3>1. Len(reqs'[c]) = n /\ \A d \in Conns \ {c} : reqs'[d] = reqs[d]
      BY <2>1, <2>2 DEF TypeOK
    <3>2. 1..Len(reqs[c]) \subseteq 1..n
      BY <2>1 DEF TypeOK
    <3> QED BY <3>1, <3>2 DEF TokenUpTo
  <2>4. Plaintext(r, n) \in Seq(T) /\ Plaintext(r, n) \in Seq(Token)
    <3>1. \A k \in {"half", "line", "end", "body"} :
            [kind |-> k, id |-> n] \in T /\ [kind |-> k, id |-> n] \in Token
      BY <2>1 DEF Token, TokenUpTo
    <3> HIDE DEF n, T
    <3> QED BY <2>1, <3>1, PlaintextType
  <2>t. T = TokenUpTo(n)
    OBVIOUS
  <2> HIDE DEF n, T
  <2>5. TypeOK'
    BY <2>1, <2>2, <2>4 DEF TypeOK, streamVars, localVars
  <2>6. PcOK'
    BY <2>2 DEF PcOK, localVars
  <2>7. ASSUME NEW d \in Conns
        PROVE  /\ todo'[d] \in Seq(TokenUpTo(Len(reqs'[d])))
               /\ sent'[d] \in Seq(Seq(TokenUpTo(Len(reqs'[d]))))
    <3>1. /\ todo[d] \in Seq(TokenUpTo(Len(reqs'[d])))
          /\ sent[d] \in Seq(Seq(TokenUpTo(Len(reqs'[d]))))
      BY <2>3, SeqMonotone DEF IdsOK
    <3>2. sent'[d] = sent[d] /\ (d # c => todo'[d] = todo[d])
      BY <2>2 DEF TypeOK
    <3>3. d = c => todo'[d] = todo[d] \o Plaintext(r, n)
      BY <2>2 DEF TypeOK
    <3>4. CASE d = c
      <4>1. todo[c] \in Seq(T) /\ Plaintext(r, n) \in Seq(T)
        BY <3>1, <3>4, <2>3, <2>4, <2>t
      <4>2. todo[c] \o Plaintext(r, n) \in Seq(T)
        BY <4>1, ConcatProperties
      <4> QED BY <4>2, <3>1, <3>2, <3>3, <3>4, <2>3, <2>t
    <3>5. CASE d # c
      BY <3>1, <3>2, <3>5
    <3> QED BY <3>4, <3>5
  <2>8. ASSUME NEW p \in Procs, conn[p] # NoConn
        PROVE  /\ ssl[p].pending \in Seq(TokenUpTo(Len(reqs'[conn[p]])))
               /\ rd[p].buf \in Seq(TokenUpTo(Len(reqs'[conn[p]])))
               /\ pc[p] \in {"body", "respond"} => rd[p].id \in 1..Len(reqs'[conn[p]])
    <3>1. conn[p] \in Conns
      BY <2>8 DEF TypeOK
    <3>2. Len(reqs[conn[p]]) <= Len(reqs'[conn[p]]) /\ Len(reqs'[conn[p]]) \in Nat
          /\ Len(reqs[conn[p]]) \in Nat
      BY <3>1, <2>1, <2>2 DEF TypeOK
    <3>3. TokenUpTo(Len(reqs[conn[p]])) \subseteq TokenUpTo(Len(reqs'[conn[p]]))
      BY <3>1, <2>3
    <3> QED BY <2>8, <3>2, <3>3, SeqMonotone DEF IdsOK
  <2>9. IdsOK'
    BY <2>7, <2>8, <2>2 DEF IdsOK, localVars
  <2> QED BY <2>5, <2>6, <2>9
<1>3. ASSUME NEW k \in 1..Len(todo[c]), NEW cut \in BOOLEAN, SendRecord(c, k, cut)
      PROVE  TypeInv'
  <2>1. /\ sent' = [sent EXCEPT ![c] = Append(@, SubSeq(todo[c], 1, k))]
        /\ todo' = [todo EXCEPT ![c] = SubSeq(@, k + 1, Len(@))]
        /\ partial' = [partial EXCEPT ![c] = cut]
        /\ UNCHANGED <<client, reqs, streamVars, backlog, uds, up, localVars>>
    BY <1>3 DEF SendRecord
  <2>2. /\ SubSeq(todo[c], 1, k) \in Seq(Token)
        /\ SubSeq(todo[c], k + 1, Len(todo[c])) \in Seq(Token)
    BY SplitType DEF TypeOK
  <2>3. /\ SubSeq(todo[c], 1, k) \in Seq(TokenUpTo(Len(reqs[c])))
        /\ SubSeq(todo[c], k + 1, Len(todo[c])) \in Seq(TokenUpTo(Len(reqs[c])))
    BY SplitType DEF IdsOK
  <2>4. TypeOK'
    BY <2>1, <2>2 DEF TypeOK, streamVars, localVars
  <2>5. PcOK'
    BY <2>1 DEF PcOK, localVars
  <2>6. IdsOK'
    <3>1. \A d \in Conns : /\ todo'[d] \in Seq(TokenUpTo(Len(reqs[d])))
                           /\ sent'[d] \in Seq(Seq(TokenUpTo(Len(reqs[d]))))
      BY <2>1, <2>3 DEF TypeOK, IdsOK
    <3> QED BY <2>1, <3>1 DEF IdsOK, localVars
  <2> QED BY <2>4, <2>5, <2>6
<1> QED BY <1>1, <1>2, <1>3 DEF ClientStep

LEMMA CloseConnTypes ==
  ASSUME TypeInv, NEW p \in Procs, CloseConn(p)
  PROVE  TypeInv'
BY DropTypes DEF CloseConn, streamVars, TypeInv, TypeOK

LEMMA HandOffTypes ==
  ASSUME TypeInv, NEW p \in Procs, NEW l, HandOff(p, l)
  PROVE  TypeInv'
<1>1. Drop(p) /\ UNCHANGED <<clientVars, streamVars, backlog, up>>
  BY DEF HandOff, ConnectRefused, SendFd, Message, SendFdFails
<1>2. [conn |-> conn[p], serial |-> serial[p], target |-> target[p]] \in Entry
  BY DEF TypeInv, TypeOK, Entry
<1>3. uds' \in [Listeners -> Seq(Entry)]
  <2> USE DEF TypeInv, TypeOK
  <2>1. CASE ConnectRefused(p, l)
    BY <2>1 DEF ConnectRefused
  <2>2. CASE SendFd(p, l)
    BY <2>2, <1>2 DEF SendFd, Message, Listening
  <2>3. CASE SendFdFails(p, l)
    BY <2>3, DefaultTypes DEF SendFdFails, Listening
  <2> QED BY <2>1, <2>2, <2>3 DEF HandOff
<1> QED BY <1>1, <1>3, DropTypes DEF streamVars, TypeInv, TypeOK

LEMMA RecvFdFailsTypes ==
  ASSUME TypeInv, NEW p \in Listeners, RecvFdFails(p)
  PROVE  TypeInv'
<1>1. uds' \in [Listeners -> Seq(Entry)]
  BY DEF RecvFdFails, TypeInv, TypeOK
<1>2. TypeOK'
  BY <1>1 DEF RecvFdFails, TypeInv, TypeOK, clientVars, streamVars, localVars
<1>3. PcOK' /\ IdsOK'
  BY DEF RecvFdFails, TypeInv, PcOK, IdsOK, clientVars, localVars
<1> QED BY <1>2, <1>3 DEF TypeInv

LEMMA RecvFdTypes ==
  ASSUME TypeInv, NEW p \in Listeners, NEW next,
         \/ p = Relayer /\ next = "dispatch"
         \/ p \in Functions /\ next = "restore",
         RecvFd(p, next)
  PROVE  TypeInv'
<1> DEFINE m == Head(uds[p])
<1>1. p \in Procs /\ conn[p] = NoConn /\ pc[p] = "accept"
  BY DEF RecvFd, TakeMessage, Procs, TypeInv, PcOK
<1>2. m \in Entry /\ Tail(uds[p]) \in Seq(Entry) /\ m.conn # NoConn
  BY DEF RecvFd, TakeMessage, TypeInv, TypeOK
<1>3. m.conn \in Conns /\ m.serial \in Serial /\ m.target \in Names \cup {NoName}
  BY <1>2 DEF Entry
<1>4. /\ uds' = [uds EXCEPT ![p] = Tail(@)]
      /\ pc' = [pc EXCEPT ![p] = next]
      /\ conn' = [conn EXCEPT ![p] = m.conn]
      /\ fds' = [fds EXCEPT ![p] = @ \cup {m.conn}]
      /\ serial' = [serial EXCEPT ![p] = m.serial]
      /\ target' = [target EXCEPT ![p] = m.target]
      /\ UNCHANGED <<clientVars, streamVars, backlog, up, ssl, rd>>
  BY DEF RecvFd, TakeMessage
<1> HIDE DEF m
<1>5. TypeOK'
  BY <1>1, <1>2, <1>3, <1>4 DEF TypeInv, TypeOK, clientVars, streamVars
<1>6. PcOK'
  BY <1>1, <1>3, <1>4, ConstantsOK DEF TypeInv, TypeOK, PcOK, Procs, Listeners
<1>7. IdsOK'
  <2>1. ssl[p] = NoSession /\ rd[p] = NoRead
    BY <1>1 DEF TypeInv, IdsOK
  <2>2. ssl[p].pending = <<>> /\ rd[p].buf = <<>>
    BY <2>1 DEF NoSession, NoRead
  <2>3. \A q \in Procs \ {p} : conn'[q] = conn[q] /\ pc'[q] = pc[q]
    BY <1>4 DEF TypeInv, TypeOK
  <2>4. conn'[p] \in Conns /\ pc'[p] = next /\ next \notin {"body", "respond"}
    BY <1>1, <1>3, <1>4 DEF TypeInv, TypeOK
  <2>5. ssl' = ssl /\ rd' = rd /\ reqs' = reqs /\ todo' = todo /\ sent' = sent
    BY <1>4 DEF clientVars
  <2>6. conn'[p] # NoConn /\ pc'[p] \notin {"body", "respond"}
    BY <2>4, ConstantsOK
  <2>7. /\ ssl'[p].pending \in Seq(TokenUpTo(Len(reqs'[conn'[p]])))
        /\ rd'[p].buf \in Seq(TokenUpTo(Len(reqs'[conn'[p]])))
    BY <2>2, <2>5, EmptySeqType
  <2> QED BY <2>3, <2>5, <2>6, <2>7 DEF TypeInv, IdsOK
<1> QED BY <1>5, <1>6, <1>7 DEF TypeInv

(* IdsOK after a step in which only process p's locals change. *)
LEMMA IdsLocal ==
  ASSUME TypeInv, NEW p \in Procs,
         reqs' = reqs, todo' = todo, sent' = sent,
         \A q \in Procs \ {p} : /\ conn'[q] = conn[q] /\ pc'[q] = pc[q]
                                /\ ssl'[q] = ssl[q] /\ rd'[q] = rd[q],
         conn'[p] \in Conns,
         ssl'[p].pending \in Seq(TokenUpTo(Len(reqs[conn'[p]]))),
         rd'[p].buf \in Seq(TokenUpTo(Len(reqs[conn'[p]]))),
         pc'[p] \in {"body", "respond"} => rd'[p].id \in 1..Len(reqs[conn'[p]])
  PROVE  IdsOK'
<1>1. conn'[p] # NoConn
  BY ConstantsOK
<1> QED BY <1>1 DEF TypeInv, IdsOK

(* What IdsOK says of a process that works on a connection. *)
LEMMA BusyIds ==
  ASSUME TypeInv, NEW p \in Procs, pc[p] \notin {"accept", "down"}
  PROVE  /\ conn[p] \in Conns
         /\ ssl[p].pending \in Seq(TokenUpTo(Len(reqs[conn[p]])))
         /\ rd[p].buf \in Seq(TokenUpTo(Len(reqs[conn[p]])))
         /\ pc[p] \in {"body", "respond"} => rd[p].id \in 1..Len(reqs[conn[p]])
<1>1. conn[p] \in Conns
  BY Busy
<1>2. conn[p] # NoConn
  BY <1>1, ConstantsOK
<1> QED BY <1>1, <1>2 DEF TypeInv, IdsOK

LEMMA AcceptorTypes ==
  ASSUME TypeInv, AcceptorStep
  PROVE  TypeInv'
<1> USE DEF TypeInv
<1>p. Acceptor \in Procs /\ Acceptor \notin Listeners
  BY ConstantsOK DEF Procs, Listeners
<1>1. ASSUME Accept PROVE TypeInv'
  <2>1. PICK c \in backlog :
          /\ backlog' = backlog \ {c}
          /\ pc' = [pc EXCEPT ![Acceptor] = "handshake"]
          /\ conn' = [conn EXCEPT ![Acceptor] = c]
          /\ fds' = [fds EXCEPT ![Acceptor] = @ \cup {c}]
          /\ UNCHANGED <<clientVars, streamVars, uds, up, serial, target, ssl, rd>>
    BY <1>1 DEF Accept
  <2>2. c \in Conns /\ c # NoConn
    BY ConstantsOK DEF TypeOK
  <2>3. TypeOK'
    BY <1>p, <2>1, <2>2 DEF TypeOK, clientVars, streamVars
  <2>4. PcOK'
    BY <1>p, <2>1, <2>2, ConstantsOK DEF TypeOK, PcOK, Procs, Listeners
  <2>5. conn[Acceptor] = NoConn
    BY <1>1, <1>p DEF Accept, PcOK
  <2>6. ssl[Acceptor].pending = <<>> /\ rd[Acceptor].buf = <<>>
    BY <1>p, <2>5 DEF IdsOK, NoSession, NoRead
  <2>7. /\ conn'[Acceptor] \in Conns /\ pc'[Acceptor] = "handshake"
        /\ \A q \in Procs \ {Acceptor} : conn'[q] = conn[q] /\ pc'[q] = pc[q]
        /\ ssl' = ssl /\ rd' = rd /\ reqs' = reqs /\ todo' = todo /\ sent' = sent
    BY <1>p, <2>1, <2>2 DEF TypeOK, clientVars
  <2>8. IdsOK'
    BY <1>p, <2>6, <2>7, EmptySeqType, IdsLocal
  <2> QED BY <2>3, <2>4, <2>8
<1>2. ASSUME Handshake PROVE TypeInv'
  <2>1. TypeOK'
    BY <1>2 DEF Handshake, TypeOK, streamVars
  <2>2. PcOK'
    BY <1>2, <1>p, ConstantsOK DEF Handshake, TypeOK, PcOK, Procs, Listeners
  <2>3. IdsOK'
    BY <1>2, <1>p DEF Handshake, TypeOK, IdsOK
  <2> QED BY <2>1, <2>2, <2>3
<1>3. ASSUME HandshakeFails PROVE TypeInv'
  BY <1>3, <1>p, CloseConnTypes DEF HandshakeFails
<1>4. ASSUME NEW f \in GatewayNames, PeekAndExport(f) PROVE TypeInv'
  <2>1. [read_seq_num |-> 0, blob_read |-> ssl[Acceptor].read,
         blob_write |-> ssl[Acceptor].write] \in Serial
    BY <1>p DEF TypeOK, Serial, Session
  <2>2. f \in Names
    BY ConstantsOK
  <2>3. TypeOK'
    BY <1>4, <1>p, <2>1, <2>2, DefaultTypes
       DEF PeekAndExport, FirstSerial, TypeOK, clientVars, streamVars
  <2>4. PcOK'
    BY <1>4, <1>p, ConstantsOK DEF PeekAndExport, TypeOK, PcOK, Procs, Listeners
  <2>5. pc[Acceptor] = "peek"
    BY <1>4 DEF PeekAndExport, FirstSerial
  <2>6. /\ conn' = conn /\ rd' = rd /\ reqs' = reqs /\ todo' = todo /\ sent' = sent
        /\ pc'[Acceptor] = "dispatch" /\ ssl'[Acceptor] = NoSession
        /\ \A q \in Procs \ {Acceptor} : pc'[q] = pc[q] /\ ssl'[q] = ssl[q]
    BY <1>4, <1>p DEF PeekAndExport, FirstSerial, TypeOK, clientVars
  <2>7. NoSession.pending = <<>>
    BY DEF NoSession
  <2>8. IdsOK'
    BY <1>p, <2>5, <2>6, <2>7, BusyIds, EmptySeqType, IdsLocal
  <2> QED BY <2>3, <2>4, <2>8
<1>5. ASSUME PeekAndExportFails PROVE TypeInv'
  BY <1>5, <1>p, CloseConnTypes DEF PeekAndExportFails
<1>6. ASSUME DispatchToFunction(Acceptor) PROVE TypeInv'
  BY <1>6, <1>p, HandOffTypes DEF DispatchToFunction
<1> QED BY <1>1, <1>2, <1>3, <1>4, <1>5, <1>6 DEF AcceptorStep

LEMMA RelayerTypes ==
  ASSUME TypeInv, RelayerStep
  PROVE  TypeInv'
<1>1. Relayer \in Listeners /\ Relayer \in Procs
  BY DEF Listeners, Procs
<1> QED BY <1>1, RecvFdTypes, RecvFdFailsTypes, HandOffTypes
        DEF RelayerStep, DispatchToFunction

-----------------------------------------------------------------------------
(* Typing of the worker *)

(* The record a peek or a read returns is one the client sent. *)
LEMMA PeekedType ==
  ASSUME TypeInv, NEW c \in Conns, consumed[c] < Arrived(c)
  PROVE  /\ Peeked(c) \in Seq(TokenUpTo(Len(reqs[c])))
         /\ Peeked(c) \in Seq(Token)
<1>1. consumed[c] \in Nat /\ Len(sent[c]) \in Nat /\ consumed[c] < Len(sent[c])
  BY DEF TypeInv, TypeOK, Arrived
<1>2. consumed[c] + 1 \in 1..Len(sent[c])
  BY <1>1
<1>3. sent[c] \in Seq(Seq(TokenUpTo(Len(reqs[c])))) /\ sent[c] \in Seq(Seq(Token))
  BY DEF TypeInv, TypeOK, IdsOK
<1> QED BY <1>2, <1>3, ElementOfSeq DEF Peeked

LEMMA HeaderEndType ==
  ASSUME NEW T, NEW buf \in Seq(T), HeaderEnd(buf) # 0
  PROVE  HeaderEnd(buf) \in 1..Len(buf) /\ buf[HeaderEnd(buf)] \in T
<1>1. HeaderEnd(buf) \in DOMAIN buf
  BY DEF HeaderEnd
<1> QED BY <1>1

(* What read_one_request leaves in pc and rd after a read. *)
LEMMA AfterHeadersTypes ==
  ASSUME TypeInv, NEW w \in Functions, pc[w] = "headers", NEW buf,
         buf \in Seq(TokenUpTo(Len(reqs[conn[w]]))), buf \in Seq(Token),
         AfterHeaders(w, buf)
  PROVE  /\ \E q \in {"headers", "body", "respond"} : pc' = [pc EXCEPT ![w] = q]
         /\ \E r \in ReadState :
              /\ rd' = [rd EXCEPT ![w] = r]
              /\ r.buf \in Seq(TokenUpTo(Len(reqs[conn[w]])))
              /\ pc'[w] \in {"body", "respond"} => r.id \in 1..Len(reqs[conn[w]])
<1> DEFINE h == HeaderEnd(buf)
           i == buf[h].id
           n == reqs[conn[w]][i].body
           extra == Len(buf) - h
           want == BodyLacks(conn[w], i, extra)
<1>w. w \in Procs /\ conn[w] \in Conns
  BY Busy DEF Procs, Listeners
<1>1. CASE h = 0
  <2> DEFINE r == [buf |-> buf, want |-> 0, id |-> 0]
  <2>1. pc' = [pc EXCEPT ![w] = "headers"] /\ rd' = [rd EXCEPT ![w] = r]
    BY <1>1 DEF AfterHeaders
  <2>2. r \in ReadState
    BY DEF ReadState
  <2>3. pc'[w] = "headers"
    BY <1>w, <2>1 DEF TypeInv, TypeOK
  <2> QED BY <2>1, <2>2, <2>3
<1>2. CASE h # 0
  <2>1. h \in 1..Len(buf) /\ buf[h] \in TokenUpTo(Len(reqs[conn[w]]))
    BY <1>2, HeaderEndType
  <2>2. i \in 1..Len(reqs[conn[w]])
    BY <2>1 DEF TokenUpTo
  <2>3. reqs[conn[w]][i] \in Request
    BY <2>2, <1>w, ElementOfSeq DEF TypeInv, TypeOK
  <2>4. n \in Nat /\ extra \in Nat /\ i \in Nat
    BY <2>1, <2>2, <2>3 DEF Request
  <2> DEFINE r == [buf |-> <<>>, want |-> want, id |-> i]
             q == IF want > 0 THEN "body" ELSE "respond"
  <2>5. pc' = [pc EXCEPT ![w] = q] /\ rd' = [rd EXCEPT ![w] = r]
    BY <1>2 DEF AfterHeaders
  <2>n. want \in Nat
    BY <2>4 DEF BodyLacks
  <2> HIDE DEF n, extra, i, h, want
  <2>6. r \in ReadState /\ r.id = i /\ r.buf = <<>>
    BY <2>4, <2>n, EmptySeqType DEF ReadState
  <2>7. q \in {"headers", "body", "respond"}
    OBVIOUS
  <2> HIDE DEF r, q
  <2> QED BY <2>2, <2>5, <2>6, <2>7, EmptySeqType
<1> QED BY <1>1, <1>2

(* A session after a record is read, and after one is written. *)
LEMMA SessionUpdates ==
  ASSUME NEW s \in Session, NEW q \in Seq(Token)
  PROVE  /\ [s EXCEPT !.read = @ + 1] \in Session
         /\ [s EXCEPT !.read = @ + 1].pending = s.pending
         /\ [s EXCEPT !.read = @ + 1, !.pending = q] \in Session
         /\ [s EXCEPT !.read = @ + 1, !.pending = q].pending = q
         /\ [s EXCEPT !.write = @ + 1] \in Session
         /\ [s EXCEPT !.write = @ + 1].pending = s.pending
<1>1. s.read + 1 \in Nat /\ s.write + 1 \in Nat
  BY DEF Session
<1> QED BY <1>1 DEF Session

(* A read of the request's headers or body that succeeds. *)
LEMMA ReadTypes ==
  ASSUME TypeInv, NEW w \in Functions, pc[w] \in {"headers", "body"},
         NEW q \in {"headers", "body", "respond"}, NEW r \in ReadState,
         NEW s \in Session,
         pc' = [pc EXCEPT ![w] = q], rd' = [rd EXCEPT ![w] = r],
         ssl' = [ssl EXCEPT ![w] = s],
         r.buf \in Seq(TokenUpTo(Len(reqs[conn[w]]))),
         s.pending \in Seq(TokenUpTo(Len(reqs[conn[w]]))),
         q \in {"body", "respond"} => r.id \in 1..Len(reqs[conn[w]]),
         consumed' \in [Conns -> Nat],
         UNCHANGED <<clientVars, resp, backlog, uds, up, conn, fds, serial, target>>
  PROVE  TypeInv'
<1>w. w \in Procs /\ conn[w] \in Conns
  BY Busy DEF Procs, Listeners
<1>1. TypeOK'
  BY <1>w DEF TypeInv, TypeOK, clientVars
<1>2. PcOK'
  BY <1>w, ConstantsOK DEF TypeInv, TypeOK, PcOK, Procs, Listeners
<1>3. /\ pc'[w] = q /\ rd'[w] = r /\ ssl'[w] = s
      /\ \A p \in Procs \ {w} : pc'[p] = pc[p] /\ rd'[p] = rd[p] /\ ssl'[p] = ssl[p]
  BY <1>w DEF TypeInv, TypeOK
<1>4. IdsOK'
  BY <1>w, <1>3, IdsLocal DEF clientVars
<1> QED BY <1>1, <1>2, <1>4 DEF TypeInv

LEMMA WorkerReadTypes ==
  ASSUME TypeInv, NEW w \in Functions,
         ReadHeadersPending(w) \/ ReadHeaders(w) \/ ReadBody(w)
  PROVE  TypeInv'
<1> DEFINE N == Len(reqs[conn[w]])
           rec == Peeked(conn[w])
<1>w. w \in Procs
  BY DEF Procs, Listeners
<1>i. /\ conn[w] \in Conns
      /\ ssl[w].pending \in Seq(TokenUpTo(N)) /\ rd[w].buf \in Seq(TokenUpTo(N))
      /\ pc[w] \in {"body", "respond"} => rd[w].id \in 1..N
  BY <1>w, BusyIds DEF ReadHeadersPending, ReadHeaders, ReadBody
<1>t. /\ ssl[w] \in Session /\ rd[w] \in ReadState
      /\ consumed \in [Conns -> Nat] /\ ssl \in [Procs -> Session]
      /\ rd \in [Procs -> ReadState]
  BY <1>w DEF TypeInv, TypeOK
<1>u. /\ ssl[w].read \in Nat /\ ssl[w].write \in Nat /\ ssl[w].pending \in Seq(Token)
      /\ rd[w].buf \in Seq(Token) /\ rd[w].want \in Nat /\ rd[w].id \in Nat
  BY <1>t DEF Session, ReadState
<1>1. ASSUME ReadHeadersPending(w) PROVE TypeInv'
  <2> DEFINE buf == rd[w].buf \o ssl[w].pending
             s == [ssl[w] EXCEPT !.pending = <<>>]
  <2>1. buf \in Seq(TokenUpTo(N)) /\ buf \in Seq(Token)
    BY <1>i, <1>u, ConcatProperties
  <2>2. s \in Session /\ s.pending = <<>>
    BY <1>t, EmptySeqType DEF Session
  <2>3. pc[w] = "headers" /\ AfterHeaders(w, buf)
    BY <1>1 DEF ReadHeadersPending
  <2>4. /\ ssl' = [ssl EXCEPT ![w] = s]
        /\ UNCHANGED <<clientVars, streamVars, backlog, uds, up,
                       conn, fds, serial, target>>
    BY <1>1 DEF ReadHeadersPending
  <2> HIDE DEF buf, s
  <2>5. PICK q \in {"headers", "body", "respond"}, r \in ReadState :
          /\ pc' = [pc EXCEPT ![w] = q] /\ rd' = [rd EXCEPT ![w] = r]
          /\ r.buf \in Seq(TokenUpTo(N))
          /\ pc'[w] \in {"body", "respond"} => r.id \in 1..N
    BY <2>1, <2>3, AfterHeadersTypes
  <2>6. pc'[w] = q
    BY <2>5, <1>w DEF TypeInv, TypeOK
  <2>7. /\ consumed' \in [Conns -> Nat]
        /\ UNCHANGED <<clientVars, resp, backlog, uds, up, conn, fds, serial, target>>
    BY <2>4, <1>t DEF streamVars
  <2>8. s.pending \in Seq(TokenUpTo(N))
    BY <2>2, EmptySeqType
  <2> HIDE DEF N
  <2> QED BY <2>2, <2>3, <2>4, <2>5, <2>6, <2>7, <2>8, ReadTypes DEF N
<1>2. ASSUME ReadHeaders(w) PROVE TypeInv'
  <2> DEFINE buf == rd[w].buf \o rec
             s == [ssl[w] EXCEPT !.read = @ + 1]
  <2>1. rec \in Seq(TokenUpTo(N)) /\ rec \in Seq(Token)
    BY <1>2, <1>i, PeekedType DEF ReadHeaders, RecordReadable
  <2>2. buf \in Seq(TokenUpTo(N)) /\ buf \in Seq(Token)
    BY <1>i, <1>u, <2>1, ConcatProperties
  <2>3. s \in Session /\ s.pending = ssl[w].pending
    BY <1>t, EmptySeqType, SessionUpdates
  <2>4. pc[w] = "headers" /\ AfterHeaders(w, buf)
    BY <1>2 DEF ReadHeaders
  <2>5. /\ ssl' = [ssl EXCEPT ![w] = s]
        /\ consumed' = [consumed EXCEPT ![conn[w]] = @ + 1]
        /\ UNCHANGED <<clientVars, resp, backlog, uds, up, conn, fds, serial, target>>
    BY <1>2 DEF ReadHeaders
  <2>6. consumed' \in [Conns -> Nat]
    BY <2>5, <1>t, <1>i
  <2> HIDE DEF buf, s
  <2>7. PICK q \in {"headers", "body", "respond"}, r \in ReadState :
          /\ pc' = [pc EXCEPT ![w] = q] /\ rd' = [rd EXCEPT ![w] = r]
          /\ r.buf \in Seq(TokenUpTo(N))
          /\ pc'[w] \in {"body", "respond"} => r.id \in 1..N
    BY <2>2, <2>4, AfterHeadersTypes
  <2>8. pc'[w] = q
    BY <2>7, <1>w DEF TypeInv, TypeOK
  <2> QED BY <2>3, <2>4, <2>5, <2>6, <2>7, <2>8, <1>i, ReadTypes
<1>3. ASSUME ReadBody(w) PROVE TypeInv'
  <2> DEFINE n == IF Len(rec) < rd[w].want THEN Len(rec) ELSE rd[w].want
             left == SubSeq(rec, n + 1, Len(rec))
             s == [ssl[w] EXCEPT !.read = @ + 1, !.pending = left]
             r == [rd[w] EXCEPT !.want = @ - n]
             q == IF n = rd[w].want THEN "respond" ELSE "body"
  <2>1. rec \in Seq(TokenUpTo(N)) /\ rec \in Seq(Token)
    BY <1>3, <1>i, PeekedType DEF ReadBody, RecordReadable
  <2>2. n \in 0..Len(rec) /\ rd[w].want - n \in Nat
    <3> HIDE DEF rec
    <3>1. Len(rec) \in Nat
      BY <2>1
    <3> QED BY <1>u, <3>1
  <2>3. left \in Seq(TokenUpTo(N)) /\ left \in Seq(Token)
    <3> HIDE DEF n, rec
    <3> QED BY <2>1, <2>2
  <2>4. /\ pc[w] = "body"
        /\ pc' = [pc EXCEPT ![w] = q]
        /\ ssl' = [ssl EXCEPT ![w] = s]
        /\ rd' = [rd EXCEPT ![w] = r]
        /\ consumed' = [consumed EXCEPT ![conn[w]] = @ + 1]
        /\ UNCHANGED <<clientVars, resp, backlog, uds, up, conn, fds, serial, target>>
    BY <1>3 DEF ReadBody
  <2> HIDE DEF n, left, rec
  <2>5. s \in Session /\ s.pending = left
    BY <1>t, <2>3, SessionUpdates
  <2>6. r \in ReadState /\ r.buf = rd[w].buf /\ r.id = rd[w].id
    BY <1>t, <2>2 DEF ReadState
  <2>7. consumed' \in [Conns -> Nat]
    BY <2>4, <1>t, <1>i
  <2>8. q \in {"headers", "body", "respond"}
    OBVIOUS
  <2> HIDE DEF s, r, q
  <2> QED BY <2>3, <2>4, <2>5, <2>6, <2>7, <2>8, <1>i, ReadTypes
<1> QED BY <1>1, <1>2, <1>3

LEMMA WorkerTypes ==
  ASSUME TypeInv, NEW w \in Functions, WorkerStep(w)
  PROVE  TypeInv'
<1> USE DEF TypeInv
<1>w. w \in Procs /\ w \in Listeners /\ w # Acceptor /\ w # Relayer
  BY ConstantsOK DEF Procs, Listeners
<1>1. ASSUME RecvFd(w, "restore") \/ RecvFdFails(w) PROVE TypeInv'
  BY <1>1, <1>w, RecvFdTypes, RecvFdFailsTypes
<1>2. ASSUME \/ RestoreFails(w) \/ PeekOwnerFails(w) \/ ReadRequestFails(w)
             \/ RespondFails(w)
      PROVE TypeInv'
  BY <1>2, <1>w, CloseConnTypes
     DEF RestoreFails, PeekOwnerFails, ReadRequestFails, RespondFails
<1>3. ASSUME RelayToGateway(w) PROVE TypeInv'
  BY <1>3, <1>w, HandOffTypes DEF RelayToGateway
<1>4. ASSUME Restore(w) PROVE TypeInv'
  <2> DEFINE s == [read |-> serial[w].blob_read, write |-> serial[w].blob_write,
                   pending |-> <<>>]
  <2>1. s \in Session /\ s.pending = <<>>
    BY <1>w, EmptySeqType DEF TypeOK, Serial, Session
  <2>2. /\ pc[w] = "restore"
        /\ pc' = [pc EXCEPT ![w] = "peek"]
        /\ ssl' = [ssl EXCEPT ![w] = s]
        /\ UNCHANGED <<clientVars, streamVars, backlog, uds, up,
                       conn, fds, serial, target, rd>>
    BY <1>4 DEF Restore
  <2> HIDE DEF s
  <2>3. TypeOK'
    BY <1>w, <2>1, <2>2 DEF TypeOK, clientVars, streamVars
  <2>4. PcOK'
    BY <1>w, <2>2, ConstantsOK DEF TypeOK, PcOK, Procs, Listeners
  <2>5. /\ pc'[w] = "peek" /\ ssl'[w] = s /\ rd' = rd /\ conn' = conn
        /\ reqs' = reqs /\ todo' = todo /\ sent' = sent
        /\ \A p \in Procs \ {w} : pc'[p] = pc[p] /\ ssl'[p] = ssl[p]
    BY <1>w, <2>2 DEF TypeOK, clientVars
  <2>6. /\ conn'[w] \in Conns /\ rd'[w].buf \in Seq(TokenUpTo(Len(reqs[conn'[w]])))
        /\ ssl'[w].pending \in Seq(TokenUpTo(Len(reqs[conn'[w]])))
    BY <1>w, <2>1, <2>2, <2>5, BusyIds, EmptySeqType
  <2>7. IdsOK'
    BY <1>w, <2>5, <2>6, IdsLocal
  <2> QED BY <2>3, <2>4, <2>7
<1>5. ASSUME PeekOwn(w) PROVE TypeInv'
  <2>1. TypeOK'
    BY <1>5, <1>w DEF PeekOwn, TypeOK, clientVars, streamVars
  <2>2. PcOK'
    BY <1>5, <1>w, ConstantsOK DEF PeekOwn, TypeOK, PcOK, Procs, Listeners
  <2>3. IdsOK'
    BY <1>5, <1>w DEF PeekOwn, TypeOK, IdsOK, clientVars
  <2> QED BY <2>1, <2>2, <2>3
<1>6. ASSUME PeekOther(w) PROVE TypeInv'
  <2>1. ParseRequestOwner(conn[w]) \in Names
    BY <1>6 DEF PeekOther, ParseRequestOwner
  <2>2. TypeOK'
    BY <1>6, <1>w, <2>1 DEF PeekOther, TypeOK, clientVars, streamVars
  <2>3. PcOK'
    BY <1>6, <1>w, ConstantsOK DEF PeekOther, TypeOK, PcOK, Procs, Listeners
  <2>4. IdsOK'
    BY <1>6, <1>w DEF PeekOther, TypeOK, IdsOK, clientVars
  <2> QED BY <2>2, <2>3, <2>4
<1>7. ASSUME ReadHeadersPending(w) \/ ReadHeaders(w) \/ ReadBody(w) PROVE TypeInv'
  BY <1>7, WorkerReadTypes
<1>8. ASSUME pc[w] = "respond", WriteResponse(w)
      PROVE  resp' \in [Conns -> Seq(Response)]
  <2>1. conn[w] \in Conns
    BY <1>8, <1>w, Busy
  <2>2. [id |-> rd[w].id, by |-> w, seq |-> ssl[w].write] \in Response
    BY <1>w DEF TypeOK, Response, ReadState, Session
  <2>3. resp' = [resp EXCEPT ![conn[w]] = Append(@,
                   [id |-> rd[w].id, by |-> w, seq |-> ssl[w].write])]
    BY <1>8 DEF WriteResponse
  <2> QED BY <2>1, <2>2, <2>3 DEF TypeOK
<1>9. ASSUME RespondAndKeep(w) PROVE TypeInv'
  <2> DEFINE s == [ssl[w] EXCEPT !.write = @ + 1]
             e == [read_seq_num |-> ssl[w].read, blob_read |-> ssl[w].read,
                   blob_write |-> ssl[w].write + 1]
  <2>1. s \in Session /\ s.pending = ssl[w].pending
    BY <1>w, EmptySeqType, SessionUpdates DEF TypeOK
  <2>e. e \in Serial
    <3>1. ssl[w].read \in Nat /\ ssl[w].write + 1 \in Nat
      BY <1>w DEF TypeOK, Session
    <3> QED BY <3>1 DEF Serial
  <2>2. /\ pc[w] = "respond" /\ WriteResponse(w)
        /\ ssl' = [ssl EXCEPT ![w] = s]
        /\ serial' = [serial EXCEPT ![w] = e]
        /\ rd' = [rd EXCEPT ![w] = NoRead]
        /\ pc' = [pc EXCEPT ![w] = "peek"]
        /\ UNCHANGED <<clientVars, consumed, backlog, uds, up, conn, fds, target>>
    BY <1>9 DEF RespondAndKeep, LiveSerial
  <2> HIDE DEF s, e
  <2>3. TypeOK'
    BY <1>w, <1>8, <2>1, <2>e, <2>2, DefaultTypes DEF TypeOK, clientVars
  <2>4. PcOK'
    BY <1>w, <2>2, ConstantsOK DEF TypeOK, PcOK, Procs, Listeners
  <2>5. /\ pc'[w] = "peek" /\ ssl'[w] = s /\ rd'[w] = NoRead /\ conn' = conn
        /\ reqs' = reqs /\ todo' = todo /\ sent' = sent
        /\ \A p \in Procs \ {w} : /\ pc'[p] = pc[p] /\ ssl'[p] = ssl[p]
                                  /\ rd'[p] = rd[p]
    BY <1>w, <2>2 DEF TypeOK, clientVars
  <2>6. NoRead.buf = <<>>
    BY DEF NoRead
  <2>7. /\ conn'[w] \in Conns /\ rd'[w].buf \in Seq(TokenUpTo(Len(reqs[conn'[w]])))
        /\ ssl'[w].pending \in Seq(TokenUpTo(Len(reqs[conn'[w]])))
    BY <1>w, <2>1, <2>2, <2>5, <2>6, BusyIds, EmptySeqType, ZenonT(60)
  <2>8. IdsOK'
    BY <1>w, <2>5, <2>7, IdsLocal
  <2> QED BY <2>3, <2>4, <2>8
<1>10. ASSUME RespondAndClose(w) PROVE TypeInv'
  BY <1>10, <1>8, <1>w, DropTypes DEF RespondAndClose, TypeOK
<1> QED BY <1>1, <1>2, <1>3, <1>4, <1>5, <1>6, <1>7, <1>9, <1>10 DEF WorkerStep

LEMMA DieTypes ==
  ASSUME TypeInv, NEW P, Die(P), backlog' \subseteq Conns
  PROVE  TypeInv'
<1> USE DEF TypeInv
<1>1. TypeOK'
  BY DefaultTypes, EmptySeqType DEF TypeOK, Die, clientVars, streamVars
<1>2. PcOK'
  BY ConstantsOK DEF TypeOK, PcOK, Die, Procs, Listeners
<1>3. IdsOK'
  BY DEF TypeOK, IdsOK, Die, clientVars
<1> QED BY <1>1, <1>2, <1>3

LEMMA StartTypes ==
  ASSUME TypeInv, NEW p \in Procs, Start(p)
  PROVE  TypeInv'
<1> USE DEF TypeInv
<1>1. TypeOK'
  BY DEF TypeOK, Start, clientVars, streamVars
<1>2. PcOK'
  BY ConstantsOK DEF TypeOK, PcOK, Start, Procs, Listeners
<1>3. IdsOK'
  BY DEF TypeOK, IdsOK, Start, clientVars
<1> QED BY <1>1, <1>2, <1>3

LEMMA NextTypes == TypeInv /\ [Next]_vars => TypeInv'
<1> SUFFICES ASSUME TypeInv, [Next]_vars PROVE TypeInv'
  OBVIOUS
<1>1. ASSUME UNCHANGED vars PROVE TypeInv'
  BY <1>1 DEF vars, clientVars, streamVars, localVars, TypeInv, TypeOK, PcOK, IdsOK
<1>2. ASSUME NEW w \in Functions, WorkerDies(w) PROVE TypeInv'
  BY <1>2, DieTypes DEF WorkerDies, TypeInv, TypeOK
<1>3. ASSUME GatewayDies PROVE TypeInv'
  BY <1>3, DieTypes DEF GatewayDies
<1> QED BY <1>1, <1>2, <1>3, ClientTypes, AcceptorTypes, RelayerTypes, WorkerTypes,
           StartTypes DEF Next, Finished

(***************************************************************************)
(* The type invariant, together with which process makes which call and    *)
(* the range of the request numbers that index reqs, for every instance.   *)
(***************************************************************************)
THEOREM TypeInvariant == Spec => []TypeInv
<1> QED BY InitTypes, NextTypes, PTL DEF Spec

THEOREM TypeCorrect == Spec => []TypeOK
<1>1. TypeInv => TypeOK
  BY DEF TypeInv
<1> QED BY <1>1, TypeInvariant, PTL

-----------------------------------------------------------------------------
(* Queues *)

LEMMA AppendEntries ==
  ASSUME NEW s \in Seq(Entry), NEW e \in Entry,
         NEW i \in DOMAIN Append(s, e)
  PROVE  \/ i \in DOMAIN s /\ Append(s, e)[i] = s[i]
         \/ i = Len(s) + 1 /\ Append(s, e)[i] = e
OBVIOUS

LEMMA TailEntries ==
  ASSUME NEW s \in Seq(Entry), s # <<>>
  PROVE  /\ 1 \in DOMAIN s /\ Head(s) = s[1]
         /\ \A i \in DOMAIN Tail(s) : /\ i \in Nat /\ i >= 1
                                      /\ i + 1 \in DOMAIN s
                                      /\ Tail(s)[i] = s[i + 1]
OBVIOUS

-----------------------------------------------------------------------------
(* Ownership *)

(* A process that works on a connection is its only holder. *)
LEMMA Exclusive ==
  ASSUME TypeInv, OwnInv, NEW p \in Procs, conn[p] \in Conns
  PROVE  /\ conn[p] \in fds[p] /\ conn[p] \notin backlog
         /\ client[conn[p]] # "idle"
         /\ \A q \in Procs \ {p} : conn[q] # conn[p] /\ conn[p] \notin fds[q]
         /\ \A l \in Listeners : \A i \in DOMAIN uds[l] : uds[l][i].conn # conn[p]
<1>1. conn[p] # NoConn
  BY ConstantsOK
<1>2. conn[p] \in fds[p]
  BY <1>1 DEF OwnInv, NoLeak
<1>3. client[conn[p]] # "idle"
  BY <1>2 DEF OwnInv, IdleUnheld, Open
<1>4. \A q \in Procs \ {p} : conn[p] \notin fds[q]
  BY <1>2 DEF OwnInv, SingleHolder
<1>5. \A q \in Procs \ {p} : conn[q] # conn[p]
  BY <1>1, <1>4 DEF OwnInv, NoLeak
<1>6. conn[p] \notin backlog
  BY <1>2 DEF OwnInv, SingleHolder
<1>7. \A l \in Listeners : \A i \in DOMAIN uds[l] : uds[l][i].conn # conn[p]
  BY <1>2 DEF OwnInv, SingleHolder, Queued
<1> QED BY <1>2, <1>3, <1>4, <1>5, <1>6, <1>7

(* Steps that neither move a descriptor nor connect. *)
LEMMA OwnKept ==
  ASSUME OwnInv, UNCHANGED <<backlog, uds, conn, fds>>,
         \A c \in Conns : client'[c] = "idle" => client[c] = "idle"
  PROVE  OwnInv'
<1>1. IdleUnheld'
  BY DEF OwnInv, IdleUnheld, Open
<1>2. NoLeak'
  BY DEF OwnInv, NoLeak
<1>3. SingleHolder'
  BY DEF OwnInv, SingleHolder, Queued
<1> QED BY <1>1, <1>2, <1>3 DEF OwnInv

(* Steps after which nothing is held that was not held before, by the same *)
(* holder, and each process that still has a connection is unchanged.      *)
LEMMA OwnShrinks ==
  ASSUME TypeInv, OwnInv, client' = client,
         backlog' \subseteq backlog,
         \A p \in Procs : \/ conn'[p] = conn[p] /\ fds'[p] = fds[p]
                          \/ conn'[p] = NoConn /\ fds'[p] = {},
         \A l \in Listeners : \A i \in DOMAIN uds'[l] :
           uds'[l][i].conn \in Conns =>
             \E j \in DOMAIN uds[l] : uds'[l][i].conn = uds[l][j].conn,
         \A l \in Listeners : \A i, j \in DOMAIN uds'[l] :
           uds'[l][i].conn \in Conns /\ uds'[l][i].conn = uds'[l][j].conn => i = j
  PROVE  OwnInv'
<1>f. \A p \in Procs : fds'[p] \subseteq fds[p]
  OBVIOUS
<1>q. \A c \in Conns, l \in Listeners : \A i \in DOMAIN uds'[l] :
        Queued(c, l, i)' => \E j \in DOMAIN uds[l] : Queued(c, l, j)
  BY DEF Queued
<1>1. IdleUnheld'
  BY <1>f DEF OwnInv, IdleUnheld, Open
<1>2. NoLeak'
  BY DEF OwnInv, NoLeak
<1>3. SingleHolder'
  <2> SUFFICES ASSUME NEW c \in Conns
               PROVE  /\ \A p, q \in Procs : c \in fds'[p] /\ c \in fds'[q] => p = q
                      /\ \A p \in Procs, l \in Listeners : \A i \in DOMAIN uds'[l] :
                           c \in fds'[p] => ~Queued(c, l, i)'
                      /\ \A l, m \in Listeners :
                           \A i \in DOMAIN uds'[l], j \in DOMAIN uds'[m] :
                             Queued(c, l, i)' /\ Queued(c, m, j)' => l = m /\ i = j
                      /\ c \in backlog' =>
                           /\ \A p \in Procs : c \notin fds'[p]
                           /\ \A l \in Listeners : \A i \in DOMAIN uds'[l] :
                                ~Queued(c, l, i)'
    BY DEF SingleHolder
  <2>1. \A p, q \in Procs : c \in fds'[p] /\ c \in fds'[q] => p = q
    BY <1>f DEF OwnInv, SingleHolder
  <2>2. \A p \in Procs, l \in Listeners : \A i \in DOMAIN uds'[l] :
          c \in fds'[p] => ~Queued(c, l, i)'
    BY <1>f, <1>q DEF OwnInv, SingleHolder
  <2>3. ASSUME NEW l \in Listeners, NEW m \in Listeners,
               NEW i \in DOMAIN uds'[l], NEW j \in DOMAIN uds'[m],
               Queued(c, l, i)', Queued(c, m, j)'
        PROVE  l = m /\ i = j
    <3>1. l = m
      BY <1>q, <2>3 DEF OwnInv, SingleHolder
    <3>2. uds'[l][i].conn = c /\ uds'[l][j].conn = c
      BY <3>1, <2>3 DEF Queued
    <3> QED BY <3>1, <3>2
  <2>4. c \in backlog' =>
          /\ \A p \in Procs : c \notin fds'[p]
          /\ \A l \in Listeners : \A i \in DOMAIN uds'[l] : ~Queued(c, l, i)'
    BY <1>f, <1>q DEF OwnInv, SingleHolder
  <2> QED BY <2>1, <2>2, <2>3, <2>4
<1> QED BY <1>1, <1>2, <1>3 DEF OwnInv

(* close(client_fd), with the queues unchanged or an empty message added. *)
LEMMA OwnDrop ==
  ASSUME TypeInv, OwnInv, NEW p \in Procs, Drop(p),
         client' = client, backlog' = backlog,
         \/ uds' = uds
         \/ \E l \in Listeners : uds' = [uds EXCEPT ![l] = Append(@, EmptyEntry)]
  PROVE  OwnInv'
<1>t. /\ uds \in [Listeners -> Seq(Entry)] /\ EmptyEntry \in Entry
      /\ EmptyEntry.conn = NoConn /\ NoConn \notin Conns
  BY DefaultTypes, ConstantsOK DEF TypeInv, TypeOK, EmptyEntry
<1>1. \A q \in Procs : \/ conn'[q] = conn[q] /\ fds'[q] = fds[q]
                       \/ conn'[q] = NoConn /\ fds'[q] = {}
  <2>1. \A q \in Procs \ {p} : conn'[q] = conn[q] /\ fds'[q] = fds[q]
    BY DEF Drop, Reset, TypeInv, TypeOK
  <2>2. conn'[p] = NoConn /\ fds'[p] = fds[p] \ {conn[p]}
    BY DEF Drop, Reset, TypeInv, TypeOK
  <2>3. fds[p] \ {conn[p]} = {}
    BY DEF OwnInv, NoLeak
  <2> QED BY <2>1, <2>2, <2>3
<1>2. ASSUME NEW m \in Listeners, NEW i \in DOMAIN uds'[m], uds'[m][i].conn \in Conns
      PROVE  i \in DOMAIN uds[m] /\ uds'[m][i].conn = uds[m][i].conn
  <2>1. CASE uds' = uds
    BY <2>1, <1>2
  <2>2. ASSUME NEW l \in Listeners, uds' = [uds EXCEPT ![l] = Append(@, EmptyEntry)]
        PROVE  i \in DOMAIN uds[m] /\ uds'[m][i].conn = uds[m][i].conn
    <3>1. CASE m # l
      BY <3>1, <2>2, <1>t
    <3>2. CASE m = l
      <4>1. uds'[m] = Append(uds[m], EmptyEntry) /\ uds[m] \in Seq(Entry)
        BY <3>2, <2>2, <1>t
      <4> QED BY <4>1, <1>2, <1>t, AppendEntries
    <3> QED BY <3>1, <3>2
  <2> QED BY <2>1, <2>2
<1>3. \A m \in Listeners : \A i, j \in DOMAIN uds'[m] :
        uds'[m][i].conn \in Conns /\ uds'[m][i].conn = uds'[m][j].conn => i = j
  BY <1>2 DEF OwnInv, SingleHolder, Queued
<1> QED BY <1>1, <1>2, <1>3, OwnShrinks

(* A received message that yields no descriptor leaves the queue. *)
LEMMA OwnRecvFdFails ==
  ASSUME TypeInv, OwnInv, NEW p \in Listeners, RecvFdFails(p)
  PROVE  OwnInv'
<1>t. uds \in [Listeners -> Seq(Entry)]
  BY DEF TypeInv, TypeOK
<1>1. /\ client' = client /\ backlog' = backlog /\ conn' = conn /\ fds' = fds
      /\ uds[p] # <<>> /\ uds' = [uds EXCEPT ![p] = Tail(@)]
  BY DEF RecvFdFails, clientVars, localVars
<1>2. \A m \in Listeners \ {p} : uds'[m] = uds[m]
  BY <1>1, <1>t
<1>3. uds'[p] = Tail(uds[p]) /\ uds[p] \in Seq(Entry)
  BY <1>1, <1>t
<1>4. \A i \in DOMAIN uds'[p] : /\ i \in Nat /\ i + 1 \in DOMAIN uds[p]
                                /\ uds'[p][i] = uds[p][i + 1]
  BY <1>1, <1>3, TailEntries
<1>5. \A m \in Listeners : \A i \in DOMAIN uds'[m] :
        \E j \in DOMAIN uds[m] : uds'[m][i].conn = uds[m][j].conn
  BY <1>2, <1>4
<1>6. ASSUME NEW m \in Listeners, NEW i \in DOMAIN uds'[m], NEW j \in DOMAIN uds'[m],
             uds'[m][i].conn \in Conns, uds'[m][i].conn = uds'[m][j].conn
      PROVE  i = j
  <2>1. CASE m # p
    BY <2>1, <1>2, <1>6 DEF OwnInv, SingleHolder, Queued
  <2>2. CASE m = p
    <3>1. i + 1 = j + 1
      BY <2>2, <1>4, <1>6 DEF OwnInv, SingleHolder, Queued
    <3> QED BY <3>1, <2>2, <1>4
  <2> QED BY <2>1, <2>2
<1> QED BY <1>1, <1>5, <1>6, OwnShrinks

LEMMA OwnDie ==
  ASSUME TypeInv, OwnInv, NEW P, Die(P), backlog' \subseteq backlog
  PROVE  OwnInv'
<1>1. client' = client
  BY DEF Die, clientVars
<1>2. \A q \in Procs : \/ conn'[q] = conn[q] /\ fds'[q] = fds[q]
                       \/ conn'[q] = NoConn /\ fds'[q] = {}
  BY DEF Die
<1>3. \A l \in Listeners : uds'[l] = uds[l] \/ uds'[l] = <<>>
  BY DEF Die
<1>4. \A l \in Listeners : \A i \in DOMAIN uds'[l] :
        i \in DOMAIN uds[l] /\ uds'[l][i] = uds[l][i]
  BY <1>3
<1>5. \A l \in Listeners : \A i, j \in DOMAIN uds'[l] :
        uds'[l][i].conn \in Conns /\ uds'[l][i].conn = uds'[l][j].conn => i = j
  BY <1>4 DEF OwnInv, SingleHolder, Queued
<1> QED BY <1>1, <1>2, <1>4, <1>5, OwnShrinks

(* A descriptor moves into a message. *)
LEMMA OwnSendFd ==
  ASSUME TypeInv, OwnInv, NEW p \in Procs, NEW l, conn[p] \in Conns, SendFd(p, l),
         client' = client, backlog' = backlog
  PROVE  OwnInv'
<1> DEFINE c0 == conn[p]
           e == [conn |-> c0, serial |-> serial[p], target |-> target[p]]
<1>t. /\ uds \in [Listeners -> Seq(Entry)] /\ e \in Entry /\ e.conn = c0
      /\ l \in Listeners
  BY DEF TypeInv, TypeOK, Entry, SendFd, Message, Listening
<1>x. /\ c0 \notin backlog /\ client[c0] # "idle"
      /\ \A q \in Procs \ {p} : c0 \notin fds[q]
      /\ \A m \in Listeners : \A i \in DOMAIN uds[m] : uds[m][i].conn # c0
  BY Exclusive
<1>1. /\ uds' = [uds EXCEPT ![l] = Append(@, e)]
      /\ conn' = [conn EXCEPT ![p] = NoConn]
      /\ fds' = [fds EXCEPT ![p] = @ \ {c0}]
  BY DEF SendFd, Message, Drop, Reset
<1> HIDE DEF e
<1>2. /\ \A q \in Procs \ {p} : conn'[q] = conn[q] /\ fds'[q] = fds[q]
      /\ conn'[p] = NoConn /\ fds'[p] = {}
  <2>1. fds[p] \ {c0} = {}
    BY DEF OwnInv, NoLeak
  <2> QED BY <1>1, <2>1 DEF TypeInv, TypeOK
<1>3. ASSUME NEW m \in Listeners, NEW i \in DOMAIN uds'[m]
      PROVE  \/ i \in DOMAIN uds[m] /\ uds'[m][i].conn = uds[m][i].conn
             \/ m = l /\ i = Len(uds[l]) + 1 /\ uds'[m][i].conn = c0
  <2>1. CASE m # l
    BY <2>1, <1>1, <1>t
  <2>2. CASE m = l
    <3>1. uds'[m] = Append(uds[m], e) /\ uds[m] \in Seq(Entry)
      BY <2>2, <1>1, <1>t
    <3> QED BY <3>1, <2>2, <1>3, <1>t, AppendEntries
  <2> QED BY <2>1, <2>2
<1>4. IdleUnheld'
  BY <1>2, <1>3, <1>x DEF OwnInv, IdleUnheld, Open
<1>5. NoLeak'
  BY <1>2 DEF OwnInv, NoLeak
<1>6. SingleHolder'
  <2>1. ASSUME NEW c \in Conns
        PROVE  /\ \A q, r \in Procs : c \in fds'[q] /\ c \in fds'[r] => q = r
               /\ c \in backlog' => \A q \in Procs : c \notin fds'[q]
    BY <1>2 DEF OwnInv, SingleHolder
  <2>2. ASSUME NEW c \in Conns, NEW m \in Listeners, NEW i \in DOMAIN uds'[m],
               uds'[m][i].conn = c
        PROVE  c \notin backlog' /\ \A q \in Procs : c \notin fds'[q]
    BY <1>2, <1>3, <1>x, <2>2 DEF OwnInv, SingleHolder, Queued
  <2>3. ASSUME NEW c \in Conns, NEW m \in Listeners, NEW k \in Listeners,
               NEW i \in DOMAIN uds'[m], NEW j \in DOMAIN uds'[k],
               uds'[m][i].conn = c, uds'[k][j].conn = c
        PROVE  m = k /\ i = j
    BY <1>3, <1>x, <2>3 DEF OwnInv, SingleHolder, Queued
  <2> QED BY <2>1, <2>2, <2>3 DEF SingleHolder, Queued
<1> QED BY <1>4, <1>5, <1>6 DEF OwnInv

(* A descriptor moves out of a message. *)
LEMMA OwnRecvFd ==
  ASSUME TypeInv, OwnInv, NEW p \in Listeners, NEW next, RecvFd(p, next)
  PROVE  OwnInv'
<1> DEFINE c0 == Head(uds[p]).conn
<1>t. /\ uds \in [Listeners -> Seq(Entry)] /\ uds[p] # <<>> /\ p \in Procs
      /\ conn[p] = NoConn
  BY DEF TypeInv, TypeOK, PcOK, Procs, RecvFd, TakeMessage
<1>e. 1 \in DOMAIN uds[p] /\ uds[p][1].conn = c0 /\ c0 \in Conns
  <2>1. 1 \in DOMAIN uds[p] /\ uds[p][1].conn = c0 /\ uds[p][1] \in Entry
    BY <1>t, TailEntries
  <2> QED BY <2>1 DEF RecvFd, TakeMessage, Entry
<1>1. /\ uds' = [uds EXCEPT ![p] = Tail(@)]
      /\ conn' = [conn EXCEPT ![p] = c0]
      /\ fds' = [fds EXCEPT ![p] = @ \cup {c0}]
      /\ client' = client /\ backlog' = backlog
  BY DEF RecvFd, TakeMessage, clientVars
<1> HIDE DEF c0
<1>x. /\ c0 \notin backlog /\ client[c0] # "idle"
      /\ \A q \in Procs : c0 \notin fds[q]
      /\ \A m \in Listeners : \A i \in DOMAIN uds[m] :
           uds[m][i].conn = c0 => m = p /\ i = 1
  BY <1>e DEF OwnInv, SingleHolder, Queued, IdleUnheld, Open
<1>2. /\ \A q \in Procs \ {p} : conn'[q] = conn[q] /\ fds'[q] = fds[q]
      /\ conn'[p] = c0 /\ fds'[p] = {c0}
  <2>1. fds[p] \cup {c0} = {c0}
    BY <1>t DEF OwnInv, NoLeak
  <2> QED BY <1>t, <1>1, <2>1 DEF TypeInv, TypeOK
<1>3. ASSUME NEW m \in Listeners, NEW i \in DOMAIN uds'[m]
      PROVE  \/ m # p /\ i \in DOMAIN uds[m] /\ uds'[m][i].conn = uds[m][i].conn
             \/ /\ m = p /\ i \in Nat /\ i >= 1
                /\ i + 1 \in DOMAIN uds[m] /\ uds'[m][i].conn = uds[m][i + 1].conn
  <2>1. CASE m # p
    BY <2>1, <1>1, <1>t
  <2>2. CASE m = p
    <3>1. uds'[m] = Tail(uds[m]) /\ uds[m] \in Seq(Entry)
      BY <2>2, <1>1, <1>t
    <3> QED BY <3>1, <2>2, <1>3, <1>t, TailEntries
  <2> QED BY <2>1, <2>2
<1>4. \A m \in Listeners : \A i \in DOMAIN uds'[m] :
        /\ uds'[m][i].conn # c0
        /\ \E j \in DOMAIN uds[m] : uds'[m][i].conn = uds[m][j].conn
  BY <1>3, <1>x
<1>5. IdleUnheld'
  BY <1>1, <1>2, <1>4, <1>x DEF OwnInv, IdleUnheld, Open
<1>6. NoLeak'
  BY <1>2, <1>e, ConstantsOK DEF OwnInv, NoLeak
<1>7. SingleHolder'
  <2>1. ASSUME NEW c \in Conns
        PROVE  /\ \A q, r \in Procs : c \in fds'[q] /\ c \in fds'[r] => q = r
               /\ c \in backlog' => \A q \in Procs : c \notin fds'[q]
    BY <1>1, <1>2, <1>x DEF OwnInv, SingleHolder
  <2>2. ASSUME NEW c \in Conns, NEW m \in Listeners, NEW i \in DOMAIN uds'[m],
               uds'[m][i].conn = c
        PROVE  c \notin backlog' /\ \A q \in Procs : c \notin fds'[q]
    BY <1>1, <1>2, <1>4, <2>2 DEF OwnInv, SingleHolder, Queued
  <2>3. ASSUME NEW c \in Conns, NEW m \in Listeners, NEW k \in Listeners,
               NEW i \in DOMAIN uds'[m], NEW j \in DOMAIN uds'[k],
               uds'[m][i].conn = c, uds'[k][j].conn = c
        PROVE  m = k /\ i = j
    <3>1. m = k
      BY <1>4, <2>3 DEF OwnInv, SingleHolder, Queued
    <3>2. CASE m # p
      BY <3>1, <3>2, <1>3, <2>3 DEF OwnInv, SingleHolder, Queued
    <3>3. CASE m = p
      <4>1. i + 1 = j + 1 /\ i \in Nat /\ j \in Nat
        BY <3>1, <3>3, <1>3, <2>3 DEF OwnInv, SingleHolder, Queued
      <4> QED BY <4>1, <3>1
    <3> QED BY <3>2, <3>3
  <2> QED BY <2>1, <2>2, <2>3 DEF SingleHolder, Queued
<1> QED BY <1>5, <1>6, <1>7 DEF OwnInv

(* A connection enters the accept queue, and leaves it for the acceptor. *)
LEMMA OwnConnect ==
  ASSUME TypeInv, OwnInv, NEW c \in Conns, Connect(c)
  PROVE  OwnInv'
<1>1. /\ client[c] = "idle" /\ client' = [client EXCEPT ![c] = "connected"]
      /\ backlog' = backlog \cup {c}
      /\ uds' = uds /\ conn' = conn /\ fds' = fds
  BY DEF Connect, localVars
<1>2. /\ \A p \in Procs : c \notin fds[p]
      /\ \A l \in Listeners : \A i \in DOMAIN uds[l] : uds[l][i].conn # c
  BY <1>1 DEF OwnInv, IdleUnheld, Open
<1>3. IdleUnheld'
  BY <1>1 DEF TypeInv, TypeOK, OwnInv, IdleUnheld, Open
<1>4. NoLeak'
  BY <1>1 DEF OwnInv, NoLeak
<1>5. SingleHolder'
  BY <1>1, <1>2 DEF OwnInv, SingleHolder, Queued
<1> QED BY <1>3, <1>4, <1>5 DEF OwnInv

LEMMA OwnAccept ==
  ASSUME TypeInv, OwnInv, Accept
  PROVE  OwnInv'
<1>p. Acceptor \in Procs /\ conn[Acceptor] = NoConn
  BY DEF Accept, TypeInv, PcOK, Procs
<1>1. PICK c \in backlog :
        /\ backlog' = backlog \ {c}
        /\ conn' = [conn EXCEPT ![Acceptor] = c]
        /\ fds' = [fds EXCEPT ![Acceptor] = @ \cup {c}]
        /\ uds' = uds /\ client' = client
  BY DEF Accept, clientVars
<1>2. c \in Conns /\ c # NoConn
  BY ConstantsOK DEF TypeInv, TypeOK
<1>3. /\ \A q \in Procs \ {Acceptor} : conn'[q] = conn[q] /\ fds'[q] = fds[q]
      /\ conn'[Acceptor] = c /\ fds'[Acceptor] = {c}
  <2>1. fds[Acceptor] \cup {c} = {c}
    BY <1>p DEF OwnInv, NoLeak
  <2> QED BY <1>p, <1>1, <2>1 DEF TypeInv, TypeOK
<1>x. /\ client[c] # "idle" /\ \A q \in Procs : c \notin fds[q]
      /\ \A l \in Listeners : \A i \in DOMAIN uds[l] : uds[l][i].conn # c
  BY <1>2 DEF OwnInv, IdleUnheld, Open, SingleHolder, Queued
<1>4. IdleUnheld'
  BY <1>1, <1>3, <1>x DEF OwnInv, IdleUnheld, Open
<1>5. NoLeak'
  BY <1>2, <1>3 DEF OwnInv, NoLeak
<1>6. SingleHolder'
  <2>1. ASSUME NEW d \in Conns
        PROVE  /\ \A q, r \in Procs : d \in fds'[q] /\ d \in fds'[r] => q = r
               /\ d \in backlog' => \A q \in Procs : d \notin fds'[q]
    BY <1>1, <1>3, <1>x DEF OwnInv, SingleHolder
  <2>2. ASSUME NEW d \in Conns, NEW m \in Listeners, NEW i \in DOMAIN uds[m],
               uds[m][i].conn = d
        PROVE  d \notin backlog' /\ \A q \in Procs : d \notin fds'[q]
    BY <1>1, <1>3, <1>x, <2>2 DEF OwnInv, SingleHolder, Queued
  <2>3. ASSUME NEW d \in Conns, NEW m \in Listeners, NEW k \in Listeners,
               NEW i \in DOMAIN uds[m], NEW j \in DOMAIN uds[k],
               uds[m][i].conn = d, uds[k][j].conn = d
        PROVE  m = k /\ i = j
    BY <2>3 DEF OwnInv, SingleHolder, Queued
  <2> QED BY <1>1, <2>1, <2>2, <2>3 DEF SingleHolder, Queued
<1> QED BY <1>4, <1>5, <1>6 DEF OwnInv

LEMMA OwnCloseConn ==
  ASSUME TypeInv, OwnInv, NEW p \in Procs, CloseConn(p)
  PROVE  OwnInv'
BY OwnDrop DEF CloseConn, clientVars

LEMMA OwnHandOff ==
  ASSUME TypeInv, OwnInv, NEW p \in Procs, NEW l, conn[p] \in Conns, HandOff(p, l)
  PROVE  OwnInv'
<1>1. client' = client /\ backlog' = backlog
  BY DEF HandOff, clientVars
<1>2. CASE ConnectRefused(p, l)
  BY <1>1, <1>2, OwnDrop DEF ConnectRefused
<1>3. CASE SendFd(p, l)
  BY <1>1, <1>3, OwnSendFd
<1>4. CASE SendFdFails(p, l)
  BY <1>1, <1>4, OwnDrop DEF SendFdFails, Listening
<1> QED BY <1>2, <1>3, <1>4 DEF HandOff

LEMMA OwnNext == TypeInv /\ OwnInv /\ [Next]_vars => OwnInv'
<1> SUFFICES ASSUME TypeInv, OwnInv, [Next]_vars PROVE OwnInv'
  OBVIOUS
<1>p. /\ Acceptor \in Procs /\ Relayer \in Procs /\ Relayer \in Listeners
      /\ \A w \in Functions : w \in Procs /\ w \in Listeners
  BY DEF Procs, Listeners
<1>1. ASSUME NEW c \in Conns, ClientStep(c) PROVE OwnInv'
  <2>1. CASE Connect(c)
    BY <2>1, OwnConnect
  <2>2. CASE Hello(c) \/ ClientClose(c) \/ RestArrives(c)
    BY <2>2, OwnKept DEF Hello, ClientClose, RestArrives, localVars, TypeInv, TypeOK
  <2>3. ASSUME NEW r \in Requests, IssueRequest(c, r) PROVE OwnInv'
    BY <2>3, OwnKept DEF IssueRequest, localVars
  <2>4. ASSUME NEW k \in 1..Len(todo[c]), NEW cut \in BOOLEAN, SendRecord(c, k, cut)
        PROVE  OwnInv'
    BY <2>4, OwnKept DEF SendRecord, localVars
  <2> QED BY <1>1, <2>1, <2>2, <2>3, <2>4 DEF ClientStep
<1>2. ASSUME AcceptorStep PROVE OwnInv'
  <2>1. CASE Accept
    BY <2>1, OwnAccept
  <2>2. CASE Handshake
    BY <2>2, OwnKept DEF Handshake, TypeInv, TypeOK
  <2>3. CASE HandshakeFails \/ PeekAndExportFails
    BY <2>3, <1>p, OwnCloseConn DEF HandshakeFails, PeekAndExportFails
  <2>4. ASSUME NEW f \in GatewayNames, PeekAndExport(f) PROVE OwnInv'
    BY <2>4, OwnKept DEF PeekAndExport, FirstSerial, clientVars
  <2>5. CASE DispatchToFunction(Acceptor)
    BY <2>5, <1>p, Busy, OwnHandOff DEF DispatchToFunction
  <2> QED BY <1>2, <2>1, <2>2, <2>3, <2>4, <2>5 DEF AcceptorStep
<1>3. ASSUME RelayerStep PROVE OwnInv'
  <2>1. CASE RecvFd(Relayer, "dispatch") \/ RecvFdFails(Relayer)
    BY <2>1, <1>p, OwnRecvFd, OwnRecvFdFails
  <2>2. CASE DispatchToFunction(Relayer)
    BY <2>2, <1>p, Busy, OwnHandOff DEF DispatchToFunction
  <2> QED BY <1>3, <2>1, <2>2 DEF RelayerStep
<1>4. ASSUME NEW w \in Functions, WorkerStep(w) PROVE OwnInv'
  <2>1. CASE RecvFd(w, "restore") \/ RecvFdFails(w)
    BY <2>1, <1>p, OwnRecvFd, OwnRecvFdFails
  <2>2. CASE \/ RestoreFails(w) \/ PeekOwnerFails(w) \/ ReadRequestFails(w)
             \/ RespondFails(w)
    BY <2>2, <1>p, OwnCloseConn
       DEF RestoreFails, PeekOwnerFails, ReadRequestFails, RespondFails
  <2>3. CASE RelayToGateway(w)
    BY <2>3, <1>p, Busy, OwnHandOff DEF RelayToGateway
  <2>4. CASE Restore(w) \/ PeekOwn(w) \/ PeekOther(w)
    BY <2>4, OwnKept DEF Restore, PeekOwn, PeekOther, clientVars
  <2>5. CASE \/ ReadHeadersPending(w) \/ ReadHeaders(w) \/ ReadBody(w)
             \/ RespondAndKeep(w)
    BY <2>5, OwnKept
       DEF ReadHeadersPending, ReadHeaders, ReadBody, RespondAndKeep, clientVars
  <2>6. CASE RespondAndClose(w)
    BY <2>6, <1>p, OwnDrop DEF RespondAndClose, clientVars
  <2> QED BY <1>4, <2>1, <2>2, <2>3, <2>4, <2>5, <2>6 DEF WorkerStep
<1>5. ASSUME NEW w \in Functions, WorkerDies(w) PROVE OwnInv'
  BY <1>5, OwnDie DEF WorkerDies
<1>6. ASSUME GatewayDies PROVE OwnInv'
  BY <1>6, OwnDie DEF GatewayDies
<1>7. ASSUME NEW p \in Procs, Start(p) PROVE OwnInv'
  BY <1>7, OwnKept DEF Start, clientVars
<1>8. ASSUME UNCHANGED vars PROVE OwnInv'
  BY <1>8, OwnKept DEF vars, clientVars, localVars
<1> QED BY <1>1, <1>2, <1>3, <1>4, <1>5, <1>6, <1>7, <1>8 DEF Next, Finished

LEMMA OwnInit == Init => OwnInv
<1> SUFFICES ASSUME Init PROVE OwnInv
  OBVIOUS
<1>1. IdleUnheld
  BY DEF Init, IdleUnheld, Open
<1>2. NoLeak
  BY DEF Init, NoLeak
<1>3. SingleHolder
  BY DEF Init, SingleHolder, Queued
<1> QED BY <1>1, <1>2, <1>3 DEF OwnInv

-----------------------------------------------------------------------------
(* Record numbers *)

(* The calls in which a process uses exported state, and a live session. *)
UsesSerial == {"dispatch", "restore", "peek", "relay"}
UsesSession == {"peek", "relay", "headers", "body", "respond"}

(* Steps that leave the record numbers of every connection alone: each     *)
(* process is as before, or has in hand state that is current.             *)
LEMMA SeqStill ==
  ASSUME SeqInv, UNCHANGED streamVars,
         \A c \in Conns : client'[c] = "idle" \/ c \in backlog' \/ c \in fds'[Acceptor] =>
           client[c] = "idle" \/ c \in backlog \/ c \in fds[Acceptor],
         pc'[Acceptor] # "dispatch" => serial'[Acceptor] = NoSerial,
         ssl'[Acceptor] = NoSession,
         \A p \in Procs : pc'[p] \in UsesSerial => SerialCurrent(conn'[p], serial'[p]),
         \A l \in Listeners : \A i \in DOMAIN uds'[l] : uds'[l][i].conn # NoConn =>
           SerialCurrent(uds'[l][i].conn, uds'[l][i].serial),
         \A w \in Functions : pc'[w] \in UsesSession =>
           /\ ssl'[w].read = consumed[conn'[w]]
           /\ ssl'[w].write = Len(resp[conn'[w]])
  PROVE  SeqInv'
<1>1. consumed' = consumed /\ resp' = resp
  BY DEF streamVars
<1>2. Untouched'
  BY <1>1 DEF SeqInv, Untouched
<1>3. SerialFresh'
  BY <1>1 DEF SerialFresh, SerialCurrent, UsesSerial
<1>4. SessionFresh'
  BY <1>1 DEF SessionFresh, UsesSession
<1>5. NoncesInOrder'
  BY <1>1 DEF SeqInv, NoncesInOrder
<1> QED BY <1>2, <1>3, <1>4, <1>5 DEF SeqInv

(* The same when every process keeps its state or goes idle and no new     *)
(* message has a descriptor.                                               *)
LEMMA SeqShrinks ==
  ASSUME SeqInv, UNCHANGED streamVars,
         \A c \in Conns : client'[c] = "idle" \/ c \in backlog' \/ c \in fds'[Acceptor] =>
           client[c] = "idle" \/ c \in backlog \/ c \in fds[Acceptor],
         \A p \in Procs :
           \/ /\ pc'[p] = pc[p] /\ conn'[p] = conn[p]
              /\ serial'[p] = serial[p] /\ ssl'[p] = ssl[p]
           \/ /\ pc'[p] \in {"accept", "down"}
              /\ p = Acceptor => serial'[p] = NoSerial /\ ssl'[p] = NoSession,
         \A l \in Listeners : \A i \in DOMAIN uds'[l] : uds'[l][i].conn # NoConn =>
           \E j \in DOMAIN uds[l] : uds'[l][i] = uds[l][j]
  PROVE  SeqInv'
<1>p. Acceptor \in Procs /\ \A w \in Functions : w \in Procs
  BY DEF Procs, Listeners
<1>1. /\ pc'[Acceptor] # "dispatch" => serial'[Acceptor] = NoSerial
      /\ ssl'[Acceptor] = NoSession
  BY <1>p DEF SeqInv, Untouched
<1>2. \A p \in Procs : pc'[p] \in UsesSerial => SerialCurrent(conn'[p], serial'[p])
  BY DEF SeqInv, SerialFresh, UsesSerial
<1>3. \A l \in Listeners : \A i \in DOMAIN uds'[l] : uds'[l][i].conn # NoConn =>
        SerialCurrent(uds'[l][i].conn, uds'[l][i].serial)
  BY DEF SeqInv, SerialFresh
<1>4. \A w \in Functions : pc'[w] \in UsesSession =>
        ssl'[w].read = consumed[conn'[w]] /\ ssl'[w].write = Len(resp[conn'[w]])
  BY <1>p DEF SeqInv, SessionFresh, UsesSession
<1> QED BY <1>1, <1>2, <1>3, <1>4, SeqStill

LEMMA SeqDrop ==
  ASSUME TypeInv, OwnInv, SeqInv, NEW p \in Procs, Drop(p), UNCHANGED streamVars,
         client' = client, backlog' = backlog,
         \A l \in Listeners : \A i \in DOMAIN uds'[l] : uds'[l][i].conn # NoConn =>
           \E j \in DOMAIN uds[l] : uds'[l][i] = uds[l][j]
  PROVE  SeqInv'
<1>1. \A q \in Procs \ {p} : /\ pc'[q] = pc[q] /\ conn'[q] = conn[q]
                             /\ serial'[q] = serial[q] /\ ssl'[q] = ssl[q]
  BY DEF Drop, Reset, TypeInv, TypeOK
<1>2. /\ pc'[p] = "accept" /\ conn'[p] = NoConn
      /\ serial'[p] = NoSerial /\ ssl'[p] = NoSession
  BY DEF Drop, Reset, TypeInv, TypeOK
<1>3. Acceptor \in Procs /\ fds'[Acceptor] \subseteq fds[Acceptor]
  BY DEF Drop, Reset, TypeInv, TypeOK, Procs
<1> QED BY <1>1, <1>2, <1>3, SeqShrinks

LEMMA SeqCloseConn ==
  ASSUME TypeInv, OwnInv, SeqInv, NEW p \in Procs, CloseConn(p)
  PROVE  SeqInv'
BY SeqDrop DEF CloseConn, clientVars

(* The state that travels with a descriptor is the sender's, unchanged. *)
LEMMA SeqHandOff ==
  ASSUME TypeInv, OwnInv, SeqInv, NEW p \in Procs, NEW l,
         pc[p] \in {"dispatch", "relay"}, HandOff(p, l)
  PROVE  SeqInv'
<1>1. client' = client /\ backlog' = backlog /\ UNCHANGED streamVars /\ Drop(p)
  BY DEF HandOff, clientVars, ConnectRefused, SendFd, Message, SendFdFails
<1>t. uds \in [Listeners -> Seq(Entry)]
  BY DEF TypeInv, TypeOK
<1>2. CASE ConnectRefused(p, l)
  BY <1>1, <1>2, SeqDrop DEF ConnectRefused
<1>3. CASE SendFdFails(p, l)
  <2>1. l \in Listeners /\ uds' = [uds EXCEPT ![l] = Append(@, EmptyEntry)]
    BY <1>3 DEF SendFdFails, Listening
  <2>2. EmptyEntry \in Entry /\ EmptyEntry.conn = NoConn
    BY DefaultTypes DEF EmptyEntry
  <2>3. ASSUME NEW m \in Listeners, NEW i \in DOMAIN uds'[m], uds'[m][i].conn # NoConn
        PROVE  \E j \in DOMAIN uds[m] : uds'[m][i] = uds[m][j]
    <3>1. CASE m # l
      BY <3>1, <2>1, <1>t
    <3>2. CASE m = l
      <4>1. uds'[m] = Append(uds[m], EmptyEntry) /\ uds[m] \in Seq(Entry)
        BY <3>2, <2>1, <1>t
      <4> QED BY <4>1, <2>2, <2>3, AppendEntries
    <3> QED BY <3>1, <3>2
  <2> QED BY <1>1, <2>3, SeqDrop
<1>4. CASE SendFd(p, l)
  <2> DEFINE e == [conn |-> conn[p], serial |-> serial[p], target |-> target[p]]
  <2>1. l \in Listeners /\ uds' = [uds EXCEPT ![l] = Append(@, e)]
    BY <1>4 DEF SendFd, Message, Listening
  <2>2. e \in Entry /\ e.conn = conn[p] /\ e.serial = serial[p]
    BY DEF TypeInv, TypeOK, Entry
  <2>3. SerialCurrent(e.conn, e.serial)
    BY <2>2 DEF SeqInv, SerialFresh
  <2> HIDE DEF e
  <2>4. ASSUME NEW m \in Listeners, NEW i \in DOMAIN uds'[m], uds'[m][i].conn # NoConn
        PROVE  SerialCurrent(uds'[m][i].conn, uds'[m][i].serial)
    <3>1. CASE m # l
      BY <3>1, <2>1, <2>4, <1>t DEF SeqInv, SerialFresh
    <3>2. CASE m = l
      <4>1. uds'[m] = Append(uds[m], e) /\ uds[m] \in Seq(Entry)
        BY <3>2, <2>1, <1>t
      <4>2. (i \in DOMAIN uds[m] /\ uds'[m][i] = uds[m][i]) \/ uds'[m][i] = e
        BY <4>1, <2>2, <2>4, AppendEntries
      <4> QED BY <4>2, <2>3, <2>4 DEF SeqInv, SerialFresh
    <3> QED BY <3>1, <3>2
  <2>5. \A q \in Procs \ {p} : /\ pc'[q] = pc[q] /\ conn'[q] = conn[q]
                               /\ serial'[q] = serial[q] /\ ssl'[q] = ssl[q]
    BY <1>1 DEF Drop, Reset, TypeInv, TypeOK
  <2>6. pc'[p] = "accept" /\ serial'[p] = NoSerial /\ ssl'[p] = NoSession
    BY <1>1 DEF Drop, Reset, TypeInv, TypeOK
  <2>7. Acceptor \in Procs /\ fds'[Acceptor] \subseteq fds[Acceptor]
    BY <1>1 DEF Drop, Reset, TypeInv, TypeOK, Procs
  <2>8. /\ pc'[Acceptor] # "dispatch" => serial'[Acceptor] = NoSerial
        /\ ssl'[Acceptor] = NoSession
    BY <2>5, <2>6, <2>7 DEF SeqInv, Untouched
  <2>9. \A q \in Procs : pc'[q] \in UsesSerial => SerialCurrent(conn'[q], serial'[q])
    BY <2>5, <2>6 DEF SeqInv, SerialFresh, UsesSerial
  <2>10. \A w \in Functions : pc'[w] \in UsesSession =>
           ssl'[w].read = consumed[conn'[w]] /\ ssl'[w].write = Len(resp[conn'[w]])
    BY <2>5, <2>6 DEF SeqInv, SessionFresh, UsesSession, Procs, Listeners
  <2> QED BY <1>1, <2>4, <2>7, <2>8, <2>9, <2>10, SeqStill
<1> QED BY <1>2, <1>3, <1>4 DEF HandOff

LEMMA SeqRecvFd ==
  ASSUME TypeInv, OwnInv, SeqInv, NEW p \in Listeners, NEW next,
         next \in {"dispatch", "restore"}, RecvFd(p, next)
  PROVE  SeqInv'
<1> DEFINE m == Head(uds[p])
<1>t. uds \in [Listeners -> Seq(Entry)] /\ uds[p] # <<>> /\ p \in Procs /\ p # Acceptor
  BY ConstantsOK DEF TypeInv, TypeOK, RecvFd, TakeMessage, Procs, Listeners
<1>1. /\ uds' = [uds EXCEPT ![p] = Tail(@)] /\ pc' = [pc EXCEPT ![p] = next]
      /\ conn' = [conn EXCEPT ![p] = m.conn] /\ fds' = [fds EXCEPT ![p] = @ \cup {m.conn}]
      /\ serial' = [serial EXCEPT ![p] = m.serial] /\ ssl' = ssl
      /\ client' = client /\ backlog' = backlog /\ UNCHANGED streamVars
      /\ m.conn # NoConn
  BY DEF RecvFd, TakeMessage, clientVars
<1>2. 1 \in DOMAIN uds[p] /\ m = uds[p][1]
  BY <1>t, TailEntries
<1>3. SerialCurrent(m.conn, m.serial)
  BY <1>1, <1>2 DEF SeqInv, SerialFresh
<1> HIDE DEF m
<1>4. /\ pc'[p] = next /\ conn'[p] = m.conn /\ serial'[p] = m.serial
      /\ \A q \in Procs \ {p} : /\ pc'[q] = pc[q] /\ conn'[q] = conn[q]
                                /\ serial'[q] = serial[q] /\ fds'[q] = fds[q]
  BY <1>1, <1>t DEF TypeInv, TypeOK
<1>5. Acceptor \in Procs \ {p} /\ \A w \in Functions : w \in Procs
  BY <1>t DEF Procs, Listeners
<1>6. \A l \in Listeners : \A i \in DOMAIN uds'[l] :
        \E j \in DOMAIN uds[l] : uds'[l][i] = uds[l][j]
  <2>1. \A l \in Listeners \ {p} : uds'[l] = uds[l]
    BY <1>1, <1>t
  <2>2. uds'[p] = Tail(uds[p]) /\ uds[p] \in Seq(Entry)
    BY <1>1, <1>t
  <2>3. \A i \in DOMAIN uds'[p] : \E j \in DOMAIN uds[p] : uds'[p][i] = uds[p][j]
    BY <1>t, <2>2, TailEntries
  <2> QED BY <2>1, <2>3
<1>7. \A l \in Listeners : \A i \in DOMAIN uds'[l] : uds'[l][i].conn # NoConn =>
        SerialCurrent(uds'[l][i].conn, uds'[l][i].serial)
  BY <1>6 DEF SeqInv, SerialFresh
<1>8. \A q \in Procs : pc'[q] \in UsesSerial => SerialCurrent(conn'[q], serial'[q])
  BY <1>3, <1>4 DEF SeqInv, SerialFresh, UsesSerial
<1>9. \A w \in Functions : pc'[w] \in UsesSession =>
        ssl'[w].read = consumed[conn'[w]] /\ ssl'[w].write = Len(resp[conn'[w]])
  BY <1>1, <1>4, <1>5 DEF SeqInv, SessionFresh, UsesSession
<1>10. /\ pc'[Acceptor] # "dispatch" => serial'[Acceptor] = NoSerial
       /\ ssl'[Acceptor] = NoSession /\ fds'[Acceptor] = fds[Acceptor]
  BY <1>1, <1>4, <1>5 DEF SeqInv, Untouched
<1> QED BY <1>1, <1>7, <1>8, <1>9, <1>10, SeqStill

(* Its only holder takes one more record from a connection. *)
LEMMA SeqRead ==
  ASSUME TypeInv, OwnInv, SeqInv, NEW w \in Functions, conn[w] \in Conns,
         pc[w] \in {"headers", "body"}, NEW q \in {"headers", "body", "respond"},
         pc' = [pc EXCEPT ![w] = q],
         consumed' = [consumed EXCEPT ![conn[w]] = @ + 1],
         ssl'[w].read = ssl[w].read + 1, ssl'[w].write = ssl[w].write,
         \A p \in Procs \ {w} : ssl'[p] = ssl[p],
         UNCHANGED <<client, resp, backlog, uds, conn, fds, serial>>
  PROVE  SeqInv'
<1>p. w \in Procs /\ w # Acceptor /\ Acceptor \in Procs /\ \A v \in Functions : v \in Procs
  BY ConstantsOK DEF Procs, Listeners
<1>1. /\ pc'[w] = q /\ \A p \in Procs \ {w} : pc'[p] = pc[p]
      /\ consumed'[conn[w]] = consumed[conn[w]] + 1
      /\ \A c \in Conns \ {conn[w]} : consumed'[c] = consumed[c]
  BY <1>p DEF TypeInv, TypeOK
<1>x. /\ conn[w] \notin backlog /\ client[conn[w]] # "idle"
      /\ conn[w] \notin fds[Acceptor]
      /\ \A p \in Procs \ {w} : conn[p] # conn[w]
      /\ \A l \in Listeners : \A i \in DOMAIN uds[l] : uds[l][i].conn # conn[w]
  BY <1>p, Exclusive
<1>2. Untouched'
  BY <1>p, <1>1, <1>x DEF SeqInv, Untouched
<1>3. SerialFresh'
  <2>1. ASSUME NEW p \in Procs, pc'[p] \in UsesSerial
        PROVE  /\ serial[p].read_seq_num = consumed'[conn[p]]
               /\ serial[p].blob_read = consumed'[conn[p]]
               /\ serial[p].blob_write = Len(resp[conn[p]])
    <3>1. p # w /\ pc[p] \in UsesSerial
      BY <2>1, <1>1 DEF UsesSerial
    <3>2. conn[p] \in Conns \ {conn[w]}
      BY <3>1, <1>x, Busy DEF UsesSerial
    <3> QED BY <3>1, <3>2, <1>1 DEF SeqInv, SerialFresh, SerialCurrent, UsesSerial
  <2>2. ASSUME NEW l \in Listeners, NEW i \in DOMAIN uds[l], uds[l][i].conn # NoConn
        PROVE  /\ uds[l][i].serial.read_seq_num = consumed'[uds[l][i].conn]
               /\ uds[l][i].serial.blob_read = consumed'[uds[l][i].conn]
               /\ uds[l][i].serial.blob_write = Len(resp[uds[l][i].conn])
    <3>1. uds[l][i] \in Entry
      BY DEF TypeInv, TypeOK
    <3>2. uds[l][i].conn \in Conns \ {conn[w]}
      BY <3>1, <2>2, <1>x DEF Entry
    <3> QED BY <2>2, <3>2, <1>1 DEF SeqInv, SerialFresh, SerialCurrent
  <2> QED BY <2>1, <2>2 DEF SerialFresh, SerialCurrent, UsesSerial
<1>4. SessionFresh'
  <2> SUFFICES ASSUME NEW v \in Functions, pc'[v] \in UsesSession
               PROVE  /\ ssl'[v].read = consumed'[conn[v]]
                      /\ ssl'[v].write = Len(resp[conn[v]])
    BY DEF SessionFresh, UsesSession
  <2>1. CASE v = w
    BY <2>1, <1>1 DEF SeqInv, SessionFresh
  <2>2. CASE v # w
    <3>1. conn[v] \in Conns \ {conn[w]}
      BY <2>2, <1>p, <1>1, <1>x, Busy DEF UsesSession
    <3> QED BY <2>2, <3>1, <1>p, <1>1 DEF SeqInv, SessionFresh, UsesSession
  <2> QED BY <2>1, <2>2
<1>5. NoncesInOrder'
  BY DEF SeqInv, NoncesInOrder
<1> QED BY <1>2, <1>3, <1>4, <1>5 DEF SeqInv

(* Its only holder answers on a connection and keeps it, exporting the     *)
(* state anew, or closes it.                                               *)
LEMMA SeqRespond ==
  ASSUME TypeInv, OwnInv, SeqInv, NEW w \in Functions, pc[w] = "respond",
         WriteResponse(w), UNCHANGED <<client, consumed, backlog, uds>>,
         fds'[Acceptor] = fds[Acceptor],
         \A p \in Procs \ {w} : /\ pc'[p] = pc[p] /\ conn'[p] = conn[p]
                                /\ serial'[p] = serial[p] /\ ssl'[p] = ssl[p],
         \/ pc'[w] = "accept"
         \/ /\ pc'[w] = "peek" /\ conn'[w] = conn[w]
            /\ serial'[w].read_seq_num = ssl[w].read
            /\ serial'[w].blob_read = ssl[w].read
            /\ serial'[w].blob_write = ssl[w].write + 1
            /\ ssl'[w].read = ssl[w].read /\ ssl'[w].write = ssl[w].write + 1
  PROVE  SeqInv'
<1> DEFINE c0 == conn[w]
           r == [id |-> rd[w].id, by |-> w, seq |-> ssl[w].write]
<1>p. w \in Procs /\ w # Acceptor /\ Acceptor \in Procs /\ \A v \in Functions : v \in Procs
  BY ConstantsOK DEF Procs, Listeners
<1>c. c0 \in Conns
  BY <1>p, Busy
<1>x. /\ c0 \notin backlog /\ client[c0] # "idle" /\ c0 \notin fds[Acceptor]
      /\ \A p \in Procs \ {w} : conn[p] # c0
      /\ \A l \in Listeners : \A i \in DOMAIN uds[l] : uds[l][i].conn # c0
  BY <1>c, <1>p, Exclusive
<1>s. ssl[w].read = consumed[c0] /\ ssl[w].write = Len(resp[c0])
  BY DEF SeqInv, SessionFresh
<1>1. /\ resp'[c0] = Append(resp[c0], r) /\ r.seq = ssl[w].write
      /\ \A c \in Conns \ {c0} : resp'[c] = resp[c]
  BY <1>c DEF WriteResponse, TypeInv, TypeOK
<1> HIDE DEF r
<1>2. Len(resp'[c0]) = Len(resp[c0]) + 1
  BY <1>1, <1>c DEF TypeInv, TypeOK
<1>3. Untouched'
  BY <1>p, <1>1, <1>x DEF SeqInv, Untouched
<1>4. SerialFresh'
  <2>1. ASSUME NEW p \in Procs, pc'[p] \in UsesSerial
        PROVE  /\ serial'[p].read_seq_num = consumed[conn'[p]]
               /\ serial'[p].blob_read = consumed[conn'[p]]
               /\ serial'[p].blob_write = Len(resp'[conn'[p]])
    <3>1. CASE p = w
      BY <3>1, <2>1, <1>s, <1>2 DEF UsesSerial
    <3>2. CASE p # w
      <4>1. conn[p] \in Conns \ {c0}
        BY <3>2, <2>1, <1>x, Busy DEF UsesSerial
      <4> QED BY <3>2, <2>1, <4>1, <1>1 DEF SeqInv, SerialFresh, SerialCurrent, UsesSerial
    <3> QED BY <3>1, <3>2
  <2>2. ASSUME NEW l \in Listeners, NEW i \in DOMAIN uds[l], uds[l][i].conn # NoConn
        PROVE  /\ uds[l][i].serial.read_seq_num = consumed[uds[l][i].conn]
               /\ uds[l][i].serial.blob_read = consumed[uds[l][i].conn]
               /\ uds[l][i].serial.blob_write = Len(resp'[uds[l][i].conn])
    <3>1. uds[l][i] \in Entry
      BY DEF TypeInv, TypeOK
    <3>2. uds[l][i].conn \in Conns \ {c0}
      BY <3>1, <2>2, <1>x DEF Entry
    <3> QED BY <2>2, <3>2, <1>1 DEF SeqInv, SerialFresh, SerialCurrent
  <2> QED BY <2>1, <2>2 DEF SerialFresh, SerialCurrent, UsesSerial
<1>5. SessionFresh'
  <2> SUFFICES ASSUME NEW v \in Functions, pc'[v] \in UsesSession
               PROVE  /\ ssl'[v].read = consumed[conn'[v]]
                      /\ ssl'[v].write = Len(resp'[conn'[v]])
    BY DEF SessionFresh, UsesSession
  <2>1. CASE v = w
    BY <2>1, <1>s, <1>2 DEF UsesSession
  <2>2. CASE v # w
    <3>1. conn[v] \in Conns \ {c0}
      BY <2>2, <1>p, <1>x, Busy DEF UsesSession
    <3> QED BY <2>2, <3>1, <1>p, <1>1 DEF SeqInv, SessionFresh, UsesSession
  <2> QED BY <2>1, <2>2
<1>6. NoncesInOrder'
  <2> SUFFICES ASSUME NEW c \in Conns, NEW i \in DOMAIN resp'[c]
               PROVE  resp'[c][i].seq = i - 1
    BY DEF NoncesInOrder
  <2>1. CASE c # c0
    BY <2>1, <1>1 DEF SeqInv, NoncesInOrder
  <2>2. CASE c = c0
    <3>1. /\ resp[c0] \in Seq(Response)
          /\ \A j \in DOMAIN resp[c0] : resp[c0][j].seq = j - 1
      BY <1>c DEF TypeInv, TypeOK, SeqInv, NoncesInOrder
    <3>2. \/ i \in DOMAIN resp[c0] /\ resp'[c0][i] = resp[c0][i]
          \/ i = Len(resp[c0]) + 1 /\ resp'[c0][i] = r
      BY <2>2, <1>1, <3>1
    <3>3. Len(resp[c0]) \in Nat
      BY <3>1
    <3> QED BY <2>2, <3>1, <3>2, <3>3, <1>1, <1>s
  <2> QED BY <2>1, <2>2
<1> QED BY <1>3, <1>4, <1>5, <1>6 DEF SeqInv

LEMMA SeqAcceptor ==
  ASSUME TypeInv, OwnInv, SeqInv, AcceptorStep
  PROVE  SeqInv'
<1>p. Acceptor \in Procs /\ \A w \in Functions : w \in Procs /\ w # Acceptor
  BY ConstantsOK DEF Procs, Listeners
<1>1. CASE Accept
  <2>1. PICK c \in backlog :
          /\ backlog' = backlog \ {c}
          /\ pc' = [pc EXCEPT ![Acceptor] = "handshake"]
          /\ conn' = [conn EXCEPT ![Acceptor] = c]
          /\ fds' = [fds EXCEPT ![Acceptor] = @ \cup {c}]
          /\ UNCHANGED <<client, streamVars, uds, serial, ssl>>
    BY <1>1 DEF Accept, clientVars
  <2>2. /\ pc[Acceptor] = "accept" /\ pc'[Acceptor] = "handshake"
        /\ fds'[Acceptor] = fds[Acceptor] \cup {c}
        /\ \A q \in Procs \ {Acceptor} : pc'[q] = pc[q] /\ conn'[q] = conn[q]
    BY <1>1, <1>p, <2>1 DEF Accept, TypeInv, TypeOK
  <2>3. serial[Acceptor] = NoSerial /\ ssl[Acceptor] = NoSession
    BY <2>2 DEF SeqInv, Untouched
  <2>4. \A q \in Procs : pc'[q] \in UsesSerial => SerialCurrent(conn'[q], serial'[q])
    BY <2>1, <2>2 DEF SeqInv, SerialFresh, UsesSerial
  <2>5. \A l \in Listeners : \A i \in DOMAIN uds'[l] : uds'[l][i].conn # NoConn =>
          SerialCurrent(uds'[l][i].conn, uds'[l][i].serial)
    BY <2>1 DEF SeqInv, SerialFresh
  <2>6. \A w \in Functions : pc'[w] \in UsesSession =>
          ssl'[w].read = consumed[conn'[w]] /\ ssl'[w].write = Len(resp[conn'[w]])
    BY <1>p, <2>1, <2>2 DEF SeqInv, SessionFresh, UsesSession
  <2> QED BY <2>1, <2>2, <2>3, <2>4, <2>5, <2>6, SeqStill
<1>a. ASSUME pc[Acceptor] \in {"handshake", "peek"}
      PROVE  /\ conn[Acceptor] \in Conns /\ conn[Acceptor] \in fds[Acceptor]
             /\ consumed[conn[Acceptor]] = 0 /\ Len(resp[conn[Acceptor]]) = 0
             /\ serial[Acceptor] = NoSerial /\ ssl[Acceptor] = NoSession
  <2>1. conn[Acceptor] \in Conns
    BY <1>a, <1>p, Busy
  <2>2. conn[Acceptor] \in fds[Acceptor]
    BY <1>p, <2>1, Exclusive
  <2> QED BY <1>a, <2>1, <2>2 DEF SeqInv, Untouched
<1>2. CASE Handshake
  <2>1. /\ pc[Acceptor] = "handshake" /\ pc' = [pc EXCEPT ![Acceptor] = "peek"]
        /\ client' = [client EXCEPT ![conn[Acceptor]] = "secure"]
        /\ UNCHANGED <<streamVars, backlog, uds, conn, fds, serial, ssl>>
    BY <1>2 DEF Handshake
  <2>2. /\ pc'[Acceptor] = "peek" /\ \A q \in Procs \ {Acceptor} : pc'[q] = pc[q]
        /\ \A c \in Conns : client'[c] = "idle" => client[c] = "idle"
    BY <1>p, <2>1 DEF TypeInv, TypeOK
  <2>3. SerialCurrent(conn[Acceptor], serial[Acceptor])
    BY <1>a, <2>1 DEF SerialCurrent, NoSerial
  <2>4. \A q \in Procs : pc'[q] \in UsesSerial => SerialCurrent(conn'[q], serial'[q])
    BY <2>1, <2>2, <2>3 DEF SeqInv, SerialFresh, UsesSerial
  <2>5. \A l \in Listeners : \A i \in DOMAIN uds'[l] : uds'[l][i].conn # NoConn =>
          SerialCurrent(uds'[l][i].conn, uds'[l][i].serial)
    BY <2>1 DEF SeqInv, SerialFresh
  <2>6. \A w \in Functions : pc'[w] \in UsesSession =>
          ssl'[w].read = consumed[conn'[w]] /\ ssl'[w].write = Len(resp[conn'[w]])
    BY <1>p, <2>1, <2>2 DEF SeqInv, SessionFresh, UsesSession
  <2> QED BY <1>a, <2>1, <2>2, <2>4, <2>5, <2>6, SeqStill
<1>3. CASE HandshakeFails \/ PeekAndExportFails
  BY <1>3, <1>p, SeqCloseConn DEF HandshakeFails, PeekAndExportFails
<1>4. ASSUME NEW f \in GatewayNames, PeekAndExport(f) PROVE SeqInv'
  <2> DEFINE e == [read_seq_num |-> 0, blob_read |-> ssl[Acceptor].read,
                   blob_write |-> ssl[Acceptor].write]
  <2>1. /\ pc[Acceptor] = "peek" /\ pc' = [pc EXCEPT ![Acceptor] = "dispatch"]
        /\ serial' = [serial EXCEPT ![Acceptor] = e]
        /\ ssl' = [ssl EXCEPT ![Acceptor] = NoSession]
        /\ UNCHANGED <<client, streamVars, backlog, uds, conn, fds>>
    BY <1>4 DEF PeekAndExport, FirstSerial, clientVars
  <2>2. SerialCurrent(conn[Acceptor], e)
    BY <1>a, <2>1 DEF SerialCurrent, NoSession
  <2> HIDE DEF e
  <2>3. /\ pc'[Acceptor] = "dispatch" /\ serial'[Acceptor] = e
        /\ ssl'[Acceptor] = NoSession
        /\ \A q \in Procs \ {Acceptor} :
             pc'[q] = pc[q] /\ serial'[q] = serial[q] /\ ssl'[q] = ssl[q]
    BY <1>p, <2>1 DEF TypeInv, TypeOK
  <2>4. \A q \in Procs : pc'[q] \in UsesSerial => SerialCurrent(conn'[q], serial'[q])
    BY <2>1, <2>2, <2>3 DEF SeqInv, SerialFresh, UsesSerial
  <2>5. \A l \in Listeners : \A i \in DOMAIN uds'[l] : uds'[l][i].conn # NoConn =>
          SerialCurrent(uds'[l][i].conn, uds'[l][i].serial)
    BY <2>1 DEF SeqInv, SerialFresh
  <2>6. \A w \in Functions : pc'[w] \in UsesSession =>
          ssl'[w].read = consumed[conn'[w]] /\ ssl'[w].write = Len(resp[conn'[w]])
    BY <1>p, <2>1, <2>3 DEF SeqInv, SessionFresh, UsesSession
  <2> QED BY <2>1, <2>3, <2>4, <2>5, <2>6, SeqStill
<1>5. CASE DispatchToFunction(Acceptor)
  BY <1>5, <1>p, SeqHandOff DEF DispatchToFunction
<1> QED BY <1>1, <1>2, <1>3, <1>4, <1>5 DEF AcceptorStep

(* RecvFdFails(p): the queue shrinks, nothing else changes. *)
LEMMA SeqRecvFdFails ==
  ASSUME TypeInv, OwnInv, SeqInv, NEW p \in Listeners, RecvFdFails(p)
  PROVE  SeqInv'
<1>1. /\ uds[p] # <<>> /\ uds' = [uds EXCEPT ![p] = Tail(@)]
      /\ UNCHANGED <<client, streamVars, backlog, pc, conn, fds, serial, ssl>>
  BY DEF RecvFdFails, clientVars, localVars
<1>t. uds \in [Listeners -> Seq(Entry)]
  BY DEF TypeInv, TypeOK
<1>2. \A l \in Listeners \ {p} : uds'[l] = uds[l]
  BY <1>1, <1>t
<1>3. uds'[p] = Tail(uds[p]) /\ uds[p] \in Seq(Entry)
  BY <1>1, <1>t
<1>4. \A i \in DOMAIN uds'[p] : \E j \in DOMAIN uds[p] : uds'[p][i] = uds[p][j]
  BY <1>1, <1>3, TailEntries
<1>5. \A l \in Listeners : \A i \in DOMAIN uds'[l] :
        \E j \in DOMAIN uds[l] : uds'[l][i] = uds[l][j]
  BY <1>2, <1>4
<1> QED BY <1>1, <1>5, SeqShrinks

LEMMA SeqWorker ==
  ASSUME TypeInv, OwnInv, SeqInv, NEW w \in Functions, WorkerStep(w)
  PROVE  SeqInv'
<1>p. /\ w \in Procs /\ w \in Listeners /\ w # Acceptor /\ Acceptor \in Procs
      /\ \A v \in Functions : v \in Procs
  BY ConstantsOK DEF Procs, Listeners
<1>1. CASE RecvFd(w, "restore") \/ RecvFdFails(w)
  BY <1>1, <1>p, SeqRecvFd, SeqRecvFdFails
<1>2. CASE \/ RestoreFails(w) \/ PeekOwnerFails(w) \/ ReadRequestFails(w)
           \/ RespondFails(w)
  BY <1>2, <1>p, SeqCloseConn
     DEF RestoreFails, PeekOwnerFails, ReadRequestFails, RespondFails
<1>3. CASE RelayToGateway(w)
  BY <1>3, <1>p, SeqHandOff DEF RelayToGateway
<1>s. ASSUME UNCHANGED <<client, streamVars, backlog, uds, conn, fds, serial>>,
             \A q \in Procs \ {w} : pc'[q] = pc[q] /\ ssl'[q] = ssl[q],
             pc'[w] \in UsesSerial => pc[w] \in UsesSerial,
             pc'[w] \in UsesSession =>
               ssl'[w].read = consumed[conn[w]] /\ ssl'[w].write = Len(resp[conn[w]])
      PROVE  SeqInv'
  <2>1. /\ pc'[Acceptor] # "dispatch" => serial'[Acceptor] = NoSerial
        /\ ssl'[Acceptor] = NoSession
    BY <1>p, <1>s DEF SeqInv, Untouched
  <2>2. \A q \in Procs : pc'[q] \in UsesSerial => SerialCurrent(conn'[q], serial'[q])
    BY <1>s DEF SeqInv, SerialFresh, UsesSerial
  <2>3. \A l \in Listeners : \A i \in DOMAIN uds'[l] : uds'[l][i].conn # NoConn =>
          SerialCurrent(uds'[l][i].conn, uds'[l][i].serial)
    BY <1>s DEF SeqInv, SerialFresh
  <2>4. \A v \in Functions : pc'[v] \in UsesSession =>
          ssl'[v].read = consumed[conn'[v]] /\ ssl'[v].write = Len(resp[conn'[v]])
    BY <1>p, <1>s DEF SeqInv, SessionFresh, UsesSession
  <2> QED BY <1>s, <2>1, <2>2, <2>3, <2>4, SeqStill
<1>4. CASE Restore(w)
  <2>1. /\ pc[w] = "restore" /\ pc'[w] = "peek"
        /\ ssl'[w].read = serial[w].blob_read /\ ssl'[w].write = serial[w].blob_write
        /\ \A q \in Procs \ {w} : pc'[q] = pc[q] /\ ssl'[q] = ssl[q]
        /\ UNCHANGED <<client, streamVars, backlog, uds, conn, fds, serial>>
    BY <1>4, <1>p DEF Restore, clientVars, TypeInv, TypeOK
  <2>2. SerialCurrent(conn[w], serial[w])
    BY <1>p, <2>1 DEF SeqInv, SerialFresh
  <2> QED BY <1>s, <2>1, <2>2 DEF SerialCurrent, UsesSerial
<1>5. CASE PeekOwn(w) \/ PeekOther(w)
  <2>1. /\ pc[w] = "peek" /\ pc'[w] \in {"headers", "relay"} /\ ssl' = ssl
        /\ \A q \in Procs \ {w} : pc'[q] = pc[q]
        /\ UNCHANGED <<client, streamVars, backlog, uds, conn, fds, serial>>
    BY <1>5, <1>p DEF PeekOwn, PeekOther, clientVars, TypeInv, TypeOK
  <2>2. ssl[w].read = consumed[conn[w]] /\ ssl[w].write = Len(resp[conn[w]])
    BY <2>1 DEF SeqInv, SessionFresh
  <2> QED BY <1>s, <2>1, <2>2 DEF UsesSerial
<1>h. ASSUME NEW buf, AfterHeaders(w, buf)
      PROVE  \E q \in {"headers", "body", "respond"} : pc' = [pc EXCEPT ![w] = q]
  BY <1>h DEF AfterHeaders
<1>6. CASE ReadHeadersPending(w)
  <2>1. PICK q \in {"headers", "body", "respond"} : pc' = [pc EXCEPT ![w] = q]
    BY <1>6, <1>h DEF ReadHeadersPending
  <2>2. /\ pc[w] = "headers" /\ pc'[w] = q
        /\ ssl'[w].read = ssl[w].read /\ ssl'[w].write = ssl[w].write
        /\ \A v \in Procs \ {w} : pc'[v] = pc[v] /\ ssl'[v] = ssl[v]
        /\ UNCHANGED <<client, streamVars, backlog, uds, conn, fds, serial>>
    BY <1>6, <1>p, <2>1 DEF ReadHeadersPending, clientVars, TypeInv, TypeOK, Session
  <2>3. ssl[w].read = consumed[conn[w]] /\ ssl[w].write = Len(resp[conn[w]])
    BY <2>2 DEF SeqInv, SessionFresh
  <2> QED BY <1>s, <2>2, <2>3 DEF UsesSerial
<1>7. CASE ReadHeaders(w)
  <2>1. PICK q \in {"headers", "body", "respond"} : pc' = [pc EXCEPT ![w] = q]
    BY <1>7, <1>h DEF ReadHeaders
  <2>2. /\ pc[w] = "headers" /\ consumed' = [consumed EXCEPT ![conn[w]] = @ + 1]
        /\ ssl'[w].read = ssl[w].read + 1 /\ ssl'[w].write = ssl[w].write
        /\ \A v \in Procs \ {w} : ssl'[v] = ssl[v]
        /\ UNCHANGED <<client, resp, backlog, uds, conn, fds, serial>>
    BY <1>7, <1>p DEF ReadHeaders, clientVars, TypeInv, TypeOK, Session
  <2> QED BY <1>p, <2>1, <2>2, Busy, SeqRead
<1>8. CASE ReadBody(w)
  <2>1. \E q \in {"headers", "body", "respond"} : pc' = [pc EXCEPT ![w] = q]
    BY <1>8 DEF ReadBody
  <2>2. /\ pc[w] = "body" /\ consumed' = [consumed EXCEPT ![conn[w]] = @ + 1]
        /\ ssl'[w].read = ssl[w].read + 1 /\ ssl'[w].write = ssl[w].write
        /\ \A v \in Procs \ {w} : ssl'[v] = ssl[v]
        /\ UNCHANGED <<client, resp, backlog, uds, conn, fds, serial>>
    BY <1>8, <1>p DEF ReadBody, clientVars, TypeInv, TypeOK, Session
  <2> QED BY <1>p, <2>1, <2>2, Busy, SeqRead
<1>9. CASE RespondAndKeep(w)
  <2>1. /\ pc[w] = "respond" /\ WriteResponse(w)
        /\ UNCHANGED <<client, consumed, backlog, uds, conn, fds>>
    BY <1>9 DEF RespondAndKeep, LiveSerial, clientVars
  <2>2. /\ pc'[w] = "peek"
        /\ serial'[w] = [read_seq_num |-> ssl[w].read, blob_read |-> ssl[w].read,
                         blob_write |-> ssl[w].write + 1]
        /\ ssl'[w].read = ssl[w].read /\ ssl'[w].write = ssl[w].write + 1
        /\ \A q \in Procs \ {w} : /\ pc'[q] = pc[q] /\ serial'[q] = serial[q]
                                  /\ ssl'[q] = ssl[q]
    BY <1>9, <1>p DEF RespondAndKeep, LiveSerial, TypeInv, TypeOK, Session
  <2> QED BY <2>1, <2>2, SeqRespond
<1>10. CASE RespondAndClose(w)
  <2>1. /\ pc[w] = "respond" /\ WriteResponse(w)
        /\ UNCHANGED <<client, consumed, backlog, uds>>
    BY <1>10 DEF RespondAndClose, clientVars
  <2>2. /\ pc'[w] = "accept"
        /\ \A q \in Procs \ {w} : /\ pc'[q] = pc[q] /\ conn'[q] = conn[q]
                                  /\ serial'[q] = serial[q] /\ ssl'[q] = ssl[q]
                                  /\ fds'[q] = fds[q]
    BY <1>10, <1>p DEF RespondAndClose, Drop, Reset, TypeInv, TypeOK
  <2> QED BY <1>p, <2>1, <2>2, SeqRespond
<1> QED BY <1>1, <1>2, <1>3, <1>4, <1>5, <1>6, <1>7, <1>8, <1>9, <1>10 DEF WorkerStep

LEMMA SeqDie ==
  ASSUME TypeInv, OwnInv, SeqInv, NEW P, Die(P), backlog' \subseteq backlog
  PROVE  SeqInv'
<1>1. \A q \in Procs :
        \/ /\ pc'[q] = pc[q] /\ conn'[q] = conn[q]
           /\ serial'[q] = serial[q] /\ ssl'[q] = ssl[q] /\ fds'[q] = fds[q]
        \/ /\ pc'[q] = "down" /\ serial'[q] = NoSerial /\ ssl'[q] = NoSession
           /\ fds'[q] = {}
  BY DEF Die
<1>2. \A l \in Listeners : uds'[l] = uds[l] \/ uds'[l] = <<>>
  BY DEF Die
<1>3. \A l \in Listeners : \A i \in DOMAIN uds'[l] :
        \E j \in DOMAIN uds[l] : uds'[l][i] = uds[l][j]
  BY <1>2
<1>4. client' = client /\ UNCHANGED streamVars /\ Acceptor \in Procs
  BY DEF Die, clientVars, Procs
<1> QED BY <1>1, <1>3, <1>4, SeqShrinks

LEMMA SeqNext == TypeInv /\ OwnInv /\ SeqInv /\ [Next]_vars => SeqInv'
<1> SUFFICES ASSUME TypeInv, OwnInv, SeqInv, [Next]_vars PROVE SeqInv'
  OBVIOUS
<1>p. /\ Acceptor \in Procs /\ Relayer \in Procs /\ Relayer \in Listeners
      /\ \A w \in Functions : w \in Procs /\ w \in Listeners
  BY DEF Procs, Listeners
<1>s. ASSUME UNCHANGED <<streamVars, uds, conn, fds, serial, ssl>>,
             \A q \in Procs : pc'[q] = pc[q] \/ (pc[q] = "down" /\ pc'[q] = "accept"),
             \A c \in Conns : client'[c] = "idle" \/ c \in backlog' =>
               client[c] = "idle" \/ c \in backlog
      PROVE  SeqInv'
  <2>1. pc[Acceptor] = "down" => serial[Acceptor] = NoSerial /\ ssl[Acceptor] = NoSession
    BY DEF SeqInv, Untouched
  <2> QED BY <1>s, <2>1, SeqShrinks
<1>1. ASSUME NEW c \in Conns, ClientStep(c) PROVE SeqInv'
  <2>1. UNCHANGED <<streamVars, uds, pc, conn, fds, serial, ssl>>
    BY <1>1 DEF ClientStep, Connect, Hello, ClientClose, RestArrives, IssueRequest,
                SendRecord, localVars
  <2>2. \A d \in Conns : client'[d] = "idle" \/ d \in backlog' =>
          client[d] = "idle" \/ d \in backlog
    BY <1>1 DEF ClientStep, Connect, Hello, ClientClose, RestArrives, IssueRequest,
                SendRecord, TypeInv, TypeOK
  <2> QED BY <1>s, <2>1, <2>2
<1>2. ASSUME RelayerStep PROVE SeqInv'
  BY <1>2, <1>p, SeqRecvFd, SeqRecvFdFails, SeqHandOff DEF RelayerStep, DispatchToFunction
<1>3. ASSUME NEW w \in Functions, WorkerDies(w) PROVE SeqInv'
  BY <1>3, SeqDie DEF WorkerDies
<1>4. ASSUME GatewayDies PROVE SeqInv'
  BY <1>4, SeqDie DEF GatewayDies
<1>5. ASSUME NEW p \in Procs, Start(p) PROVE SeqInv'
  <2>1. /\ UNCHANGED <<client, streamVars, backlog, uds, conn, fds, serial, ssl>>
        /\ \A q \in Procs : pc'[q] = pc[q] \/ (pc[q] = "down" /\ pc'[q] = "accept")
    BY <1>5 DEF Start, clientVars, TypeInv, TypeOK
  <2> QED BY <1>s, <2>1
<1>6. ASSUME UNCHANGED vars PROVE SeqInv'
  BY <1>6, <1>s DEF vars, clientVars, localVars
<1> QED BY <1>1, <1>2, <1>3, <1>4, <1>5, <1>6, SeqAcceptor, SeqWorker DEF Next, Finished

LEMMA SeqInit == Init => SeqInv
<1> SUFFICES ASSUME Init PROVE SeqInv
  OBVIOUS
<1>p. Acceptor \in Procs /\ \A w \in Functions : w \in Procs
  BY DEF Procs, Listeners
<1>1. Untouched
  BY <1>p DEF Init, Untouched
<1>2. SerialFresh
  BY DEF Init, SerialFresh
<1>3. SessionFresh
  BY <1>p DEF Init, SessionFresh
<1>4. NoncesInOrder
  BY DEF Init, NoncesInOrder
<1> QED BY <1>1, <1>2, <1>3, <1>4 DEF SeqInv

-----------------------------------------------------------------------------
(* Theorems *)

(***************************************************************************)
(* The inductive invariant: one holder per connection, no leaked           *)
(* descriptor, and record numbers in step wherever they are kept.          *)
(***************************************************************************)
THEOREM Invariant == Spec => [](TypeInv /\ OwnInv /\ SeqInv)
<1>1. Init => TypeInv /\ OwnInv /\ SeqInv
  BY InitTypes, OwnInit, SeqInit
<1>2. (TypeInv /\ OwnInv /\ SeqInv) /\ [Next]_vars => (TypeInv /\ OwnInv /\ SeqInv)'
  BY NextTypes, OwnNext, SeqNext
<1> QED BY <1>1, <1>2, PTL DEF Spec

(***************************************************************************)
(* sendfd_with_state and its callers move ownership: whatever fails, a     *)
(* connection's descriptor is in one process, one message or the accept    *)
(* queue.                                                                  *)
(***************************************************************************)
THEOREM ExactlyOneHolder == Spec => []SingleHolder
<1>1. OwnInv => SingleHolder
  BY DEF OwnInv
<1> QED BY <1>1, Invariant, PTL

(* No path through gateway or worker leaves a client descriptor open.      *)
THEOREM NoDescriptorLeaks == Spec => []NoLeak
<1>1. OwnInv => NoLeak
  BY DEF OwnInv
<1> QED BY <1>1, Invariant, PTL

(***************************************************************************)
(* tlspeek_serial_t is current in every message and in every call that     *)
(* uses it: a peek fails for want of bytes, never for a stale nonce.       *)
(***************************************************************************)
THEOREM ExportedStateCurrent == Spec => []SerialFresh
<1>1. SeqInv => SerialFresh
  BY DEF SeqInv
<1> QED BY <1>1, Invariant, PTL

(* No two responses on a connection are sealed with the same nonce.        *)
THEOREM NoncesNeverRepeat == Spec => []NoncesInOrder
<1>1. SeqInv => NoncesInOrder
  BY DEF SeqInv
<1> QED BY <1>1, Invariant, PTL

=============================================================================
