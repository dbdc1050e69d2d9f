-------------------------- MODULE HotPotatoProofs --------------------------
(***************************************************************************)
(* Proofs about HotPotato for every set of connections, functions and      *)
(* requests, every size of the descriptor tables and every fault: a        *)
(* session is used in one place, its record numbers never diverge, the     *)
(* responses answer the requests, and the copies of descriptors that       *)
(* hand-overs leave behind stay within the bounds the code relies on.      *)
(***************************************************************************)
EXTENDS PotatoOwnership, FiniteSetTheorems, TLAPS

-----------------------------------------------------------------------------
(* The inductive invariant *)

GatewayPCs == {"poll", "handshake", "first", "send", "back", "resend"}
WorkerPCs == {"accept", "respond", "next", "return"}

(* A process waits for work, works with a session, or has exported it.      *)
Waiting == {"poll", "back", "accept"}
InSession == {"first", "respond", "next"}
Holding == {"send", "resend", "return"}

(* A decrypted record holds at least one chunk. *)
Chunky(s) == \A i \in DOMAIN s : s[i] # <<>>

(* What each process has at its calls, and each of its messages. *)
ProcControl(p) ==
  /\ p = Gateway => pc[p] \in GatewayPCs
  /\ p \in Functions => pc[p] \in WorkerPCs
  /\ conn(p) = NoConn <=> pc[p] \in Waiting
  /\ pc[p] \notin InSession => ssl[p] = NoSession
  /\ pc[p] \in Holding => msg[p].req.fn \in Functions
  /\ pc[p] = "respond" => msg[p].req.fn = p

(* A message for a worker names it. *)
Addressed(m, p) ==
  m.conn \in Conns /\ m.req.fn \in Functions /\ (p # Gateway => m.req.fn = p)

ControlInv ==
  /\ \A p \in Procs : ProcControl(p) /\ \A i \in DOMAIN uds[p] : Addressed(uds[p][i], p)
  /\ \A c \in Conns : Chunky(sent[c]) /\ Chunky(todo[c])

(* A process has a descriptor of the connection it works on. *)
HeldInv == \A p \in Procs : conn(p) \in Conns => copies[p][conn(p)] >= 1

TypeInv == TypeOK /\ ControlInv /\ HeldInv

(* c is nowhere yet. *)
Fresh(c) ==
  /\ consumed[c] = 0 /\ resp[c] = <<>>
  /\ \A p \in Procs : copies[p][c] = 0

(* One place for a session, and none before the client connects. *)
OwnInv ==
  /\ SingleUser
  /\ \A c \in Conns : client[c] = "idle" =>
       c \notin backlog /\ \A p \in Procs : conn(p) # c /\ ~Queued(c, p)
  /\ \A c \in Conns : client[c] = "idle" \/ c \in backlog => Fresh(c)

(* With one read each, the records of c are its requests. *)
Plain(c) ==
  /\ todo[c] = <<>> /\ Len(sent[c]) = Len(reqs[c]) /\ consumed[c] <= Len(sent[c])
  /\ \A i \in 1..Len(reqs[c]) : sent[c][i] = <<First(reqs[c][i], i)>>
  /\ Len(resp[c]) <= consumed[c]
  /\ \A i \in 1..Len(resp[c]) : resp[c][i].id = i /\ resp[c][i].by = reqs[c][i].fn

ConnOK(c) ==
  /\ \A i \in 1..Len(resp[c]) : resp[c][i].seq = i - 1
  /\ OneReadEach(c) => Plain(c)

(* The request read last is the one answered last, or q, still unanswered.  *)
Answered(c) == consumed[c] = Len(resp[c])
Pending(c, q) ==
  /\ consumed[c] = Len(resp[c]) + 1
  /\ q.id = consumed[c] /\ q.fn = reqs[c][consumed[c]].fn

(* A session, or the message it was exported to, is where its connection    *)
(* is; nothing is read before the handshake.                                *)
ProcOK(p) ==
  LET c == conn(p) IN c \in Conns =>
    /\ pc[p] = "handshake" => InStep(c, NoSession)
    /\ pc[p] \in InSession => InStep(c, ssl[p])
    /\ pc[p] \in Holding => InStep(c, msg[p])
    /\ OneReadEach(c) =>
         /\ ssl[p].pending = <<>>
         /\ pc[p] \in {"handshake", "first", "next"} => Answered(c)
         /\ pc[p] \in {"respond"} \cup Holding => Pending(c, msg[p].req)

MsgOK(m) == InStep(m.conn, m) /\ (OneReadEach(m.conn) => Pending(m.conn, m.req))

StreamInv ==
  /\ \A c \in Conns : ConnOK(c)
  /\ \A p \in Procs : ProcOK(p) /\ \A i \in DOMAIN uds[p] : MsgOK(uds[p][i])

(* The copies p may have of c. *)
Copies(p, c) ==
  IF p = Gateway
  THEN 1 + (IF pc[p] = "resend" /\ conn(p) = c THEN 1 ELSE 0)
  ELSE Served(p, c) + (IF pc[p] = "respond" /\ conn(p) = c THEN 1 ELSE 0)

(* Every table is within its size, with room for what a waiting process     *)
(* opens next.                                                              *)
TableOK(p) ==
  /\ IsFiniteSet(Table(p)) /\ Room(p, 0)
  /\ pc[p] \in {"poll", "back"} => Room(p, 1)
  /\ pc[p] = "accept" => Room(p, 2)
  /\ \A c \in Conns : copies[p][c] <= Copies(p, c)

CopyInv == \A p \in Procs : TableOK(p)

Inv == TypeInv /\ OwnInv /\ StreamInv /\ CopyInv

-----------------------------------------------------------------------------
(* Types *)

LEMMA Basics ==
  /\ Gateway \in Procs /\ Functions \subseteq Procs /\ Gateway \notin Functions
  /\ Procs = Functions \cup {Gateway} /\ NoConn \notin Conns
  /\ NoMsg \in Msg /\ NoSession \in Session /\ NoMsg.conn = NoConn
  /\ NoName \notin Functions
BY PotatoConstants DEF Procs, NoMsg, Msg, NoSession, Session, Rest, Chunk

LEMMA RecordsType ==
  ASSUME NEW r \in Request, NEW i \in Nat
  PROVE  /\ Records(r, i) \in Seq(Seq(Chunk)) /\ Records(r, i) # <<>>
         /\ Chunky(Records(r, i))
         /\ r.shape = "one" => Records(r, i) = << <<First(r, i)>> >>
<1>1. First(r, i) \in Chunk /\ Rest(i) \in Chunk
  BY DEF First, Rest, Chunk, Request
<1> DEFINE f == First(r, i)
           g == Rest(i)
<1> HIDE DEF f, g
<1>2. f \in Chunk /\ g \in Chunk
  BY <1>1 DEF f, g
<1>3. << <<f>> >> \in Seq(Seq(Chunk)) /\ << <<f>> >> # <<>> /\ Chunky(<< <<f>> >>)
  BY <1>2, SMTT(30) DEF Chunky
<1>5. << <<f, g>> >> \in Seq(Seq(Chunk)) /\ << <<f, g>> >> # <<>> /\ Chunky(<< <<f, g>> >>)
  BY <1>2 DEF Chunky
<1>6. /\ << <<f>>, <<g>> >> \in Seq(Seq(Chunk)) /\ << <<f>>, <<g>> >> # <<>>
      /\ Chunky(<< <<f>>, <<g>> >>)
  <2> DEFINE x == <<f>>
             y == <<g>>
  <2>1. x \in Seq(Chunk) /\ y \in Seq(Chunk) /\ x # <<>> /\ y # <<>>
    BY <1>2
  <2> HIDE DEF x, y
  <2>2. <<x, y>> \in Seq(Seq(Chunk)) /\ <<x, y>> # <<>> /\ Chunky(<<x, y>>)
    BY <2>1 DEF Chunky
  <2> QED BY <2>2 DEF x, y
<1>4. r.shape \in {"one", "split", "long"}
  BY DEF Request
<1> QED BY <1>3, <1>4, <1>5, <1>6 DEF Records, f, g

LEMMA ChunkyParts ==
  ASSUME NEW s \in Seq(Seq(Chunk)), Chunky(s)
  PROVE  /\ s # <<>> => /\ Head(s) \in Seq(Chunk) /\ Head(s) # <<>>
                        /\ Tail(s) \in Seq(Seq(Chunk)) /\ Chunky(Tail(s))
         /\ \A r \in Seq(Chunk) : r # <<>> => Append(s, r) \in Seq(Seq(Chunk)) /\ Chunky(Append(s, r))
BY DEF Chunky

(* What wolfSSL_read gives and leaves. *)
LEMMA ReadType ==
  ASSUME TypeInv, NEW p \in Procs, NEW c \in Conns, CanRead(p, c)
  PROVE  /\ ReadChunk(p, c) \in Chunk /\ AfterRead(p, c) \in Session
         /\ Exported(p, c, AfterRead(p, c)) \in Msg
         /\ AfterRead(p, c).write = ssl[p].write
<1>1. /\ ssl[p] \in Session /\ ssl[p].pending \in Seq(Chunk) /\ ssl[p].read \in Nat
      /\ consumed[c] \in Nat /\ sent[c] \in Seq(Seq(Chunk)) /\ Chunky(sent[c])
  BY DEF TypeInv, TypeOK, ControlInv, Session
<1>2. Decrypted(p, c) \in Seq(Chunk) /\ Decrypted(p, c) # <<>>
  <2>1. CASE ssl[p].pending # <<>>
    BY <1>1, <2>1 DEF Decrypted
  <2>2. CASE ssl[p].pending = <<>>
    <3>1. consumed[c] + 1 \in DOMAIN sent[c]
      BY <1>1, <2>2 DEF CanRead
    <3> QED BY <1>1, <2>2, <3>1 DEF Decrypted, Chunky
  <2> QED BY <2>1, <2>2
<1>3. ReadChunk(p, c) \in Chunk /\ Tail(Decrypted(p, c)) \in Seq(Chunk)
  BY <1>2 DEF ReadChunk
<1>4. AfterRead(p, c) \in Session /\ AfterRead(p, c).write = ssl[p].write
  <2> PICK s, n, t : /\ s = ssl[p] /\ t = Tail(Decrypted(p, c))
                     /\ n = IF ssl[p].pending = <<>> THEN s.read + 1 ELSE s.read
    OBVIOUS
  <2>1. s \in Session /\ n \in Nat /\ t \in Seq(Chunk)
    BY <1>1, <1>3
  <2>2. AfterRead(p, c) = [s EXCEPT !.read = n, !.pending = t]
    BY DEF AfterRead
  <2> QED BY <2>1, <2>2 DEF Session
<1> QED BY <1>3, <1>4 DEF Exported, Msg, Session

(* Waiting again: no session, no message. *)
Idles(p) ==
  /\ p = Gateway => pc'[p] \in {"poll", "back"}
  /\ p \in Functions => pc'[p] = "accept"
  /\ pc'[p] \in Waiting /\ msg'[p] = NoMsg /\ ssl'[p] = NoSession /\ conn(p)' = NoConn

Elsewhere(p) ==
  \A q \in Procs \ {p} : pc'[q] = pc[q] /\ msg'[q] = msg[q] /\ ssl'[q] = ssl[q]
                         /\ conn(q)' = conn(q)

LEMMA DoneIdles ==
  ASSUME TypeInv, NEW p \in Procs, Done(p)
  PROVE  Idles(p) /\ Elsewhere(p)
<1>1. /\ pc'[p] = (IF p # Gateway THEN "accept"
                   ELSE IF back /\ pc[p] \in {"poll", "handshake", "first", "send"}
                        THEN "back" ELSE "poll")
      /\ msg'[p] = NoMsg /\ ssl'[p] = NoSession
      /\ \A q \in Procs \ {p} : pc'[q] = pc[q] /\ msg'[q] = msg[q] /\ ssl'[q] = ssl[q]
  BY DEF Done, TypeInv, TypeOK
<1> QED BY <1>1, Basics DEF Idles, Elsewhere, Waiting, conn

LEMMA DoneTypes ==
  ASSUME TypeInv, NEW p \in Procs, Done(p)
  PROVE  /\ pc' \in [Procs -> {"poll", "handshake", "first", "send", "back", "resend",
                               "accept", "respond", "next", "return"}]
         /\ msg' \in [Procs -> Msg] /\ ssl' \in [Procs -> Session]
BY Basics DEF Done, TypeInv, TypeOK

-----------------------------------------------------------------------------
(* What a step of a process does *)

CopyMoves(p, c, n) ==
  /\ copies'[p][c] = n /\ \A d \in Conns \ {c} : copies'[p][d] = copies[p][d]
  /\ \A q \in Procs \ {p} : copies'[q] = copies[q]

OtherStreams(c) ==
  \A d \in Conns \ {c} : consumed'[d] = consumed[d] /\ resp'[d] = resp[d]

Queues(q, s) == uds'[q] = s /\ \A r \in Procs \ {q} : uds'[r] = uds[r]

(* p is done with its session and closes its descriptor. *)
Closes(p) ==
  /\ conn(p) \in Conns /\ Idles(p) /\ Elsewhere(p)
  /\ CopyMoves(p, conn(p), copies[p][conn(p)] - 1) /\ OtherStreams(conn(p))
  /\ UNCHANGED <<client, reqs, todo, sent, backlog, uds, resp>>
  /\ \/ UNCHANGED consumed
     \/ CanRead(p, conn(p)) /\ TakeRecord(p, conn(p)) /\ pc[p] \in {"first", "next"}

(* p sends its message on, to the worker it names or to the gateway. *)
Target(p) == IF p = Gateway THEN msg[p].req.fn ELSE Gateway
Passes(p) ==
  /\ conn(p) \in Conns /\ pc[p] \in Holding /\ Room(p, 1) /\ Idles(p) /\ Elsewhere(p)
  /\ Queues(Target(p), Append(uds[Target(p)], msg[p]))
  /\ CopyMoves(p, conn(p), IF pc[p] = "resend" THEN copies[p][conn(p)] - 1 ELSE copies[p][conn(p)])
  /\ UNCHANGED <<client, reqs, todo, sent, backlog, consumed, resp>>

(* p receives a message and its descriptor, or loses them. *)
Gets(p) ==
  /\ pc[p] \in {"back", "accept"} /\ uds[p] # <<>> /\ Room(p, 2) /\ Elsewhere(p)
  /\ Queues(p, Tail(uds[p]))
  /\ msg'[p] = Head(uds[p])
  /\ CopyMoves(p, Head(uds[p]).conn, copies[p][Head(uds[p]).conn] + 1)
  /\ UNCHANGED <<client, reqs, todo, sent, backlog, consumed, resp>>
  /\ \/ p = Gateway /\ pc'[p] = "resend" /\ ssl'[p] = NoSession
     \/ /\ p \in Functions /\ pc'[p] = "respond"
        /\ ssl'[p] = [read |-> Head(uds[p]).read, write |-> Head(uds[p]).write, pending |-> <<>>]

Loses(p) ==
  /\ pc[p] \in {"back", "accept"} /\ uds[p] # <<>> /\ Idles(p) /\ Elsewhere(p)
  /\ Queues(p, Tail(uds[p]))
  /\ UNCHANGED <<client, reqs, todo, sent, backlog, consumed, resp, copies>>

(* p reads a request, its own to answer or another's to export. *)
Reads(p) ==
  LET c == conn(p)
      chunk == ReadChunk(p, c)
  IN /\ c \in Conns /\ pc[p] \in {"first", "next"}
     /\ CanRead(p, c) /\ TakeRecord(p, c) /\ OtherStreams(c)
     /\ Elsewhere(p) /\ conn(p)' = c
     /\ UNCHANGED <<client, reqs, todo, sent, backlog, uds, resp, copies>>
     /\ \/ /\ p \in Functions /\ pc'[p] = "respond" /\ chunk.fn = p
           /\ msg'[p].req = chunk /\ ssl'[p] = AfterRead(p, c)
        \/ /\ (p = Gateway /\ pc'[p] = "send") \/ (p \in Functions /\ pc'[p] = "return")
           /\ chunk.fn \in Functions
           /\ msg'[p] = Exported(p, c, AfterRead(p, c)) /\ ssl'[p] = NoSession

LEMMA TypeFacts ==
  ASSUME TypeInv
  PROVE  /\ \A p \in Procs : /\ conn(p) \in Conns \cup {NoConn}
                             /\ pc[p] \notin Waiting => conn(p) \in Conns
                             /\ pc[p] \in Waiting => conn(p) = NoConn
                             /\ msg[p] \in Msg /\ msg[p].req \in Chunk /\ ssl[p] \in Session
                             /\ msg[p].req.id \in Nat
                             /\ msg[p].read \in Nat /\ msg[p].write \in Nat
                             /\ uds[p] \in Seq(Msg)
                             /\ \A c \in Conns : copies[p][c] \in Nat
                             /\ conn(p) \in Conns => copies[p][conn(p)] >= 1
                             /\ \A i \in DOMAIN uds[p] : uds[p][i].conn \in Conns
         /\ \A c \in Conns : /\ consumed[c] \in Nat /\ Len(resp[c]) \in Nat
                             /\ reqs[c] \in Seq(Request) /\ sent[c] \in Seq(Seq(Chunk))
                             /\ todo[c] \in Seq(Seq(Chunk))
                             /\ resp[c] \in Seq([id: Nat, by: Functions, seq: Nat])
<1>1. \A p \in Procs : /\ msg[p] \in Msg /\ ssl[p] \in Session /\ uds[p] \in Seq(Msg)
                       /\ copies[p] \in [Conns -> Nat]
  BY DEF TypeInv, TypeOK
<1>2. \A p \in Procs : /\ conn(p) \in Conns \cup {NoConn} /\ msg[p].req \in Chunk
                       /\ msg[p].req.id \in Nat /\ msg[p].read \in Nat /\ msg[p].write \in Nat
  BY <1>1 DEF Msg, conn, Chunk
<1>3. \A p \in Procs : conn(p) = NoConn <=> pc[p] \in Waiting
  BY DEF TypeInv, ControlInv, ProcControl
<1>4. \A p \in Procs : /\ conn(p) \in Conns => copies[p][conn(p)] >= 1
                       /\ \A i \in DOMAIN uds[p] : uds[p][i].conn \in Conns
  BY DEF TypeInv, ControlInv, Addressed, HeldInv
<1>5. \A c \in Conns : /\ consumed[c] \in Nat
                       /\ reqs[c] \in Seq(Request) /\ sent[c] \in Seq(Seq(Chunk))
                       /\ todo[c] \in Seq(Seq(Chunk))
                       /\ resp[c] \in Seq([id: Nat, by: Functions, seq: Nat])
  BY DEF TypeInv, TypeOK
<1>6. \A c \in Conns : Len(resp[c]) \in Nat
  BY <1>5
<1> QED BY <1>1, <1>2, <1>3, <1>4, <1>5, <1>6, Basics

LEMMA TakeMoves ==
  ASSUME TypeInv, NEW p \in Procs, NEW c \in Conns, TakeRecord(p, c)
  PROVE  /\ consumed' \in [Conns -> Nat]
         /\ \A d \in Conns \ {c} : consumed'[d] = consumed[d]
         /\ consumed'[c] = IF ssl[p].pending = <<>> THEN consumed[c] + 1 ELSE consumed[c]
<1>1. consumed \in [Conns -> Nat]
  BY DEF TypeInv, TypeOK
<1> QED BY <1>1 DEF TakeRecord

LEMMA CloseMoves ==
  ASSUME TypeInv, NEW p \in Procs, conn(p) \in Conns, CloseCopy(p, conn(p))
  PROVE  /\ copies' \in [Procs -> [Conns -> Nat]]
         /\ CopyMoves(p, conn(p), copies[p][conn(p)] - 1)
<1> PICK c : c = conn(p)
  OBVIOUS
<1>1. copies \in [Procs -> [Conns -> Nat]] /\ c \in Conns /\ copies[p][c] \in Nat /\ copies[p][c] >= 1
  BY TypeFacts DEF TypeInv, TypeOK
<1>2. copies[p][c] - 1 \in Nat
  BY <1>1
<1>3. copies' = [copies EXCEPT ![p][c] = @ - 1]
  BY DEF CloseCopy
<1> QED BY <1>1, <1>2, <1>3 DEF CopyMoves

LEMMA AddMoves ==
  ASSUME TypeInv, NEW p \in Procs, NEW c \in Conns, AddCopy(p, c)
  PROVE  copies' \in [Procs -> [Conns -> Nat]] /\ CopyMoves(p, c, copies[p][c] + 1)
<1>1. copies \in [Procs -> [Conns -> Nat]] /\ copies[p][c] \in Nat
  BY DEF TypeInv, TypeOK
<1>2. copies[p][c] + 1 \in Nat
  BY <1>1
<1> QED BY <1>1, <1>2 DEF CopyMoves, AddCopy

LEMMA CloseConnStep ==
  ASSUME TypeInv, NEW p \in Procs, pc[p] \in {"handshake", "first", "next"}, CloseConn(p),
         \/ UNCHANGED consumed
         \/ CanRead(p, conn(p)) /\ TakeRecord(p, conn(p)) /\ pc[p] \in {"first", "next"}
  PROVE  TypeOK' /\ Closes(p)
<1>1. conn(p) \in Conns
  BY TypeFacts DEF Waiting
<1>2. consumed' \in [Conns -> Nat] /\ \A d \in Conns \ {conn(p)} : consumed'[d] = consumed[d]
  <2>1. consumed \in [Conns -> Nat]
    BY DEF TypeInv, TypeOK
  <2> QED BY <1>1, <2>1, TakeMoves
<1>3. /\ Done(p) /\ CloseCopy(p, conn(p))
      /\ UNCHANGED <<client, reqs, todo, sent, backlog, uds, resp, back>>
  BY DEF CloseConn, clientVars
<1>4. TypeOK'
  BY <1>1, <1>2, <1>3, DoneTypes, CloseMoves DEF TypeInv, TypeOK
<1> QED BY <1>1, <1>2, <1>3, <1>4, DoneIdles, CloseMoves DEF Closes, OtherStreams

-----------------------------------------------------------------------------
(* Every action is one of these steps *)

(* A client's step concerns its own connection and no process. *)
ClientMoves(c) ==
  /\ UNCHANGED <<consumed, resp, uds, pc, back, msg, ssl, copies>>
  /\ \A d \in Conns \ {c} : /\ client'[d] = client[d] /\ reqs'[d] = reqs[d]
                            /\ todo'[d] = todo[d] /\ sent'[d] = sent[d]
  /\ client'[c] # "idle" /\ Chunky(sent'[c]) /\ Chunky(todo'[c])
  /\ backlog' = backlog \/ (client[c] = "idle" /\ backlog' = backlog \cup {c})

(* What the client has issued, record for record. *)
ClientSends(c) ==
  \/ UNCHANGED <<reqs, todo, sent>>
  \/ \E r \in Request :
       /\ todo[c] = <<>> /\ reqs'[c] = Append(reqs[c], r)
       /\ sent'[c] = Append(sent[c], Head(Records(r, Len(reqs[c]) + 1)))
       /\ todo'[c] = Tail(Records(r, Len(reqs[c]) + 1))
  \/ reqs' = reqs /\ todo[c] # <<>>

LEMMA ClientStepMoves ==
  ASSUME TypeInv, NEW c \in Conns, ClientStep(c)
  PROVE  TypeOK' /\ ClientMoves(c) /\ ClientSends(c)
<1>1. /\ client \in [Conns -> {"idle", "connected", "hello", "secure", "gone"}]
      /\ reqs \in [Conns -> Seq(Request)] /\ todo \in [Conns -> Seq(Seq(Chunk))]
      /\ sent \in [Conns -> Seq(Seq(Chunk))] /\ backlog \subseteq Conns
      /\ Chunky(sent[c]) /\ Chunky(todo[c])
  BY DEF TypeInv, TypeOK, ControlInv
<1>2. CASE Connect(c)
  <2>1. TypeOK'
    BY <1>1, <1>2 DEF Connect, streamVars, localVars, TypeInv, TypeOK
  <2> QED BY <1>1, <1>2, <2>1 DEF Connect, streamVars, localVars, ClientMoves, ClientSends
<1>3. CASE Hello(c)
  <2>1. TypeOK'
    BY <1>1, <1>3 DEF Hello, streamVars, localVars, TypeInv, TypeOK
  <2> QED BY <1>1, <1>3, <2>1 DEF Hello, streamVars, localVars, ClientMoves, ClientSends
<1>4. CASE ClientClose(c)
  <2>1. TypeOK'
    BY <1>1, <1>4 DEF ClientClose, streamVars, localVars, TypeInv, TypeOK
  <2> QED BY <1>1, <1>4, <2>1 DEF ClientClose, streamVars, localVars, ClientMoves, ClientSends
<1>5. CASE SendRest(c)
  <2>1. /\ Head(todo[c]) \in Seq(Chunk) /\ Tail(todo[c]) \in Seq(Seq(Chunk))
        /\ Append(sent[c], Head(todo[c])) \in Seq(Seq(Chunk))
        /\ Chunky(Tail(todo[c])) /\ Chunky(Append(sent[c], Head(todo[c])))
    BY <1>1, <1>5, ChunkyParts DEF SendRest
  <2>2. TypeOK'
    BY <1>1, <1>5, <2>1 DEF SendRest, streamVars, localVars, TypeInv, TypeOK
  <2> QED BY <1>1, <1>5, <2>1, <2>2
         DEF SendRest, streamVars, localVars, ClientMoves, ClientSends
<1>6. ASSUME NEW r \in Requests[c], IssueRequest(c, r)
      PROVE  TypeOK' /\ ClientMoves(c) /\ ClientSends(c)
  <2> PICK recs : recs = Records(r, Len(reqs[c]) + 1)
    OBVIOUS
  <2>1. r \in Request /\ Len(reqs[c]) + 1 \in Nat
    BY <1>1, PotatoConstants
  <2>2. recs \in Seq(Seq(Chunk)) /\ recs # <<>> /\ Chunky(recs)
    BY <2>1, RecordsType
  <2>3. /\ Head(recs) \in Seq(Chunk) /\ Tail(recs) \in Seq(Seq(Chunk))
        /\ Append(sent[c], Head(recs)) \in Seq(Seq(Chunk))
        /\ Chunky(Tail(recs)) /\ Chunky(Append(sent[c], Head(recs)))
    BY <1>1, <2>2, ChunkyParts
  <2>4. /\ reqs' = [reqs EXCEPT ![c] = Append(@, r)] /\ Append(reqs[c], r) \in Seq(Request)
        /\ sent' = [sent EXCEPT ![c] = Append(@, Head(recs))]
        /\ todo' = [todo EXCEPT ![c] = Tail(recs)]
        /\ client[c] = "secure" /\ todo[c] = <<>>
        /\ UNCHANGED <<client, streamVars, backlog, uds, localVars>>
    BY <1>1, <1>6, <2>1 DEF IssueRequest
  <2>5. TypeOK'
    BY <1>1, <2>3, <2>4 DEF streamVars, localVars, TypeInv, TypeOK
  <2>6. ClientMoves(c)
    BY <1>1, <2>3, <2>4 DEF streamVars, localVars, ClientMoves
  <2>7. ClientSends(c)
    BY <1>1, <2>1, <2>4 DEF ClientSends
  <2> QED BY <2>5, <2>6, <2>7
<1> QED BY <1>2, <1>3, <1>4, <1>5, <1>6 DEF ClientStep

(* The gateway takes a new client, turns to its Unix socket, or completes a *)
(* handshake.                                                               *)
Accepts(c) ==
  /\ pc[Gateway] = "poll" /\ c \in backlog /\ Room(Gateway, 1) /\ backlog' = backlog \ {c}
  /\ pc'[Gateway] = "handshake" /\ conn(Gateway)' = c /\ ssl' = ssl /\ Elsewhere(Gateway)
  /\ CopyMoves(Gateway, c, copies[Gateway][c] + 1)
  /\ UNCHANGED <<client, reqs, todo, sent, consumed, resp, uds>>

Polls ==
  /\ pc[Gateway] = "poll" /\ pc'[Gateway] = "back" /\ Elsewhere(Gateway)
  /\ UNCHANGED <<client, reqs, todo, sent, backlog, consumed, resp, uds, msg, ssl, copies>>

Handshakes ==
  /\ conn(Gateway) \in Conns /\ client[conn(Gateway)] # "idle" /\ client'[conn(Gateway)] # "idle"
  /\ \A d \in Conns \ {conn(Gateway)} : client'[d] = client[d]
  /\ pc[Gateway] = "handshake" /\ pc'[Gateway] = "first" /\ Elsewhere(Gateway)
  /\ UNCHANGED <<reqs, todo, sent, backlog, consumed, resp, uds, msg, ssl, copies>>

(* A worker writes a response. *)
Responds(w) ==
  LET c == conn(w)
  IN /\ c \in Conns /\ pc[w] = "respond" /\ pc'[w] = "next" /\ Elsewhere(w)
     /\ resp'[c] = Append(resp[c], [id |-> msg[w].req.id, by |-> w, seq |-> ssl[w].write])
     /\ ssl'[w] = [ssl[w] EXCEPT !.write = @ + 1] /\ OtherStreams(c)
     /\ UNCHANGED <<client, reqs, todo, sent, backlog, consumed, uds, msg, copies>>

(* What a process does, by the call it is in. *)
LEMMA AcceptStep ==
  ASSUME TypeInv, NEW c \in Conns, Accept(c)
  PROVE  TypeOK' /\ Accepts(c)
<1>1. /\ pc[Gateway] = "poll" /\ c \in backlog /\ Room(Gateway, 1)
      /\ back' \in BOOLEAN /\ backlog' = backlog \ {c}
      /\ pc' = [pc EXCEPT ![Gateway] = "handshake"]
      /\ msg' = [msg EXCEPT ![Gateway].conn = c] /\ AddCopy(Gateway, c)
      /\ UNCHANGED <<client, reqs, todo, sent, consumed, resp, uds, ssl>>
  BY DEF Accept, clientVars, streamVars
<1>2. CopyMoves(Gateway, c, copies[Gateway][c] + 1) /\ copies' \in [Procs -> [Conns -> Nat]]
  BY <1>1, AddMoves, Basics
<1>3. msg' \in [Procs -> Msg] /\ conn(Gateway)' = c /\ Elsewhere(Gateway)
  <2>1. msg \in [Procs -> Msg] /\ Gateway \in Procs
    BY Basics DEF TypeInv, TypeOK
  <2>2. msg' \in [Procs -> Msg] /\ msg'[Gateway].conn = c
    BY <1>1, <2>1 DEF Msg
  <2>3. \A q \in Procs \ {Gateway} : msg'[q] = msg[q] /\ pc'[q] = pc[q] /\ ssl'[q] = ssl[q]
    BY <1>1, <2>1 DEF TypeInv, TypeOK
  <2> QED BY <2>2, <2>3 DEF conn, Elsewhere
<1>4. TypeOK'
  BY <1>1, <1>2, <1>3 DEF TypeInv, TypeOK
<1> QED BY <1>1, <1>2, <1>3, <1>4, Basics DEF Accepts, TypeInv, TypeOK

LEMMA PollStep ==
  ASSUME TypeInv, PollBack
  PROVE  TypeOK' /\ Polls
BY Basics DEF PollBack, clientVars, streamVars, TypeInv, TypeOK, Polls, Elsewhere, conn

LEMMA HandshakeStep ==
  ASSUME TypeInv, Handshake
  PROVE  TypeOK' /\ Handshakes
<1>1. conn(Gateway) \in Conns
  BY Basics, TypeFacts DEF Handshake, Waiting
<1>2. TypeOK'
  BY <1>1, Basics DEF Handshake, streamVars, TypeInv, TypeOK
<1>3. /\ client'[conn(Gateway)] = "secure" /\ client[conn(Gateway)] = "hello"
      /\ \A d \in Conns \ {conn(Gateway)} : client'[d] = client[d]
  BY <1>1 DEF Handshake, TypeInv, TypeOK
<1>4. /\ pc[Gateway] = "handshake" /\ pc'[Gateway] = "first"
      /\ \A q \in Procs \ {Gateway} : pc'[q] = pc[q]
      /\ UNCHANGED <<reqs, todo, sent, backlog, consumed, resp, uds, msg, ssl, copies>>
  BY Basics DEF Handshake, streamVars, TypeInv, TypeOK
<1>5. Elsewhere(Gateway)
  BY <1>4 DEF Elsewhere, conn
<1> QED BY <1>1, <1>2, <1>3, <1>4, <1>5 DEF Handshakes

LEMMA SendStep ==
  ASSUME TypeInv, NEW p \in Procs, pc[p] \in Holding, Done(p),
         \/ Send(p, Target(p)) /\ pc[p] # "resend" /\ UNCHANGED copies
         \/ Send(p, Target(p)) /\ pc[p] = "resend" /\ CloseCopy(p, conn(p))
         \/ SendFails(p) /\ CloseCopy(p, conn(p)),
         UNCHANGED <<clientVars, streamVars, backlog, back>>
  PROVE  TypeOK' /\ (Passes(p) \/ Closes(p))
<1>1. conn(p) \in Conns /\ Target(p) \in Procs
  BY TypeFacts, Basics DEF Holding, Waiting, Target, TypeInv, ControlInv, ProcControl
<1>2. /\ Idles(p) /\ Elsewhere(p)
      /\ UNCHANGED <<client, reqs, todo, sent, backlog, consumed, resp, back>>
  BY DoneIdles DEF clientVars, streamVars
<1>3. copies' \in [Procs -> [Conns -> Nat]]
  BY <1>1, CloseMoves DEF TypeInv, TypeOK
<1>4. CASE SendFails(p) /\ CloseCopy(p, conn(p))
  <2>1. UNCHANGED uds
    BY <1>4 DEF SendFails
  <2>2. TypeOK'
    BY <1>2, <1>3, <2>1, DoneTypes DEF TypeInv, TypeOK
  <2> QED BY <1>1, <1>2, <1>4, <2>1, <2>2, CloseMoves DEF Closes, OtherStreams
<1>5. CASE Send(p, Target(p))
  <2>1. /\ Room(p, 1) /\ uds' = [uds EXCEPT ![Target(p)] = Append(@, msg[p])]
    BY <1>5 DEF Send
  <2>2. uds' \in [Procs -> Seq(Msg)] /\ Queues(Target(p), Append(uds[Target(p)], msg[p]))
    <3> PICK q, s : q = Target(p) /\ s = Append(uds[Target(p)], msg[p])
      OBVIOUS
    <3>1. uds \in [Procs -> Seq(Msg)] /\ q \in Procs /\ msg[p] \in Msg /\ uds[q] \in Seq(Msg)
      BY <1>1, TypeFacts DEF TypeInv, TypeOK
    <3>2. s \in Seq(Msg) /\ uds' = [uds EXCEPT ![q] = s]
      BY <2>1, <3>1
    <3> QED BY <3>1, <3>2 DEF Queues
  <2>3. TypeOK'
    BY <1>2, <1>3, <2>2, DoneTypes DEF TypeInv, TypeOK
  <2>4. CASE pc[p] # "resend" /\ UNCHANGED copies
    BY <1>1, <1>2, <2>1, <2>2, <2>3, <2>4 DEF Passes, CopyMoves
  <2>5. CASE pc[p] = "resend" /\ CloseCopy(p, conn(p))
    <3>1. CopyMoves(p, conn(p), copies[p][conn(p)] - 1)
      BY <1>1, <2>5, CloseMoves
    <3> QED BY <1>1, <1>2, <2>1, <2>2, <2>3, <2>5, <3>1 DEF Passes
  <2>6. CASE SendFails(p) /\ CloseCopy(p, conn(p))
    BY <1>4, <2>6
  <2> QED BY <2>4, <2>5, <2>6
<1> QED BY <1>4, <1>5

LEMMA ReceiveStep ==
  ASSUME TypeInv, NEW p \in Procs, NEW next \in {"resend", "respond"}, Receive(p, next),
         \/ p = Gateway /\ pc[p] = "back" /\ next = "resend" /\ UNCHANGED ssl
         \/ /\ p \in Functions /\ pc[p] = "accept" /\ next = "respond"
            /\ ssl' = [ssl EXCEPT ![p] = [read |-> Head(uds[p]).read,
                                          write |-> Head(uds[p]).write, pending |-> <<>>]],
         UNCHANGED <<clientVars, streamVars, backlog, back>>
  PROVE  TypeOK' /\ Gets(p)
<1> PICK m, s : m = Head(uds[p]) /\ s = Tail(uds[p])
  OBVIOUS
<1>1. uds[p] # <<>> /\ m \in Msg /\ s \in Seq(Msg) /\ m.conn \in Conns /\ m.read \in Nat /\ m.write \in Nat
  <2>1. uds[p] # <<>> /\ uds[p] \in Seq(Msg) /\ m = uds[p][1] /\ 1 \in DOMAIN uds[p]
    BY TypeFacts DEF Receive
  <2>2. m \in Msg /\ s \in Seq(Msg) /\ m.conn \in Conns
    BY <2>1, TypeFacts
  <2> QED BY <2>1, <2>2 DEF Msg
<1>2. /\ Room(p, 2) /\ uds' = [uds EXCEPT ![p] = s] /\ msg' = [msg EXCEPT ![p] = m]
      /\ pc' = [pc EXCEPT ![p] = next] /\ AddCopy(p, m.conn)
      /\ UNCHANGED <<client, reqs, todo, sent, backlog, consumed, resp, back>>
  BY DEF Receive, clientVars, streamVars
<1>3. copies' \in [Procs -> [Conns -> Nat]] /\ CopyMoves(p, m.conn, copies[p][m.conn] + 1)
  BY <1>1, <1>2, AddMoves
<1>4. uds' \in [Procs -> Seq(Msg)] /\ Queues(p, s) /\ msg' \in [Procs -> Msg] /\ msg'[p] = m
  BY <1>1, <1>2 DEF Queues, TypeInv, TypeOK
<1>5. [read |-> m.read, write |-> m.write, pending |-> <<>>] \in Session
  BY <1>1 DEF Session
<1>6. /\ ssl' \in [Procs -> Session] /\ \A q \in Procs \ {p} : ssl'[q] = ssl[q]
      /\ \/ p = Gateway /\ pc[p] = "back" /\ next = "resend" /\ ssl'[p] = NoSession
         \/ /\ p \in Functions /\ pc[p] = "accept" /\ next = "respond"
            /\ ssl'[p] = [read |-> m.read, write |-> m.write, pending |-> <<>>]
  <2>1. pc[p] = "back" => ssl[p] = NoSession
    BY DEF TypeInv, ControlInv, ProcControl, InSession
  <2>2. ssl \in [Procs -> Session]
    BY DEF TypeInv, TypeOK
  <2> QED BY <1>5, <2>1, <2>2
<1>7. pc'[p] = next /\ Elsewhere(p)
  BY <1>2, <1>6 DEF Elsewhere, TypeInv, TypeOK, conn
<1>8. TypeOK'
  BY <1>2, <1>3, <1>4, <1>6 DEF TypeInv, TypeOK
<1> QED BY <1>1, <1>2, <1>3, <1>4, <1>6, <1>7, <1>8 DEF Gets

LEMMA LoseStep ==
  ASSUME TypeInv, NEW p \in Procs, pc[p] \in {"back", "accept"}, ReceiveFails(p)
  PROVE  TypeOK' /\ Loses(p)
<1>1. /\ uds[p] # <<>> /\ uds' = [uds EXCEPT ![p] = Tail(@)] /\ Done(p)
      /\ UNCHANGED <<client, reqs, todo, sent, backlog, consumed, resp, back, copies>>
  BY DEF ReceiveFails, clientVars, streamVars
<1>2. uds' \in [Procs -> Seq(Msg)] /\ Queues(p, Tail(uds[p]))
  <2> PICK s : s = Tail(uds[p])
    OBVIOUS
  <2>1. uds \in [Procs -> Seq(Msg)] /\ uds[p] \in Seq(Msg) /\ uds[p] # <<>>
    BY <1>1 DEF TypeInv, TypeOK
  <2>2. s \in Seq(Msg) /\ uds' = [uds EXCEPT ![p] = s]
    BY <1>1, <2>1
  <2> QED BY <2>1, <2>2 DEF Queues
<1>3. TypeOK'
  BY <1>1, <1>2, DoneTypes DEF TypeInv, TypeOK
<1> QED BY <1>1, <1>2, <1>3, DoneIdles DEF Loses

LEMMA ReadStep ==
  ASSUME TypeInv, NEW p \in Procs, pc[p] \in {"first", "next"}, CanRead(p, conn(p)),
         TakeRecord(p, conn(p)),
         \/ /\ p \in Functions /\ ReadChunk(p, conn(p)).fn = p
            /\ msg' = [msg EXCEPT ![p].req = ReadChunk(p, conn(p))]
            /\ ssl' = [ssl EXCEPT ![p] = AfterRead(p, conn(p))]
            /\ pc' = [pc EXCEPT ![p] = "respond"]
         \/ /\ ReadChunk(p, conn(p)).fn # NoName
            /\ msg' = [msg EXCEPT ![p] = Exported(p, conn(p), AfterRead(p, conn(p)))]
            /\ ssl' = [ssl EXCEPT ![p] = NoSession]
            /\ \/ p = Gateway /\ pc' = [pc EXCEPT ![p] = "send"]
               \/ p \in Functions /\ pc' = [pc EXCEPT ![p] = "return"],
         UNCHANGED <<clientVars, resp, backlog, uds, back, copies>>
  PROVE  TypeOK' /\ Reads(p)
<1> PICK c, chunk, after, e :
      /\ c = conn(p) /\ chunk = ReadChunk(p, c) /\ after = AfterRead(p, c)
      /\ e = Exported(p, c, after)
  OBVIOUS
<1>1. c \in Conns
  BY TypeFacts DEF Waiting
<1>2. /\ chunk \in Chunk /\ after \in Session /\ e \in Msg /\ e.conn = c
      /\ chunk.fn \in Functions \cup {NoName}
  BY <1>1, ReadType DEF Exported, Chunk
<1>3. consumed' \in [Conns -> Nat] /\ OtherStreams(c)
  <2>1. UNCHANGED resp
    OBVIOUS
  <2> QED BY <1>1, <2>1, TakeMoves DEF OtherStreams
<1>4. UNCHANGED <<client, reqs, todo, sent, backlog, uds, resp, copies, back>>
  BY DEF clientVars
<1>5. /\ msg \in [Procs -> Msg] /\ ssl \in [Procs -> Session] /\ NoSession \in Session
      /\ pc \in [Procs -> {"poll", "handshake", "first", "send", "back", "resend",
                           "accept", "respond", "next", "return"}]
      /\ msg[p] \in Msg /\ msg[p].conn = c
  BY Basics DEF TypeInv, TypeOK, conn
<1>6. CASE /\ p \in Functions /\ chunk.fn = p
           /\ msg' = [msg EXCEPT ![p].req = chunk]
           /\ ssl' = [ssl EXCEPT ![p] = after]
           /\ pc' = [pc EXCEPT ![p] = "respond"]
  <2>1. msg' \in [Procs -> Msg] /\ msg'[p].req = chunk /\ msg'[p].conn = c
    BY <1>2, <1>5, <1>6 DEF Msg
  <2>2. Elsewhere(p) /\ conn(p)' = c
    BY <1>5, <1>6, <2>1 DEF Elsewhere, conn
  <2>3. /\ pc' \in [Procs -> {"poll", "handshake", "first", "send", "back", "resend",
                              "accept", "respond", "next", "return"}]
        /\ ssl' \in [Procs -> Session] /\ pc'[p] = "respond" /\ ssl'[p] = after
    BY <1>2, <1>5, <1>6
  <2>4. TypeOK'
    BY <1>3, <1>4, <2>1, <2>3 DEF TypeInv, TypeOK
  <2> QED BY <1>1, <1>2, <1>3, <1>4, <1>6, <2>1, <2>2, <2>3, <2>4 DEF Reads
<1>7. CASE /\ chunk.fn # NoName
           /\ msg' = [msg EXCEPT ![p] = e]
           /\ ssl' = [ssl EXCEPT ![p] = NoSession]
           /\ \/ p = Gateway /\ pc' = [pc EXCEPT ![p] = "send"]
              \/ p \in Functions /\ pc' = [pc EXCEPT ![p] = "return"]
  <2>1. msg' \in [Procs -> Msg] /\ msg'[p] = e
    BY <1>2, <1>5, <1>7
  <2>2. Elsewhere(p) /\ conn(p)' = c
    BY <1>2, <1>5, <1>7, <2>1 DEF Elsewhere, conn
  <2>3. /\ pc' \in [Procs -> {"poll", "handshake", "first", "send", "back", "resend",
                              "accept", "respond", "next", "return"}]
        /\ ssl' \in [Procs -> Session] /\ ssl'[p] = NoSession
        /\ (p = Gateway /\ pc'[p] = "send") \/ (p \in Functions /\ pc'[p] = "return")
    BY <1>2, <1>5, <1>7
  <2>4. TypeOK'
    BY <1>3, <1>4, <2>1, <2>3 DEF TypeInv, TypeOK
  <2> QED BY <1>1, <1>2, <1>3, <1>4, <1>7, <2>1, <2>2, <2>3, <2>4 DEF Reads
<1> QED BY <1>6, <1>7

LEMMA RespondStep ==
  ASSUME TypeInv, NEW w \in Functions, Respond(w)
  PROVE  TypeOK' /\ Responds(w)
<1> PICK c, r, s : /\ c = conn(w) /\ s = [ssl[w] EXCEPT !.write = @ + 1]
                   /\ r = [id |-> msg[w].req.id, by |-> w, seq |-> ssl[w].write]
  OBVIOUS
<1>1. w \in Procs /\ c \in Conns /\ pc[w] = "respond"
  <2>1. w \in Procs /\ pc[w] = "respond"
    BY Basics DEF Respond
  <2> QED BY <2>1, TypeFacts DEF Waiting
<1>2. ssl[w] \in Session /\ msg[w].req.id \in Nat /\ msg \in [Procs -> Msg] /\ ssl \in [Procs -> Session]
  BY <1>1, TypeFacts DEF TypeInv, TypeOK
<1>3. s \in Session /\ r \in [id: Nat, by: Functions, seq: Nat]
  <2> PICK x, n : x = ssl[w] /\ n = x.write + 1
    OBVIOUS
  <2>1. x \in Session /\ n \in Nat /\ s = [x EXCEPT !.write = n] /\ x.write \in Nat
    BY <1>2 DEF Session
  <2>2. s \in Session
    BY ONLY <2>1 DEF Session
  <2> QED BY <1>2, <2>1, <2>2
<1>4. /\ resp' = [resp EXCEPT ![c] = Append(@, r)] /\ ssl' = [ssl EXCEPT ![w] = s]
      /\ pc' = [pc EXCEPT ![w] = "next"]
      /\ UNCHANGED <<client, reqs, todo, sent, consumed, backlog, uds, back, msg, copies>>
  <2>1. ssl' = [ssl EXCEPT ![w].write = @ + 1] /\ ssl \in [Procs -> Session] /\ w \in Procs
    BY <1>1, <1>2 DEF Respond
  <2>2. ssl' = [ssl EXCEPT ![w] = s]
    BY <2>1
  <2> QED BY <2>2 DEF Respond, clientVars
<1>5. /\ resp \in [Conns -> Seq([id: Nat, by: Functions, seq: Nat])]
      /\ Append(resp[c], r) \in Seq([id: Nat, by: Functions, seq: Nat])
  <2> PICK R : R = [id: Nat, by: Functions, seq: Nat]
    OBVIOUS
  <2>1. resp \in [Conns -> Seq(R)] /\ r \in R /\ c \in Conns
    BY <1>1, <1>3 DEF TypeInv, TypeOK
  <2>2. Append(resp[c], r) \in Seq(R)
    BY ONLY <2>1
  <2> QED BY <2>1, <2>2
<1>6. resp' \in [Conns -> Seq([id: Nat, by: Functions, seq: Nat])]
  BY <1>1, <1>4, <1>5
<1>7. TypeOK'
  BY <1>2, <1>3, <1>4, <1>6 DEF TypeInv, TypeOK
<1>8. pc'[w] = "next" /\ ssl'[w] = s /\ resp'[c] = Append(resp[c], r) /\ OtherStreams(c)
  BY <1>1, <1>2, <1>4, <1>5 DEF OtherStreams, TypeInv, TypeOK
<1>9. Elsewhere(w)
  BY <1>1, <1>2, <1>4 DEF Elsewhere, TypeInv, TypeOK, conn
<1> QED BY <1>1, <1>4, <1>7, <1>8, <1>9 DEF Responds

ProcMoves(p) == Closes(p) \/ Passes(p) \/ Gets(p) \/ Loses(p) \/ Reads(p)

LEMMA GatewayStepMoves ==
  ASSUME TypeInv, GatewayStep
  PROVE  /\ TypeOK'
         /\ (\E c \in Conns : Accepts(c)) \/ Polls \/ Handshakes \/ ProcMoves(Gateway)
<1>1. Gateway \in Procs
  BY Basics
<1>2. CASE \E c \in Conns : Accept(c)
  BY <1>2, AcceptStep
<1>3. CASE PollBack
  BY <1>3, PollStep
<1>4. CASE Handshake
  BY <1>4, HandshakeStep
<1>5. CASE HandshakeFails
  BY <1>1, <1>5, CloseConnStep DEF HandshakeFails, ProcMoves
<1>6. CASE ReadFirst
  <2>1. TypeOK' /\ Reads(Gateway)
    BY <1>1, <1>6, ReadStep DEF ReadFirst
  <2> QED BY <2>1 DEF ProcMoves
<1>7. CASE ReadFirstFails
  <2>1. TypeOK' /\ Closes(Gateway)
    BY <1>1, <1>7, CloseConnStep DEF ReadFirstFails
  <2> QED BY <2>1 DEF ProcMoves
<1>8. CASE SendFirst
  <2>1. TypeOK' /\ (Passes(Gateway) \/ Closes(Gateway))
    BY <1>1, <1>8, SendStep DEF SendFirst, Target, Holding
  <2> QED BY <2>1 DEF ProcMoves
<1>9. CASE ReceiveBack
  <2>1. TypeOK' /\ (Gets(Gateway) \/ Loses(Gateway))
    <3>1. CASE Receive(Gateway, "resend") /\ UNCHANGED <<clientVars, streamVars, backlog, back, ssl>>
      BY <1>1, <1>9, <3>1, ReceiveStep DEF ReceiveBack
    <3>2. CASE ReceiveFails(Gateway)
      BY <1>1, <1>9, <3>2, LoseStep DEF ReceiveBack
    <3> QED BY <1>9, <3>1, <3>2 DEF ReceiveBack
  <2> QED BY <2>1 DEF ProcMoves
<1>10. CASE Resend
  <2>1. TypeOK' /\ (Passes(Gateway) \/ Closes(Gateway))
    BY <1>1, <1>10, SendStep DEF Resend, Target, Holding
  <2> QED BY <2>1 DEF ProcMoves
<1> QED BY <1>2, <1>3, <1>4, <1>5, <1>6, <1>7, <1>8, <1>9, <1>10 DEF GatewayStep

LEMMA WorkerStepMoves ==
  ASSUME TypeInv, NEW w \in Functions, WorkerStep(w)
  PROVE  TypeOK' /\ (Responds(w) \/ ProcMoves(w))
<1>1. w \in Procs /\ w # Gateway
  BY Basics
<1>2. CASE ReceiveHandoff(w)
  <2>1. TypeOK' /\ (Gets(w) \/ Loses(w))
    <3>1. CASE /\ Receive(w, "respond")
               /\ ssl' = [ssl EXCEPT ![w] = [read |-> Head(uds[w]).read,
                                             write |-> Head(uds[w]).write, pending |-> <<>>]]
               /\ UNCHANGED <<clientVars, streamVars, backlog, back>>
      BY <1>1, <1>2, <3>1, ReceiveStep DEF ReceiveHandoff
    <3>2. CASE ReceiveFails(w)
      BY <1>1, <1>2, <3>2, LoseStep DEF ReceiveHandoff
    <3> QED BY <1>2, <3>1, <3>2 DEF ReceiveHandoff
  <2> QED BY <2>1 DEF ProcMoves
<1>3. CASE Respond(w)
  BY <1>3, RespondStep
<1>4. CASE ReadNextOwn(w)
  <2>1. TypeOK' /\ Reads(w)
    BY <1>1, <1>4, ReadStep DEF ReadNextOwn
  <2> QED BY <2>1 DEF ProcMoves
<1>5. CASE ReadNextOther(w)
  <2>1. TypeOK' /\ Reads(w)
    BY <1>1, <1>5, ReadStep DEF ReadNextOther
  <2> QED BY <2>1 DEF ProcMoves
<1>6. CASE ReadNextFails(w)
  <2>1. TypeOK' /\ Closes(w)
    BY <1>1, <1>6, CloseConnStep DEF ReadNextFails
  <2> QED BY <2>1 DEF ProcMoves
<1>7. CASE SendBack(w)
  <2>1. TypeOK' /\ (Passes(w) \/ Closes(w))
    BY <1>1, <1>7, SendStep DEF SendBack, Target, Holding
  <2> QED BY <2>1 DEF ProcMoves
<1> QED BY <1>2, <1>3, <1>4, <1>5, <1>6, <1>7 DEF WorkerStep

-----------------------------------------------------------------------------
(* Control *)

LEMMA QueueShrinks ==
  ASSUME TypeInv, NEW p \in Procs, uds[p] # <<>>, Queues(p, Tail(uds[p]))
  PROVE  \A q \in Procs : \A i \in DOMAIN uds'[q] :
           LET k == IF q = p THEN i + 1 ELSE i
           IN i \in Nat /\ k \in DOMAIN uds[q] /\ uds'[q][i] = uds[q][k]
<1> PICK s : s = uds[p]
  OBVIOUS
<1>1. s \in Seq(Msg) /\ s # <<>> /\ uds'[p] = Tail(s)
  BY TypeFacts DEF Queues
<1>2. \A i \in DOMAIN uds'[p] : i \in Nat /\ i + 1 \in DOMAIN s /\ uds'[p][i] = s[i + 1]
  BY <1>1
<1>3. \A q \in Procs \ {p} : uds'[q] = uds[q] /\ uds[q] \in Seq(Msg)
  BY TypeFacts DEF Queues
<1> QED BY <1>2, <1>3

LEMMA QueueGrows ==
  ASSUME TypeInv, NEW p \in Procs, NEW q \in Procs, Queues(q, Append(uds[q], msg[p]))
  PROVE  \A r \in Procs : \A i \in DOMAIN uds'[r] :
           \/ i \in DOMAIN uds[r] /\ uds'[r][i] = uds[r][i]
           \/ r = q /\ i = Len(uds[q]) + 1 /\ i \notin DOMAIN uds[r] /\ uds'[r][i] = msg[p]
<1> PICK s, m : s = uds[q] /\ m = msg[p]
  OBVIOUS
<1>1. s \in Seq(Msg) /\ m \in Msg /\ uds'[q] = Append(s, m)
  BY TypeFacts DEF Queues
<1>2. \A i \in DOMAIN uds'[q] : \/ i \in DOMAIN s /\ uds'[q][i] = s[i]
                                \/ i = Len(s) + 1 /\ i \notin DOMAIN s /\ uds'[q][i] = m
  BY <1>1
<1>3. \A r \in Procs \ {q} : uds'[r] = uds[r]
  BY DEF Queues
<1> QED BY <1>2, <1>3

LEMMA OthersControl ==
  ASSUME TypeInv, NEW p \in Procs, Elsewhere(p)
  PROVE  \A q \in Procs \ {p} : ProcControl(q)'
BY DEF TypeInv, ControlInv, ProcControl, Elsewhere

LEMMA IdleControl ==
  ASSUME NEW p \in Procs, Idles(p)
  PROVE  ProcControl(p)'
BY Basics DEF Idles, ProcControl, Waiting, InSession, Holding, GatewayPCs, WorkerPCs

LEMMA ClosesControl ==
  ASSUME TypeInv, NEW p \in Procs, Closes(p)
  PROVE  ControlInv' /\ HeldInv'
<1>1. \A q \in Procs : ProcControl(q)'
  BY OthersControl, IdleControl DEF Closes
<1>2. ControlInv'
  BY <1>1 DEF TypeInv, ControlInv, Closes, Addressed
<1>3. HeldInv'
  BY Basics DEF TypeInv, HeldInv, Closes, Idles, Elsewhere, CopyMoves
<1> QED BY <1>2, <1>3

LEMMA PassesControl ==
  ASSUME TypeInv, NEW p \in Procs, Passes(p)
  PROVE  ControlInv' /\ HeldInv'
<1>1. \A q \in Procs : ProcControl(q)'
  BY OthersControl, IdleControl DEF Passes
<1>2. Target(p) \in Procs /\ Addressed(msg[p], Target(p))
  BY Basics DEF TypeInv, ControlInv, ProcControl, Addressed, Passes, Target, conn
<1>3. \A r \in Procs : \A i \in DOMAIN uds'[r] : Addressed(uds'[r][i], r)
  BY <1>2, QueueGrows DEF TypeInv, ControlInv, Passes
<1>4. ControlInv'
  BY <1>1, <1>3 DEF TypeInv, ControlInv, Passes, Addressed
<1>5. HeldInv'
  BY Basics DEF TypeInv, HeldInv, Passes, Idles, Elsewhere, CopyMoves
<1> QED BY <1>4, <1>5

LEMMA LosesControl ==
  ASSUME TypeInv, NEW p \in Procs, Loses(p)
  PROVE  ControlInv' /\ HeldInv'
<1>1. \A q \in Procs : ProcControl(q)'
  BY OthersControl, IdleControl DEF Loses
<1>2. \A r \in Procs : \A i \in DOMAIN uds'[r] : Addressed(uds'[r][i], r)
  BY QueueShrinks DEF TypeInv, ControlInv, Loses
<1>3. ControlInv'
  BY <1>1, <1>2 DEF TypeInv, ControlInv, Loses, Addressed
<1>4. HeldInv'
  BY Basics DEF TypeInv, HeldInv, Loses, Idles, Elsewhere
<1> QED BY <1>3, <1>4

(* The message a process receives. *)
LEMMA GetsHead ==
  ASSUME TypeInv, NEW p \in Procs, uds[p] # <<>>
  PROVE  /\ 1 \in DOMAIN uds[p] /\ Head(uds[p]) = uds[p][1]
         /\ Head(uds[p]) \in Msg /\ Addressed(Head(uds[p]), p)
         /\ Head(uds[p]).read \in Nat /\ Head(uds[p]).write \in Nat
<1> PICK s : s = uds[p]
  OBVIOUS
<1>1. s \in Seq(Msg) /\ s # <<>>
  BY TypeFacts
<1>2. 1 \in DOMAIN s /\ Head(s) = s[1] /\ Head(s) \in Msg
  BY <1>1
<1>3. Addressed(s[1], p)
  BY <1>2 DEF TypeInv, ControlInv
<1>4. Head(s).read \in Nat /\ Head(s).write \in Nat
  BY <1>2 DEF Msg
<1> QED BY <1>2, <1>3, <1>4

LEMMA GetsControl ==
  ASSUME TypeInv, NEW p \in Procs, Gets(p)
  PROVE  ControlInv' /\ HeldInv'
<1> PICK m : m = Head(uds[p])
  OBVIOUS
<1>1. m.conn \in Conns /\ m.req.fn \in Functions /\ (p # Gateway => m.req.fn = p) /\ msg'[p] = m
  BY GetsHead DEF Gets, Addressed
<1>2. ProcControl(p)'
  BY <1>1, Basics DEF Gets, ProcControl, Waiting, InSession, Holding, GatewayPCs, WorkerPCs, conn
<1>3. \A q \in Procs : ProcControl(q)'
  BY <1>2, OthersControl DEF Gets
<1>4. \A r \in Procs : \A i \in DOMAIN uds'[r] : Addressed(uds'[r][i], r)
  BY QueueShrinks DEF TypeInv, ControlInv, Gets
<1>5. ControlInv'
  BY <1>3, <1>4 DEF TypeInv, ControlInv, Gets, Addressed
<1>6. HeldInv'
  <2>1. copies'[p][m.conn] >= 1 /\ conn(p)' = m.conn
    BY <1>1, TypeFacts DEF Gets, CopyMoves, conn
  <2> QED BY <2>1 DEF TypeInv, HeldInv, Gets, Elsewhere, CopyMoves
<1> QED BY <1>5, <1>6

LEMMA ReadsControl ==
  ASSUME TypeInv, NEW p \in Procs, Reads(p)
  PROVE  ControlInv' /\ HeldInv'
<1>1. /\ conn(p) \in Conns /\ conn(p)' = conn(p)
      /\ \/ p \in Functions /\ pc'[p] = "respond" /\ msg'[p].req.fn = p
         \/ /\ (p = Gateway /\ pc'[p] = "send") \/ (p \in Functions /\ pc'[p] = "return")
            /\ msg'[p].req.fn \in Functions /\ ssl'[p] = NoSession
  BY DEF Reads, Exported
<1>2. ProcControl(p)'
  BY <1>1, Basics DEF ProcControl, Waiting, InSession, Holding, GatewayPCs, WorkerPCs
<1>3. \A q \in Procs : ProcControl(q)'
  BY <1>2, OthersControl DEF Reads
<1>4. ControlInv'
  BY <1>3 DEF TypeInv, ControlInv, Reads, Addressed
<1>5. HeldInv'
  BY <1>1 DEF TypeInv, HeldInv, Reads, Elsewhere
<1> QED BY <1>4, <1>5

LEMMA OtherControl ==
  ASSUME TypeInv,
         \/ \E c \in Conns : ClientMoves(c) \/ Accepts(c)
         \/ Polls \/ Handshakes
         \/ \E w \in Functions : Responds(w)
  PROVE  ControlInv' /\ HeldInv'
<1>1. ASSUME NEW c \in Conns, ClientMoves(c)
      PROVE  ControlInv' /\ HeldInv'
  BY <1>1 DEF ClientMoves, TypeInv, ControlInv, HeldInv, ProcControl, Addressed, conn
<1>2. ASSUME NEW c \in Conns, Accepts(c)
      PROVE  ControlInv' /\ HeldInv'
  <2>1. pc[Gateway] = "poll" /\ ssl[Gateway] = NoSession
    BY <1>2, Basics DEF Accepts, TypeInv, ControlInv, ProcControl, InSession
  <2>2. ProcControl(Gateway)'
    BY <1>2, <2>1, Basics DEF Accepts, ProcControl, Waiting, InSession, Holding, GatewayPCs
  <2>3. \A q \in Procs : ProcControl(q)'
    BY <1>2, <2>2, OthersControl, Basics DEF Accepts
  <2>4. ControlInv'
    BY <1>2, <2>3 DEF Accepts, TypeInv, ControlInv, Addressed
  <2>5. HeldInv'
    <3>1. copies'[Gateway][c] >= 1
      BY <1>2, TypeFacts, Basics DEF Accepts, CopyMoves
    <3> QED BY <1>2, <3>1 DEF Accepts, TypeInv, HeldInv, Elsewhere, CopyMoves
  <2> QED BY <2>4, <2>5
<1>3. ASSUME Polls
      PROVE  ControlInv' /\ HeldInv'
  <2>1. ProcControl(Gateway)'
    BY <1>3, Basics DEF Polls, TypeInv, ControlInv, ProcControl, Waiting, InSession, Holding,
                        GatewayPCs, conn
  <2>2. \A q \in Procs : ProcControl(q)'
    BY <1>3, <2>1, OthersControl, Basics DEF Polls
  <2>3. ControlInv'
    BY <1>3, <2>2 DEF Polls, TypeInv, ControlInv, Addressed
  <2> QED BY <1>3, <2>3 DEF Polls, TypeInv, HeldInv, conn
<1>4. ASSUME Handshakes
      PROVE  ControlInv' /\ HeldInv'
  <2>1. ProcControl(Gateway)'
    BY <1>4, Basics DEF Handshakes, ProcControl, Waiting, InSession, Holding, GatewayPCs, conn
  <2>2. \A q \in Procs : ProcControl(q)'
    BY <1>4, <2>1, OthersControl, Basics DEF Handshakes
  <2>3. ControlInv'
    BY <1>4, <2>2 DEF Handshakes, TypeInv, ControlInv, Addressed
  <2> QED BY <1>4, <2>3 DEF Handshakes, TypeInv, HeldInv, conn
<1>5. ASSUME NEW w \in Functions, Responds(w)
      PROVE  ControlInv' /\ HeldInv'
  <2>1. ProcControl(w)'
    BY <1>5, Basics DEF Responds, ProcControl, Waiting, InSession, Holding, WorkerPCs, conn
  <2>2. \A q \in Procs : ProcControl(q)'
    BY <1>5, <2>1, OthersControl, Basics DEF Responds
  <2>3. ControlInv'
    BY <1>5, <2>2 DEF Responds, TypeInv, ControlInv, Addressed
  <2> QED BY <1>5, <2>3 DEF Responds, TypeInv, HeldInv, conn
<1> QED BY <1>1, <1>2, <1>3, <1>4, <1>5

(* Every step is one of the ten, and keeps types and control. *)
Moves ==
  \/ \E c \in Conns : (ClientMoves(c) /\ ClientSends(c)) \/ Accepts(c)
  \/ Polls \/ Handshakes
  \/ \E w \in Functions : Responds(w)
  \/ \E p \in Procs : ProcMoves(p)

LEMMA TypeStep ==
  ASSUME TypeInv, [Next]_vars
  PROVE  TypeInv' /\ (Moves \/ UNCHANGED vars)
<1>1. CASE UNCHANGED vars
  <2>1. UNCHANGED <<client, reqs, todo, sent, consumed, resp, backlog, uds, pc, back, msg, ssl, copies>>
    BY <1>1 DEF vars, clientVars, streamVars, localVars
  <2>2. TypeOK'
    BY <2>1 DEF TypeInv, TypeOK
  <2>3. ControlInv' /\ HeldInv'
    BY <2>1 DEF TypeInv, ControlInv, ProcControl, Addressed, HeldInv, conn
  <2> QED BY <1>1, <2>2, <2>3 DEF TypeInv
<1>2. CASE Next
  <2>1. TypeOK' /\ Moves
    BY <1>2, ClientStepMoves, GatewayStepMoves, WorkerStepMoves, Basics DEF Next, Moves
  <2>2. ControlInv' /\ HeldInv'
    BY <2>1, OtherControl, ClosesControl, PassesControl, GetsControl, LosesControl, ReadsControl
    DEF Moves, ProcMoves
  <2> QED BY <2>1, <2>2 DEF TypeInv
<1> QED BY <1>1, <1>2

LEMMA TypeInit ==
  ASSUME Init
  PROVE  TypeInv
<1>1. TypeOK
  <2>1. client \in [Conns -> {"idle", "connected", "hello", "secure", "gone"}]
    BY DEF Init
  <2>5. reqs \in [Conns -> Seq(Request)] /\ uds \in [Procs -> Seq(Msg)]
    BY DEF Init
  <2>6. backlog \subseteq Conns /\ back \in BOOLEAN
    BY DEF Init
  <2>2. /\ todo \in [Conns -> Seq(Seq(Chunk))] /\ sent \in [Conns -> Seq(Seq(Chunk))]
    BY DEF Init
  <2>3. resp \in [Conns -> Seq([id: Nat, by: Functions, seq: Nat])] /\ consumed \in [Conns -> Nat]
    <3> PICK R : R = [id: Nat, by: Functions, seq: Nat]
      OBVIOUS
    <3>1. resp \in [Conns -> Seq(R)] /\ consumed \in [Conns -> Nat]
      BY DEF Init
    <3> QED BY <3>1
  <2>4. /\ pc \in [Procs -> {"poll", "handshake", "first", "send", "back", "resend",
                             "accept", "respond", "next", "return"}]
        /\ msg \in [Procs -> Msg] /\ ssl \in [Procs -> Session]
        /\ copies \in [Procs -> [Conns -> Nat]]
    BY Basics DEF Init
  <2> QED BY <2>1, <2>2, <2>3, <2>4, <2>5, <2>6 DEF TypeOK
<1>2. ControlInv
  <2>1. \A p \in Procs : ProcControl(p) /\ uds[p] = <<>>
    BY Basics DEF Init, ProcControl, GatewayPCs, WorkerPCs, Waiting, InSession, Holding, conn
  <2>2. \A c \in Conns : Chunky(sent[c]) /\ Chunky(todo[c])
    BY DEF Init, Chunky
  <2> QED BY <2>1, <2>2 DEF ControlInv
<1>3. HeldInv
  BY Basics DEF Init, HeldInv, conn
<1> QED BY <1>1, <1>2, <1>3 DEF TypeInv

-----------------------------------------------------------------------------
(* One user *)

(* The parts of SingleUser, for the messages as they are told apart.        *)
LEMMA UserParts ==
  ASSUME TypeInv, SingleUser
  PROVE  \A c \in Conns :
           /\ \A p, q \in Procs : conn(p) = c /\ conn(q) = c => p = q
           /\ \A p, q \in Procs : \A i \in DOMAIN uds[q] : conn(p) = c => uds[q][i].conn # c
           /\ \A p, q \in Procs : \A i \in DOMAIN uds[p], j \in DOMAIN uds[q] :
                uds[p][i].conn = c /\ uds[q][j].conn = c => p = q /\ i = j
           /\ \A p \in Procs : \A i \in DOMAIN uds[p] :
                c \in backlog => conn(p) # c /\ uds[p][i].conn # c
           /\ \A p \in Procs : c \in backlog => conn(p) # c
BY DEF SingleUser, Queued

(* Every user of a connection after the step was one before it. *)
LEMMA UsersShrink ==
  ASSUME TypeInv, SingleUser, NEW p \in Procs, backlog' \subseteq backlog,
         \A q \in Procs : conn(q)' \in {conn(q), NoConn},
         uds' = uds \/ (uds[p] # <<>> /\ Queues(p, Tail(uds[p])))
  PROVE  SingleUser'
<1> PICK k : k = [q \in Procs |-> IF uds' # uds /\ q = p THEN 1 ELSE 0]
  OBVIOUS
<1>1. \A q \in Procs : k[q] \in {0, 1}
  OBVIOUS
<1>2. \A q \in Procs : \A i \in DOMAIN uds'[q] :
        /\ i \in Nat /\ i + k[q] \in DOMAIN uds[q] /\ uds'[q][i] = uds[q][i + k[q]]
  <2>1. CASE uds' = uds
    <3>1. \A q \in Procs : \A i \in DOMAIN uds'[q] : i \in Nat /\ i + 0 = i /\ k[q] = 0
      BY <2>1, TypeFacts
    <3> QED BY <2>1, <3>1
  <2>2. CASE uds' # uds
    <3>1. \A q \in Procs : k[q] = IF q = p THEN 1 ELSE 0
      BY <2>2
    <3>2. \A q \in Procs : \A i \in DOMAIN uds'[q] :
            LET j == IF q = p THEN i + 1 ELSE i
            IN i \in Nat /\ j \in DOMAIN uds[q] /\ uds'[q][i] = uds[q][j]
      BY <2>2, QueueShrinks
    <3> QED BY ONLY <3>1, <3>2
  <2> QED BY <2>1, <2>2
<1>0. \A q \in Procs : conn(q)' \in Conns => conn(q)' = conn(q)
  BY Basics
<1>3. ASSUME NEW c \in Conns
      PROVE  \A q, r \in Procs : conn(q)' = c /\ conn(r)' = c => q = r
  BY <1>0, <1>3, UserParts
<1>4. ASSUME NEW c \in Conns, NEW q \in Procs, NEW r \in Procs, NEW i \in DOMAIN uds'[r],
             conn(q)' = c
      PROVE  uds'[r][i].conn # c
  <2>1. conn(q) = c
    BY <1>0, <1>4
  <2> QED BY <1>2, <1>4, <2>1, UserParts
<1>5. ASSUME NEW c \in Conns, NEW q \in Procs, NEW r \in Procs,
             NEW i \in DOMAIN uds'[q], NEW j \in DOMAIN uds'[r],
             uds'[q][i].conn = c, uds'[r][j].conn = c
      PROVE  q = r /\ i = j
  <2>1. q = r /\ i + k[q] = j + k[r]
    BY <1>2, <1>5, UserParts
  <2> QED BY <1>1, <1>2, <1>5, <2>1
<1>6. ASSUME NEW c \in Conns, NEW q \in Procs, c \in backlog'
      PROVE  conn(q)' # c /\ \A i \in DOMAIN uds'[q] : uds'[q][i].conn # c
  <2>1. c \in backlog
    BY <1>6
  <2>2. conn(q)' # c
    BY <1>0, <1>6, <2>1, UserParts
  <2>3. \A i \in DOMAIN uds'[q] : uds'[q][i].conn # c
    BY <1>2, <1>6, <2>1, UserParts
  <2> QED BY <2>2, <2>3
<1> QED BY <1>3, <1>4, <1>5, <1>6 DEF SingleUser, Queued

(* A hand-over moves the session from the process to the message, ... *)
LEMMA PassesUsers ==
  ASSUME TypeInv, SingleUser, NEW p \in Procs, Passes(p)
  PROVE  SingleUser'
<1> PICK d, t : d = conn(p) /\ t = Target(p)
  OBVIOUS
<1>1. d \in Conns /\ conn(p)' = NoConn /\ \A q \in Procs \ {p} : conn(q)' = conn(q)
  BY DEF Passes, Idles, Elsewhere
<1>2. t \in Procs /\ msg[p].conn = d /\ backlog' = backlog
  BY Basics DEF Passes, Target, TypeInv, ControlInv, ProcControl, conn
<1>3. \A r \in Procs : \A i \in DOMAIN uds'[r] :
           \/ i \in DOMAIN uds[r] /\ uds'[r][i] = uds[r][i]
           \/ r = t /\ i = Len(uds[t]) + 1 /\ i \notin DOMAIN uds[r] /\ uds'[r][i] = msg[p]
  BY <1>2, QueueGrows DEF Passes
<1>4. \A q \in Procs : conn(q)' \in Conns => q # p /\ conn(q)' = conn(q)
  BY <1>1, Basics
<1>5. ASSUME NEW c \in Conns
      PROVE  \A q, r \in Procs : conn(q)' = c /\ conn(r)' = c => q = r
  BY <1>4, <1>5, UserParts
<1>6. ASSUME NEW c \in Conns, NEW q \in Procs, NEW r \in Procs, NEW i \in DOMAIN uds'[r],
             conn(q)' = c
      PROVE  uds'[r][i].conn # c
  <2>1. conn(q) = c /\ q # p /\ c # d
    BY <1>1, <1>4, <1>6, UserParts
  <2> QED BY <1>2, <1>3, <1>6, <2>1, UserParts
<1>7. ASSUME NEW c \in Conns, NEW q \in Procs, NEW r \in Procs,
             NEW i \in DOMAIN uds'[q], NEW j \in DOMAIN uds'[r],
             uds'[q][i].conn = c, uds'[r][j].conn = c
      PROVE  q = r /\ i = j
  <2>1. CASE c = d
    <3>1. \A s \in Procs : \A l \in DOMAIN uds[s] : uds[s][l].conn # c
      BY <1>1, <2>1, UserParts
    <3> QED BY <1>3, <1>7, <3>1
  <2>2. CASE c # d
    BY <1>2, <1>3, <1>7, <2>2, UserParts
  <2> QED BY <2>1, <2>2
<1>8. ASSUME NEW c \in Conns, NEW q \in Procs, c \in backlog'
      PROVE  conn(q)' # c /\ \A i \in DOMAIN uds'[q] : uds'[q][i].conn # c
  <2>1. c \in backlog /\ c # d
    BY <1>1, <1>2, <1>8, UserParts
  <2>2. conn(q)' # c
    BY <1>4, <1>8, <2>1, UserParts
  <2>3. \A i \in DOMAIN uds'[q] : uds'[q][i].conn # c
    BY <1>2, <1>3, <1>8, <2>1, UserParts
  <2> QED BY <2>2, <2>3
<1> QED BY <1>5, <1>6, <1>7, <1>8 DEF SingleUser, Queued

(* ... and from the message to the process that receives it. *)
LEMMA GetsUsers ==
  ASSUME TypeInv, SingleUser, NEW p \in Procs, Gets(p)
  PROVE  SingleUser'
<1> PICK d : d = Head(uds[p]).conn
  OBVIOUS
<1>1. /\ d \in Conns /\ conn(p)' = d /\ \A q \in Procs \ {p} : conn(q)' = conn(q)
      /\ 1 \in DOMAIN uds[p] /\ uds[p][1].conn = d /\ backlog' = backlog
  BY GetsHead DEF Gets, Elsewhere, Addressed, conn
<1>2. \A q \in Procs : \A i \in DOMAIN uds'[q] :
        LET k == IF q = p THEN i + 1 ELSE i
        IN i \in Nat /\ k \in DOMAIN uds[q] /\ uds'[q][i] = uds[q][k] /\ (q # p \/ k # 1)
  <2>1. \A i \in Nat : i + 1 # 1 \/ i = 0
    OBVIOUS
  <2>2. \A q \in Procs : \A i \in DOMAIN uds'[q] :
          LET k == IF q = p THEN i + 1 ELSE i
          IN i \in Nat /\ k \in DOMAIN uds[q] /\ uds'[q][i] = uds[q][k]
    BY QueueShrinks DEF Gets
  <2>3. \A i \in DOMAIN uds'[p] : i # 0
    <3> PICK s : s = uds[p]
      OBVIOUS
    <3>1. s \in Seq(Msg) /\ s # <<>> /\ uds'[p] = Tail(s)
      BY TypeFacts DEF Gets, Queues
    <3> QED BY <3>1
  <2> QED BY <2>1, <2>2, <2>3
<1>3. \A q \in Procs : \A i \in DOMAIN uds'[q] : uds'[q][i].conn # d
  BY <1>1, <1>2, UserParts
<1>4. \A q \in Procs : conn(q) # d /\ d \notin backlog
  BY <1>1, UserParts
<1>5. ASSUME NEW c \in Conns
      PROVE  \A q, r \in Procs : conn(q)' = c /\ conn(r)' = c => q = r
  BY <1>1, <1>4, <1>5, UserParts
<1>6. ASSUME NEW c \in Conns, NEW q \in Procs, NEW r \in Procs, NEW i \in DOMAIN uds'[r],
             conn(q)' = c
      PROVE  uds'[r][i].conn # c
  <2>1. CASE c = d
    BY <1>3, <2>1
  <2>2. CASE c # d
    <3>1. conn(q) = c
      BY <1>1, <1>6, <2>2
    <3> QED BY <1>2, <1>6, <3>1, UserParts
  <2> QED BY <2>1, <2>2
<1>7. ASSUME NEW c \in Conns, NEW q \in Procs, NEW r \in Procs,
             NEW i \in DOMAIN uds'[q], NEW j \in DOMAIN uds'[r],
             uds'[q][i].conn = c, uds'[r][j].conn = c
      PROVE  q = r /\ i = j
  <2>1. q = r /\ (IF q = p THEN i + 1 ELSE i) = (IF r = p THEN j + 1 ELSE j)
    BY <1>2, <1>7, UserParts
  <2> QED BY <1>2, <1>7, <2>1
<1>8. ASSUME NEW c \in Conns, NEW q \in Procs, c \in backlog'
      PROVE  conn(q)' # c /\ \A i \in DOMAIN uds'[q] : uds'[q][i].conn # c
  <2>1. c \in backlog /\ c # d
    BY <1>1, <1>4, <1>8
  <2>2. conn(q)' # c
    BY <1>1, <1>8, <2>1, UserParts
  <2>3. \A i \in DOMAIN uds'[q] : uds'[q][i].conn # c
    BY <1>2, <1>8, <2>1, UserParts
  <2> QED BY <2>2, <2>3
<1> QED BY <1>5, <1>6, <1>7, <1>8 DEF SingleUser, Queued

LEMMA AcceptsUsers ==
  ASSUME TypeInv, SingleUser, NEW c \in Conns, Accepts(c)
  PROVE  SingleUser'
<1>1. /\ conn(Gateway)' = c /\ \A q \in Procs \ {Gateway} : conn(q)' = conn(q)
      /\ c \in backlog /\ backlog' = backlog \ {c} /\ uds' = uds
  BY DEF Accepts, Elsewhere
<1>2. \A q \in Procs : conn(q) # c /\ ~Queued(c, q)
  BY <1>1 DEF SingleUser
<1>3. \A d \in Conns, q \in Procs : Queued(d, q)' <=> Queued(d, q)
  BY <1>1 DEF Queued
<1>4. ASSUME NEW d \in Conns
      PROVE  /\ \A p, q \in Procs : conn(p)' = d /\ conn(q)' = d => p = q
             /\ \A p, q \in Procs : conn(p)' = d => ~Queued(d, q)'
  BY <1>1, <1>2, <1>3, <1>4 DEF SingleUser
<1>5. \A d \in Conns : d \in backlog' => \A p \in Procs : conn(p)' # d /\ ~Queued(d, p)'
  BY <1>1, <1>2, <1>3 DEF SingleUser
<1>6. \A d \in Conns : \A p, q \in Procs : \A i \in DOMAIN uds'[p], j \in DOMAIN uds'[q] :
         uds'[p][i].conn = d /\ uds'[q][j].conn = d => p = q /\ i = j
  BY <1>1 DEF SingleUser
<1> QED BY <1>4, <1>5, <1>6 DEF SingleUser

(* What a step does to the other connections, and to the one it concerns.   *)
Concerns(d) ==
  /\ client[d] # "idle" /\ d \notin backlog'
  /\ backlog' \subseteq backlog /\ \A c \in Conns : client'[c] = "idle" => client[c] = "idle"
  /\ \A c \in Conns \ {d} :
       /\ consumed'[c] = consumed[c] /\ resp'[c] = resp[c]
       /\ \A q \in Procs : /\ copies'[q][c] = copies[q][c]
                           /\ conn(q)' = c => conn(q) = c
                           /\ Queued(c, q)' => Queued(c, q)

LEMMA ConcernsOwn ==
  ASSUME OwnInv, NEW d \in Conns, Concerns(d), SingleUser'
  PROVE  OwnInv'
<1>1. ASSUME NEW c \in Conns, client'[c] = "idle"
      PROVE  c \notin backlog' /\ \A p \in Procs : conn(p)' # c /\ ~Queued(c, p)'
  BY <1>1 DEF OwnInv, Concerns
<1>2. ASSUME NEW c \in Conns, client'[c] = "idle" \/ c \in backlog'
      PROVE  Fresh(c)'
  <2>1. c # d /\ (client[c] = "idle" \/ c \in backlog)
    BY <1>2 DEF Concerns
  <2>2. Fresh(c)
    BY <2>1 DEF OwnInv
  <2> QED BY <2>1, <2>2 DEF Concerns, Fresh
<1> QED BY <1>1, <1>2 DEF OwnInv

(* A connection in use is neither new nor waiting to be accepted. *)
LEMMA InUse ==
  ASSUME OwnInv, NEW c \in Conns, NEW p \in Procs, conn(p) = c \/ Queued(c, p)
  PROVE  client[c] # "idle" /\ c \notin backlog
BY DEF OwnInv, SingleUser

LEMMA ProcMovesOwn ==
  ASSUME TypeInv, OwnInv, NEW p \in Procs, ProcMoves(p)
  PROVE  OwnInv'
<1>1. SingleUser
  BY DEF OwnInv
<1>2. CASE Closes(p)
  <2> PICK d : d = conn(p)
    OBVIOUS
  <2>1. d \in Conns /\ client[d] # "idle" /\ d \notin backlog
    BY <1>2, InUse DEF Closes
  <2>2. \A q \in Procs : conn(q)' \in {conn(q), NoConn}
    BY <1>2 DEF Closes, Idles, Elsewhere
  <2>3. SingleUser'
    BY <1>1, <1>2, <2>2, UsersShrink DEF Closes
  <2>4. \A c \in Conns \ {d} : \A q \in Procs : copies'[q][c] = copies[q][c]
    BY <1>2 DEF Closes, CopyMoves
  <2>5. \A c \in Conns, q \in Procs : Queued(c, q)' <=> Queued(c, q)
    BY <1>2 DEF Closes, Queued
  <2>6. Concerns(d)
    BY <1>2, <2>1, <2>2, <2>4, <2>5, Basics DEF Closes, OtherStreams, Concerns
  <2> QED BY <2>1, <2>3, <2>6, ConcernsOwn
<1>3. CASE Passes(p)
  <2> PICK d, t : d = conn(p) /\ t = Target(p)
    OBVIOUS
  <2>1. d \in Conns /\ client[d] # "idle" /\ d \notin backlog
    BY <1>3, InUse DEF Passes
  <2>2. \A q \in Procs : conn(q)' \in {conn(q), NoConn}
    BY <1>3 DEF Passes, Idles, Elsewhere
  <2>3. t \in Procs /\ msg[p].conn = d
    BY <1>3, Basics DEF Passes, Target, TypeInv, ControlInv, ProcControl, conn
  <2>4. \A c \in Conns \ {d} : \A q \in Procs : Queued(c, q)' => Queued(c, q)
    BY <1>3, <2>3, QueueGrows DEF Passes, Queued
  <2>5. \A c \in Conns \ {d} : \A q \in Procs : copies'[q][c] = copies[q][c]
    BY <1>3 DEF Passes, CopyMoves
  <2>6. Concerns(d)
    BY <1>3, <2>1, <2>2, <2>4, <2>5, Basics DEF Passes, Concerns
  <2> QED BY <1>1, <1>3, <2>1, <2>6, PassesUsers, ConcernsOwn
<1>4. CASE Gets(p)
  <2> PICK d : d = Head(uds[p]).conn
    OBVIOUS
  <2>1. d \in Conns /\ Queued(d, p) /\ conn(p)' = d
    BY <1>4, GetsHead DEF Gets, Addressed, Queued, conn
  <2>2. client[d] # "idle" /\ d \notin backlog
    BY <2>1, InUse
  <2>3. \A q \in Procs : \A c \in Conns : Queued(c, q)' => Queued(c, q)
    BY <1>4, QueueShrinks DEF Gets, Queued
  <2>4. \A c \in Conns \ {d} : \A q \in Procs : copies'[q][c] = copies[q][c]
    BY <1>4 DEF Gets, CopyMoves
  <2>5. \A c \in Conns \ {d} : \A q \in Procs : conn(q)' = c => conn(q) = c
    BY <1>4, <2>1 DEF Gets, Elsewhere
  <2>6. Concerns(d)
    BY <1>4, <2>2, <2>3, <2>4, <2>5 DEF Gets, Concerns
  <2> QED BY <1>1, <1>4, <2>1, <2>6, GetsUsers, ConcernsOwn
<1>5. CASE Loses(p)
  <2> PICK d : d = Head(uds[p]).conn
    OBVIOUS
  <2>1. d \in Conns /\ Queued(d, p)
    BY <1>5, GetsHead DEF Loses, Addressed, Queued
  <2>2. client[d] # "idle" /\ d \notin backlog
    BY <2>1, InUse
  <2>3. \A q \in Procs : \A c \in Conns : Queued(c, q)' => Queued(c, q)
    BY <1>5, QueueShrinks DEF Loses, Queued
  <2>4. \A q \in Procs : conn(q)' \in {conn(q), NoConn}
    BY <1>5 DEF Loses, Idles, Elsewhere
  <2>5. SingleUser'
    BY <1>1, <1>5, <2>4, UsersShrink DEF Loses
  <2>6. Concerns(d)
    BY <1>5, <2>2, <2>3, <2>4, Basics DEF Loses, Concerns
  <2> QED BY <2>1, <2>5, <2>6, ConcernsOwn
<1>6. CASE Reads(p)
  <2> PICK d : d = conn(p)
    OBVIOUS
  <2>1. d \in Conns /\ client[d] # "idle" /\ d \notin backlog
    BY <1>6, InUse DEF Reads
  <2>2. \A q \in Procs : conn(q)' = conn(q)
    BY <1>6 DEF Reads, Elsewhere
  <2>3. SingleUser'
    BY <1>1, <1>6, <2>2, UsersShrink DEF Reads
  <2>4. \A c \in Conns, q \in Procs : Queued(c, q)' <=> Queued(c, q)
    BY <1>6 DEF Reads, Queued
  <2>5. Concerns(d)
    BY <1>6, <2>1, <2>2, <2>4 DEF Reads, OtherStreams, Concerns
  <2> QED BY <2>1, <2>3, <2>5, ConcernsOwn
<1> QED BY <1>2, <1>3, <1>4, <1>5, <1>6 DEF ProcMoves

(* The steps that leave every session with its user. *)
LEMMA StaysOwn ==
  ASSUME TypeInv, OwnInv, NEW d \in Conns, NEW p \in Procs, conn(p) = d,
         \A q \in Procs : conn(q)' = conn(q),
         UNCHANGED <<uds, backlog, copies>>, OtherStreams(d),
         \A c \in Conns : client'[c] = "idle" => client[c] = "idle"
  PROVE  OwnInv'
<1>1. client[d] # "idle" /\ d \notin backlog
  BY InUse
<1>2. SingleUser'
  BY UsersShrink DEF OwnInv
<1>3. \A c \in Conns, q \in Procs : Queued(c, q)' <=> Queued(c, q)
  BY DEF Queued
<1>4. Concerns(d)
  BY <1>1, <1>3 DEF OtherStreams, Concerns
<1> QED BY <1>2, <1>4, ConcernsOwn

LEMMA SameOwn ==
  ASSUME OwnInv, UNCHANGED <<client, backlog, uds, msg, consumed, resp, copies>>
  PROVE  OwnInv'
BY DEF OwnInv, SingleUser, Queued, Fresh, conn

LEMMA OwnStep ==
  ASSUME TypeInv, OwnInv, Moves
  PROVE  OwnInv'
<1>1. ASSUME NEW c \in Conns, ClientMoves(c)
      PROVE  OwnInv'
  <2>1. /\ UNCHANGED <<consumed, resp, uds, msg, copies>> /\ client'[c] # "idle"
        /\ \A d \in Conns \ {c} : client'[d] = client[d]
        /\ backlog' = backlog \/ (client[c] = "idle" /\ backlog' = backlog \cup {c})
    BY <1>1 DEF ClientMoves
  <2>2. \A q \in Procs : conn(q)' = conn(q) /\ \A d \in Conns : Queued(d, q)' <=> Queued(d, q)
    BY <2>1 DEF conn, Queued
  <2>3. \A d \in Conns : d \in backlog' => d \in backlog \/ (d = c /\ client[c] = "idle")
    BY <2>1
  <2>4. SingleUser'
    <3>1. ASSUME NEW d \in Conns, d \in backlog', NEW p \in Procs
          PROVE  conn(p)' # d /\ ~Queued(d, p)'
      BY <2>2, <2>3, <3>1 DEF OwnInv, SingleUser
    <3>2. ASSUME NEW d \in Conns
          PROVE  /\ \A p, q \in Procs : conn(p)' = d /\ conn(q)' = d => p = q
                 /\ \A p, q \in Procs : conn(p)' = d => ~Queued(d, q)'
      BY <2>2, <3>2 DEF OwnInv, SingleUser
    <3>3. \A d \in Conns : \A p, q \in Procs : \A i \in DOMAIN uds'[p], j \in DOMAIN uds'[q] :
            uds'[p][i].conn = d /\ uds'[q][j].conn = d => p = q /\ i = j
      BY <2>1 DEF OwnInv, SingleUser
    <3> QED BY <3>1, <3>2, <3>3 DEF SingleUser
  <2>5. ASSUME NEW d \in Conns, client'[d] = "idle"
        PROVE  d \notin backlog' /\ \A p \in Procs : conn(p)' # d /\ ~Queued(d, p)'
    BY <2>1, <2>2, <2>3, <2>5 DEF OwnInv
  <2>6. ASSUME NEW d \in Conns, client'[d] = "idle" \/ d \in backlog'
        PROVE  Fresh(d)'
    <3>1. Fresh(d)
      BY <2>1, <2>3, <2>6 DEF OwnInv
    <3> QED BY <2>1, <3>1 DEF Fresh
  <2> QED BY <2>4, <2>5, <2>6 DEF OwnInv
<1>2. ASSUME NEW c \in Conns, Accepts(c)
      PROVE  OwnInv'
  <2>1. SingleUser'
    BY <1>2, AcceptsUsers DEF OwnInv
  <2>2. client[c] # "idle" /\ c \notin backlog'
    BY <1>2 DEF Accepts, OwnInv
  <2>3. \A d \in Conns \ {c} : \A q \in Procs : copies'[q][d] = copies[q][d]
    BY <1>2 DEF Accepts, CopyMoves
  <2>4. \A d \in Conns, q \in Procs : Queued(d, q)' <=> Queued(d, q)
    BY <1>2 DEF Accepts, Queued
  <2>5. Concerns(c)
    BY <1>2, <2>2, <2>3, <2>4 DEF Accepts, Elsewhere, Concerns
  <2> QED BY <2>1, <2>5, ConcernsOwn
<1>3. CASE Polls
  BY <1>3, SameOwn DEF Polls
<1>4. CASE Handshakes
  <2>1. \A q \in Procs : conn(q)' = conn(q)
    BY <1>4 DEF Handshakes, conn
  <2>2. \A c \in Conns : client'[c] = "idle" => client[c] = "idle"
    BY <1>4 DEF Handshakes
  <2> QED BY <1>4, <2>1, <2>2, StaysOwn, Basics DEF Handshakes, OtherStreams
<1>5. ASSUME NEW w \in Functions, Responds(w)
      PROVE  OwnInv'
  <2>1. \A q \in Procs : conn(q)' = conn(q)
    BY <1>5 DEF Responds, conn
  <2> QED BY <1>5, <2>1, StaysOwn, Basics DEF Responds
<1> QED BY <1>1, <1>2, <1>3, <1>4, <1>5, ProcMovesOwn DEF Moves

-----------------------------------------------------------------------------
(* The streams *)

MsgsOK == \A p \in Procs : \A i \in DOMAIN uds[p] : MsgOK(uds[p][i])

(* The step neither reads nor answers on c; its client may send more. *)
Kept(c) ==
  /\ consumed'[c] = consumed[c] /\ resp'[c] = resp[c] /\ ConnOK(c)'
  /\ OneReadEach(c)' =>
       OneReadEach(c) /\ \A i \in 1..Len(reqs[c]) : reqs'[c][i].fn = reqs[c][i].fn

SameStream(c) ==
  /\ consumed'[c] = consumed[c] /\ resp'[c] = resp[c]
  /\ reqs'[c] = reqs[c] /\ todo'[c] = todo[c] /\ sent'[c] = sent[c]

LEMMA SameKept ==
  ASSUME NEW c \in Conns, SameStream(c), ConnOK(c)
  PROVE  Kept(c)
<1>1. OneReadEach(c)' <=> OneReadEach(c)
  BY DEF SameStream, OneReadEach
<1>2. ConnOK(c)'
  BY <1>1 DEF SameStream, ConnOK, Plain
<1> QED BY <1>1, <1>2 DEF SameStream, Kept

LEMMA KeptPending ==
  ASSUME TypeInv, NEW c \in Conns, ConnOK(c), Kept(c), OneReadEach(c)'
  PROVE  /\ OneReadEach(c) /\ (Answered(c) => Answered(c)')
         /\ \A q \in Chunk : Pending(c, q) => Pending(c, q)'
<1>1. OneReadEach(c) /\ Plain(c)
  BY DEF Kept, ConnOK
<1>2. Answered(c) => Answered(c)'
  BY DEF Kept, Answered
<1>3. ASSUME NEW q \in Chunk, Pending(c, q)
      PROVE  Pending(c, q)'
  <2>1. consumed[c] \in 1..Len(reqs[c])
    <3>1. consumed[c] \in Nat /\ Len(resp[c]) \in Nat /\ reqs[c] \in Seq(Request)
      BY TypeFacts
    <3>2. consumed[c] = Len(resp[c]) + 1 /\ consumed[c] <= Len(reqs[c])
      BY <1>1, <1>3 DEF Pending, Plain
    <3> QED BY <3>1, <3>2
  <2>2. reqs'[c][consumed[c]].fn = reqs[c][consumed[c]].fn
    BY <2>1 DEF Kept
  <2> QED BY <1>3, <2>2 DEF Pending, Kept
<1> QED BY <1>1, <1>2, <1>3

LEMMA KeptMsg ==
  ASSUME TypeInv, NEW m \in Msg, m.conn \in Conns, ConnOK(m.conn), Kept(m.conn), MsgOK(m)
  PROVE  MsgOK(m)'
<1> PICK c : c = m.conn
  OBVIOUS
<1>1. InStep(c, m)'
  BY DEF MsgOK, InStep, Kept
<1>2. ASSUME OneReadEach(c)'
      PROVE  Pending(c, m.req)'
  <2>1. m.req \in Chunk
    BY DEF Msg
  <2> QED BY <1>2, <2>1, KeptPending DEF MsgOK
<1> QED BY <1>1, <1>2 DEF MsgOK

LEMMA KeptProc ==
  ASSUME TypeInv, NEW p \in Procs, ProcOK(p),
         pc'[p] = pc[p], msg'[p] = msg[p], ssl'[p] = ssl[p],
         conn(p) \in Conns => ConnOK(conn(p)) /\ Kept(conn(p))
  PROVE  ProcOK(p)'
<1> PICK c : c = conn(p)
  OBVIOUS
<1>1. conn(p)' = c /\ msg[p].req \in Chunk
  BY TypeFacts DEF conn
<1>2. SUFFICES ASSUME c \in Conns
               PROVE  /\ pc[p] = "handshake" => InStep(c, NoSession)'
                      /\ pc[p] \in InSession => InStep(c, ssl[p])'
                      /\ pc[p] \in Holding => InStep(c, msg[p])'
                      /\ OneReadEach(c)' =>
                           /\ ssl[p].pending = <<>>
                           /\ pc[p] \in {"handshake", "first", "next"} => Answered(c)'
                           /\ pc[p] \in {"respond"} \cup Holding => Pending(c, msg[p].req)'
  BY <1>1 DEF ProcOK, InStep, Answered, Pending
<1>3. \A s : InStep(c, s) => s.read = consumed'[c] /\ s.write = Len(resp'[c])
  BY <1>2 DEF InStep, Kept
<1>4. ASSUME OneReadEach(c)'
      PROVE  /\ OneReadEach(c) /\ (Answered(c) => Answered(c)')
             /\ \A q \in Chunk : Pending(c, q) => Pending(c, q)'
  BY <1>2, <1>4, KeptPending
<1> QED BY <1>1, <1>2, <1>3, <1>4 DEF ProcOK, InStep

(* Messages stay where they are in the stream while nobody else works on    *)
(* their connections; m is one that a process sends.                        *)
LEMMA KeptMsgs ==
  ASSUME TypeInv, StreamInv,
         \A q \in Procs : \A i \in DOMAIN uds'[q] :
           \/ \E j \in DOMAIN uds[q] : uds'[q][i] = uds[q][j] /\ Kept(uds[q][j].conn)
           \/ \E m \in Msg : m.conn \in Conns /\ uds'[q][i] = m /\ MsgOK(m)'
  PROVE  MsgsOK'
<1>1. ASSUME NEW q \in Procs, NEW i \in DOMAIN uds'[q]
      PROVE  \E m \in Msg : uds'[q][i] = m /\ MsgOK(m)'
  <2>1. CASE \E j \in DOMAIN uds[q] : uds'[q][i] = uds[q][j] /\ Kept(uds[q][j].conn)
    <3>1. PICK j \in DOMAIN uds[q] : uds'[q][i] = uds[q][j] /\ Kept(uds[q][j].conn)
      BY <2>1
    <3> PICK m : m = uds[q][j]
      OBVIOUS
    <3>2. m \in Msg /\ m.conn \in Conns
      BY <1>1, TypeFacts
    <3>3. MsgOK(m) /\ ConnOK(m.conn)
      BY <1>1, <3>2 DEF StreamInv
    <3>4. MsgOK(m)'
      BY <3>1, <3>2, <3>3, KeptMsg
    <3> QED BY <3>1, <3>2, <3>4
  <2>2. CASE \E m \in Msg : m.conn \in Conns /\ uds'[q][i] = m /\ MsgOK(m)'
    BY <2>2
  <2> QED BY <1>1, <2>1, <2>2
<1>2. \A q \in Procs : \A i \in DOMAIN uds'[q] : MsgOK(uds[q][i])'
  BY <1>1 DEF MsgOK, InStep, Pending, OneReadEach
<1> QED BY <1>2 DEF MsgsOK

(* A step of p that concerns connection d, which nobody else works on.      *)
LEMMA StreamFrame ==
  ASSUME TypeInv, StreamInv, NEW p \in Procs, NEW d \in Conns, Elsewhere(p),
         \A q \in Procs \ {p} : conn(q) # d,
         \A c \in Conns \ {d} : Kept(c), ConnOK(d)', ProcOK(p)', MsgsOK'
  PROVE  StreamInv'
<1>1. \A c \in Conns : ConnOK(c)'
  BY DEF Kept
<1>2. ASSUME NEW q \in Procs \ {p}
      PROVE  ProcOK(q)'
  <2>1. ProcOK(q) /\ pc'[q] = pc[q] /\ msg'[q] = msg[q] /\ ssl'[q] = ssl[q]
    BY <1>2 DEF StreamInv, Elsewhere
  <2>2. conn(q) \in Conns => ConnOK(conn(q)) /\ Kept(conn(q))
    BY <1>2 DEF StreamInv
  <2> QED BY <1>2, <2>1, <2>2, KeptProc
<1> QED BY <1>1, <1>2 DEF StreamInv, MsgsOK

LEMMA SameStreams ==
  ASSUME StreamInv, NEW d, OtherStreams(d), UNCHANGED <<reqs, todo, sent>>
  PROVE  \A c \in Conns \ {d} : Kept(c)
BY SameKept DEF StreamInv, OtherStreams, SameStream

(* Records are taken only as long as there are some. *)
LEMMA TakeConn ==
  ASSUME TypeInv, NEW p \in Procs, NEW d \in Conns, ConnOK(d), CanRead(p, d),
         TakeRecord(p, d), UNCHANGED <<reqs, todo, sent, resp>>
  PROVE  ConnOK(d)'
<1>1. OneReadEach(d)' <=> OneReadEach(d)
  BY DEF OneReadEach
<1>2. ASSUME Plain(d)
      PROVE  Plain(d)'
  <2> PICK n, m, k : n = consumed[d] /\ m = consumed'[d] /\ k = Len(resp[d])
    OBVIOUS
  <2>1. n \in Nat /\ m \in Nat /\ k \in Nat /\ sent[d] \in Seq(Seq(Chunk)) /\ Len(sent[d]) \in Nat
    BY TakeMoves, TypeFacts
  <2>2. m = n \/ (m = n + 1 /\ n < Len(sent[d]))
    BY TakeMoves DEF CanRead
  <2>3. n <= Len(sent[d]) /\ k <= n
    BY <1>2 DEF Plain
  <2>4. m <= Len(sent[d]) /\ k <= m
    BY <2>1, <2>2, <2>3
  <2> QED BY <1>2, <2>4 DEF Plain
<1> QED BY <1>1, <1>2 DEF ConnOK

LEMMA ClosesStream ==
  ASSUME TypeInv, OwnInv, StreamInv, NEW p \in Procs, Closes(p)
  PROVE  StreamInv'
<1> PICK d : d = conn(p)
  OBVIOUS
<1>1. d \in Conns /\ ConnOK(d) /\ UNCHANGED <<reqs, todo, sent, resp, uds>>
  BY DEF Closes, StreamInv
<1>2. /\ \A q \in Procs \ {p} : conn(q) # d
      /\ \A q \in Procs : \A i \in DOMAIN uds[q] : uds[q][i].conn # d
  BY <1>1, UserParts DEF OwnInv
<1>3. \A c \in Conns \ {d} : Kept(c)
  BY <1>1, SameStreams DEF Closes
<1>4. ConnOK(d)'
  <2>1. CASE UNCHANGED consumed
    BY <1>1, <2>1, SameKept DEF SameStream, Kept
  <2>2. CASE CanRead(p, d) /\ TakeRecord(p, d)
    BY <1>1, <2>2, TakeConn
  <2> QED BY <2>1, <2>2 DEF Closes
<1>5. ProcOK(p)'
  BY Basics DEF ProcOK, Closes, Idles
<1>6. MsgsOK'
  BY <1>1, <1>2, <1>3, KeptMsgs, TypeFacts
<1> QED BY <1>1, <1>2, <1>3, <1>4, <1>5, <1>6, StreamFrame DEF Closes

LEMMA PassesStream ==
  ASSUME TypeInv, OwnInv, StreamInv, NEW p \in Procs, Passes(p)
  PROVE  StreamInv'
<1> PICK d, m : d = conn(p) /\ m = msg[p]
  OBVIOUS
<1>1. d \in Conns /\ m \in Msg /\ m.conn = d /\ UNCHANGED <<reqs, todo, sent, resp, consumed>>
  BY TypeFacts DEF Passes, conn
<1>2. \A q \in Procs \ {p} : conn(q) # d
  BY <1>1, UserParts DEF OwnInv
<1>3. \A c \in Conns : ConnOK(c) /\ Kept(c)
  BY <1>1, SameKept DEF StreamInv, SameStream
<1>4. MsgOK(m)
  BY <1>1 DEF StreamInv, ProcOK, Passes, MsgOK
<1>5. MsgOK(m)'
  BY <1>1, <1>3, <1>4, KeptMsg
<1>6. Target(p) \in Procs
  BY Basics DEF Passes, Target, TypeInv, ControlInv, ProcControl
<1>7. MsgsOK'
  <2>1. \A r \in Procs : \A i \in DOMAIN uds'[r] :
           (i \in DOMAIN uds[r] /\ uds'[r][i] = uds[r][i]) \/ uds'[r][i] = m
    BY <1>6, QueueGrows DEF Passes
  <2> QED BY <1>1, <1>3, <1>5, <2>1, KeptMsgs, TypeFacts
<1>8. ProcOK(p)'
  BY Basics DEF ProcOK, Passes, Idles
<1> QED BY <1>1, <1>2, <1>3, <1>7, <1>8, StreamFrame DEF Passes, Kept

LEMMA ReceivedMsgs ==
  ASSUME TypeInv, StreamInv, NEW p \in Procs, uds[p] # <<>>, Queues(p, Tail(uds[p])),
         \A c \in Conns : Kept(c)
  PROVE  MsgsOK'
<1>1. \A q \in Procs : \A i \in DOMAIN uds'[q] :
        \E j \in DOMAIN uds[q] : uds'[q][i] = uds[q][j]
  BY QueueShrinks
<1> QED BY <1>1, KeptMsgs, TypeFacts

LEMMA LosesStream ==
  ASSUME TypeInv, OwnInv, StreamInv, NEW p \in Procs, Loses(p)
  PROVE  StreamInv'
<1> PICK d : d = Head(uds[p]).conn
  OBVIOUS
<1>1. d \in Conns /\ UNCHANGED <<reqs, todo, sent, resp, consumed>> /\ 1 \in DOMAIN uds[p]
      /\ uds[p][1].conn = d
  BY GetsHead DEF Loses, Addressed
<1>2. \A q \in Procs : conn(q) # d
  BY <1>1, UserParts DEF OwnInv
<1>3. \A c \in Conns : ConnOK(c) /\ Kept(c)
  BY <1>1, SameKept DEF StreamInv, SameStream
<1>4. MsgsOK'
  BY <1>3, ReceivedMsgs DEF Loses
<1>5. ProcOK(p)'
  BY Basics DEF ProcOK, Loses, Idles
<1> QED BY <1>1, <1>2, <1>3, <1>4, <1>5, StreamFrame DEF Loses, Kept

LEMMA GetsStream ==
  ASSUME TypeInv, OwnInv, StreamInv, NEW p \in Procs, Gets(p)
  PROVE  StreamInv'
<1> PICK m, d : m = Head(uds[p]) /\ d = m.conn
  OBVIOUS
<1>1. /\ d \in Conns /\ m \in Msg /\ UNCHANGED <<reqs, todo, sent, resp, consumed>>
      /\ 1 \in DOMAIN uds[p] /\ uds[p][1] = m
  BY GetsHead DEF Gets, Addressed
<1>2. \A q \in Procs : conn(q) # d
  BY <1>1, UserParts DEF OwnInv
<1>3. \A c \in Conns : ConnOK(c) /\ Kept(c)
  BY <1>1, SameKept DEF StreamInv, SameStream
<1>4. MsgsOK'
  BY <1>3, ReceivedMsgs DEF Gets
<1>5. MsgOK(m)'
  <2>1. MsgOK(m)
    BY <1>1 DEF StreamInv
  <2> QED BY <1>1, <1>3, <2>1, KeptMsg
<1>6. ProcOK(p)'
  <2>1. msg'[p] = m /\ conn(p)' = d
    BY DEF Gets, conn
  <2>2. CASE pc'[p] = "resend" /\ ssl'[p] = NoSession
    <3>1. NoSession.pending = <<>>
      BY DEF NoSession
    <3> QED BY <1>5, <2>1, <2>2, <3>1
        DEF ProcOK, MsgOK, InStep, Pending, InSession, Holding
  <2>3. CASE pc'[p] = "respond" /\ ssl'[p] = [read |-> m.read, write |-> m.write, pending |-> <<>>]
    BY <1>5, <2>1, <2>3 DEF ProcOK, MsgOK, InStep, Pending, InSession, Holding
  <2> QED BY <2>2, <2>3 DEF Gets
<1> QED BY <1>1, <1>2, <1>3, <1>4, <1>6, StreamFrame DEF Gets, Kept

(* One wolfSSL_read, if every request is one read: the next request, whole. *)
LEMMA WholeRequest ==
  ASSUME TypeInv, NEW p \in Procs, NEW d \in Conns, Plain(d), Answered(d), CanRead(p, d),
         ssl[p].pending = <<>>
  PROVE  /\ ReadChunk(p, d) = First(reqs[d][consumed[d] + 1], consumed[d] + 1)
         /\ AfterRead(p, d).pending = <<>>
         /\ consumed[d] + 1 \in 1..Len(reqs[d])
<1> PICK i, f : i = consumed[d] + 1 /\ f = First(reqs[d][consumed[d] + 1], consumed[d] + 1)
  OBVIOUS
<1>1. i \in 1..Len(reqs[d])
  <2>1. consumed[d] \in Nat /\ consumed[d] < Len(sent[d]) /\ Len(sent[d]) = Len(reqs[d])
        /\ Len(reqs[d]) \in Nat
    BY TypeFacts DEF CanRead, Plain
  <2> QED BY <2>1
<1>2. Decrypted(p, d) = <<f>>
  BY <1>1 DEF Decrypted, Plain
<1>3. ReadChunk(p, d) = f
  BY <1>2 DEF ReadChunk
<1>4. AfterRead(p, d).pending = <<>>
  <2>1. Tail(Decrypted(p, d)) = <<>>
    BY <1>2
  <2>2. ssl[p] \in Session
    BY TypeFacts
  <2> QED BY <2>1, <2>2 DEF AfterRead, Session
<1> QED BY <1>1, <1>3, <1>4

LEMMA ReadInStep ==
  ASSUME TypeInv, NEW p \in Procs, NEW d \in Conns, InStep(d, ssl[p]), TakeRecord(p, d),
         UNCHANGED resp
  PROVE  AfterRead(p, d).read = consumed'[d] /\ AfterRead(p, d).write = Len(resp'[d])
<1> PICK s, n, t : /\ s = ssl[p] /\ t = Tail(Decrypted(p, d))
                   /\ n = IF ssl[p].pending = <<>> THEN s.read + 1 ELSE s.read
  OBVIOUS
<1>1. s \in Session /\ s.read = consumed[d] /\ s.write = Len(resp[d])
  BY TypeFacts DEF InStep
<1>2. AfterRead(p, d) = [s EXCEPT !.read = n, !.pending = t]
  BY DEF AfterRead
<1>3. AfterRead(p, d).read = n /\ AfterRead(p, d).write = s.write
  BY <1>1, <1>2 DEF Session
<1>4. consumed'[d] = n
  BY <1>1, TakeMoves
<1> QED BY <1>1, <1>3, <1>4

LEMMA ReadsStream ==
  ASSUME TypeInv, OwnInv, StreamInv, NEW p \in Procs, Reads(p)
  PROVE  StreamInv'
<1> PICK d, chunk, after : d = conn(p) /\ chunk = ReadChunk(p, d) /\ after = AfterRead(p, d)
  OBVIOUS
<1>1. /\ d \in Conns /\ ConnOK(d) /\ UNCHANGED <<reqs, todo, sent, resp, uds>> /\ conn(p)' = d
      /\ CanRead(p, d) /\ TakeRecord(p, d) /\ OtherStreams(d) /\ pc[p] \in {"first", "next"}
  BY DEF Reads, StreamInv
<1>2. /\ \A q \in Procs \ {p} : conn(q) # d
      /\ \A q \in Procs : \A i \in DOMAIN uds[q] : uds[q][i].conn # d
  BY <1>1, UserParts DEF OwnInv
<1>3. \A c \in Conns \ {d} : Kept(c)
  BY <1>1, SameStreams
<1>4. ConnOK(d)'
  BY <1>1, TakeConn
<1>5. MsgsOK'
  BY <1>1, <1>2, <1>3, KeptMsgs, TypeFacts
<1>6. /\ InStep(d, ssl[p])
      /\ OneReadEach(d) => Plain(d) /\ Answered(d) /\ ssl[p].pending = <<>>
  BY <1>1 DEF StreamInv, ProcOK, ConnOK, InSession
<1>7. after.read = consumed'[d] /\ after.write = Len(resp'[d])
  BY <1>1, <1>6, ReadInStep
<1>8. OneReadEach(d)' <=> OneReadEach(d)
  BY <1>1 DEF OneReadEach
<1>9. ASSUME OneReadEach(d)
      PROVE  /\ after.pending = <<>> /\ consumed'[d] = Len(resp'[d]) + 1
             /\ chunk.id = consumed'[d] /\ chunk.fn = reqs'[d][consumed'[d]].fn
  <2>1. consumed'[d] = consumed[d] + 1
    BY <1>1, <1>6, <1>9, TakeMoves
  <2>2. chunk = First(reqs[d][consumed[d] + 1], consumed[d] + 1) /\ after.pending = <<>>
    BY <1>1, <1>6, <1>9, WholeRequest
  <2> QED BY <1>1, <1>6, <1>9, <2>1, <2>2 DEF First, Answered
<1>10. ProcOK(p)'
  <2>1. CASE pc'[p] = "respond" /\ msg'[p].req = chunk /\ ssl'[p] = after
    BY <1>1, <1>7, <1>8, <1>9, <2>1 DEF ProcOK, InStep, Pending, InSession, Holding
  <2>2. CASE /\ pc'[p] \in {"send", "return"} /\ ssl'[p] = NoSession
             /\ msg'[p] = Exported(p, d, after)
    <3>1. msg'[p].req = chunk /\ msg'[p].read = after.read /\ msg'[p].write = after.write
      BY <2>2 DEF Exported
    <3>2. NoSession.pending = <<>>
      BY DEF NoSession
    <3> QED BY <1>1, <1>7, <1>8, <1>9, <2>2, <3>1, <3>2
        DEF ProcOK, InStep, Pending, InSession, Holding
  <2> QED BY <2>1, <2>2 DEF Reads
<1> QED BY <1>1, <1>2, <1>3, <1>4, <1>5, <1>10, StreamFrame DEF Reads

(* A response carries the next number and answers the request read last.    *)
LEMMA RespondsConn ==
  ASSUME TypeInv, StreamInv, NEW w \in Functions, Responds(w), NEW d \in Conns, d = conn(w)
  PROVE  /\ ConnOK(d)' /\ ssl[w].write = Len(resp[d]) /\ ssl[w].read = consumed[d]
         /\ Len(resp'[d]) = Len(resp[d]) + 1
         /\ OneReadEach(d)' => consumed[d] = Len(resp[d]) + 1 /\ ssl[w].pending = <<>>
<1> PICK r, k : /\ k = Len(resp[d])
                /\ r = [id |-> msg[w].req.id, by |-> w, seq |-> ssl[w].write]
  OBVIOUS
<1>1. /\ w \in Procs /\ d \in Conns /\ pc[w] = "respond" /\ resp'[d] = Append(resp[d], r)
      /\ UNCHANGED <<reqs, todo, sent, consumed>>
  BY Basics DEF Responds
<1>2. /\ ConnOK(d) /\ ssl[w].write = k /\ ssl[w].read = consumed[d]
      /\ OneReadEach(d) => ssl[w].pending = <<>> /\ Pending(d, msg[w].req)
  BY <1>1 DEF StreamInv, ProcOK, InStep, InSession
<1>3. /\ k \in Nat /\ Len(resp'[d]) = k + 1 /\ resp'[d][k + 1] = r
      /\ \A i \in 1..k : resp'[d][i] = resp[d][i]
  <2> PICK R : R = [id: Nat, by: Functions, seq: Nat]
    OBVIOUS
  <2>1. resp[d] \in Seq(R)
    BY <1>1, TypeFacts
  <2> QED BY <1>1, <2>1
<1>4. \A i \in 1..(k + 1) : i \in 1..k \/ i = k + 1
  BY <1>3
<1>5. \A i \in 1..Len(resp'[d]) : resp'[d][i].seq = i - 1
  <2>1. r.seq = k /\ k = (k + 1) - 1
    BY <1>2, <1>3
  <2>2. \A i \in 1..k : resp[d][i].seq = i - 1
    BY <1>2 DEF ConnOK
  <2> QED BY <1>3, <1>4, <2>1, <2>2
<1>6. OneReadEach(d)' <=> OneReadEach(d)
  BY <1>1 DEF OneReadEach
<1>7. ASSUME OneReadEach(d)
      PROVE  Plain(d)' /\ consumed[d] = k + 1
  <2>1. Plain(d) /\ Pending(d, msg[w].req)
    BY <1>2, <1>7 DEF ConnOK
  <2>2. r.id = k + 1 /\ r.by = reqs[d][k + 1].fn /\ consumed[d] = k + 1
    <3>1. msg[w].req.fn = w
      BY <1>1 DEF TypeInv, ControlInv, ProcControl
    <3> QED BY <2>1, <3>1 DEF Pending
  <2>3. \A i \in 1..Len(resp'[d]) : resp'[d][i].id = i /\ resp'[d][i].by = reqs[d][i].fn
    <3>1. \A i \in 1..k : resp[d][i].id = i /\ resp[d][i].by = reqs[d][i].fn
      BY <2>1 DEF Plain
    <3> QED BY ONLY <1>3, <1>4, <2>2, <3>1
  <2>4. Len(resp'[d]) <= consumed[d]
    BY <1>3, <2>2
  <2> QED BY <1>1, <2>1, <2>2, <2>3, <2>4 DEF Plain
<1>8. ConnOK(d)'
  BY <1>5, <1>6, <1>7 DEF ConnOK
<1> QED BY <1>2, <1>3, <1>6, <1>7, <1>8

LEMMA RespondsStream ==
  ASSUME TypeInv, OwnInv, StreamInv, NEW w \in Functions, Responds(w)
  PROVE  StreamInv'
<1> PICK d : d = conn(w)
  OBVIOUS
<1>1. /\ w \in Procs /\ d \in Conns /\ conn(w)' = d /\ pc'[w] = "next"
      /\ UNCHANGED <<reqs, todo, sent, uds, consumed>> /\ OtherStreams(d) /\ Elsewhere(w)
  BY Basics DEF Responds, conn
<1>2. /\ \A q \in Procs \ {w} : conn(q) # d
      /\ \A q \in Procs : \A i \in DOMAIN uds[q] : uds[q][i].conn # d
  BY <1>1, UserParts DEF OwnInv
<1>3. \A c \in Conns \ {d} : Kept(c)
  BY <1>1, SameStreams
<1>4. MsgsOK'
  BY <1>1, <1>2, <1>3, KeptMsgs, TypeFacts
<1>5. /\ ConnOK(d)' /\ ssl[w].write = Len(resp[d]) /\ ssl[w].read = consumed[d]
      /\ Len(resp'[d]) = Len(resp[d]) + 1
      /\ OneReadEach(d)' => consumed[d] = Len(resp[d]) + 1 /\ ssl[w].pending = <<>>
  BY <1>1, RespondsConn
<1>6. ssl'[w].read = ssl[w].read /\ ssl'[w].write = ssl[w].write + 1 /\ ssl'[w].pending = ssl[w].pending
  <2>1. ssl[w] \in Session
    BY <1>1, TypeFacts
  <2> QED BY <2>1 DEF Responds, Session
<1>7. ProcOK(w)'
  BY <1>1, <1>5, <1>6 DEF ProcOK, InStep, Answered, InSession, Holding
<1> QED BY <1>1, <1>2, <1>3, <1>4, <1>5, <1>7, StreamFrame

(* A step that neither reads nor answers, nor touches the queues. *)
LEMMA StillStream ==
  ASSUME TypeInv, StreamInv, NEW p \in Procs, Elsewhere(p), UNCHANGED uds,
         \A c \in Conns : Kept(c), ProcOK(p)'
  PROVE  StreamInv'
<1>1. \A c \in Conns : ConnOK(c)'
  BY DEF Kept
<1>2. ASSUME NEW q \in Procs \ {p}
      PROVE  ProcOK(q)'
  <2>1. ProcOK(q) /\ pc'[q] = pc[q] /\ msg'[q] = msg[q] /\ ssl'[q] = ssl[q]
    BY <1>2 DEF StreamInv, Elsewhere
  <2>2. conn(q) \in Conns => ConnOK(conn(q)) /\ Kept(conn(q))
    BY <1>2 DEF StreamInv
  <2> QED BY <1>2, <2>1, <2>2, KeptProc
<1>3. MsgsOK'
  BY KeptMsgs, TypeFacts
<1> QED BY <1>1, <1>2, <1>3 DEF StreamInv, MsgsOK

LEMMA AcceptsStream ==
  ASSUME TypeInv, OwnInv, StreamInv, NEW c \in Conns, Accepts(c)
  PROVE  StreamInv'
<1>1. UNCHANGED <<reqs, todo, sent, consumed, resp, uds, ssl>> /\ Elsewhere(Gateway)
  BY DEF Accepts
<1>2. \A d \in Conns : Kept(d)
  BY <1>1, SameKept DEF StreamInv, SameStream
<1>3. ssl[Gateway] = NoSession /\ NoSession = [read |-> 0, write |-> 0, pending |-> <<>>]
  BY Basics DEF Accepts, TypeInv, ControlInv, ProcControl, InSession, NoSession
<1>4. consumed[c] = 0 /\ resp[c] = <<>>
  BY DEF Accepts, OwnInv, Fresh
<1>5. Len(resp[c]) = 0
  BY <1>4
<1>6. ProcOK(Gateway)'
  BY <1>1, <1>3, <1>4, <1>5 DEF Accepts, ProcOK, InStep, Answered, InSession, Holding
<1> QED BY <1>1, <1>2, <1>6, StillStream, Basics

LEMMA HandshakesStream ==
  ASSUME TypeInv, StreamInv, Handshakes
  PROVE  StreamInv'
<1> PICK d : d = conn(Gateway)
  OBVIOUS
<1>1. /\ UNCHANGED <<reqs, todo, sent, consumed, resp, uds, ssl, msg>> /\ Elsewhere(Gateway)
      /\ d \in Conns /\ conn(Gateway)' = d /\ pc[Gateway] = "handshake" /\ pc'[Gateway] = "first"
  BY DEF Handshakes, conn
<1>2. \A c \in Conns : Kept(c)
  BY <1>1, SameKept DEF StreamInv, SameStream
<1>3. ssl[Gateway] = NoSession
  BY <1>1, Basics DEF TypeInv, ControlInv, ProcControl, InSession
<1>4. InStep(d, NoSession) /\ (OneReadEach(d) => Answered(d) /\ ssl[Gateway].pending = <<>>)
  BY <1>1, Basics DEF StreamInv, ProcOK
<1>5. OneReadEach(d)' <=> OneReadEach(d)
  BY <1>1 DEF OneReadEach
<1>6. ProcOK(Gateway)'
  BY <1>1, <1>3, <1>4, <1>5 DEF ProcOK, InStep, Answered, InSession, Holding
<1> QED BY <1>1, <1>2, <1>6, StillStream, Basics

LEMMA PollsStream ==
  ASSUME TypeInv, StreamInv, Polls
  PROVE  StreamInv'
<1>1. UNCHANGED <<reqs, todo, sent, consumed, resp, uds, msg>> /\ Elsewhere(Gateway)
  BY DEF Polls
<1>2. \A c \in Conns : Kept(c)
  BY <1>1, SameKept DEF StreamInv, SameStream
<1>3. conn(Gateway)' = NoConn
  BY <1>1, TypeFacts, Basics DEF Polls, Waiting, conn
<1>4. ProcOK(Gateway)'
  BY <1>3, Basics DEF ProcOK
<1> QED BY <1>1, <1>2, <1>4, StillStream, Basics

(* A client's requests, record by record. *)
LEMMA IssuePlain ==
  ASSUME TypeInv, NEW c \in Conns, Plain(c), NEW r \in Request, r.shape = "one",
         reqs'[c] = Append(reqs[c], r),
         sent'[c] = Append(sent[c], Head(Records(r, Len(reqs[c]) + 1))),
         todo'[c] = Tail(Records(r, Len(reqs[c]) + 1)),
         consumed'[c] = consumed[c], resp'[c] = resp[c]
  PROVE  Plain(c)'
<1> PICK n, f, k : n = Len(reqs[c]) /\ f = First(r, n + 1) /\ k = Len(resp[c])
  OBVIOUS
<1>1. /\ n \in Nat /\ k \in Nat /\ consumed[c] \in Nat /\ Len(sent[c]) = n
      /\ reqs[c] \in Seq(Request) /\ sent[c] \in Seq(Seq(Chunk))
      /\ consumed[c] <= n /\ k <= consumed[c]
  BY TypeFacts DEF Plain
<1> PICK t : t = <<f>>
  OBVIOUS
<1>2. Records(r, n + 1) = <<t>> /\ t \in Seq(Chunk)
  <2>1. n + 1 \in Nat
    BY <1>1
  <2>2. Records(r, n + 1) = << <<f>> >>
    BY <2>1, RecordsType
  <2>3. f \in Chunk
    BY <2>1 DEF First, Chunk, Request
  <2> QED BY <2>2, <2>3
<1>3. sent'[c] = Append(sent[c], t) /\ todo'[c] = <<>>
  <2>1. Head(<<t>>) = t /\ Tail(<<t>>) = <<>>
    BY <1>2
  <2> QED BY <1>2, <2>1
<1>4. /\ Len(sent'[c]) = n + 1 /\ sent'[c][n + 1] = t
      /\ \A i \in 1..n : sent'[c][i] = sent[c][i]
  BY <1>1, <1>3
<1>5. /\ Len(reqs'[c]) = n + 1 /\ reqs'[c][n + 1] = r
      /\ \A i \in 1..n : reqs'[c][i] = reqs[c][i]
  BY <1>1
<1>6. \A i \in 1..(n + 1) : i \in 1..n \/ i = n + 1
  BY <1>1
<1>7. \A i \in 1..Len(reqs'[c]) : sent'[c][i] = <<First(reqs'[c][i], i)>>
  <2>1. \A i \in 1..n : sent[c][i] = <<First(reqs[c][i], i)>>
    BY DEF Plain
  <2> QED BY <1>4, <1>5, <1>6, <2>1
<1>8. consumed'[c] <= Len(sent'[c]) /\ Len(resp'[c]) <= consumed'[c]
  BY <1>1, <1>4
<1>9. \A i \in 1..Len(resp'[c]) : resp'[c][i].id = i /\ resp'[c][i].by = reqs'[c][i].fn
  <2>1. \A i \in 1..k : i \in 1..n
    BY ONLY <1>1
  <2>2. \A i \in 1..k : resp[c][i].id = i /\ resp[c][i].by = reqs[c][i].fn
    BY DEF Plain
  <2> QED BY <1>5, <2>1, <2>2
<1> QED BY <1>3, <1>4, <1>5, <1>7, <1>8, <1>9 DEF Plain

LEMMA ClientKept ==
  ASSUME TypeInv, StreamInv, NEW c \in Conns, ClientMoves(c), ClientSends(c)
  PROVE  \A d \in Conns : Kept(d)
<1>1. \A d \in Conns \ {c} : Kept(d)
  BY SameKept DEF ClientMoves, StreamInv, SameStream
<1>2. consumed'[c] = consumed[c] /\ resp'[c] = resp[c] /\ ConnOK(c)
  BY DEF ClientMoves, StreamInv
<1>3. CASE UNCHANGED <<reqs, todo, sent>>
  BY <1>1, <1>2, <1>3, SameKept DEF SameStream
<1>4. CASE reqs' = reqs /\ todo[c] # <<>>
  <2>1. ~OneReadEach(c)
    BY <1>2, <1>4 DEF ConnOK, Plain
  <2>2. ~OneReadEach(c)'
    BY <1>4, <2>1 DEF OneReadEach
  <2>3. ConnOK(c)'
    BY <1>2, <2>2 DEF ConnOK
  <2> QED BY <1>1, <1>2, <2>2, <2>3 DEF Kept
<1>5. ASSUME NEW r \in Request, reqs'[c] = Append(reqs[c], r),
             sent'[c] = Append(sent[c], Head(Records(r, Len(reqs[c]) + 1))),
             todo'[c] = Tail(Records(r, Len(reqs[c]) + 1))
      PROVE  Kept(c)
  <2> PICK s, n : s = reqs[c] /\ n = Len(reqs[c])
    OBVIOUS
  <2>1. /\ s \in Seq(Request) /\ n \in Nat /\ DOMAIN s = 1..n /\ DOMAIN reqs'[c] = 1..(n + 1)
        /\ reqs'[c][n + 1] = r /\ \A i \in 1..n : reqs'[c][i] = s[i]
    <3>1. s \in Seq(Request) /\ n = Len(s) /\ reqs'[c] = Append(s, r)
      BY <1>5, TypeFacts
    <3> QED BY <3>1
  <2>2. \A i \in 1..n : i \in 1..(n + 1)
    BY <2>1
  <2>3. ASSUME OneReadEach(c)'
        PROVE  OneReadEach(c) /\ r.shape = "one"
    <3>1. n + 1 \in 1..(n + 1)
      BY <2>1
    <3> QED BY <2>1, <2>2, <2>3, <3>1 DEF OneReadEach
  <2>4. ConnOK(c)'
    <3>1. ASSUME OneReadEach(c)'
          PROVE  Plain(c)'
      BY <1>2, <1>5, <2>3, <3>1, IssuePlain DEF ConnOK
    <3> QED BY <1>2, <3>1 DEF ConnOK
  <2> QED BY <1>2, <2>1, <2>3, <2>4 DEF Kept
<1> QED BY <1>1, <1>3, <1>4, <1>5 DEF ClientSends

LEMMA ClientStream ==
  ASSUME TypeInv, StreamInv, NEW c \in Conns, ClientMoves(c), ClientSends(c)
  PROVE  StreamInv'
<1>1. UNCHANGED <<pc, msg, ssl, uds>> /\ \A d \in Conns : Kept(d)
  BY ClientKept DEF ClientMoves
<1>2. Elsewhere(Gateway)
  BY <1>1 DEF Elsewhere, conn
<1>3. ProcOK(Gateway)'
  BY <1>1, KeptProc, Basics DEF StreamInv
<1> QED BY <1>1, <1>2, <1>3, StillStream, Basics

LEMMA StreamStep ==
  ASSUME TypeInv, OwnInv, StreamInv, Moves
  PROVE  StreamInv'
BY ClientStream, AcceptsStream, PollsStream, HandshakesStream, RespondsStream, ClosesStream,
   PassesStream, GetsStream, LosesStream, ReadsStream
DEF Moves, ProcMoves

LEMMA StreamStutters ==
  ASSUME StreamInv, UNCHANGED vars
  PROVE  StreamInv'
BY DEF vars, clientVars, streamVars, localVars, StreamInv, ConnOK, Plain, OneReadEach, ProcOK,
       InStep, Answered, Pending, MsgOK, conn

-----------------------------------------------------------------------------
(* The copies *)

LEMMA TableMember ==
  ASSUME NEW p \in Procs, NEW x
  PROVE  x \in Table(p) <=> \E c \in Conns : \E i \in 1..copies[p][c] : x = <<c, i>>
BY DEF Table

LEMMA TableAdds ==
  ASSUME TypeInv, NEW p \in Procs, NEW c \in Conns, CopyMoves(p, c, copies[p][c] + 1)
  PROVE  /\ Table(p)' = Table(p) \cup {<<c, copies[p][c] + 1>>}
         /\ <<c, copies[p][c] + 1>> \notin Table(p)
<1> PICK n : n = copies[p][c]
  OBVIOUS
<1>1. n \in Nat /\ copies'[p][c] = n + 1 /\ \A d \in Conns \ {c} : copies'[p][d] = copies[p][d]
  BY TypeFacts DEF CopyMoves
<1>2. 1..(n + 1) = (1..n) \cup {n + 1} /\ n + 1 \notin 1..n
  BY <1>1
<1>3. <<c, n + 1>> \notin Table(p)
  BY <1>2 DEF Table
<1>4. \A x : x \in Table(p)' <=> \E d \in Conns : \E i \in 1..copies'[p][d] : x = <<d, i>>
  BY DEF Table
<1>5. \A x : x \in Table(p)' <=> x \in Table(p) \/ x = <<c, n + 1>>
  BY <1>1, <1>2, <1>4, TableMember
<1> QED BY <1>3, <1>5

LEMMA TableRemoves ==
  ASSUME TypeInv, NEW p \in Procs, NEW c \in Conns, copies[p][c] >= 1,
         CopyMoves(p, c, copies[p][c] - 1)
  PROVE  /\ Table(p)' = Table(p) \ {<<c, copies[p][c]>>}
         /\ <<c, copies[p][c]>> \in Table(p)
<1> PICK n : n = copies[p][c]
  OBVIOUS
<1>1. /\ n \in Nat /\ n >= 1 /\ copies'[p][c] = n - 1
      /\ \A d \in Conns \ {c} : copies'[p][d] = copies[p][d]
  BY TypeFacts DEF CopyMoves
<1>2. 1..(n - 1) = (1..n) \ {n} /\ n \in 1..n
  BY <1>1
<1>3. <<c, n>> \in Table(p)
  BY <1>2, TableMember
<1>4. \A x : x \in Table(p)' <=> \E d \in Conns : \E i \in 1..copies'[p][d] : x = <<d, i>>
  BY DEF Table
<1>5. \A x : x \in Table(p)' <=> x \in Table(p) /\ x # <<c, n>>
  BY <1>1, <1>2, <1>4, TableMember
<1> QED BY <1>3, <1>5

LEMMA TableSame ==
  ASSUME NEW p \in Procs, \A c \in Conns : copies'[p][c] = copies[p][c]
  PROVE  Table(p)' = Table(p)
<1>1. \A x : x \in Table(p)' <=> \E d \in Conns : \E i \in 1..copies'[p][d] : x = <<d, i>>
  BY DEF Table
<1> QED BY <1>1, TableMember

Size(p) == Cardinality(Table(p))
Busy == {"resend", "respond", "next", "return"}

(* The size of p's table goes from k to n. *)
Sized(p, k, n) == k = Size(p) /\ IsFiniteSet(Table(p))' /\ n = Size(p)' /\ k \in Nat /\ n \in Nat

LEMMA SizeMoves ==
  ASSUME TypeInv, NEW p \in Procs, IsFiniteSet(Table(p)), NEW c \in Conns, NEW n \in Nat,
         CopyMoves(p, c, n),
         n \in {copies[p][c], copies[p][c] + 1} \/ (copies[p][c] >= 1 /\ n = copies[p][c] - 1)
  PROVE  /\ Sized(p, Size(p), (Size(p) + n) - copies[p][c])
         /\ \A q \in Procs \ {p} : Table(q)' = Table(q)
<1> PICK S, m, k : S = Table(p) /\ m = copies[p][c] /\ k = Size(p)
  OBVIOUS
<1>1. k = Cardinality(S) /\ k \in Nat /\ m \in Nat /\ IsFiniteSet(S)
  BY TypeFacts, FS_CardinalityType DEF Size
<1>2. CASE n = m + 1
  <2> PICK x : x = <<c, m + 1>>
    OBVIOUS
  <2>1. Table(p)' = S \cup {x} /\ x \notin S
    BY <1>2, TableAdds
  <2>2. IsFiniteSet(S \cup {x}) /\ Cardinality(S \cup {x}) = k + 1
    BY ONLY <1>1, <2>1, FS_AddElement
  <2>3. (k + n) - m = k + 1 /\ k + 1 \in Nat
    BY <1>1, <1>2
  <2> QED BY <1>1, <2>1, <2>2, <2>3, TableSame DEF Sized, Size, CopyMoves
<1>3. CASE m >= 1 /\ n = m - 1
  <2> PICK x : x = <<c, m>>
    OBVIOUS
  <2>1. Table(p)' = S \ {x} /\ x \in S
    BY <1>3, TableRemoves
  <2>2. IsFiniteSet(S \ {x}) /\ Cardinality(S \ {x}) = k - 1
    BY ONLY <1>1, <2>1, FS_RemoveElement
  <2>3. (k + n) - m = k - 1 /\ k - 1 \in Nat
    <3>1. k # 0
      BY <1>1, <2>1, FS_EmptySet
    <3> QED BY <1>1, <1>3, <3>1
  <2> QED BY <1>1, <2>1, <2>2, <2>3, TableSame DEF Sized, Size, CopyMoves
<1>4. CASE n = m
  <2>1. Table(p)' = S
    BY <1>4, TableSame DEF CopyMoves
  <2>2. (k + n) - m = k
    BY <1>1, <1>4
  <2> QED BY <1>1, <2>1, <2>2, TableSame DEF Sized, Size, CopyMoves
<1> QED BY <1>2, <1>3, <1>4

(* The responses w wrote, counted. *)
LEMMA ServedType ==
  ASSUME TypeInv, NEW w \in Procs, NEW c \in Conns
  PROVE  Served(w, c) \in Nat /\ IsFiniteSet({i \in DOMAIN resp[c] : resp[c][i].by = w})
<1>1. DOMAIN resp[c] = 1..Len(resp[c]) /\ Len(resp[c]) \in Nat
  BY TypeFacts
<1>2. IsFiniteSet(1..Len(resp[c]))
  BY <1>1, FS_Interval
<1>3. IsFiniteSet({i \in DOMAIN resp[c] : resp[c][i].by = w})
  BY <1>1, <1>2, FS_Subset
<1> QED BY <1>3, FS_CardinalityType DEF Served

LEMMA ServedGrows ==
  ASSUME TypeInv, NEW w \in Functions, Responds(w), NEW q \in Procs, NEW c \in Conns
  PROVE  Served(q, c)' = IF q = w /\ c = conn(w) THEN Served(q, c) + 1 ELSE Served(q, c)
<1> PICK d, k, r : /\ d = conn(w) /\ k = Len(resp[d])
                   /\ r = [id |-> msg[w].req.id, by |-> w, seq |-> ssl[w].write]
  OBVIOUS
<1>1. CASE c # d
  BY <1>1 DEF Responds, OtherStreams, Served
<1>2. CASE c = d
  <2>1. resp'[d] = Append(resp[d], r) /\ d \in Conns /\ r.by = w
    BY DEF Responds
  <2>2. /\ k \in Nat /\ DOMAIN resp[d] = 1..k /\ DOMAIN resp'[d] = (1..k) \cup {k + 1}
        /\ k + 1 \notin 1..k
        /\ resp'[d][k + 1] = r /\ \A i \in 1..k : resp'[d][i] = resp[d][i]
    <3> PICK R : R = [id: Nat, by: Functions, seq: Nat]
      OBVIOUS
    <3>1. resp[d] \in Seq(R)
      BY <2>1, TypeFacts
    <3> QED BY <2>1, <3>1
  <2> PICK S : S = {i \in DOMAIN resp[d] : resp[d][i].by = q}
    OBVIOUS
  <2>3. IsFiniteSet(S) /\ Served(q, c) = Cardinality(S)
    BY <1>2, ServedType DEF Served
  <2>4. {i \in DOMAIN resp'[d] : resp'[d][i].by = q} = IF q = w THEN S \cup {k + 1} ELSE S
    BY <2>1, <2>2
  <2>5. Served(q, c)' = Cardinality(IF q = w THEN S \cup {k + 1} ELSE S)
    BY <1>2, <2>4 DEF Served
  <2>6. Cardinality(S \cup {k + 1}) = Cardinality(S) + 1
    BY <2>2, <2>3, FS_AddElement
  <2> QED BY <1>2, <2>3, <2>5, <2>6
<1> QED BY <1>1, <1>2

LEMMA RoomIs ==
  ASSUME NEW p \in Procs, NEW n \in Nat
  PROVE  /\ Room(p, n) <=> (Size(p) + (IF pc[p] \in Busy THEN 1 ELSE 0)) + n <= MaxFds[p]
         /\ Room(p, n)' <=> (Size(p)' + (IF pc'[p] \in Busy THEN 1 ELSE 0)) + n <= MaxFds[p]
BY DEF Room, Used, Size, Busy

LEMMA SizeType ==
  ASSUME NEW p \in Procs, TableOK(p)
  PROVE  IsFiniteSet(Table(p)) /\ Size(p) \in Nat /\ MaxFds[p] \in Nat
BY FS_CardinalityType, PotatoConstants DEF TableOK, Size

(* The tables of the processes that do not take the step. *)
LEMMA OthersTable ==
  ASSUME TypeInv, CopyInv, NEW p \in Procs, Elsewhere(p),
         \A q \in Procs \ {p} : copies'[q] = copies[q] /\ \A c \in Conns : Served(q, c)' = Served(q, c)
  PROVE  \A q \in Procs \ {p} : TableOK(q)'
<1> SUFFICES ASSUME NEW q \in Procs \ {p}
             PROVE  TableOK(q)'
  OBVIOUS
<1>1. Table(q)' = Table(q) /\ pc'[q] = pc[q] /\ conn(q)' = conn(q) /\ TableOK(q)
  BY TableSame DEF Elsewhere, CopyInv
<1>2. \A n \in Nat : Room(q, n) => Room(q, n)'
  BY <1>1 DEF Room, Used
<1>3. \A c \in Conns : Copies(q, c)' = Copies(q, c) /\ copies'[q][c] = copies[q][c]
  BY <1>1 DEF Copies
<1> QED BY <1>1, <1>2, <1>3 DEF TableOK

(* A process that waits again has room for what it opens next. *)
LEMMA IdleTable ==
  ASSUME TypeInv, NEW p \in Procs, Idles(p), NEW k, NEW n, Sized(p, k, n), MaxFds[p] \in Nat,
         p = Gateway => n + 1 <= MaxFds[p] /\ \A c \in Conns : copies'[p][c] <= 1,
         p \in Functions => n + 2 <= MaxFds[p] /\ \A c \in Conns : copies'[p][c] <= Served(p, c),
         UNCHANGED resp
  PROVE  TableOK(p)'
<1>1. /\ IsFiniteSet(Table(p))' /\ n = Size(p)' /\ n \in Nat
      /\ pc'[p] \in Waiting /\ conn(p)' = NoConn
      /\ (p = Gateway => pc'[p] \in {"poll", "back"}) /\ (p \in Functions => pc'[p] = "accept")
      /\ (p = Gateway /\ p \notin Functions) \/ (p # Gateway /\ p \in Functions)
  BY Basics DEF Sized, Idles
<1>2. pc'[p] \notin Busy
  BY <1>1 DEF Busy, Waiting
<1>3. \A j \in Nat : n + j <= MaxFds[p] => Room(p, j)'
  BY <1>1, <1>2, RoomIs
<1>4. Room(p, 0)' /\ (p = Gateway => Room(p, 1)') /\ (p \in Functions => Room(p, 2)')
  <2>1. n + 0 <= MaxFds[p]
    BY <1>1
  <2> QED BY <1>1, <1>3, <2>1
<1>5. \A c \in Conns : copies'[p][c] <= Copies(p, c)'
  <2> SUFFICES ASSUME NEW c \in Conns
               PROVE  copies'[p][c] <= Copies(p, c)'
    OBVIOUS
  <2>1. conn(p)' # c
    BY <1>1, Basics
  <2>2. Copies(p, c)' = IF p = Gateway THEN 1 + 0 ELSE Served(p, c) + 0
    BY <2>1 DEF Copies, Served
  <2>3. Served(p, c) \in Nat
    BY ServedType
  <2> QED BY <1>1, <2>2, <2>3
<1> QED BY <1>1, <1>4, <1>5 DEF TableOK

LEMMA CopiesBefore ==
  ASSUME TypeInv, NEW p \in Procs, TableOK(p), NEW c \in Conns
  PROVE  /\ copies[p][c] \in Nat /\ Served(p, c) \in Nat
         /\ p = Gateway => copies[p][c] <= 1 + (IF pc[p] = "resend" /\ conn(p) = c THEN 1 ELSE 0)
         /\ p \in Functions =>
              copies[p][c] <= Served(p, c) + (IF pc[p] = "respond" /\ conn(p) = c THEN 1 ELSE 0)
BY TypeFacts, ServedType, Basics DEF TableOK, Copies

LEMMA ClosesCopies ==
  ASSUME TypeInv, CopyInv, NEW p \in Procs, Closes(p)
  PROVE  CopyInv'
<1> PICK d, m, k, M : d = conn(p) /\ m = copies[p][d] /\ k = Size(p) /\ M = MaxFds[p]
  OBVIOUS
<1>1. /\ d \in Conns /\ Idles(p) /\ Elsewhere(p) /\ UNCHANGED resp /\ CopyMoves(p, d, m - 1)
      /\ m \in Nat /\ m >= 1 /\ TableOK(p)
  BY TypeFacts DEF Closes, CopyInv
<1>2. m - 1 \in Nat /\ k \in Nat /\ M \in Nat /\ IsFiniteSet(Table(p))
  BY <1>1, SizeType
<1>3. Sized(p, k, (k + (m - 1)) - m)
  BY <1>1, <1>2, SizeMoves
<1>4. (k + (m - 1)) - m = k - 1
  BY <1>1, <1>2
<1>5. Sized(p, k, k - 1)
  BY <1>3, <1>4
<1>6. (k + (IF pc[p] \in Busy THEN 1 ELSE 0)) + 0 <= M
  BY <1>1, RoomIs DEF TableOK
<1>7. p \in Functions => pc[p] \in Busy
  BY <1>1, Basics DEF TypeInv, ControlInv, ProcControl, WorkerPCs, Waiting, Busy
<1>8. p = Gateway => (k - 1) + 1 <= M /\ \A c \in Conns : copies'[p][c] <= 1
  <2> SUFFICES ASSUME p = Gateway
               PROVE  (k - 1) + 1 <= M /\ \A c \in Conns : copies'[p][c] <= 1
    OBVIOUS
  <2>1. (k - 1) + 1 <= M
    BY <1>2, <1>6
  <2>2. \A c \in Conns \ {d} : copies'[p][c] <= 1
    BY <1>1, CopiesBefore DEF CopyMoves
  <2>3. m <= 2
    BY <1>1, CopiesBefore
  <2>4. copies'[p][d] <= 1
    BY <1>1, <2>3 DEF CopyMoves
  <2> QED BY <2>1, <2>2, <2>4
<1>9. p \in Functions => (k - 1) + 2 <= M /\ \A c \in Conns : copies'[p][c] <= Served(p, c)
  <2> SUFFICES ASSUME p \in Functions
               PROVE  (k - 1) + 2 <= M /\ \A c \in Conns : copies'[p][c] <= Served(p, c)
    OBVIOUS
  <2>1. (k - 1) + 2 <= M
    BY <1>2, <1>6, <1>7
  <2>2. \A c \in Conns \ {d} : copies'[p][c] <= Served(p, c)
    BY <1>1, CopiesBefore DEF CopyMoves
  <2>3. Served(p, d) \in Nat /\ m <= Served(p, d) + 1
    BY <1>1, CopiesBefore
  <2>4. copies'[p][d] <= Served(p, d)
    BY <1>1, <2>3 DEF CopyMoves
  <2> QED BY <2>1, <2>2, <2>4
<1>10. TableOK(p)'
  BY <1>1, <1>2, <1>5, <1>8, <1>9, IdleTable
<1>11. \A q \in Procs \ {p} : TableOK(q)'
  BY <1>1, OthersTable DEF CopyMoves, Served
<1> QED BY <1>10, <1>11 DEF CopyInv

LEMMA PassesCopies ==
  ASSUME TypeInv, CopyInv, NEW p \in Procs, Passes(p)
  PROVE  CopyInv'
<1> PICK d, m, n, k, M : /\ d = conn(p) /\ m = copies[p][d] /\ k = Size(p) /\ M = MaxFds[p]
                         /\ n = IF pc[p] = "resend" THEN m - 1 ELSE m
  OBVIOUS
<1>1. /\ d \in Conns /\ Idles(p) /\ Elsewhere(p) /\ UNCHANGED resp /\ CopyMoves(p, d, n)
      /\ m \in Nat /\ m >= 1 /\ TableOK(p) /\ pc[p] \in Holding /\ Room(p, 1)
  BY TypeFacts DEF Passes, CopyInv
<1>2. n \in Nat /\ n \in {m, m - 1} /\ k \in Nat /\ M \in Nat /\ IsFiniteSet(Table(p))
  BY <1>1, SizeType
<1>3. Sized(p, k, (k + n) - m)
  BY <1>1, <1>2, SizeMoves
<1>4. (k + (IF pc[p] \in Busy THEN 1 ELSE 0)) + 1 <= M
  BY <1>1, RoomIs
<1>5. /\ p = Gateway => pc[p] \in {"send", "resend"}
      /\ p \in Functions => pc[p] = "return"
  BY <1>1, Basics DEF TypeInv, ControlInv, ProcControl, WorkerPCs, GatewayPCs, Holding
<1>6. p = Gateway => ((k + n) - m) + 1 <= M /\ \A c \in Conns : copies'[p][c] <= 1
  <2> SUFFICES ASSUME p = Gateway
               PROVE  ((k + n) - m) + 1 <= M /\ \A c \in Conns : copies'[p][c] <= 1
    OBVIOUS
  <2>1. ((k + n) - m) + 1 <= M
    BY <1>1, <1>2, <1>4
  <2>2. \A c \in Conns \ {d} : copies'[p][c] <= 1
    BY <1>1, CopiesBefore DEF CopyMoves
  <2>3. m <= 1 + (IF pc[p] = "resend" THEN 1 ELSE 0)
    BY <1>1, CopiesBefore
  <2>4. copies'[p][d] <= 1
    BY <1>1, <2>3 DEF CopyMoves
  <2> QED BY <2>1, <2>2, <2>4
<1>7. p \in Functions => ((k + n) - m) + 2 <= M /\ \A c \in Conns : copies'[p][c] <= Served(p, c)
  <2> SUFFICES ASSUME p \in Functions
               PROVE  ((k + n) - m) + 2 <= M /\ \A c \in Conns : copies'[p][c] <= Served(p, c)
    OBVIOUS
  <2>1. n = m /\ pc[p] \in Busy /\ pc[p] # "respond"
    BY <1>5 DEF Busy
  <2>2. ((k + n) - m) + 2 <= M
    BY <1>1, <1>2, <1>4, <2>1
  <2>3. \A c \in Conns : copies[p][c] <= Served(p, c) + 0 /\ Served(p, c) \in Nat
    BY <1>1, <2>1, CopiesBefore
  <2>4. \A c \in Conns : copies'[p][c] = copies[p][c]
    BY <1>1, <2>1 DEF CopyMoves
  <2> QED BY <2>2, <2>3, <2>4
<1>8. TableOK(p)'
  BY <1>1, <1>2, <1>3, <1>6, <1>7, IdleTable
<1>9. \A q \in Procs \ {p} : TableOK(q)'
  BY <1>1, OthersTable DEF CopyMoves, Served
<1> QED BY <1>8, <1>9 DEF CopyInv

LEMMA LosesCopies ==
  ASSUME TypeInv, CopyInv, NEW p \in Procs, Loses(p)
  PROVE  CopyInv'
<1> PICK k, M : k = Size(p) /\ M = MaxFds[p]
  OBVIOUS
<1>1. /\ Idles(p) /\ Elsewhere(p) /\ UNCHANGED <<resp, copies>> /\ TableOK(p)
      /\ pc[p] \in {"back", "accept"}
  BY DEF Loses, CopyInv
<1>2. k \in Nat /\ M \in Nat /\ IsFiniteSet(Table(p)) /\ Table(p)' = Table(p)
  BY <1>1, SizeType, TableSame
<1>3. Sized(p, k, k)
  BY <1>2 DEF Sized, Size
<1>4. /\ p = Gateway => pc[p] = "back"
      /\ p \in Functions => pc[p] = "accept"
  BY <1>1, Basics DEF TypeInv, ControlInv, ProcControl, WorkerPCs, GatewayPCs
<1>5. pc[p] \notin Busy
  BY <1>1 DEF Busy
<1>6. (p = Gateway => Room(p, 1)) /\ (p \in Functions => Room(p, 2))
  BY <1>1, <1>4 DEF TableOK
<1>7. (p = Gateway => k + 1 <= M) /\ (p \in Functions => k + 2 <= M)
  BY <1>2, <1>5, <1>6, RoomIs
<1>8. \A c \in Conns : /\ p = Gateway => copies[p][c] <= 1 + 0
                       /\ p \in Functions => copies[p][c] <= Served(p, c) + 0
                       /\ copies[p][c] \in Nat /\ Served(p, c) \in Nat
  BY <1>1, <1>4, CopiesBefore
<1>9. \A c \in Conns : /\ p = Gateway => copies'[p][c] <= 1
                       /\ p \in Functions => copies'[p][c] <= Served(p, c)
  BY <1>1, <1>8
<1>10. TableOK(p)'
  BY <1>1, <1>2, <1>3, <1>7, <1>9, IdleTable
<1>11. \A q \in Procs \ {p} : TableOK(q)'
  BY <1>1, OthersTable DEF Served
<1> QED BY <1>10, <1>11 DEF CopyInv

(* A process at work needs no more than its table holds. *)
LEMMA WorkTable ==
  ASSUME NEW p \in Procs, pc'[p] \notin Waiting, NEW k, NEW n, Sized(p, k, n), MaxFds[p] \in Nat,
         n + (IF pc'[p] \in Busy THEN 1 ELSE 0) <= MaxFds[p],
         \A c \in Conns : copies'[p][c] <= Copies(p, c)'
  PROVE  TableOK(p)'
<1>1. IsFiniteSet(Table(p))' /\ n = Size(p)' /\ n \in Nat
  BY DEF Sized
<1>2. (n + (IF pc'[p] \in Busy THEN 1 ELSE 0)) + 0 <= MaxFds[p]
  BY <1>1
<1>3. Room(p, 0)'
  BY <1>1, <1>2, RoomIs
<1> QED BY <1>1, <1>3 DEF TableOK, Waiting

LEMMA GetsCopies ==
  ASSUME TypeInv, CopyInv, NEW p \in Procs, Gets(p)
  PROVE  CopyInv'
<1> PICK d, m, k, M : d = Head(uds[p]).conn /\ m = copies[p][d] /\ k = Size(p) /\ M = MaxFds[p]
  OBVIOUS
<1>1. /\ d \in Conns /\ Elsewhere(p) /\ UNCHANGED resp /\ CopyMoves(p, d, m + 1) /\ TableOK(p)
      /\ conn(p)' = d /\ Room(p, 2) /\ pc[p] \in {"back", "accept"} /\ m \in Nat
      /\ (p = Gateway /\ pc'[p] = "resend") \/ (p \in Functions /\ pc'[p] = "respond")
  BY GetsHead, TypeFacts DEF Gets, CopyInv, Addressed, conn
<1>2. m + 1 \in Nat /\ k \in Nat /\ M \in Nat /\ IsFiniteSet(Table(p))
  BY <1>1, SizeType
<1>3. Sized(p, k, (k + (m + 1)) - m)
  BY <1>1, <1>2, SizeMoves
<1>4. (k + (m + 1)) - m = k + 1
  BY <1>1, <1>2
<1>5. pc[p] \notin Busy
  BY <1>1 DEF Busy
<1>6. (k + 1) + (IF pc'[p] \in Busy THEN 1 ELSE 0) <= M
  <2>1. (k + 0) + 2 <= M
    BY <1>1, <1>5, RoomIs
  <2> QED BY <1>2, <2>1
<1>7. ASSUME NEW c \in Conns
      PROVE  copies'[p][c] <= Copies(p, c)'
  <2>1. /\ copies[p][c] \in Nat /\ Served(p, c) \in Nat
        /\ p = Gateway => copies[p][c] <= 1 + 0
        /\ p \in Functions => copies[p][c] <= Served(p, c) + 0
    BY <1>1, <1>7, CopiesBefore
  <2>2. Copies(p, c)' = (IF p = Gateway THEN 1 ELSE Served(p, c)) + (IF c = d THEN 1 ELSE 0)
    BY <1>1, <1>7, Basics DEF Copies, Served
  <2>3. copies'[p][c] = copies[p][c] + (IF c = d THEN 1 ELSE 0)
    BY <1>1, <1>7, <2>1 DEF CopyMoves
  <2> QED BY <1>1, <2>1, <2>2, <2>3, Basics
<1>8. TableOK(p)'
  BY <1>1, <1>2, <1>3, <1>4, <1>6, <1>7, WorkTable DEF Waiting
<1>9. \A q \in Procs \ {p} : TableOK(q)'
  BY <1>1, OthersTable DEF CopyMoves, Served
<1> QED BY <1>8, <1>9 DEF CopyInv

(* The table of a process that stays at work on its connection. *)
LEMMA StayTable ==
  ASSUME TypeInv, NEW p \in Procs, TableOK(p), \A c \in Conns : copies'[p][c] = copies[p][c],
         pc'[p] \notin Waiting, pc'[p] \in Busy => pc[p] \in Busy,
         \A c \in Conns : Copies(p, c) <= Copies(p, c)' /\ Copies(p, c)' \in Nat
  PROVE  TableOK(p)'
<1> PICK k, M : k = Size(p) /\ M = MaxFds[p]
  OBVIOUS
<1>1. k \in Nat /\ M \in Nat /\ IsFiniteSet(Table(p)) /\ Table(p)' = Table(p)
  BY SizeType, TableSame
<1>2. Sized(p, k, k)
  BY <1>1 DEF Sized, Size
<1>3. (k + (IF pc[p] \in Busy THEN 1 ELSE 0)) + 0 <= M
  BY RoomIs DEF TableOK
<1>4. k + (IF pc'[p] \in Busy THEN 1 ELSE 0) <= M
  BY <1>1, <1>3
<1>5. \A c \in Conns : copies'[p][c] <= Copies(p, c)'
  <2> SUFFICES ASSUME NEW c \in Conns
               PROVE  copies'[p][c] <= Copies(p, c)'
    OBVIOUS
  <2>1. copies[p][c] \in Nat /\ Copies(p, c) \in Nat /\ copies[p][c] <= Copies(p, c)
    <3>1. Served(p, c) \in Nat
      BY ServedType
    <3>2. Copies(p, c) \in Nat
      BY <3>1 DEF Copies
    <3> QED BY <3>2, TypeFacts DEF TableOK
  <2> QED BY <2>1
<1> QED BY <1>1, <1>2, <1>4, <1>5, WorkTable

LEMMA ReadsCopies ==
  ASSUME TypeInv, CopyInv, NEW p \in Procs, Reads(p)
  PROVE  CopyInv'
<1>1. /\ Elsewhere(p) /\ conn(p)' = conn(p) /\ UNCHANGED <<resp, copies>> /\ TableOK(p)
      /\ pc[p] \in {"first", "next"}
      /\ (p = Gateway /\ pc'[p] = "send") \/ (p \in Functions /\ pc'[p] \in {"return", "respond"})
  BY DEF Reads, CopyInv
<1>2. pc'[p] \notin Waiting /\ (pc'[p] \in Busy => pc[p] \in Busy)
  <2>1. p \in Functions => pc[p] = "next"
    BY <1>1 DEF TypeInv, ControlInv, ProcControl, WorkerPCs
  <2> QED BY <1>1, <2>1, Basics DEF Busy, Waiting
<1>3. ASSUME NEW c \in Conns
      PROVE  Copies(p, c) <= Copies(p, c)' /\ Copies(p, c)' \in Nat
  <2>1. Served(p, c)' = Served(p, c) /\ Served(p, c) \in Nat
    BY <1>1, <1>3, ServedType DEF Served
  <2>2. Copies(p, c) = (IF p = Gateway THEN 1 ELSE Served(p, c)) + 0
    BY <1>1 DEF Copies
  <2>3. Copies(p, c)' = (IF p = Gateway THEN 1 ELSE Served(p, c))
                          + (IF pc'[p] = "respond" /\ conn(p) = c THEN 1 ELSE 0)
    BY <1>1, <2>1, Basics DEF Copies
  <2> QED BY <2>1, <2>2, <2>3
<1>4. TableOK(p)'
  BY <1>1, <1>2, <1>3, StayTable
<1>5. \A q \in Procs \ {p} : TableOK(q)'
  BY <1>1, OthersTable DEF Served
<1> QED BY <1>4, <1>5 DEF CopyInv

LEMMA RespondsCopies ==
  ASSUME TypeInv, CopyInv, NEW w \in Functions, Responds(w)
  PROVE  CopyInv'
<1> PICK d : d = conn(w)
  OBVIOUS
<1>1. /\ w \in Procs /\ w # Gateway /\ d \in Conns /\ Elsewhere(w) /\ conn(w)' = d
      /\ UNCHANGED copies /\ TableOK(w) /\ pc[w] = "respond" /\ pc'[w] = "next"
  BY Basics DEF Responds, CopyInv, conn
<1>2. pc'[w] \notin Waiting /\ pc[w] \in Busy
  BY <1>1 DEF Busy, Waiting
<1>3. ASSUME NEW c \in Conns
      PROVE  Copies(w, c) <= Copies(w, c)' /\ Copies(w, c)' \in Nat
  <2>1. /\ Served(w, c) \in Nat
        /\ Served(w, c)' = IF c = d THEN Served(w, c) + 1 ELSE Served(w, c)
    BY <1>1, <1>3, ServedType, ServedGrows
  <2>2. Copies(w, c) = Served(w, c) + (IF c = d THEN 1 ELSE 0) /\ Copies(w, c)' = Served(w, c)' + 0
    BY <1>1 DEF Copies
  <2> QED BY <2>1, <2>2
<1>4. TableOK(w)'
  BY <1>1, <1>2, <1>3, StayTable
<1>5. \A q \in Procs \ {w} : TableOK(q)'
  BY <1>1, ServedGrows, OthersTable
<1> QED BY <1>4, <1>5 DEF CopyInv

LEMMA AcceptsCopies ==
  ASSUME TypeInv, OwnInv, CopyInv, NEW c \in Conns, Accepts(c)
  PROVE  CopyInv'
<1> PICK g, k, M : g = Gateway /\ k = Size(Gateway) /\ M = MaxFds[Gateway]
  OBVIOUS
<1>1. /\ g \in Procs /\ g \notin Functions /\ Elsewhere(g) /\ UNCHANGED resp /\ TableOK(g)
      /\ CopyMoves(g, c, copies[g][c] + 1) /\ pc[g] = "poll" /\ pc'[g] = "handshake" /\ Room(g, 1)
      /\ copies[g][c] = 0
  BY Basics DEF Accepts, CopyInv, OwnInv, Fresh
<1>2. 0 + 1 \in Nat /\ k \in Nat /\ M \in Nat /\ IsFiniteSet(Table(g))
  BY <1>1, SizeType
<1>3. Sized(g, k, (k + (0 + 1)) - 0)
  BY <1>1, <1>2, SizeMoves
<1>4. (k + (0 + 1)) - 0 = k + 1
  BY <1>2
<1>5. pc[g] \notin Busy /\ pc'[g] \notin Busy /\ pc'[g] \notin Waiting
  BY <1>1 DEF Busy, Waiting
<1>6. (k + 1) + (IF pc'[g] \in Busy THEN 1 ELSE 0) <= M
  <2>1. (k + 0) + 1 <= M
    BY <1>1, <1>5, RoomIs
  <2> QED BY <1>2, <1>5, <2>1
<1>7. ASSUME NEW d \in Conns
      PROVE  copies'[g][d] <= Copies(g, d)'
  <2>1. copies[g][d] \in Nat /\ copies[g][d] <= 1 + 0
    BY <1>1, <1>7, CopiesBefore
  <2>2. Copies(g, d)' = 1 + 0
    BY <1>1 DEF Copies
  <2>3. copies'[g][d] = IF d = c THEN 0 + 1 ELSE copies[g][d]
    BY <1>1, <1>7 DEF CopyMoves
  <2> QED BY <2>1, <2>2, <2>3
<1>8. TableOK(g)'
  BY <1>1, <1>2, <1>3, <1>4, <1>5, <1>6, <1>7, WorkTable
<1>9. \A q \in Procs \ {g} : TableOK(q)'
  BY <1>1, OthersTable DEF CopyMoves, Served
<1> QED BY <1>8, <1>9 DEF CopyInv

(* The other steps leave the tables alone. *)
LEMMA SameCopies ==
  ASSUME TypeInv, CopyInv, UNCHANGED <<copies, resp, msg>>, Elsewhere(Gateway),
         \/ pc'[Gateway] = pc[Gateway]
         \/ pc[Gateway] = "poll" /\ pc'[Gateway] = "back"
         \/ pc[Gateway] = "handshake" /\ pc'[Gateway] = "first"
  PROVE  CopyInv'
<1> PICK g : g = Gateway
  OBVIOUS
<1>1. g \in Procs /\ TableOK(g) /\ Table(g)' = Table(g) /\ conn(g)' = conn(g)
  BY Basics, TableSame DEF CopyInv, conn
<1>2. pc'[g] \in Busy <=> pc[g] \in Busy
  BY DEF Busy
<1>3. \A n \in Nat : Room(g, n) => Room(g, n)'
  BY <1>1, <1>2, RoomIs DEF Size
<1>4. \A c \in Conns : Copies(g, c)' = Copies(g, c)
  BY <1>1 DEF Copies, Served
<1>5. TableOK(g)'
  BY <1>1, <1>3, <1>4 DEF TableOK
<1>6. \A q \in Procs \ {g} : TableOK(q)'
  BY <1>1, OthersTable DEF Served
<1> QED BY <1>5, <1>6 DEF CopyInv

LEMMA CopyStep ==
  ASSUME TypeInv, OwnInv, CopyInv, Moves
  PROVE  CopyInv'
<1>1. ASSUME NEW c \in Conns, ClientMoves(c)
      PROVE  CopyInv'
  <2>1. Elsewhere(Gateway)
    BY <1>1 DEF ClientMoves, Elsewhere, conn
  <2> QED BY <1>1, <2>1, SameCopies DEF ClientMoves
<1>2. CASE Polls
  BY <1>2, SameCopies DEF Polls
<1>3. CASE Handshakes
  BY <1>3, SameCopies DEF Handshakes
<1>4. ASSUME NEW p \in Procs, ProcMoves(p)
      PROVE  CopyInv'
  BY <1>4, ClosesCopies, PassesCopies, GetsCopies, LosesCopies, ReadsCopies DEF ProcMoves
<1> QED BY <1>1, <1>2, <1>3, <1>4, AcceptsCopies, RespondsCopies DEF Moves

-----------------------------------------------------------------------------
(* The invariant *)

LEMMA InvInit ==
  ASSUME Init
  PROVE  Inv
<1>1. TypeInv
  BY TypeInit
<1>2. \A p \in Procs : conn(p) = NoConn /\ uds[p] = <<>>
  BY DEF Init, conn, NoMsg
<1>3. OwnInv
  <2>1. SingleUser
    BY <1>2, Basics DEF SingleUser, Queued, Init
  <2>2. \A c \in Conns : Fresh(c) /\ c \notin backlog /\ \A p \in Procs : conn(p) # c /\ ~Queued(c, p)
    BY <1>2, Basics DEF Init, Fresh, Queued
  <2> QED BY <2>1, <2>2 DEF OwnInv
<1>4. StreamInv
  <2>1. \A c \in Conns : /\ reqs[c] = <<>> /\ todo[c] = <<>> /\ sent[c] = <<>>
                         /\ consumed[c] = 0 /\ resp[c] = <<>>
    BY DEF Init
  <2>2. \A c \in Conns : ConnOK(c)
    BY <2>1 DEF ConnOK, Plain
  <2>3. \A p \in Procs : ProcOK(p) /\ \A i \in DOMAIN uds[p] : MsgOK(uds[p][i])
    BY <1>2, Basics DEF ProcOK
  <2> QED BY <2>2, <2>3 DEF StreamInv
<1>5. CopyInv
  <2> SUFFICES ASSUME NEW p \in Procs
               PROVE  TableOK(p)
    BY DEF CopyInv
  <2>1. \A c \in Conns : copies[p][c] = 0
    BY DEF Init
  <2>2. Table(p) = {}
    <3>1. 1..0 = {}
      OBVIOUS
    <3> QED BY <2>1, <3>1, TableMember
  <2>3. IsFiniteSet(Table(p)) /\ Size(p) = 0
    BY <2>2, FS_EmptySet DEF Size
  <2>4. pc[p] = (IF p = Gateway THEN "poll" ELSE "accept") /\ pc[p] \notin Busy
    BY DEF Init, Busy
  <2>5. MaxFds[p] \in Nat /\ (p = Gateway => MaxFds[p] >= 1) /\ (p # Gateway => MaxFds[p] >= 2)
    BY PotatoConstants DEF Procs
  <2>6. \A n \in Nat : n <= MaxFds[p] => Room(p, n)
    BY <2>3, <2>4, RoomIs
  <2>7. Room(p, 0) /\ (pc[p] \in {"poll", "back"} => Room(p, 1)) /\ (pc[p] = "accept" => Room(p, 2))
    BY <2>4, <2>5, <2>6
  <2>8. \A c \in Conns : copies[p][c] <= Copies(p, c)
    <3> SUFFICES ASSUME NEW c \in Conns
                 PROVE  copies[p][c] <= Copies(p, c)
      OBVIOUS
    <3>1. Served(p, c) \in Nat
      BY <1>1, ServedType
    <3>2. Copies(p, c) = IF p = Gateway THEN 1 + 0 ELSE Served(p, c) + 0
      BY <1>2, Basics DEF Copies
    <3> QED BY <2>1, <3>1, <3>2
  <2> QED BY <2>3, <2>7, <2>8 DEF TableOK
<1> QED BY <1>1, <1>3, <1>4, <1>5 DEF Inv

LEMMA InvStep ==
  ASSUME Inv, [Next]_vars
  PROVE  Inv'
<1>1. TypeInv' /\ (Moves \/ UNCHANGED vars)
  BY TypeStep DEF Inv
<1>2. CASE Moves
  BY <1>1, <1>2, OwnStep, StreamStep, CopyStep DEF Inv
<1>3. CASE UNCHANGED vars
  <2>1. OwnInv' /\ StreamInv'
    BY <1>3, SameOwn, StreamStutters DEF Inv, vars, clientVars, streamVars, localVars
  <2>2. Elsewhere(Gateway) /\ UNCHANGED <<copies, resp, msg, pc>>
    BY <1>3 DEF vars, streamVars, localVars, Elsewhere, conn
  <2>3. CopyInv'
    BY <2>2, SameCopies DEF Inv
  <2> QED BY <1>1, <2>1, <2>3 DEF Inv
<1> QED BY <1>1, <1>2, <1>3

LEMMA Invariant == Spec => []Inv
<1>1. Init => Inv
  BY InvInit
<1>2. Inv /\ [Next]_vars => Inv'
  BY InvStep
<1> QED BY <1>1, <1>2, PTL DEF Spec

-----------------------------------------------------------------------------
(* Theorems *)

(***************************************************************************)
(* The variables of the three programs keep their types: no session or     *)
(* message is used before it is filled in, no record is read past the last *)
(* one, and no descriptor is closed that is not open (copies stays in Nat).*)
(***************************************************************************)
THEOREM PotatoTypeCorrect == Spec => []TypeOK
<1>1. Inv => TypeOK
  BY DEF Inv, TypeInv
<1> QED BY <1>1, Invariant, PTL

(***************************************************************************)
(* For any number of workers, connections and messages in flight, a        *)
(* session is used in one place, whatever copies of its descriptor the     *)
(* hand-overs of gateway.c and worker.c leave open.                        *)
(***************************************************************************)
THEOREM PotatoSingleUser == Spec => []SingleUser
<1>1. Inv => SingleUser
  BY DEF Inv, OwnInv
<1> QED BY <1>1, Invariant, PTL

(***************************************************************************)
(* Read first, export after, import, write: in this order the record       *)
(* numbers a session carries are always the connection's, so that no       *)
(* write nonce is used twice or skipped.                                   *)
(***************************************************************************)
THEOREM PotatoRecordsInStep == Spec => []RecordsInStep
<1>1. Inv => RecordsInStep
  <2> SUFFICES ASSUME Inv
               PROVE  RecordsInStep
    OBVIOUS
  <2>1. TypeInv /\ StreamInv
    BY DEF Inv
  <2>2. ASSUME NEW p \in Procs
        PROVE  /\ pc[p] \in {"first", "respond", "next"} => InStep(conn(p), ssl[p])
               /\ pc[p] \in {"send", "resend", "return"} => InStep(conn(p), msg[p])
               /\ \A i \in DOMAIN uds[p] : InStep(uds[p][i].conn, uds[p][i])
    <3>1. pc[p] \in InSession \cup Holding => conn(p) \in Conns
      BY <2>1, <2>2, TypeFacts DEF InSession, Holding, Waiting
    <3> QED BY <2>1, <2>2, <3>1 DEF StreamInv, ProcOK, MsgOK, InSession, Holding
  <2>3. \A c \in Conns : \A i \in DOMAIN resp[c] : resp[c][i].seq = i - 1
    <3>1. \A c \in Conns : DOMAIN resp[c] = 1..Len(resp[c])
      BY <2>1, TypeFacts
    <3> QED BY <2>1, <3>1 DEF StreamInv, ConnOK
  <2> QED BY <2>2, <2>3 DEF RecordsInStep
<1> QED BY <1>1, Invariant, PTL

(***************************************************************************)
(* If each request of a client is one read, the i-th response answers its  *)
(* i-th request and comes from the worker that request names, whatever     *)
(* other clients, failing calls and full tables do.                        *)
(***************************************************************************)
THEOREM PotatoAnswered == Spec => []AnsweredByNamed
<1>1. Inv => AnsweredByNamed
  <2> SUFFICES ASSUME Inv
               PROVE  AnsweredByNamed
    OBVIOUS
  <2>1. \A c \in Conns : DOMAIN resp[c] = 1..Len(resp[c])
    BY TypeFacts DEF Inv
  <2> QED BY <2>1 DEF Inv, StreamInv, ConnOK, Plain, AnsweredByNamed
<1> QED BY <1>1, Invariant, PTL

(***************************************************************************)
(* The copies left behind stay within what the code can afford: two in the *)
(* gateway, one per response in a worker, and always a descriptor for the  *)
(* next client or the next session, for every size of the tables.          *)
(***************************************************************************)
THEOREM PotatoCopiesBounded == Spec => []CopiesBounded
<1>1. Inv => CopiesBounded
  <2> SUFFICES ASSUME Inv
               PROVE  CopiesBounded
    OBVIOUS
  <2>1. \A p \in Procs : TableOK(p)
    BY DEF Inv, CopyInv
  <2>2. \A c \in Conns : copies[Gateway][c] <= 1 + (IF pc[Gateway] = "resend" /\ conn(Gateway) = c THEN 1 ELSE 0)
    BY <2>1, Basics DEF TableOK, Copies
  <2>3. \A c \in Conns : \A w \in Functions :
          copies[w][c] <= Served(w, c) + (IF pc[w] = "respond" /\ conn(w) = c THEN 1 ELSE 0)
    BY <2>1, Basics DEF TableOK, Copies
  <2>4. /\ pc[Gateway] = "poll" => Room(Gateway, 1)
        /\ \A w \in Functions : pc[w] = "accept" => Room(w, 2)
    BY <2>1, Basics DEF TableOK
  <2> QED BY <2>2, <2>3, <2>4 DEF CopiesBounded
<1> QED BY <1>1, Invariant, PTL

-----------------------------------------------------------------------------
(* Who has a session, for the refinement mapping *)

AtGateway(c) == c \in backlog \/ conn(Gateway) = c
AtWorker(c) == \E w \in Functions : conn(w) = c
InTransit(c) == \E p \in Procs : Queued(c, p)

HolderMap ==
  \A c \in Conns :
    /\ client[c] = "idle" => ~AtGateway(c) /\ ~AtWorker(c) /\ ~InTransit(c)
    /\ client[c] = "idle" => Holder(c) = "none"
    /\ AtGateway(c) => Holder(c) = "gateway"
    /\ \A w \in Functions : conn(w) = c => Holder(c) = w
    /\ InTransit(c) => Holder(c) = "transit"
    /\ client[c] # "idle" /\ ~AtGateway(c) /\ ~AtWorker(c) /\ ~InTransit(c) => Holder(c) = "lost"

LEMMA HolderIs == OwnInv => HolderMap
<1> SUFFICES ASSUME OwnInv, NEW c \in Conns
             PROVE  /\ client[c] = "idle" => ~AtGateway(c) /\ ~AtWorker(c) /\ ~InTransit(c)
                    /\ client[c] = "idle" => Holder(c) = "none"
                    /\ AtGateway(c) => Holder(c) = "gateway"
                    /\ \A w \in Functions : conn(w) = c => Holder(c) = w
                    /\ InTransit(c) => Holder(c) = "transit"
                    /\ client[c] # "idle" /\ ~AtGateway(c) /\ ~AtWorker(c) /\ ~InTransit(c) =>
                         Holder(c) = "lost"
  BY DEF HolderMap
<1> USE Basics
<1>1. client[c] = "idle" => ~AtGateway(c) /\ ~AtWorker(c) /\ ~InTransit(c)
  BY DEF OwnInv, AtGateway, AtWorker, InTransit
<1>2. /\ \A p, q \in Procs : conn(p) = c /\ conn(q) = c => p = q
      /\ \A p, q \in Procs : conn(p) = c => ~Queued(c, q)
      /\ c \in backlog => \A p \in Procs : conn(p) # c /\ ~Queued(c, p)
  BY DEF OwnInv, SingleUser
<1>3. AtGateway(c) => ~AtWorker(c) /\ ~InTransit(c)
  BY <1>2 DEF AtGateway, AtWorker, InTransit
<1>4. AtWorker(c) => ~InTransit(c)
  BY <1>2 DEF AtWorker, InTransit
<1>5. /\ client[c] = "idle" => Holder(c) = "none"
      /\ client[c] # "idle" /\ AtGateway(c) => Holder(c) = "gateway"
      /\ client[c] # "idle" /\ ~AtGateway(c) /\ AtWorker(c) =>
           Holder(c) = CHOOSE w \in Functions : conn(w) = c
      /\ client[c] # "idle" /\ ~AtGateway(c) /\ ~AtWorker(c) =>
           Holder(c) = IF InTransit(c) THEN "transit" ELSE "lost"
  BY DEF Holder, AtGateway, AtWorker, InTransit
<1>6. ASSUME NEW w \in Functions, conn(w) = c PROVE Holder(c) = w
  <2>1. \A v \in Functions : conn(v) = c <=> v = w
    BY <1>2, <1>6
  <2>2. (CHOOSE v \in Functions : conn(v) = c) = w
    BY <2>1
  <2>3. AtWorker(c)
    BY <1>6 DEF AtWorker
  <2> QED BY <1>1, <1>3, <1>5, <2>2, <2>3
<1> QED BY <1>1, <1>3, <1>4, <1>5, <1>6

LEMMA HolderNext == OwnInv' => HolderMap'
BY HolderIs, PTL

(* A session that stays where it is. *)
LEMMA HolderKept ==
  ASSUME HolderMap, HolderMap', NEW c \in Conns,
         client'[c] = "idle" <=> client[c] = "idle",
         c \in backlog' <=> c \in backlog,
         \A p \in Procs : (conn(p)' = c <=> conn(p) = c) /\ (Queued(c, p)' <=> Queued(c, p))
  PROVE  Holder(c)' = Holder(c)
<1> USE Basics
<1>1. /\ AtGateway(c)' <=> AtGateway(c)
      /\ AtWorker(c)' <=> AtWorker(c)
      /\ InTransit(c)' <=> InTransit(c)
  BY DEF AtGateway, AtWorker, InTransit
<1>2. CASE AtWorker(c)
  <2> PICK w \in Functions : conn(w) = c
    BY <1>2 DEF AtWorker
  <2>1. conn(w)' = c
    OBVIOUS
  <2> QED BY <2>1 DEF HolderMap
<1>3. CASE ~AtWorker(c)
  BY <1>1, <1>3 DEF HolderMap
<1> QED BY <1>2, <1>3

(* The session of the process that steps. *)
LEMMA HeldHere ==
  ASSUME HolderMap, NEW p \in Procs, NEW c \in Conns, conn(p) = c
  PROVE  /\ Holder(c) = IF p = Gateway THEN "gateway" ELSE p
         /\ Holder(c) \in Functions \cup {"gateway"} /\ (p \in Functions => Holder(c) \in Functions)
         /\ Holder(c) \notin {"none", "lost"} /\ client[c] # "idle"
<1>1. p = Gateway \/ p \in Functions
  BY Basics
<1>2. Holder(c) = IF p = Gateway THEN "gateway" ELSE p
  BY <1>1, Basics DEF HolderMap, AtGateway
<1>3. client[c] # "idle"
  BY <1>1 DEF HolderMap, AtGateway, AtWorker
<1> QED BY <1>1, <1>2, <1>3, PlacesDistinct, Basics

(* What is queued for a receiver, and for the others. *)
LEMMA QueueTail ==
  ASSUME TypeInv, NEW p \in Procs, uds[p] # <<>>, Queues(p, Tail(uds[p])), NEW c \in Conns,
         c # Head(uds[p]).conn, NEW q \in Procs
  PROVE  Queued(c, q)' <=> Queued(c, q)
<1>1. Queued(c, q)' => Queued(c, q)
  BY QueueShrinks DEF Queued
<1>2. ASSUME NEW i \in DOMAIN uds[q], uds[q][i].conn = c PROVE Queued(c, q)'
  <2>1. CASE q # p
    BY <1>2, <2>1 DEF Queues, Queued
  <2>2. CASE q = p
    <3> PICK s : s = uds[p]
      OBVIOUS
    <3>1. s \in Seq(Msg) /\ s # <<>> /\ uds'[p] = Tail(s)
      BY TypeFacts DEF Queues
    <3>2. i \in DOMAIN s /\ s[i].conn = c /\ c # Head(s).conn
      BY <1>2, <2>2
    <3>3. i \in 1..Len(s) /\ i # 1
      BY <3>1, <3>2
    <3>4. i - 1 \in DOMAIN Tail(s) /\ Tail(s)[i - 1] = s[i]
      BY <3>1, <3>3
    <3> QED BY <2>2, <3>1, <3>2, <3>4 DEF Queued
  <2> QED BY <2>1, <2>2
<1> QED BY <1>1, <1>2 DEF Queued

LEMMA QueueAppend ==
  ASSUME TypeInv, NEW p \in Procs, NEW t \in Procs, Queues(t, Append(uds[t], msg[p])),
         NEW c \in Conns, NEW q \in Procs
  PROVE  /\ c # msg[p].conn => (Queued(c, q)' <=> Queued(c, q))
         /\ c = msg[p].conn => Queued(c, t)'
<1> PICK s, m : s = uds[t] /\ m = msg[p]
  OBVIOUS
<1>1. s \in Seq(Msg) /\ m \in Msg /\ uds'[t] = Append(s, m)
  BY TypeFacts DEF Queues
<1>2. Len(s) + 1 \in DOMAIN uds'[t] /\ uds'[t][Len(s) + 1] = m
  BY <1>1
<1>3. \A i \in DOMAIN s : i \in DOMAIN uds'[t] /\ uds'[t][i] = s[i]
  BY <1>1
<1>4. \A i \in DOMAIN uds[q] : i \in DOMAIN uds'[q] /\ uds'[q][i] = uds[q][i]
  BY <1>3 DEF Queues
<1>5. Queued(c, q) => Queued(c, q)'
  BY <1>4 DEF Queued
<1>6. c # msg[p].conn /\ Queued(c, q)' => Queued(c, q)
  BY QueueGrows DEF Queued
<1> QED BY <1>2, <1>5, <1>6 DEF Queued

-----------------------------------------------------------------------------
(* Every step is one of SessionOwnership *)

LEMMA SOLose ==
  ASSUME NEW c \in Conns, Holder(c) \notin {"none", "lost"}, Holder(c)' = "lost",
         \A d \in Conns \ {c} : Holder(d)' = Holder(d), UNCHANGED <<consumed, resp>>
  PROVE  SO!Next
<1>1. SO!Lose({c})
  BY DEF SO!Lose
<1> QED BY <1>1 DEF SO!Next

(* The holder takes a record and keeps the session or closes it. *)
LEMMA SOTake ==
  ASSUME NEW c \in Conns, Holder(c) \in Functions \cup {"gateway"},
         Holder(c)' = Holder(c) \/ Holder(c)' = "lost",
         \A d \in Conns \ {c} : Holder(d)' = Holder(d),
         consumed' = [consumed EXCEPT ![c] = consumed[c] + 1], resp' = resp
  PROVE  SO!Next
<1>1. CASE Holder(c)' = Holder(c)
  <2>1. SO!Use(c)
    BY <1>1 DEF SO!Use, SO!Take
  <2> QED BY <2>1 DEF SO!Next
<1>2. CASE Holder(c)' = "lost"
  <2>1. SO!Use(c)
    BY <1>2 DEF SO!Use, SO!Take
  <2> QED BY <2>1 DEF SO!Next
<1> QED BY <1>1, <1>2

LEMMA SOStutter ==
  ASSUME \A d \in Conns : Holder(d)' = Holder(d), UNCHANGED <<consumed, resp>>
  PROVE  UNCHANGED SO!svars
BY DEF SO!svars

LEMMA TakenOne ==
  ASSUME TypeInv, NEW p \in Procs, NEW c \in Conns, TakeRecord(p, c)
  PROVE  UNCHANGED consumed \/ consumed' = [consumed EXCEPT ![c] = consumed[c] + 1]
<1>1. consumed \in [Conns -> Nat]
  BY DEF TypeInv, TypeOK
<1> QED BY <1>1, TakeMoves

LEMMA ClientRefines ==
  ASSUME TypeInv, HolderMap, HolderMap', NEW c \in Conns, ClientStep(c)
  PROVE  SO!Next \/ UNCHANGED SO!svars
<1>1. ClientMoves(c)
  BY ClientStepMoves
<1>2. /\ UNCHANGED <<consumed, resp, uds, msg>> /\ client'[c] # "idle"
      /\ \A d \in Conns \ {c} : client'[d] = client[d]
      /\ backlog' = backlog \/ (client[c] = "idle" /\ backlog' = backlog \cup {c})
  BY <1>1 DEF ClientMoves
<1>3. \A d \in Conns, p \in Procs : (conn(p)' = d <=> conn(p) = d) /\ (Queued(d, p)' <=> Queued(d, p))
  BY <1>2 DEF conn, Queued
<1>4. \A d \in Conns \ {c} : Holder(d)' = Holder(d)
  BY <1>2, <1>3, HolderKept
<1>5. CASE client[c] = "idle"
  <2>1. c \in backlog'
    BY <1>5 DEF ClientStep, Connect, Hello, SendRest, ClientClose, IssueRequest
  <2>2. Holder(c) = "none" /\ Holder(c)' = "gateway"
    BY <1>5, <2>1 DEF HolderMap, AtGateway
  <2>3. SO!Arrive(c)
    BY <1>2, <1>4, <2>2 DEF SO!Arrive
  <2> QED BY <2>3 DEF SO!Next
<1>6. CASE client[c] # "idle"
  <2>1. Holder(c)' = Holder(c)
    BY <1>2, <1>3, <1>6, HolderKept
  <2> QED BY <1>2, <1>4, <2>1, SOStutter
<1> QED BY <1>5, <1>6

LEMMA AcceptsRefines ==
  ASSUME TypeInv, HolderMap, HolderMap', NEW c \in Conns, Accepts(c)
  PROVE  UNCHANGED SO!svars
<1>1. /\ c \in backlog /\ backlog' = backlog \ {c} /\ conn(Gateway)' = c
      /\ conn(Gateway) = NoConn /\ \A p \in Procs \ {Gateway} : conn(p)' = conn(p)
      /\ UNCHANGED <<client, consumed, resp, uds>>
  BY Basics, TypeFacts DEF Accepts, Elsewhere, Waiting
<1>2. \A d \in Conns \ {c} : Holder(d)' = Holder(d)
  <2> SUFFICES ASSUME NEW d \in Conns \ {c} PROVE Holder(d)' = Holder(d)
    OBVIOUS
  <2>1. \A p \in Procs : conn(p)' = d <=> conn(p) = d
    BY <1>1, Basics
  <2>2. \A p \in Procs : Queued(d, p)' <=> Queued(d, p)
    BY <1>1 DEF Queued
  <2>3. (d \in backlog' <=> d \in backlog) /\ (client'[d] = "idle" <=> client[d] = "idle")
    BY <1>1
  <2> QED BY <2>1, <2>2, <2>3, HolderKept
<1>3. Holder(c) = "gateway" /\ Holder(c)' = "gateway"
  BY <1>1 DEF HolderMap, AtGateway
<1> QED BY <1>1, <1>2, <1>3, SOStutter

(* A step that moves no session between processes. *)
LEMMA StaysRefines ==
  ASSUME HolderMap, HolderMap', UNCHANGED <<backlog, uds>>,
         \A d \in Conns : client'[d] = "idle" <=> client[d] = "idle",
         \A p \in Procs : conn(p)' = conn(p)
  PROVE  \A d \in Conns : Holder(d)' = Holder(d)
<1>1. \A d \in Conns, p \in Procs : Queued(d, p)' <=> Queued(d, p)
  BY DEF Queued
<1> QED BY <1>1, HolderKept

LEMMA RespondsRefines ==
  ASSUME TypeInv, HolderMap, HolderMap', NEW w \in Functions, Responds(w)
  PROVE  SO!Next
<1> PICK c : c = conn(w)
  OBVIOUS
<1>1. c \in Conns /\ w \in Procs /\ Holder(c) \in Functions
  BY HeldHere, Basics DEF Responds
<1>2. \A d \in Conns : Holder(d)' = Holder(d)
  BY StaysRefines DEF Responds, conn
<1>3. Len(resp'[c]) = Len(resp[c]) + 1
  <2> PICK s, r : s = resp[c] /\ r = [id |-> msg[w].req.id, by |-> w, seq |-> ssl[w].write]
    OBVIOUS
  <2>1. s \in Seq([id: Nat, by: Functions, seq: Nat]) /\ resp'[c] = Append(s, r)
    BY <1>1, TypeFacts DEF Responds
  <2> QED BY <2>1
<1>4. \A d \in Conns \ {c} : Len(resp'[d]) = Len(resp[d])
  BY DEF Responds, OtherStreams
<1>5. SO!Use(c)
  BY <1>1, <1>2, <1>3, <1>4 DEF SO!Use, SO!Answer, Responds
<1> QED BY <1>1, <1>5 DEF SO!Next

LEMMA ReadsRefines ==
  ASSUME TypeInv, HolderMap, HolderMap', NEW p \in Procs, Reads(p)
  PROVE  SO!Next \/ UNCHANGED SO!svars
<1> PICK c : c = conn(p)
  OBVIOUS
<1>1. c \in Conns /\ Holder(c) \in Functions \cup {"gateway"}
  BY HeldHere DEF Reads
<1>2. \A d \in Conns : Holder(d)' = Holder(d)
  BY StaysRefines DEF Reads, Elsewhere
<1>3. UNCHANGED consumed \/ consumed' = [consumed EXCEPT ![c] = consumed[c] + 1]
  BY <1>1, TakenOne DEF Reads
<1>4. resp' = resp
  BY DEF Reads
<1> QED BY <1>1, <1>2, <1>3, <1>4, SOTake, SOStutter

LEMMA ClosesRefines ==
  ASSUME TypeInv, OwnInv, HolderMap, HolderMap', NEW p \in Procs, Closes(p)
  PROVE  SO!Next
<1> PICK c : c = conn(p)
  OBVIOUS
<1>1. /\ c \in Conns /\ Holder(c) \in Functions \cup {"gateway"}
      /\ Holder(c) \notin {"none", "lost"} /\ client[c] # "idle"
  BY HeldHere DEF Closes
<1>2. /\ conn(p)' = NoConn /\ \A q \in Procs \ {p} : conn(q)' = conn(q)
      /\ UNCHANGED <<client, backlog, uds, resp>>
  BY DEF Closes, Idles, Elsewhere
<1>3. \A d \in Conns, q \in Procs : Queued(d, q)' <=> Queued(d, q)
  BY <1>2 DEF Queued
<1>4. \A d \in Conns \ {c} : Holder(d)' = Holder(d)
  BY <1>2, <1>3, HolderKept, Basics
<1>5. Holder(c)' = "lost"
  <2>1. /\ c \notin backlog /\ \A q \in Procs : ~Queued(c, q)
        /\ \A q \in Procs \ {p} : conn(q) # c
    BY <1>1 DEF OwnInv, SingleUser
  <2>2. ~AtGateway(c)' /\ ~AtWorker(c)' /\ ~InTransit(c)'
    BY <1>1, <1>2, <1>3, <2>1, Basics DEF AtGateway, AtWorker, InTransit
  <2> QED BY <1>1, <1>2, <2>2 DEF HolderMap
<1>6. UNCHANGED consumed \/ consumed' = [consumed EXCEPT ![c] = consumed[c] + 1]
  BY <1>1, TakenOne DEF Closes
<1> QED BY <1>1, <1>2, <1>4, <1>5, <1>6, SOTake, SOLose

LEMMA PassesRefines ==
  ASSUME TypeInv, OwnInv, HolderMap, HolderMap', NEW p \in Procs, Passes(p)
  PROVE  SO!Next
<1> PICK c, t : c = conn(p) /\ t = Target(p)
  OBVIOUS
<1>1. c \in Conns /\ Holder(c) \in Functions \cup {"gateway"}
  BY HeldHere DEF Passes
<1>2. /\ conn(p)' = NoConn /\ \A q \in Procs \ {p} : conn(q)' = conn(q)
      /\ UNCHANGED <<client, backlog, consumed, resp>>
      /\ Queues(t, Append(uds[t], msg[p]))
  BY DEF Passes, Idles, Elsewhere
<1>3. t \in Procs /\ msg[p].conn = c
  BY Basics DEF Passes, Target, TypeInv, ControlInv, ProcControl, conn
<1>4. \A d \in Conns \ {c} : Holder(d)' = Holder(d)
  <2> SUFFICES ASSUME NEW d \in Conns \ {c} PROVE Holder(d)' = Holder(d)
    OBVIOUS
  <2>1. \A q \in Procs : conn(q)' = d <=> conn(q) = d
    BY <1>2, Basics
  <2>2. \A q \in Procs : Queued(d, q)' <=> Queued(d, q)
    BY <1>2, <1>3, QueueAppend
  <2> QED BY <1>2, <2>1, <2>2, HolderKept
<1>5. Holder(c)' = "transit"
  <2>1. Queued(c, t)'
    BY <1>1, <1>2, <1>3, QueueAppend
  <2>2. InTransit(c)'
    BY <1>3, <2>1 DEF InTransit
  <2> QED BY <1>1, <2>2 DEF HolderMap
<1>6. SO!HandOver(c)
  BY <1>1, <1>2, <1>4, <1>5 DEF SO!HandOver
<1> QED BY <1>1, <1>6 DEF SO!Next

(* The first message of a queue leaves it; only its session is concerned. *)
LEMMA MessageTaken ==
  ASSUME TypeInv, OwnInv, HolderMap, HolderMap', NEW p \in Procs, NEW c, c = Head(uds[p]).conn,
         uds[p] # <<>>, Queues(p, Tail(uds[p])), UNCHANGED <<client, backlog>>,
         \A q \in Procs \ {p} : conn(q)' = conn(q), conn(p) = NoConn, conn(p)' \in {c, NoConn}
  PROVE  /\ c \in Conns /\ client[c] # "idle" /\ c \notin backlog
         /\ Holder(c) = "transit" /\ \A d \in Conns \ {c} : Holder(d)' = Holder(d)
         /\ \A q \in Procs : ~Queued(c, q)'
         /\ \A q \in Procs : conn(q) # c
<1>1. 1 \in DOMAIN uds[p] /\ uds[p][1].conn = c /\ c \in Conns
  BY GetsHead DEF Addressed
<1>2. Queued(c, p)
  BY <1>1 DEF Queued
<1>3. client[c] # "idle" /\ c \notin backlog /\ \A q \in Procs : conn(q) # c
  BY <1>1, <1>2 DEF OwnInv, SingleUser
<1>4. Holder(c) = "transit"
  BY <1>1, <1>2 DEF HolderMap, InTransit
<1>5. \A d \in Conns \ {c} : Holder(d)' = Holder(d)
  <2> SUFFICES ASSUME NEW d \in Conns \ {c} PROVE Holder(d)' = Holder(d)
    OBVIOUS
  <2>1. \A q \in Procs : conn(q)' = d <=> conn(q) = d
    BY Basics
  <2>2. \A q \in Procs : Queued(d, q)' <=> Queued(d, q)
    BY QueueTail
  <2> QED BY <2>1, <2>2, HolderKept
<1>6. ASSUME NEW q \in Procs, Queued(c, q)' PROVE FALSE
  <2>1. PICK i \in DOMAIN uds'[q] : uds'[q][i].conn = c
    BY <1>6 DEF Queued
  <2> PICK k : k = IF q = p THEN i + 1 ELSE i
    OBVIOUS
  <2>2. i \in Nat /\ k \in DOMAIN uds[q] /\ uds[q][k].conn = c
    BY <2>1, QueueShrinks
  <2>3. q = p /\ k = 1
    BY <1>1, <2>2, UserParts DEF OwnInv
  <2>4. i = 0
    BY <2>2, <2>3
  <2>5. 0 \notin DOMAIN uds'[p]
    <3> PICK s : s = uds[p]
      OBVIOUS
    <3>1. s \in Seq(Msg) /\ s # <<>> /\ uds'[p] = Tail(s)
      BY TypeFacts DEF Queues
    <3> QED BY <3>1
  <2> QED BY <2>1, <2>3, <2>4, <2>5
<1> QED BY <1>1, <1>3, <1>4, <1>5, <1>6

LEMMA GetsRefines ==
  ASSUME TypeInv, OwnInv, HolderMap, HolderMap', NEW p \in Procs, Gets(p)
  PROVE  SO!Next
<1> PICK c : c = Head(uds[p]).conn
  OBVIOUS
<1>1. /\ conn(p) = NoConn /\ conn(p)' = c /\ \A q \in Procs \ {p} : conn(q)' = conn(q)
      /\ uds[p] # <<>> /\ Queues(p, Tail(uds[p]))
      /\ UNCHANGED <<client, backlog, consumed, resp>>
  BY TypeFacts DEF Gets, Elsewhere, conn, Waiting
<1>2. /\ c \in Conns /\ Holder(c) = "transit"
      /\ \A d \in Conns \ {c} : Holder(d)' = Holder(d)
  BY <1>1, MessageTaken
<1> PICK h : h = IF p = Gateway THEN "gateway" ELSE p
  OBVIOUS
<1>3. h \in Functions \cup {"gateway"} /\ Holder(c)' = h
  BY <1>1, <1>2, Basics DEF HolderMap, AtGateway
<1>4. SO!Receive(c, h)
  BY <1>1, <1>2, <1>3 DEF SO!Receive
<1> QED BY <1>2, <1>3, <1>4 DEF SO!Next

LEMMA LosesRefines ==
  ASSUME TypeInv, OwnInv, HolderMap, HolderMap', NEW p \in Procs, Loses(p)
  PROVE  SO!Next
<1> PICK c : c = Head(uds[p]).conn
  OBVIOUS
<1>1. /\ conn(p) = NoConn /\ conn(p)' = NoConn /\ \A q \in Procs \ {p} : conn(q)' = conn(q)
      /\ uds[p] # <<>> /\ Queues(p, Tail(uds[p]))
      /\ UNCHANGED <<client, backlog, consumed, resp>>
  BY TypeFacts DEF Loses, Idles, Elsewhere, Waiting
<1>2. /\ c \in Conns /\ client[c] # "idle" /\ c \notin backlog /\ Holder(c) = "transit"
      /\ \A d \in Conns \ {c} : Holder(d)' = Holder(d)
      /\ \A q \in Procs : ~Queued(c, q)'
      /\ \A q \in Procs : conn(q) # c
  BY <1>1, MessageTaken
<1>3. ~AtGateway(c)' /\ ~AtWorker(c)' /\ ~InTransit(c)'
  BY <1>1, <1>2, Basics DEF AtGateway, AtWorker, InTransit
<1>4. Holder(c)' = "lost"
  BY <1>1, <1>2, <1>3 DEF HolderMap
<1> QED BY <1>1, <1>2, <1>4, SOLose

LEMMA StepRefines ==
  ASSUME Inv, Inv', [Next]_vars
  PROVE  SO!Next \/ UNCHANGED SO!svars
<1>1. TypeInv /\ OwnInv /\ HolderMap /\ HolderMap'
  BY HolderIs, HolderNext DEF Inv
<1>2. CASE UNCHANGED vars
  <2>1. UNCHANGED <<client, consumed, resp, backlog, uds, msg>>
    BY <1>2 DEF vars, clientVars, streamVars, localVars
  <2>2. \A d \in Conns : Holder(d)' = Holder(d)
    BY <1>1, <2>1, StaysRefines DEF conn
  <2> QED BY <2>1, <2>2, SOStutter
<1>3. ASSUME NEW c \in Conns, ClientStep(c) PROVE SO!Next \/ UNCHANGED SO!svars
  BY <1>1, <1>3, ClientRefines
<1>4. CASE Polls
  <2>1. \A d \in Conns : Holder(d)' = Holder(d)
    BY <1>1, <1>4, StaysRefines DEF Polls, conn
  <2> QED BY <1>4, <2>1, SOStutter DEF Polls
<1>5. CASE Handshakes
  <2>1. \A d \in Conns : client'[d] = "idle" <=> client[d] = "idle"
    BY <1>5 DEF Handshakes
  <2>2. \A d \in Conns : Holder(d)' = Holder(d)
    BY <1>1, <1>5, <2>1, StaysRefines DEF Handshakes, conn
  <2> QED BY <1>5, <2>2, SOStutter DEF Handshakes
<1>6. ASSUME NEW p \in Procs, ProcMoves(p) PROVE SO!Next \/ UNCHANGED SO!svars
  BY <1>1, <1>6, ReadsRefines, ClosesRefines, PassesRefines, GetsRefines, LosesRefines
  DEF ProcMoves
<1>7. CASE GatewayStep
  BY <1>1, <1>4, <1>5, <1>6, <1>7, GatewayStepMoves, AcceptsRefines, Basics
<1>8. ASSUME NEW w \in Functions, WorkerStep(w) PROVE SO!Next \/ UNCHANGED SO!svars
  BY <1>1, <1>6, <1>8, WorkerStepMoves, RespondsRefines, Basics
<1> QED BY <1>2, <1>3, <1>7, <1>8 DEF Next

(***************************************************************************)
(* The hot-potato prototype implements SessionOwnership, with a gateway    *)
(* that reads: copies of descriptors stay open in several processes at     *)
(* once, but only the one that has the session, by import or handshake,    *)
(* reads or writes with it, and a session that any failed call freed is    *)
(* not taken up again from a copy left behind.                             *)
(***************************************************************************)
THEOREM PotatoImplementsOwnership == Spec => ImplementsOwnership
<1>1. Init => SO!Init
  BY DEF Init, SO!Init, Holder
<1>2. Inv /\ Inv' /\ [Next]_vars => [SO!Next]_SO!svars
  BY StepRefines
<1> QED BY <1>1, <1>2, Invariant, PTL DEF Spec, SO!Spec, ImplementsOwnership
=============================================================================
