----------------------------- MODULE HotPotato -----------------------------
(***************************************************************************)
(* "Hot potato" keep-alive migration (faad_optimization-Romero_New).       *)
(*                                                                         *)
(* One gateway process and one worker per function, all single-threaded    *)
(* with blocking calls.  Nothing is peeked at: whoever has the session     *)
(* reads the next request with wolfSSL_read and, if it names another       *)
(* function, exports the session and sends descriptor, state and request.  *)
(* The gateway polls two sockets: its TCP port for new clients (case A)    *)
(* and a Unix socket on which workers return sessions (case B).            *)
(*                                                                         *)
(* SCM_RIGHTS duplicates a descriptor and the code does not always close   *)
(* the sender's: the model counts the copies every process has open, and   *)
(* what happens when its descriptor table is full.                         *)
(***************************************************************************)
EXTENDS Integers, Sequences, FiniteSets

CONSTANTS
  Conns,       \* TCP connections clients open
  Functions,   \* functions; also their workers and their Unix sockets
  Gateway,     \* the gateway; also the socket for returned sessions
  NoConn,      \* no connection
  NoName,      \* no function name
  Requests,    \* Requests[c]: the requests the client of c sends
  MaxRequests, \* bound: requests on one connection
  MaxFds,      \* MaxFds[p]: descriptors p may have for clients and messages
  MaxQueue,    \* pending connections a Unix listening socket holds
  Faulty       \* connections whose client may abort and whose calls may fail

Procs == Functions \cup {Gateway}

(***************************************************************************)
(* A request: what parse_request makes of its first line, and its shape:   *)
(* "one" record that one read returns, "split" over two records, or "long",*)
(* one record that takes two reads of MAX_REQUEST_SZ - 1 bytes.            *)
(***************************************************************************)
Request == [fn: Functions \cup {NoName}, shape: {"one", "split", "long"}]

ASSUME PotatoConstants ==
  /\ IsFiniteSet(Conns) /\ NoConn \notin Conns
  /\ Gateway \notin Functions /\ NoName \notin Procs
  /\ Requests \in [Conns -> SUBSET Request]
  /\ MaxFds \in [Procs -> Nat] /\ MaxFds[Gateway] >= 1 /\ \A w \in Functions : MaxFds[w] >= 2
  /\ MaxRequests \in Nat /\ MaxQueue \in Nat \ {0}
  /\ Faulty \subseteq Conns

VARIABLES
  client,   \* client[c]: idle, connected, hello, secure, gone
  reqs,     \* reqs[c]: the requests issued
  todo,     \* todo[c]: records of the last request not sent yet
  sent,     \* sent[c]: the records sent
  consumed, \* consumed[c]: records taken out of the kernel's buffer
  resp,     \* resp[c]: the responses written
  backlog,  \* connections in the TCP accept queue
  uds,      \* uds[p]: messages in the queue of p's Unix socket
  pc,       \* pc[p]: the blocking call p is in or about to make
  back,     \* fds[1].revents of the gateway's current turn
  msg,      \* msg[p]: p's migration_msg_t
  ssl,      \* ssl[p]: p's wolfSSL session
  copies    \* copies[p][c]: descriptors of c open in p

clientVars == <<client, reqs, todo, sent>>
streamVars == <<consumed, resp>>
localVars == <<pc, back, msg, ssl, copies>>
vars == <<clientVars, streamVars, backlog, uds, localVars>>

(* What one wolfSSL_read returns: (part of) request id, and the function    *)
(* parse_request finds in it.  Only the first part of a request names one.  *)
Chunk == [id: Nat, fn: Functions \cup {NoName}]
First(r, i) == [id |-> i, fn |-> r.fn]
Rest(i) == [id |-> i, fn |-> NoName]

Records(r, i) ==
  CASE r.shape = "one" -> << <<First(r, i)>> >>
    [] r.shape = "split" -> << <<First(r, i)>>, <<Rest(i)>> >>
    [] r.shape = "long" -> << <<First(r, i), Rest(i)>> >>

(* A session: its record numbers, and the reads its decrypted bytes allow.  *)
Session == [read: Nat, write: Nat, pending: Seq(Chunk)]
NoSession == [read |-> 0, write |-> 0, pending |-> <<>>]

(* migration_msg_t with its descriptor: the request read last and the       *)
(* record numbers in the exported blob.                                     *)
Msg == [conn: Conns \cup {NoConn}, req: Chunk, read: Nat, write: Nat]
NoMsg == [conn |-> NoConn, req |-> Rest(0), read |-> 0, write |-> 0]

conn(p) == msg[p].conn

TypeOK ==
  /\ client \in [Conns -> {"idle", "connected", "hello", "secure", "gone"}]
  /\ reqs \in [Conns -> Seq(Request)]
  /\ todo \in [Conns -> Seq(Seq(Chunk))]
  /\ sent \in [Conns -> Seq(Seq(Chunk))]
  /\ consumed \in [Conns -> Nat]
  /\ resp \in [Conns -> Seq([id: Nat, by: Functions, seq: Nat])]
  /\ backlog \subseteq Conns
  /\ uds \in [Procs -> Seq(Msg)]
  /\ pc \in [Procs -> {"poll", "handshake", "first", "send", "back", "resend",
                       "accept", "respond", "next", "return"}]
  /\ back \in BOOLEAN
  /\ msg \in [Procs -> Msg]
  /\ ssl \in [Procs -> Session]
  /\ copies \in [Procs -> [Conns -> Nat]]

Init ==
  /\ client = [c \in Conns |-> "idle"]
  /\ reqs = [c \in Conns |-> <<>>]
  /\ todo = [c \in Conns |-> <<>>]
  /\ sent = [c \in Conns |-> <<>>]
  /\ consumed = [c \in Conns |-> 0]
  /\ resp = [c \in Conns |-> <<>>]
  /\ backlog = {}
  /\ uds = [p \in Procs |-> <<>>]
  /\ pc = [p \in Procs |-> IF p = Gateway THEN "poll" ELSE "accept"]
  /\ back = FALSE
  /\ msg = [p \in Procs |-> NoMsg]
  /\ ssl = [p \in Procs |-> NoSession]
  /\ copies = [p \in Procs |-> [c \in Conns |-> 0]]

Queued(c, p) == \E i \in DOMAIN uds[p] : uds[p][i].conn = c

(* The server's end of c stays open as long as any copy of it exists.       *)
Open(c) == c \in backlog \/ \E p \in Procs : copies[p][c] > 0 \/ Queued(c, p)

(* The client descriptors in p's table, numbered for each connection.       *)
Table(p) == UNION {{c} \X (1..copies[p][c]) : c \in Conns}

(* Descriptors p has open: its copies, and the accepted Unix connection it  *)
(* closes only when it is done with the message it brought.                 *)
Used(p) ==
  Cardinality(Table(p))
    + (IF pc[p] \in {"resend", "respond", "next", "return"} THEN 1 ELSE 0)
Room(p, n) == Used(p) + n <= MaxFds[p]

-----------------------------------------------------------------------------
(* Clients *)

Connect(c) ==
  /\ client[c] = "idle"
  /\ client' = [client EXCEPT ![c] = "connected"]
  /\ backlog' = backlog \cup {c}
  /\ UNCHANGED <<reqs, todo, sent, streamVars, uds, localVars>>

Hello(c) ==
  /\ client[c] = "connected"
  /\ client' = [client EXCEPT ![c] = "hello"]
  /\ UNCHANGED <<reqs, todo, sent, streamVars, backlog, uds, localVars>>

(* The next request, once the last one is sent and answered.                *)
IssueRequest(c, r) ==
  /\ client[c] = "secure" /\ Open(c) /\ todo[c] = <<>>
  /\ Len(reqs[c]) < MaxRequests /\ Len(resp[c]) >= Len(reqs[c])
  /\ reqs' = [reqs EXCEPT ![c] = Append(@, r)]
  /\ LET recs == Records(r, Len(reqs[c]) + 1)
     IN /\ sent' = [sent EXCEPT ![c] = Append(@, Head(recs))]
        /\ todo' = [todo EXCEPT ![c] = Tail(recs)]
  /\ UNCHANGED <<client, streamVars, backlog, uds, localVars>>

SendRest(c) ==
  /\ client[c] = "secure" /\ todo[c] # <<>>
  /\ sent' = [sent EXCEPT ![c] = Append(@, Head(todo[c]))]
  /\ todo' = [todo EXCEPT ![c] = Tail(@)]
  /\ UNCHANGED <<client, reqs, streamVars, backlog, uds, localVars>>

(* A client closes when it has its answers or the server has closed, or, if *)
(* it may abort, at any time.                                               *)
ClientClose(c) ==
  /\ client[c] \in {"connected", "hello", "secure"}
  /\ \/ c \in Faulty
     \/ client[c] = "secure" /\ reqs[c] # <<>> /\ Len(resp[c]) >= Len(reqs[c])
     \/ ~Open(c)
  /\ client' = [client EXCEPT ![c] = "gone"]
  /\ UNCHANGED <<reqs, todo, sent, streamVars, backlog, uds, localVars>>

-----------------------------------------------------------------------------
(* Library calls *)

(* wolfSSL_read returns the rest of a decrypted record or, without one, the  *)
(* next record, if the session's number is the one it was sealed with.       *)
CanRead(p, c) ==
  ssl[p].pending # <<>> \/ (consumed[c] < Len(sent[c]) /\ ssl[p].read = consumed[c])

(* wolfSSL_read returns 0 or an error. *)
ReadFails(p, c) ==
  /\ ssl[p].pending = <<>>
  /\ client[c] = "gone" \/ (consumed[c] < Len(sent[c]) /\ ssl[p].read # consumed[c])

Decrypted(p, c) ==
  IF ssl[p].pending # <<>> THEN ssl[p].pending ELSE sent[c][consumed[c] + 1]

(* The bytes it returns, the session after it, and the kernel's position.    *)
ReadChunk(p, c) == Head(Decrypted(p, c))
AfterRead(p, c) ==
  [ssl[p] EXCEPT !.read = IF ssl[p].pending = <<>> THEN @ + 1 ELSE @,
                 !.pending = Tail(Decrypted(p, c))]
TakeRecord(p, c) ==
  consumed' = [consumed EXCEPT ![c] = IF ssl[p].pending = <<>> THEN @ + 1 ELSE @]

(* Mutant: the session is exported before the request is read. *)
MutExported(p, c, s) ==
  [conn |-> c, req |-> ReadChunk(p, c), read |-> ssl[p].read, write |-> ssl[p].write]

(* The message for the request just read, with session s exported.           *)
Exported(p, c, s) ==
  [conn |-> c, req |-> ReadChunk(p, c), read |-> s.read, write |-> s.write]

AddCopy(p, c) == copies' = [copies EXCEPT ![p][c] = @ + 1]
CloseCopy(p, c) == copies' = [copies EXCEPT ![p][c] = @ - 1]

(* Back to where p waits for work: the gateway goes on to case B if this    *)
(* turn's poll reported the Unix socket.                                    *)
Done(p) ==
  /\ pc' = [pc EXCEPT ![p] =
              IF p # Gateway THEN "accept"
              ELSE IF back /\ pc[p] \in {"poll", "handshake", "first", "send"}
                   THEN "back" ELSE "poll"]
  /\ msg' = [msg EXCEPT ![p] = NoMsg]
  /\ ssl' = [ssl EXCEPT ![p] = NoSession]

(* wolfSSL_free and close(client_fd). *)
CloseConn(p) ==
  /\ Done(p)
  /\ CloseCopy(p, conn(p))
  /\ UNCHANGED <<clientVars, resp, backlog, uds, back>>

(* send_to_worker, send_back_to_gateway: socket, connect (which blocks while *)
(* the queue is full) and sendmsg.  If the last one fails the peer accepts   *)
(* and closes an empty connection, which is left out.                        *)
Send(p, q) ==
  /\ Room(p, 1) /\ Len(uds[q]) < MaxQueue
  /\ uds' = [uds EXCEPT ![q] = Append(@, msg[p])]

SendFails(p) ==
  /\ ~Room(p, 1) \/ conn(p) \in Faulty
  /\ UNCHANGED uds

(* receive_back, receive_handoff: recvmsg fails, or installs no descriptor   *)
(* for want of room; either way it is lost.                                  *)
ReceiveFails(p) ==
  /\ uds[p] # <<>>
  /\ ~Room(p, 2) \/ Head(uds[p]).conn \in Faulty
  /\ uds' = [uds EXCEPT ![p] = Tail(@)]
  /\ Done(p)
  /\ UNCHANGED <<clientVars, streamVars, backlog, back, copies>>

Receive(p, next) ==
  /\ uds[p] # <<>> /\ Room(p, 2)
  /\ uds' = [uds EXCEPT ![p] = Tail(@)]
  /\ msg' = [msg EXCEPT ![p] = Head(uds[p])]
  /\ pc' = [pc EXCEPT ![p] = next]
  /\ AddCopy(p, Head(uds[p]).conn)

-----------------------------------------------------------------------------
(* The gateway: main *)

(* poll, and case A: accept. *)
Accept(c) ==
  /\ pc[Gateway] = "poll" /\ c \in backlog /\ Room(Gateway, 1)
  /\ back' = (uds[Gateway] # <<>>)
  /\ backlog' = backlog \ {c}
  /\ pc' = [pc EXCEPT ![Gateway] = "handshake"]
  /\ msg' = [msg EXCEPT ![Gateway].conn = c]
  /\ AddCopy(Gateway, c)
  /\ UNCHANGED <<clientVars, streamVars, uds, ssl>>

(* poll reports only the Unix socket. *)
PollBack ==
  /\ pc[Gateway] = "poll" /\ uds[Gateway] # <<>> /\ backlog = {}
  /\ back' = TRUE
  /\ pc' = [pc EXCEPT ![Gateway] = "back"]
  /\ UNCHANGED <<clientVars, streamVars, backlog, uds, msg, ssl, copies>>

Handshake ==
  /\ pc[Gateway] = "handshake" /\ client[conn(Gateway)] = "hello"
  /\ client' = [client EXCEPT ![conn(Gateway)] = "secure"]
  /\ pc' = [pc EXCEPT ![Gateway] = "first"]
  /\ UNCHANGED <<reqs, todo, sent, streamVars, backlog, uds, back, msg, ssl, copies>>

HandshakeFails ==
  /\ pc[Gateway] = "handshake"
  /\ \/ client[conn(Gateway)] = "gone"
     \/ client[conn(Gateway)] = "hello" /\ conn(Gateway) \in Faulty
  /\ CloseConn(Gateway)
  /\ UNCHANGED consumed

(* wolfSSL_read and parse_request succeed: export, and free the session.    *)
ReadFirst ==
  /\ pc[Gateway] = "first" /\ CanRead(Gateway, conn(Gateway))
  /\ ReadChunk(Gateway, conn(Gateway)).fn # NoName
  /\ TakeRecord(Gateway, conn(Gateway))
  /\ msg' = [msg EXCEPT ![Gateway] =
               Exported(Gateway, conn(Gateway), AfterRead(Gateway, conn(Gateway)))]
  /\ ssl' = [ssl EXCEPT ![Gateway] = NoSession]
  /\ pc' = [pc EXCEPT ![Gateway] = "send"]
  /\ UNCHANGED <<clientVars, resp, backlog, uds, back, copies>>

ReadFirstFails ==
  /\ pc[Gateway] = "first"
  /\ \/ ReadFails(Gateway, conn(Gateway)) /\ UNCHANGED consumed
     \/ /\ CanRead(Gateway, conn(Gateway))
        /\ ReadChunk(Gateway, conn(Gateway)).fn = NoName
        /\ TakeRecord(Gateway, conn(Gateway))
  /\ CloseConn(Gateway)

(* send_to_worker: the gateway's copy is closed only if it fails.           *)
SendFirst ==
  /\ pc[Gateway] = "send"
  /\ \/ Send(Gateway, msg[Gateway].req.fn) /\ UNCHANGED copies
     \/ SendFails(Gateway) /\ CloseCopy(Gateway, conn(Gateway))
  /\ Done(Gateway)
  /\ UNCHANGED <<clientVars, streamVars, backlog, back>>

(* Case B: accept and receive_back; parse_request finds what the worker's   *)
(* parse_request_local found.                                               *)
ReceiveBack ==
  /\ pc[Gateway] = "back"
  /\ \/ Receive(Gateway, "resend") /\ UNCHANGED <<clientVars, streamVars, backlog, back, ssl>>
     \/ ReceiveFails(Gateway)

(* Mutant: case B, like case A, closes its copy only on failure. *)
MutResend ==
  /\ pc[Gateway] = "resend"
  /\ \/ Send(Gateway, msg[Gateway].req.fn) /\ UNCHANGED copies
     \/ SendFails(Gateway) /\ CloseCopy(Gateway, conn(Gateway))
  /\ Done(Gateway)
  /\ UNCHANGED <<clientVars, streamVars, backlog, back>>

(* send_to_worker; here the copy is closed in any case.                     *)
Resend ==
  /\ pc[Gateway] = "resend"
  /\ Send(Gateway, msg[Gateway].req.fn) \/ SendFails(Gateway)
  /\ CloseCopy(Gateway, conn(Gateway))
  /\ Done(Gateway)
  /\ UNCHANGED <<clientVars, streamVars, backlog, back>>

GatewayStep ==
  \/ \E c \in Conns : Accept(c)
  \/ PollBack \/ Handshake \/ HandshakeFails
  \/ ReadFirst \/ ReadFirstFails \/ SendFirst
  \/ ReceiveBack \/ Resend

-----------------------------------------------------------------------------
(* A worker: main *)

(* accept, receive_handoff, wolfSSL_tls_import. *)
ReceiveHandoff(w) ==
  /\ pc[w] = "accept"
  /\ \/ /\ Receive(w, "respond")
        /\ ssl' = [ssl EXCEPT ![w] = [read |-> Head(uds[w]).read,
                                      write |-> Head(uds[w]).write, pending |-> <<>>]]
        /\ UNCHANGED <<clientVars, streamVars, backlog, back>>
     \/ ReceiveFails(w)

(* wolfSSL_write; its result is ignored. *)
Respond(w) ==
  /\ pc[w] = "respond"
  /\ resp' = [resp EXCEPT ![conn(w)] =
                Append(@, [id |-> msg[w].req.id, by |-> w, seq |-> ssl[w].write])]
  /\ ssl' = [ssl EXCEPT ![w].write = @ + 1]
  /\ pc' = [pc EXCEPT ![w] = "next"]
  /\ UNCHANGED <<clientVars, consumed, backlog, uds, back, msg, copies>>

(* Mutant: the worker answers whatever it reads. *)
MutReadNextOwn(w) ==
  /\ pc[w] = "next" /\ CanRead(w, conn(w))
  /\ ReadChunk(w, conn(w)).fn # NoName
  /\ TakeRecord(w, conn(w))
  /\ msg' = [msg EXCEPT ![w].req = ReadChunk(w, conn(w))]
  /\ ssl' = [ssl EXCEPT ![w] = AfterRead(w, conn(w))]
  /\ pc' = [pc EXCEPT ![w] = "respond"]
  /\ UNCHANGED <<clientVars, resp, backlog, uds, back, copies>>

(* The next request is this worker's own ... *)
ReadNextOwn(w) ==
  /\ pc[w] = "next" /\ CanRead(w, conn(w))
  /\ ReadChunk(w, conn(w)).fn = w
  /\ TakeRecord(w, conn(w))
  /\ msg' = [msg EXCEPT ![w].req = ReadChunk(w, conn(w))]
  /\ ssl' = [ssl EXCEPT ![w] = AfterRead(w, conn(w))]
  /\ pc' = [pc EXCEPT ![w] = "respond"]
  /\ UNCHANGED <<clientVars, resp, backlog, uds, back, copies>>

(* ... or another's: export, and free the session.                          *)
ReadNextOther(w) ==
  /\ pc[w] = "next" /\ CanRead(w, conn(w))
  /\ ReadChunk(w, conn(w)).fn \notin {w, NoName}
  /\ TakeRecord(w, conn(w))
  /\ msg' = [msg EXCEPT ![w] = Exported(w, conn(w), AfterRead(w, conn(w)))]
  /\ ssl' = [ssl EXCEPT ![w] = NoSession]
  /\ pc' = [pc EXCEPT ![w] = "return"]
  /\ UNCHANGED <<clientVars, resp, backlog, uds, back, copies>>

(* Mutant: end of file is not told apart from "nothing yet". *)
MutReadNextFails(w) ==
  /\ pc[w] = "next" /\ CanRead(w, conn(w))
  /\ ReadChunk(w, conn(w)).fn = NoName
  /\ TakeRecord(w, conn(w))
  /\ CloseConn(w)

ReadNextFails(w) ==
  /\ pc[w] = "next"
  /\ \/ ReadFails(w, conn(w)) /\ UNCHANGED consumed
     \/ /\ CanRead(w, conn(w))
        /\ ReadChunk(w, conn(w)).fn = NoName
        /\ TakeRecord(w, conn(w))
  /\ CloseConn(w)

(* Mutant: the loop goes on after the session was sent back. *)
MutSendBack(w) ==
  /\ pc[w] = "return"
  /\ Send(w, Gateway) /\ UNCHANGED copies
  /\ pc' = [pc EXCEPT ![w] = "next"]
  /\ UNCHANGED <<clientVars, streamVars, backlog, back, msg, ssl>>

(* Mutant: send_back_to_gateway, too, closes the descriptor when it fails. *)
MutSendBackTwice(w) ==
  /\ pc[w] = "return"
  /\ \/ Send(w, Gateway) /\ UNCHANGED copies
     \/ SendFails(w) /\ copies' = [copies EXCEPT ![w][conn(w)] = @ - 2]
  /\ Done(w)
  /\ UNCHANGED <<clientVars, streamVars, backlog, back>>

(* send_back_to_gateway: the worker's copy is closed only if it fails.      *)
SendBack(w) ==
  /\ pc[w] = "return"
  /\ \/ Send(w, Gateway) /\ UNCHANGED copies
     \/ SendFails(w) /\ CloseCopy(w, conn(w))
  /\ Done(w)
  /\ UNCHANGED <<clientVars, streamVars, backlog, back>>

WorkerStep(w) ==
  \/ ReceiveHandoff(w) \/ Respond(w)
  \/ ReadNextOwn(w) \/ ReadNextOther(w) \/ ReadNextFails(w) \/ SendBack(w)

-----------------------------------------------------------------------------

ClientStep(c) ==
  \/ Connect(c) \/ Hello(c) \/ SendRest(c) \/ ClientClose(c)
  \/ \E r \in Requests[c] : IssueRequest(c, r)

Next ==
  \/ \E c \in Conns : ClientStep(c)
  \/ GatewayStep
  \/ \E w \in Functions : WorkerStep(w)

Spec == Init /\ [][Next]_vars

(***************************************************************************)
(* The three processes are scheduled and their calls return once what they *)
(* wait for is there; clients finish the handshake, send their requests    *)
(* and close an idle connection.                                           *)
(***************************************************************************)
Fairness ==
  /\ \A c \in Conns : WF_vars(ClientStep(c))
  /\ WF_vars(GatewayStep)
  /\ \A w \in Functions : WF_vars(WorkerStep(w))

FairSpec == Spec /\ Fairness

-----------------------------------------------------------------------------
(* Properties *)

(***************************************************************************)
(* However many copies of its descriptor are left behind, a session is in  *)
(* use in one place: one process works on it, or one message carries it,   *)
(* or it waits in the accept queue.                                        *)
(***************************************************************************)
SingleUser ==
  \A c \in Conns :
    /\ \A p, q \in Procs : conn(p) = c /\ conn(q) = c => p = q
    /\ \A p, q \in Procs : conn(p) = c => ~Queued(c, q)
    /\ \A p, q \in Procs : \A i \in DOMAIN uds[p], j \in DOMAIN uds[q] :
         uds[p][i].conn = c /\ uds[q][j].conn = c => p = q /\ i = j
    /\ c \in backlog => \A p \in Procs : conn(p) # c /\ ~Queued(c, p)

(* s holds the numbers of c's next record and next response. *)
InStep(c, s) == s.read = consumed[c] /\ s.write = Len(resp[c])

(***************************************************************************)
(* A request is read before the session that read it is exported, and the  *)
(* response is written after it is imported elsewhere: sessions and        *)
(* messages have the connection's current numbers, and no write nonce is   *)
(* used twice or skipped.                                                  *)
(***************************************************************************)
RecordsInStep ==
  /\ \A p \in Procs :
       /\ pc[p] \in {"first", "respond", "next"} => InStep(conn(p), ssl[p])
       /\ pc[p] \in {"send", "resend", "return"} => InStep(conn(p), msg[p])
       /\ \A i \in DOMAIN uds[p] : InStep(uds[p][i].conn, uds[p][i])
  /\ \A c \in Conns : \A i \in DOMAIN resp[c] : resp[c][i].seq = i - 1

(* Every request of c is one record that one read returns. *)
OneReadEach(c) == \A i \in DOMAIN reqs[c] : reqs[c][i].shape = "one"

(***************************************************************************)
(* The i-th response answers the i-th request and comes from the worker it *)
(* names, as long as the client's requests are one read each: the code     *)
(* takes what one wolfSSL_read returns for one request.                    *)
(***************************************************************************)
AnsweredByNamed ==
  \A c \in Conns : OneReadEach(c) => \A i \in DOMAIN resp[c] :
    resp[c][i].id = i /\ resp[c][i].by = reqs[c][i].fn

(* Responses w wrote on c. *)
Served(w, c) == Cardinality({i \in DOMAIN resp[c] : resp[c][i].by = w})

(***************************************************************************)
(* gateway.c: "On ferme TOUJOURS notre copie locale".  Redirecting a       *)
(* session leaves nothing behind in the gateway: besides the one it works  *)
(* on it has at most the copy case A left.  A worker keeps one copy per    *)
(* stay of the session, each of which wrote a response.  And the copies    *)
(* never wedge a process: a hand-over succeeds only with a descriptor to   *)
(* spare for its socket, so the gateway back in poll can accept a client   *)
(* and a worker back in accept can receive a session.                      *)
(***************************************************************************)
CopiesBounded ==
  /\ \A c \in Conns :
       /\ copies[Gateway][c] <= 1 + (IF pc[Gateway] = "resend" /\ conn(Gateway) = c THEN 1 ELSE 0)
       /\ \A w \in Functions :
            copies[w][c] <= Served(w, c) + (IF pc[w] = "respond" /\ conn(w) = c THEN 1 ELSE 0)
  /\ pc[Gateway] = "poll" => Room(Gateway, 1)
  /\ \A w \in Functions : pc[w] = "accept" => Room(w, 2)

(* Every request of c names a function. *)
Routable(c) == \A i \in DOMAIN reqs[c] : reqs[c][i].fn # NoName

(* The copies left in p leave no room to receive a session and pass it on.  *)
Exhausted(p) == Used(p) + 3 > MaxFds[p] /\ conn(p) = NoConn

(***************************************************************************)
(* A client that behaves has every request for a deployed function         *)
(* answered, whatever happens on other connections, until the copies left  *)
(* behind fill some process's descriptor table.                            *)
(***************************************************************************)
RequestsAnswered ==
  \A c \in Conns \ Faulty : \A n \in 1..MaxRequests :
    Len(reqs[c]) = n /\ OneReadEach(c) /\ Routable(c)
      ~> Len(resp[c]) >= n \/ \E p \in Procs : Exhausted(p)
=============================================================================
