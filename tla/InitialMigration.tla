-------------------------- MODULE InitialMigration --------------------------
(***************************************************************************)
(* One-request TLS migration (prototype/faasd_tlsmigrate).                 *)
(*                                                                         *)
(* The gateway's goroutine completes the handshake, peeks at the first     *)
(* record, exports the session and sends descriptor and state to the       *)
(* function the request line names.  The function's worker peeks at the    *)
(* same record again, refuses a connection whose request is not its own,   *)
(* restores the session, reads one request, answers it and closes.         *)
(***************************************************************************)
EXTENDS Integers, Sequences, FiniteSets, FiniteSetsExt

CONSTANTS
  Conns,        \* TCP connections clients open
  Functions,    \* functions with a deployed worker (and its socket)
  Names,        \* function names a request line can carry
  Prefixes,     \* Prefixes[n]: the names n starts with
  GatewayNames, \* those whose characters parseFunctionName accepts
  WorkerNames,  \* those that fit parse_request_owner's buffer
  Gateway,      \* the goroutine of Run
  NoConn,       \* no connection
  NoName,       \* no function name
  Requests,     \* Requests[c]: the requests the client of c may send
  BufSize,      \* room for headers in handle_one_request's buffer, in tokens
  MaxQueue,     \* pending connections a Unix listening socket holds
  Faulty        \* connections whose client may abort and whose calls may fail

Procs == Functions \cup {Gateway}

(***************************************************************************)
(* A request: the name in its path; its line ("whole", "cut" where it      *)
(* falls into two records, "bare" without an HTTP version); lengths of     *)
(* headers and body; whether Content-Length announces the body; whether    *)
(* the client sends bytes of a second request after it.                    *)
(***************************************************************************)
Request == [fn: Names, line: {"whole", "cut", "bare"}, hdr: Nat, body: Nat,
            framed: BOOLEAN, extra: BOOLEAN]

ASSUME InitialConstants ==
  /\ Functions \subseteq Names /\ GatewayNames \subseteq Names /\ WorkerNames \subseteq Names
  /\ Prefixes \in [Names -> SUBSET Names]
  /\ NoName \notin Names /\ Gateway \notin Functions /\ NoConn \notin Conns
  /\ Requests \in [Conns -> SUBSET Request]
  /\ BufSize \in Nat \ {0} /\ MaxQueue \in Nat \ {0}
  /\ Faulty \subseteq Conns

VARIABLES
  client,   \* client[c]: idle, connected, hello, secure, sending, gone
  req,      \* req[c]: the client's request
  todo,     \* todo[c]: its plaintext not yet sent
  sent,     \* sent[c]: the records sent
  partial,  \* connections whose last record has arrived only in part
  consumed, \* consumed[c]: records taken out of the kernel's buffer
  resp,     \* resp[c]: the workers that wrote a response
  reset,    \* connections the server's kernel has reset
  got,      \* connections whose client has read its response
  backlog,  \* connections in the TCP accept queue
  uds,      \* uds[w]: messages in the queue of w's Unix socket
  pc,       \* pc[p]: the blocking call p is in or about to make
  conn,     \* conn[p]: the connection p works on
  fds,      \* fds[p]: the client descriptors open in p
  target,   \* fnName of Run
  seq,      \* seq[p]: read_seq_num in p's payload
  ssl,      \* ssl[p]: record number and undelivered bytes of p's session
  buf,      \* buf[p]: header bytes read
  want      \* want[p]: body bytes still to read

clientVars == <<client, req, todo, sent, partial, got>>
workVars == <<seq, ssl, buf, want>>
localVars == <<pc, conn, fds, target, workVars>>
serverVars == <<consumed, resp, reset, backlog, uds, localVars>>
vars == <<clientVars, serverVars>>

Token == {"half", "line", "hdr", "end", "body", "next"}

Plaintext(r) ==
  (IF r.line = "cut" THEN <<"half", "line">> ELSE <<"line">>)
    \o [i \in 1..r.hdr |-> "hdr"] \o <<"end">>
    \o [i \in 1..r.body |-> "body"]
    \o (IF r.extra THEN <<"next">> ELSE <<>>)

Session == [read: Nat, pending: Seq(Token)]
NoSession == [read |-> 0, pending |-> <<>>]

(* tlsmigrate_payload_t and its descriptor. *)
Msg == [conn: Conns, seq: Nat]

TypeOK ==
  /\ client \in [Conns -> {"idle", "connected", "hello", "secure", "sending", "gone"}]
  /\ req \in [Conns -> Request]
  /\ partial \subseteq Conns
  /\ todo \in [Conns -> Seq(Token)]
  /\ sent \in [Conns -> Seq(Seq(Token))]
  /\ consumed \in [Conns -> Nat]
  /\ resp \in [Conns -> Seq(Functions)]
  /\ reset \subseteq Conns /\ got \subseteq Conns /\ backlog \subseteq Conns
  /\ uds \in [Functions -> Seq(Msg)]
  /\ pc \in [Procs -> {"accept", "handshake", "peek", "send", "verify", "restore",
                       "headers", "body", "respond"}]
  /\ conn \in [Procs -> Conns \cup {NoConn}]
  /\ fds \in [Procs -> SUBSET Conns]
  /\ target \in Names \cup {NoName}
  /\ seq \in [Procs -> Nat]
  /\ ssl \in [Procs -> Session]
  /\ buf \in [Procs -> Seq(Token)] /\ \A p \in Procs : Len(buf[p]) <= BufSize
  /\ want \in [Procs -> Nat]

Init ==
  /\ client = [c \in Conns |-> "idle"]
  /\ req \in {r \in [Conns -> UNION {Requests[c] : c \in Conns}] :
               \A c \in Conns : r[c] \in Requests[c]}
  /\ partial = {}
  /\ todo = [c \in Conns |-> <<>>]
  /\ sent = [c \in Conns |-> <<>>]
  /\ consumed = [c \in Conns |-> 0]
  /\ resp = [c \in Conns |-> <<>>]
  /\ reset = {} /\ got = {} /\ backlog = {}
  /\ uds = [w \in Functions |-> <<>>]
  /\ pc = [p \in Procs |-> "accept"]
  /\ conn = [p \in Procs |-> NoConn]
  /\ fds = [p \in Procs |-> {}]
  /\ target = NoName
  /\ seq = [p \in Procs |-> 0]
  /\ ssl = [p \in Procs |-> NoSession]
  /\ buf = [p \in Procs |-> <<>>]
  /\ want = [p \in Procs |-> 0]

InTransit(c) == \E w \in Functions : \E i \in DOMAIN uds[w] : uds[w][i].conn = c
Open(c) == c \in backlog \/ InTransit(c) \/ \E p \in Procs : c \in fds[p]

-----------------------------------------------------------------------------
(* Clients *)

Connect(c) ==
  /\ client[c] = "idle"
  /\ client' = [client EXCEPT ![c] = "connected"]
  /\ backlog' = backlog \cup {c}
  /\ UNCHANGED <<req, todo, sent, partial, got, consumed, resp, reset, uds, localVars>>

Hello(c) ==
  /\ client[c] = "connected"
  /\ client' = [client EXCEPT ![c] = "hello"]
  /\ UNCHANGED <<req, todo, sent, partial, got, serverVars>>

IssueRequest(c) ==
  /\ client[c] = "secure"
  /\ client' = [client EXCEPT ![c] = "sending"]
  /\ todo' = [todo EXCEPT ![c] = Plaintext(req[c])]
  /\ UNCHANGED <<req, sent, partial, got, serverVars>>

(* The next k tokens in a record, of which the network may deliver a part   *)
(* first; a line to be cut has its first half in a record of its own.       *)
(* A closed connection answers with a reset.                                *)
SendRecord(c, k, cut) ==
  /\ client[c] = "sending" /\ k \in 1..Len(todo[c])
  /\ todo[c][1] = "half" => k = 1
  /\ c \notin partial
  /\ todo' = [todo EXCEPT ![c] = SubSeq(@, k + 1, Len(@))]
  /\ sent' = [sent EXCEPT ![c] = Append(@, SubSeq(todo[c], 1, k))]
  /\ partial' = IF cut THEN partial \cup {c} ELSE partial
  /\ reset' = IF Open(c) THEN reset ELSE reset \cup {c}
  /\ UNCHANGED <<client, req, got, consumed, resp, backlog, uds, localVars>>

RestArrives(c) ==
  /\ c \in partial /\ client[c] = "sending"
  /\ partial' = partial \ {c}
  /\ UNCHANGED <<client, req, todo, sent, got, serverVars>>

ReadResponse(c) ==
  /\ client[c] = "sending" /\ resp[c] # <<>> /\ c \notin got
  /\ got' = got \cup {c}
  /\ UNCHANGED <<client, req, todo, sent, partial, serverVars>>

(* The client has its response, or sees the connection closed (a reset may  *)
(* discard a response it had not read), or aborts.                          *)
ClientClose(c) ==
  /\ client[c] \notin {"idle", "gone"}
  /\ c \in Faulty \cup got \cup reset \/ (~Open(c) /\ resp[c] = <<>>)
  /\ client' = [client EXCEPT ![c] = "gone"]
  /\ UNCHANGED <<req, todo, sent, partial, got, serverVars>>

ClientStep(c) ==
  \/ Connect(c) \/ Hello(c) \/ IssueRequest(c) \/ RestArrives(c)
  \/ ReadResponse(c) \/ ClientClose(c)
  \/ \E k \in 1..Len(todo[c]), cut \in BOOLEAN : SendRecord(c, k, cut)

-----------------------------------------------------------------------------
(* Library calls *)

Arrived(c) == Len(sent[c]) - (IF c \in partial THEN 1 ELSE 0)

(* tls_read_peek: the first record is in the kernel's buffer as a whole and *)
(* n is the number the client sealed it with.  It fails if the record is    *)
(* there in part, or the client has gone without sending one.               *)
PeekDecrypts(c, n) == consumed[c] < Arrived(c) /\ n = consumed[c]
PeekReturns(c) == consumed[c] < Len(sent[c]) \/ client[c] = "gone"
Peeked(c) == sent[c][consumed[c] + 1]

(* wolfSSL_read blocks until it has bytes or the client is gone.            *)
RecordReadable(p, c) ==
  ssl[p].pending = <<>> /\ consumed[c] < Arrived(c) /\ ssl[p].read = consumed[c]

(* close: unread bytes in the kernel's buffer turn it into a reset.          *)
Close(p, c) ==
  /\ fds' = [fds EXCEPT ![p] = @ \ {c}]
  /\ reset' = IF consumed[c] < Len(sent[c]) THEN reset \cup {c} ELSE reset

(* p is back in its accept call. *)
Idle(p) ==
  /\ pc' = [pc EXCEPT ![p] = "accept"]
  /\ conn' = [conn EXCEPT ![p] = NoConn]
  /\ target' = IF p = Gateway THEN NoName ELSE target
  /\ seq' = [seq EXCEPT ![p] = 0]
  /\ ssl' = [ssl EXCEPT ![p] = NoSession]
  /\ buf' = [buf EXCEPT ![p] = <<>>]
  /\ want' = [want EXCEPT ![p] = 0]

CloseConn(p) ==
  /\ Close(p, conn[p])
  /\ Idle(p)
  /\ UNCHANGED <<clientVars, consumed, resp, backlog, uds>>

-----------------------------------------------------------------------------
(* The gateway: Run, tlsmigrate_accept_peek_export, tlsmigrate_send_fd *)

Accept(c) ==
  /\ pc[Gateway] = "accept" /\ c \in backlog
  /\ backlog' = backlog \ {c}
  /\ pc' = [pc EXCEPT ![Gateway] = "handshake"]
  /\ conn' = [conn EXCEPT ![Gateway] = c]
  /\ fds' = [fds EXCEPT ![Gateway] = @ \cup {c}]
  /\ UNCHANGED <<clientVars, consumed, resp, reset, uds, target, workVars>>

Handshake ==
  /\ pc[Gateway] = "handshake" /\ client[conn[Gateway]] = "hello"
  /\ client' = [client EXCEPT ![conn[Gateway]] = "secure"]
  /\ pc' = [pc EXCEPT ![Gateway] = "peek"]
  /\ UNCHANGED <<req, todo, sent, partial, got, consumed, resp, reset, backlog, uds,
                 conn, fds, target, workVars>>

HandshakeFails ==
  /\ pc[Gateway] = "handshake"
  /\ \/ client[conn[Gateway]] = "gone"
     \/ client[conn[Gateway]] = "hello" /\ conn[Gateway] \in Faulty
  /\ CloseConn(Gateway)

(* parseFunctionName.  A record without a line break is taken for the line, *)
(* so one that cuts the line may show only the start of the name.           *)
ParsedNames(c) ==
  LET seen == IF Peeked(c)[1] = "half" THEN Prefixes[req[c].fn] \cup {NoName}
              ELSE {req[c].fn}
  IN {IF n \in GatewayNames THEN n ELSE NoName : n \in seen}

(* Mutant: the gateway reads the request instead of peeking at it. *)
MutPeekAndExport(f) ==
  LET c == conn[Gateway] IN
  /\ pc[Gateway] = "peek" /\ PeekDecrypts(c, seq[Gateway])
  /\ f \in ParsedNames(c) \ {NoName}
  /\ consumed' = [consumed EXCEPT ![c] = @ + 1]
  /\ seq' = [seq EXCEPT ![Gateway] = @ + 1]
  /\ pc' = [pc EXCEPT ![Gateway] = "send"]
  /\ target' = f
  /\ UNCHANGED <<clientVars, resp, reset, backlog, uds, conn, fds, ssl, buf, want>>

(* Mutant: the peek advances the number that is exported. *)
MutPeekAdvances(f) ==
  /\ pc[Gateway] = "peek" /\ PeekDecrypts(conn[Gateway], seq[Gateway])
  /\ f \in ParsedNames(conn[Gateway]) \ {NoName}
  /\ seq' = [seq EXCEPT ![Gateway] = @ + 1]
  /\ pc' = [pc EXCEPT ![Gateway] = "send"]
  /\ target' = f
  /\ UNCHANGED <<clientVars, consumed, resp, reset, backlog, uds, conn, fds, ssl, buf, want>>

(* tls_read_peek, wolfSSL_tls_export, parseFunctionName. *)
PeekAndExport(f) ==
  /\ pc[Gateway] = "peek" /\ PeekDecrypts(conn[Gateway], seq[Gateway])
  /\ f \in ParsedNames(conn[Gateway]) \ {NoName}
  /\ pc' = [pc EXCEPT ![Gateway] = "send"]
  /\ target' = f
  /\ UNCHANGED <<clientVars, consumed, resp, reset, backlog, uds, conn, fds, workVars>>

(* The peek or the export fails, or the record names no function. *)
PeekAndExportFails ==
  LET c == conn[Gateway] IN
  /\ pc[Gateway] = "peek" /\ PeekReturns(c)
  /\ PeekDecrypts(c, seq[Gateway]) => c \in Faulty \/ NoName \in ParsedNames(c)
  /\ CloseConn(Gateway)

(* unix_client_connect, which waits for room in the queue, and             *)
(* sendfd_with_state, which closes the gateway's descriptor.               *)
SendFd ==
  LET c == conn[Gateway] IN
  /\ pc[Gateway] = "send" /\ target \in Functions
  /\ Len(uds[target]) < MaxQueue
  /\ uds' = [uds EXCEPT ![target] = Append(@, [conn |-> c, seq |-> seq[Gateway]])]
  /\ fds' = [fds EXCEPT ![Gateway] = @ \ {c}]
  /\ Idle(Gateway)
  /\ UNCHANGED <<clientVars, consumed, resp, reset, backlog>>

(* Nobody listens on the socket, or a call fails: the connection is closed. *)
SendFdFails ==
  /\ pc[Gateway] = "send"
  /\ target \notin Functions \/ conn[Gateway] \in Faulty
  /\ CloseConn(Gateway)

GatewayStep ==
  \/ \E c \in Conns : Accept(c)
  \/ Handshake \/ HandshakeFails
  \/ \E f \in Names : PeekAndExport(f)
  \/ PeekAndExportFails \/ SendFd \/ SendFdFails

-----------------------------------------------------------------------------
(* A worker: main, handle_one_request *)

RecvFd(w) ==
  LET m == Head(uds[w]) IN
  /\ pc[w] = "accept" /\ uds[w] # <<>>
  /\ uds' = [uds EXCEPT ![w] = Tail(@)]
  /\ pc' = [pc EXCEPT ![w] = "verify"]
  /\ conn' = [conn EXCEPT ![w] = m.conn]
  /\ fds' = [fds EXCEPT ![w] = @ \cup {m.conn}]
  /\ seq' = [seq EXCEPT ![w] = m.seq]
  /\ UNCHANGED <<clientVars, consumed, resp, reset, backlog, target, ssl, buf, want>>

(* recvmsg fails, and the descriptor is closed with the message.            *)
RecvFdFails(w) ==
  LET c == Head(uds[w]).conn IN
  /\ pc[w] = "accept" /\ uds[w] # <<>> /\ c \in Faulty
  /\ uds' = [uds EXCEPT ![w] = Tail(@)]
  /\ reset' = IF consumed[c] < Len(sent[c]) THEN reset \cup {c} ELSE reset
  /\ UNCHANGED <<clientVars, consumed, resp, backlog, localVars>>

(* peek_owner_from_kernel with parse_request_owner, which wants the blank   *)
(* after the name.                                                          *)
RequestOwner(c, n) ==
  IF /\ PeekDecrypts(c, n) /\ Peeked(c)[1] = "line" /\ req[c].line # "bare"
     /\ req[c].fn \in WorkerNames
  THEN req[c].fn ELSE NoName

(* Mutant: a connection that arrived is the worker's own. *)
MutVerify(w) ==
  /\ pc[w] = "verify"
  /\ pc' = [pc EXCEPT ![w] = "restore"]
  /\ UNCHANGED <<clientVars, consumed, resp, reset, backlog, uds, conn, fds, target, workVars>>

Verify(w) ==
  /\ pc[w] = "verify" /\ RequestOwner(conn[w], seq[w]) = w
  /\ pc' = [pc EXCEPT ![w] = "restore"]
  /\ UNCHANGED <<clientVars, consumed, resp, reset, backlog, uds, conn, fds, target, workVars>>

(* Mutant: the descriptor is closed only after a response. *)
MutRefuse(w) ==
  /\ pc[w] = "verify" /\ RequestOwner(conn[w], seq[w]) # w
  /\ Idle(w)
  /\ UNCHANGED <<clientVars, consumed, resp, reset, backlog, uds, fds>>

Refuse(w) ==
  /\ pc[w] = "verify" /\ RequestOwner(conn[w], seq[w]) # w
  /\ CloseConn(w)

(* tlspeek_restore: the session's numbers are the blob's. *)
Restore(w) ==
  /\ pc[w] = "restore"
  /\ ssl' = [ssl EXCEPT ![w].read = seq[w]]
  /\ pc' = [pc EXCEPT ![w] = "headers"]
  /\ UNCHANGED <<clientVars, consumed, resp, reset, backlog, uds,
                 conn, fds, target, seq, buf, want>>

RestoreFails(w) ==
  /\ pc[w] = "restore" /\ conn[w] \in Faulty
  /\ CloseConn(w)

(* find_subseq: where the first blank line of b ends, 0 if there is none.   *)
HeaderEnd(b) ==
  LET ends == {i \in DOMAIN b : b[i] = "end"}
  IN IF ends = {} THEN 0 ELSE Min(ends)

(* parse_content_length, and what the header buffer already has of the body. *)
ContentLength(c) == IF req[c].framed THEN req[c].body ELSE 0

(* Mutant: the blank line is counted as part of the body. *)
MutBodyLacks(c, already) ==
  IF already + 1 < ContentLength(c) THEN ContentLength(c) - already - 1 ELSE 0

BodyLacks(c, already) ==
  IF already < ContentLength(c) THEN ContentLength(c) - already ELSE 0

(* wolfSSL_read of at most n tokens, from the session's bytes or else the   *)
(* next record.                                                             *)
Available(w) == IF ssl[w].pending # <<>> THEN ssl[w].pending ELSE Peeked(conn[w])
CanRead(w) == ssl[w].pending # <<>> \/ RecordReadable(w, conn[w])
Returned(w, n) == SubSeq(Available(w), 1, Min({n, Len(Available(w))}))

TakeRecord(w, n) ==
  LET fresh == ssl[w].pending = <<>> IN
  /\ consumed' = IF fresh THEN [consumed EXCEPT ![conn[w]] = @ + 1] ELSE consumed
  /\ ssl' = [ssl EXCEPT ![w] =
       [read |-> IF fresh THEN @.read + 1 ELSE @.read,
        pending |-> SubSeq(Available(w), n + 1, Len(Available(w)))]]

(* Mutant: the room left in the buffer is not passed to wolfSSL_read. *)
MutRoom(w) == BufSize

Room(w) == BufSize - Len(buf[w])

(* One turn of the header loop, and, at the end of the headers, what is     *)
(* left to read of the body.                                                *)
ReadHeaders(w) ==
  LET b == buf[w] \o Returned(w, Room(w))
      h == HeaderEnd(b)
      lacks == BodyLacks(conn[w], Len(b) - h)
  IN /\ pc[w] = "headers" /\ Len(buf[w]) < BufSize /\ CanRead(w)
     /\ TakeRecord(w, Room(w))
     /\ buf' = [buf EXCEPT ![w] = b]
     /\ want' = [want EXCEPT ![w] = IF h = 0 THEN 0 ELSE lacks]
     /\ pc' = [pc EXCEPT ![w] = IF h = 0 THEN "headers"
                                ELSE IF lacks > 0 THEN "body" ELSE "respond"]
     /\ UNCHANGED <<clientVars, resp, reset, backlog, uds, conn, fds, target, seq>>

(* The buffer is full and the headers have not ended. *)
HeadersTooLong(w) ==
  /\ pc[w] = "headers" /\ Len(buf[w]) = BufSize
  /\ CloseConn(w)

ReadBody(w) ==
  LET n == Len(Returned(w, want[w])) IN
  /\ pc[w] = "body" /\ CanRead(w)
  /\ TakeRecord(w, n)
  /\ want' = [want EXCEPT ![w] = @ - n]
  /\ pc' = [pc EXCEPT ![w] = IF n = want[w] THEN "respond" ELSE "body"]
  /\ UNCHANGED <<clientVars, resp, reset, backlog, uds, conn, fds, target, seq, buf>>

(* Mutant: a read that fails is retried. *)
MutReadFails(w) ==
  /\ pc[w] \in {"headers", "body"} /\ (pc[w] = "headers" => Len(buf[w]) < BufSize)
  /\ ~CanRead(w) /\ client[conn[w]] = "gone"
  /\ UNCHANGED vars

ReadFails(w) ==
  /\ pc[w] \in {"headers", "body"} /\ (pc[w] = "headers" => Len(buf[w]) < BufSize)
  /\ ~CanRead(w) /\ client[conn[w]] = "gone"
  /\ CloseConn(w)

(* write_all_tls; the session is freed and the connection closed.           *)
Respond(w) ==
  /\ pc[w] = "respond"
  /\ resp' = [resp EXCEPT ![conn[w]] = Append(@, w)]
  /\ Close(w, conn[w])
  /\ Idle(w)
  /\ UNCHANGED <<clientVars, consumed, backlog, uds>>

RespondFails(w) ==
  /\ pc[w] = "respond" /\ client[conn[w]] = "gone"
  /\ CloseConn(w)

WorkerStep(w) ==
  \/ RecvFd(w) \/ RecvFdFails(w)
  \/ Verify(w) \/ Refuse(w) \/ Restore(w) \/ RestoreFails(w)
  \/ ReadHeaders(w) \/ HeadersTooLong(w) \/ ReadBody(w) \/ ReadFails(w)
  \/ Respond(w) \/ RespondFails(w)

-----------------------------------------------------------------------------

Next ==
  \/ \E c \in Conns : ClientStep(c)
  \/ GatewayStep
  \/ \E w \in Functions : WorkerStep(w)

Spec == Init /\ [][Next]_vars

(***************************************************************************)
(* Gateway and workers are scheduled and their calls return once what they *)
(* wait for is there; clients finish what they started: nothing in the     *)
(* code bounds a read, so a client that stays silent holds up everyone.    *)
(***************************************************************************)
Fairness ==
  /\ \A c \in Conns : WF_vars(ClientStep(c))
  /\ WF_vars(GatewayStep)
  /\ \A w \in Functions : WF_vars(WorkerStep(w))

FairSpec == Spec /\ Fairness

-----------------------------------------------------------------------------
(* Properties *)

(***************************************************************************)
(* A process has exactly the descriptor it works on, nothing stays behind  *)
(* on any error path, and a connection is open in one place.               *)
(***************************************************************************)
OneHolder ==
  /\ \A p \in Procs : fds[p] = {conn[p]} \ {NoConn}
  /\ \A c \in Conns :
       /\ \A p, q \in Procs : c \in fds[p] \cap fds[q] => p = q
       /\ \A p \in Procs : c \in fds[p] => ~InTransit(c) /\ c \notin backlog

(***************************************************************************)
(* The second peek cannot fail where the first succeeded: from the         *)
(* gateway's peek to the worker's, the whole first record stays in the     *)
(* kernel's buffer and the payload has its number, even when the client    *)
(* has gone or only a part of the next record has arrived.                 *)
(***************************************************************************)
SecondPeekAgrees ==
  /\ pc[Gateway] = "send" => PeekDecrypts(conn[Gateway], seq[Gateway])
  /\ \A w \in Functions :
       /\ pc[w] \in {"verify", "restore"} => PeekDecrypts(conn[w], seq[w])
       /\ \A i \in DOMAIN uds[w] : PeekDecrypts(uds[w][i].conn, uds[w][i].seq)

(***************************************************************************)
(* The gateway may take a record that cuts the request line for the whole  *)
(* line and send the connection to a function whose name is a prefix; only *)
(* the function the whole line names takes anything from the connection or *)
(* answers, and it answers once.                                           *)
(***************************************************************************)
OnlyNamedConsumes ==
  \A c \in Conns :
    /\ \A w \in Functions : conn[w] = c /\ consumed[c] > 0 => w = req[c].fn
    /\ resp[c] # <<>> => resp[c] = <<req[c].fn>>

(* Requests the worker knows the end of, with nothing after them. *)
WellFramed(c) == ~req[c].extra /\ (req[c].framed \/ req[c].body = 0)

(***************************************************************************)
(* The worker closes right after its response.  The kernel turns a close   *)
(* with unread bytes, or bytes that come later, into a reset that may      *)
(* destroy the response: that never happens when Content-Length says where *)
(* the request ends and nothing follows it.                                *)
(***************************************************************************)
NoResetAfterAnswer ==
  \A c \in Conns : resp[c] # <<>> /\ WellFramed(c) => c \notin reset

(* A request a deployed function can answer. *)
Servable(c) ==
  /\ WellFramed(c) /\ req[c].line = "whole"
  /\ req[c].fn \in Functions \cap GatewayNames \cap WorkerNames
  /\ req[c].hdr + 2 <= BufSize

(* Only a part of the client's first record is there. *)
FirstCut(c) == sent[c] # <<>> /\ Arrived(c) = 0

(***************************************************************************)
(* A client that behaves gets the response to a servable request, however  *)
(* the request is cut into records, wherever the network cuts them and     *)
(* whatever happens on other connections, but for one case: the gateway    *)
(* peeks once and takes a first record that is there in part for none, so  *)
(* it may close the connection while that part is all there is.            *)
(***************************************************************************)
Delivered ==
  \A c \in Conns \ Faulty :
    client[c] = "connected" /\ Servable(c) ~> c \in got \/ (FirstCut(c) /\ ~Open(c))
=============================================================================
