------------------------- MODULE KeepaliveMigration -------------------------
(***************************************************************************)
(* Keep-alive TLS session migration (prototype/faasd_tlsmigrate_keepalive).*)
(*                                                                         *)
(* A gateway process completes the TLS handshake, peeks at the first       *)
(* application record without consuming it, exports the session and sends  *)
(* the client's TCP descriptor with the exported state to the worker of    *)
(* the function the request names.  The worker serves that request and     *)
(* every later one that names it; before each of them it peeks at the next *)
(* record, and when the request names another function it sends the        *)
(* descriptor back to the gateway's relay socket, which forwards it.       *)
(*                                                                         *)
(* Processes: the gateway's accept goroutine (Acceptor), its relay         *)
(* goroutine (Relayer), one single-threaded worker per function.  All of   *)
(* them use blocking calls.  A process that listens on a Unix socket is    *)
(* also the name of that socket.  The relay socket lies in the directory   *)
(* of the functions' sockets (config.go's defaults), so that a request can *)
(* name it like a function: Relayer may be one of Names.                   *)
(***************************************************************************)
EXTENDS Integers, Sequences, FiniteSets

CONSTANTS
  Conns,        \* TCP connections clients open
  Functions,    \* functions with a deployed worker (and its socket)
  Names,        \* function names a request line can carry
  GatewayNames, \* those whose characters the gateway's parser accepts
  Unroutable,   \* a request path that is not /function/<name>
  Acceptor,     \* the goroutine of Run
  Relayer,      \* the goroutine of runRelay
  NoConn,       \* no connection
  NoName,       \* no function name
  Requests,     \* the requests clients send
  MaxRequests,  \* bound: requests on one connection
  MaxQueue,     \* pending connections a Unix listening socket holds
  Pipelining,   \* may a client send a request before the last is answered?
  SplitRecords, \* may a client spread a request over several TLS records?
  Faults,       \* failures of the environment that may happen
  Faulty        \* connections on which calls may fail and clients abort

FaultKinds == {"handshake", "export", "sendmsg", "recvmsg", "restore",
               "partial", "abort", "crash", "gateway_crash", "startup"}

Fault(k, c) == k \in Faults /\ c \in Faulty

Listeners == Functions \cup {Relayer}
Procs == Listeners \cup {Acceptor}

(***************************************************************************)
(* A request: the name in its path, the length of its body, whether it     *)
(* asks for "Connection: close", and whether its request line may be cut   *)
(* by a TLS record boundary.                                               *)
(***************************************************************************)
Request == [fn: Names \cup {Unroutable}, body: Nat,
            close: BOOLEAN, split: BOOLEAN]

ASSUME ConstantsOK ==
  /\ Functions \subseteq Names /\ GatewayNames \subseteq Names
  /\ Unroutable \notin Names /\ NoName \notin Names \cup {Unroutable, Relayer}
  /\ Acceptor # Relayer /\ Acceptor \notin Functions /\ Relayer \notin Functions
  /\ NoConn \notin Conns
  /\ Requests \subseteq Request
  /\ MaxRequests \in Nat /\ MaxQueue \in Nat \ {0}
  /\ Pipelining \in BOOLEAN /\ SplitRecords \in BOOLEAN
  /\ Faults \subseteq FaultKinds /\ Faulty \subseteq Conns

VARIABLES
  client,   \* client[c]: where the client is: idle, connected, hello, secure, gone
  reqs,     \* reqs[c]: the requests the client has issued
  todo,     \* todo[c]: the plaintext it has yet to put in a TLS record
  sent,     \* sent[c]: the TLS records it has sent; the i-th has number i - 1
  partial,  \* partial[c]: only part of the last record has arrived
  consumed, \* consumed[c]: records taken out of the kernel's receive buffer
  resp,     \* resp[c]: the responses written on the connection
  backlog,  \* connections waiting in the gateway's TCP accept queue
  uds,      \* uds[l]: pending connections of l's Unix socket
  up,       \* up[l]: l's Unix socket is bound and listening
  pc,       \* pc[p]: the blocking call p is in or about to make
  conn,     \* conn[p]: the connection p works on
  fds,      \* fds[p]: the client descriptors open in p
  serial,   \* serial[p]: p's tlspeek_serial_t
  target,   \* target[p]: p's payload.target_function
  ssl,      \* ssl[p]: p's live wolfSSL session
  rd        \* rd[p]: locals of read_one_request

clientVars == <<client, reqs, todo, sent, partial>>
streamVars == <<consumed, resp>>
localVars  == <<pc, conn, fds, serial, target, ssl, rd>>
vars == <<clientVars, streamVars, backlog, uds, up, localVars>>

(***************************************************************************)
(* The plaintext of a request, cut where record boundaries matter: the     *)
(* request line (in two parts if it may be split), the rest of the headers *)
(* with the blank line that ends them, and the body.                       *)
(***************************************************************************)
Token == [kind: {"half", "line", "end", "body"}, id: Nat]

Plaintext(r, i) ==
  (IF r.split THEN <<[kind |-> "half", id |-> i]>> ELSE <<>>)
    \o <<[kind |-> "line", id |-> i], [kind |-> "end", id |-> i]>>
    \o [k \in 1..r.body |-> [kind |-> "body", id |-> i]]

(***************************************************************************)
(* tlspeek_serial_t: the record number tls_read_peek uses, and the read    *)
(* and write numbers inside the blob wolfSSL exported.                     *)
(***************************************************************************)
Serial == [read_seq_num: Nat, blob_read: Nat, blob_write: Nat]
NoSerial == [read_seq_num |-> 0, blob_read |-> 0, blob_write |-> 0]

(* A wolfSSL session: its record numbers and decrypted bytes not yet read. *)
Session == [read: Nat, write: Nat, pending: Seq(Token)]
NoSession == [read |-> 0, write |-> 0, pending |-> <<>>]

(* read_one_request: header buffer, body bytes still wanted, the request.  *)
ReadState == [buf: Seq(Token), want: Nat, id: Nat]
NoRead == [buf |-> <<>>, want |-> 0, id |-> 0]

(* A pending Unix connection: the message in it, or nothing (sendmsg failed *)
(* and the sender closed it).                                               *)
Entry == [conn: Conns \cup {NoConn}, serial: Serial, target: Names \cup {NoName}]
EmptyEntry == [conn |-> NoConn, serial |-> NoSerial, target |-> NoName]

Response == [id: Nat, by: Functions, seq: Nat]

TypeOK ==
  /\ client \in [Conns -> {"idle", "connected", "hello", "secure", "gone"}]
  /\ reqs \in [Conns -> Seq(Request)]
  /\ todo \in [Conns -> Seq(Token)]
  /\ sent \in [Conns -> Seq(Seq(Token))]
  /\ partial \in [Conns -> BOOLEAN]
  /\ consumed \in [Conns -> Nat]
  /\ resp \in [Conns -> Seq(Response)]
  /\ backlog \subseteq Conns
  /\ uds \in [Listeners -> Seq(Entry)]
  /\ up \in [Listeners -> BOOLEAN]
  /\ pc \in [Procs -> {"accept", "handshake", "peek", "dispatch", "restore", "relay",
                       "headers", "body", "respond", "down"}]
  /\ conn \in [Procs -> Conns \cup {NoConn}]
  /\ fds \in [Procs -> SUBSET Conns]
  /\ serial \in [Procs -> Serial]
  /\ target \in [Procs -> Names \cup {NoName}]
  /\ ssl \in [Procs -> Session]
  /\ rd \in [Procs -> ReadState]

Init ==
  /\ client = [c \in Conns |-> "idle"]
  /\ reqs = [c \in Conns |-> <<>>]
  /\ todo = [c \in Conns |-> <<>>]
  /\ sent = [c \in Conns |-> <<>>]
  /\ partial = [c \in Conns |-> FALSE]
  /\ consumed = [c \in Conns |-> 0]
  /\ resp = [c \in Conns |-> <<>>]
  /\ backlog = {}
  /\ uds = [l \in Listeners |-> <<>>]
  /\ up = [l \in Listeners |-> "startup" \notin Faults]
  /\ pc = [p \in Procs |-> IF p # Acceptor /\ "startup" \in Faults
                           THEN "down" ELSE "accept"]
  /\ conn = [p \in Procs |-> NoConn]
  /\ fds = [p \in Procs |-> {}]
  /\ serial = [p \in Procs |-> NoSerial]
  /\ target = [p \in Procs |-> NoName]
  /\ ssl = [p \in Procs |-> NoSession]
  /\ rd = [p \in Procs |-> NoRead]

(* Some process or message holds a reference to the server's end of c.     *)
Open(c) ==
  \/ c \in backlog
  \/ \E p \in Procs : c \in fds[p]
  \/ \E l \in Listeners : \E i \in DOMAIN uds[l] : uds[l][i].conn = c

-----------------------------------------------------------------------------
(* Clients and the network *)

Connect(c) ==
  /\ client[c] = "idle" /\ pc[Acceptor] # "down"
  /\ client' = [client EXCEPT ![c] = "connected"]
  /\ backlog' = backlog \cup {c}
  /\ UNCHANGED <<reqs, todo, sent, partial, streamVars, uds, up, localVars>>

(* The client sends its part of the handshake; a silent one never does.    *)
Hello(c) ==
  /\ client[c] = "connected"
  /\ client' = [client EXCEPT ![c] = "hello"]
  /\ UNCHANGED <<reqs, todo, sent, partial, streamVars, backlog, uds, up, localVars>>

IssueRequest(c, r) ==
  /\ client[c] = "secure" /\ Open(c)
  /\ Len(reqs[c]) < MaxRequests
  /\ reqs[c] # <<>> => ~reqs[c][Len(reqs[c])].close
  /\ Pipelining \/ Len(resp[c]) = Len(reqs[c])
  /\ reqs' = [reqs EXCEPT ![c] = Append(@, r)]
  /\ todo' = [todo EXCEPT ![c] = @ \o Plaintext(r, Len(reqs[c]) + 1)]
  /\ UNCHANGED <<client, sent, partial, streamVars, backlog, uds, up, localVars>>

(* The client's TLS stack seals the next k tokens in a record.  The network *)
(* may deliver the record whole or a part of it first.                      *)
SendRecord(c, k, cut) ==
  /\ client[c] = "secure" /\ Open(c) /\ ~partial[c]
  /\ k \in 1..Len(todo[c]) /\ (SplitRecords \/ k = Len(todo[c]))
  /\ cut => Fault("partial", c)
  /\ sent' = [sent EXCEPT ![c] = Append(@, SubSeq(todo[c], 1, k))]
  /\ todo' = [todo EXCEPT ![c] = SubSeq(@, k + 1, Len(@))]
  /\ partial' = [partial EXCEPT ![c] = cut]
  /\ UNCHANGED <<client, reqs, streamVars, backlog, uds, up, localVars>>

RestArrives(c) ==
  /\ partial[c] /\ client[c] = "secure"
  /\ partial' = [partial EXCEPT ![c] = FALSE]
  /\ UNCHANGED <<client, reqs, todo, sent, streamVars, backlog, uds, up, localVars>>

(* A client closes when every request is answered or the server has closed, *)
(* or, if it aborts, at any time.                                           *)
ClientClose(c) ==
  /\ client[c] \in {"connected", "hello", "secure"}
  /\ \/ Fault("abort", c)
     \/ client[c] = "secure" /\ Len(reqs[c]) > 0 /\ Len(resp[c]) = Len(reqs[c])
     \/ ~Open(c)
  /\ client' = [client EXCEPT ![c] = "gone"]
  /\ UNCHANGED <<reqs, todo, sent, partial, streamVars, backlog, uds, up, localVars>>

-----------------------------------------------------------------------------
(* Library calls *)

(* Records that have arrived whole. *)
Arrived(c) == Len(sent[c]) - (IF partial[c] THEN 1 ELSE 0)

(* recv(MSG_PEEK) returns: bytes in the kernel buffer, end of file or reset. *)
PeekReturns(c) == consumed[c] < Len(sent[c]) \/ client[c] = "gone"

(* tls_read_peek yields plaintext: the first record is whole and the nonce   *)
(* built from read_seq_num is the one the client sealed it with.             *)
PeekDecrypts(c, s) == consumed[c] < Arrived(c) /\ s.read_seq_num = consumed[c]

(* Mutant: tls_read_peek polls on at end of file. *)
MutPeekFails(c, s) == consumed[c] < Len(sent[c]) /\ ~PeekDecrypts(c, s)

(* tls_read_peek returns -1; a reset makes recv fail whatever was buffered.  *)
PeekFails(c, s) == PeekReturns(c) /\ (~PeekDecrypts(c, s) \/ client[c] = "gone")

(* What the peeked record is. *)
Peeked(c) == sent[c][consumed[c] + 1]

(* The request path in a record that begins with a whole request line.       *)
PeekedPath(c) ==
  LET t == Peeked(c)[1]
      r == reqs[c][t.id]
  IN IF \/ t.kind = "line" /\ ~r.split
        \/ t.kind = "half" /\ Len(Peeked(c)) > 1
     THEN r.fn ELSE NoName

(* parseFunctionName: what it can return.  It takes a record without a line  *)
(* end for a whole line, so of a cut line it returns some prefix of the name. *)
ParseFunctionName(c) ==
  IF Peeked(c)[1].kind = "half" /\ Len(Peeked(c)) = 1
  THEN GatewayNames \cup {NoName}
  ELSE IF PeekedPath(c) \in GatewayNames THEN {PeekedPath(c)} ELSE {NoName}

(* Mutant: any path is taken for a function's. *)
MutParseRequestOwner(c) == PeekedPath(c)

(* parse_request_owner: needs the second space of the request line.          *)
ParseRequestOwner(c) ==
  IF PeekedPath(c) \in Names THEN PeekedPath(c) ELSE NoName

(* wolfSSL_read takes the first record out of the kernel and opens it.       *)
RecordReadable(p, c) == consumed[c] < Arrived(c) /\ ssl[p].read = consumed[c]
ReadFails(p, c) ==
  \/ client[c] = "gone"
  \/ consumed[c] < Arrived(c) /\ ssl[p].read # consumed[c]

(* Back to the accept loop: the locals of this turn go out of scope.         *)
Reset(p) ==
  /\ pc' = [pc EXCEPT ![p] = "accept"]
  /\ conn' = [conn EXCEPT ![p] = NoConn]
  /\ serial' = [serial EXCEPT ![p] = NoSerial]
  /\ target' = [target EXCEPT ![p] = NoName]
  /\ ssl' = [ssl EXCEPT ![p] = NoSession]
  /\ rd' = [rd EXCEPT ![p] = NoRead]

(* close(client_fd) on the way. *)
Drop(p) ==
  /\ Reset(p)
  /\ fds' = [fds EXCEPT ![p] = @ \ {conn[p]}]

Listening(l) == l \in Listeners /\ up[l]

(* connect() fails: no socket, or nobody listens on it.  The caller closes   *)
(* the client descriptor.                                                    *)
ConnectRefused(p, l) ==
  /\ ~Listening(l)
  /\ Drop(p)
  /\ UNCHANGED uds

(* The message p sends: its connection, the exported state and the target.   *)
Message(p) == [conn |-> conn[p], serial |-> serial[p], target |-> target[p]]

(* Mutant: sendfd_with_state leaves the sender's descriptor open. *)
MutSendFd(p, l) ==
  /\ Listening(l) /\ Len(uds[l]) < MaxQueue
  /\ uds' = [uds EXCEPT ![l] = Append(@, Message(p))]
  /\ Reset(p) /\ UNCHANGED fds

(* connect() blocks while the queue is full; sendfd_with_state then queues   *)
(* descriptor and state and closes the sender's descriptor.                  *)
SendFd(p, l) ==
  /\ Listening(l) /\ Len(uds[l]) < MaxQueue
  /\ uds' = [uds EXCEPT ![l] = Append(@, Message(p))]
  /\ Drop(p)

(* Mutant: the error path returns without close(client_fd). *)
MutSendFdFails(p, l) ==
  /\ Fault("sendmsg", conn[p])
  /\ Listening(l) /\ Len(uds[l]) < MaxQueue
  /\ uds' = [uds EXCEPT ![l] = Append(@, EmptyEntry)]
  /\ Reset(p) /\ UNCHANGED fds

(* connect() succeeds and sendmsg fails: the peer finds an empty connection, *)
(* the caller closes the client descriptor.                                  *)
SendFdFails(p, l) ==
  /\ Fault("sendmsg", conn[p])
  /\ Listening(l) /\ Len(uds[l]) < MaxQueue
  /\ uds' = [uds EXCEPT ![l] = Append(@, EmptyEntry)]
  /\ Drop(p)

HandOff(p, l) ==
  /\ ConnectRefused(p, l) \/ SendFd(p, l) \/ SendFdFails(p, l)
  /\ UNCHANGED <<clientVars, streamVars, backlog, up>>

(* unix_accept and recvfd_with_state: an empty connection or truncated       *)
(* ancillary data yields no descriptor (in the latter case it is lost).      *)
RecvFdFails(p) ==
  /\ pc[p] = "accept" /\ uds[p] # <<>>
  /\ Head(uds[p]).conn = NoConn \/ Fault("recvmsg", Head(uds[p]).conn)
  /\ uds' = [uds EXCEPT ![p] = Tail(@)]
  /\ UNCHANGED <<clientVars, streamVars, backlog, up, localVars>>

(* The descriptor and state of message m become p's. *)
TakeMessage(p, m) ==
  /\ conn' = [conn EXCEPT ![p] = m.conn]
  /\ fds' = [fds EXCEPT ![p] = @ \cup {m.conn}]
  /\ serial' = [serial EXCEPT ![p] = m.serial]
  /\ target' = [target EXCEPT ![p] = m.target]

RecvFd(p, next) ==
  /\ pc[p] = "accept" /\ uds[p] # <<>> /\ Head(uds[p]).conn # NoConn
  /\ uds' = [uds EXCEPT ![p] = Tail(@)]
  /\ pc' = [pc EXCEPT ![p] = next]
  /\ TakeMessage(p, Head(uds[p]))
  /\ UNCHANGED <<clientVars, streamVars, backlog, up, ssl, rd>>

(* Mutant: the error path leaves the descriptor open. *)
MutCloseConn(p) ==
  /\ Reset(p)
  /\ UNCHANGED <<clientVars, streamVars, backlog, uds, up, fds>>

(* close(client_fd) with nothing else to do. *)
CloseConn(p) ==
  /\ Drop(p)
  /\ UNCHANGED <<clientVars, streamVars, backlog, uds, up>>

-----------------------------------------------------------------------------
(* The gateway's accept goroutine: Run and accept_peek_export *)

Accept ==
  /\ pc[Acceptor] = "accept"
  /\ \E c \in backlog :
       /\ backlog' = backlog \ {c}
       /\ pc' = [pc EXCEPT ![Acceptor] = "handshake"]
       /\ conn' = [conn EXCEPT ![Acceptor] = c]
       /\ fds' = [fds EXCEPT ![Acceptor] = @ \cup {c}]
  /\ UNCHANGED <<clientVars, streamVars, uds, up, serial, target, ssl, rd>>

(* wolfSSL_accept returns with the traffic keys; both sequences start at 0. *)
Handshake ==
  /\ pc[Acceptor] = "handshake" /\ client[conn[Acceptor]] = "hello"
  /\ client' = [client EXCEPT ![conn[Acceptor]] = "secure"]
  /\ pc' = [pc EXCEPT ![Acceptor] = "peek"]
  /\ UNCHANGED <<reqs, todo, sent, partial, streamVars, backlog, uds, up,
                 conn, fds, serial, target, ssl, rd>>

(* No session object, wolfSSL_accept fails, or no keys were captured.       *)
HandshakeFails ==
  /\ pc[Acceptor] = "handshake"
  /\ \/ client[conn[Acceptor]] = "gone"
     \/ client[conn[Acceptor]] = "hello" /\ Fault("handshake", conn[Acceptor])
  /\ CloseConn(Acceptor)

(* The state accept_peek_export exports. *)
FirstSerial == [read_seq_num |-> 0, blob_read |-> ssl[Acceptor].read,
                blob_write |-> ssl[Acceptor].write]

(* Mutant: the first record is read, not peeked at. *)
MutPeekAndExport(f) ==
  /\ pc[Acceptor] = "peek"
  /\ PeekDecrypts(conn[Acceptor], serial[Acceptor])
  /\ f \in ParseFunctionName(conn[Acceptor]) \ {NoName}
  /\ pc' = [pc EXCEPT ![Acceptor] = "dispatch"]
  /\ consumed' = [consumed EXCEPT ![conn[Acceptor]] = @ + 1]
  /\ serial' = [serial EXCEPT ![Acceptor] = FirstSerial]
  /\ target' = [target EXCEPT ![Acceptor] = f]
  /\ ssl' = [ssl EXCEPT ![Acceptor] = NoSession]
  /\ UNCHANGED <<clientVars, resp, backlog, uds, up, conn, fds, rd>>

(* The peek succeeds, the session is exported and the peeked line names a   *)
(* function: setPayloadTarget.                                              *)
PeekAndExport(f) ==
  /\ pc[Acceptor] = "peek"
  /\ PeekDecrypts(conn[Acceptor], serial[Acceptor])
  /\ f \in ParseFunctionName(conn[Acceptor]) \ {NoName}
  /\ pc' = [pc EXCEPT ![Acceptor] = "dispatch"]
  /\ serial' = [serial EXCEPT ![Acceptor] = FirstSerial]
  /\ target' = [target EXCEPT ![Acceptor] = f]
  /\ ssl' = [ssl EXCEPT ![Acceptor] = NoSession]
  /\ UNCHANGED <<clientVars, streamVars, backlog, uds, up, conn, fds, rd>>

(* tls_read_peek, wolfSSL_tls_export or parseFunctionName fails.            *)
PeekAndExportFails ==
  /\ pc[Acceptor] = "peek"
  /\ \/ PeekFails(conn[Acceptor], serial[Acceptor])
     \/ /\ PeekDecrypts(conn[Acceptor], serial[Acceptor])
        /\ \/ NoName \in ParseFunctionName(conn[Acceptor])
           \/ Fault("export", conn[Acceptor])
  /\ CloseConn(Acceptor)

DispatchToFunction(p) ==
  /\ pc[p] = "dispatch"
  /\ HandOff(p, target[p])

AcceptorStep ==
  \/ Accept \/ Handshake \/ HandshakeFails
  \/ \E f \in GatewayNames : PeekAndExport(f)
  \/ PeekAndExportFails
  \/ DispatchToFunction(Acceptor)

-----------------------------------------------------------------------------
(* The gateway's relay goroutine: runRelay and accept_recv *)

RelayerStep ==
  \/ RecvFd(Relayer, "dispatch")
  \/ RecvFdFails(Relayer)
  \/ DispatchToFunction(Relayer)

-----------------------------------------------------------------------------
(* A function's worker: main and process_session *)

(* Mutant: the write number is not restored. *)
MutRestore(w) ==
  /\ pc[w] = "restore"
  /\ pc' = [pc EXCEPT ![w] = "peek"]
  /\ ssl' = [ssl EXCEPT ![w] = [NoSession EXCEPT !.read = serial[w].blob_read]]
  /\ UNCHANGED <<clientVars, streamVars, backlog, uds, up,
                 conn, fds, serial, target, rd>>

(* tlspeek_restore: wolfSSL_tls_import of the received blob. *)
Restore(w) ==
  /\ pc[w] = "restore"
  /\ pc' = [pc EXCEPT ![w] = "peek"]
  /\ ssl' = [ssl EXCEPT ![w] = [read |-> serial[w].blob_read,
                                write |-> serial[w].blob_write,
                                pending |-> <<>>]]
  /\ UNCHANGED <<clientVars, streamVars, backlog, uds, up,
                 conn, fds, serial, target, rd>>

RestoreFails(w) ==
  /\ pc[w] = "restore" /\ Fault("restore", conn[w])
  /\ CloseConn(w)

(* Mutant: the owner is not compared with the worker's own function. *)
MutPeekOwn(w) ==
  /\ pc[w] = "peek"
  /\ PeekDecrypts(conn[w], serial[w]) /\ ParseRequestOwner(conn[w]) # NoName
  /\ pc' = [pc EXCEPT ![w] = "headers"]
  /\ UNCHANGED <<clientVars, streamVars, backlog, uds, up,
                 conn, fds, serial, target, ssl, rd>>

(* peek_owner_from_kernel: the next request is this function's own ...      *)
PeekOwn(w) ==
  /\ pc[w] = "peek"
  /\ PeekDecrypts(conn[w], serial[w]) /\ ParseRequestOwner(conn[w]) = w
  /\ pc' = [pc EXCEPT ![w] = "headers"]
  /\ UNCHANGED <<clientVars, streamVars, backlog, uds, up,
                 conn, fds, serial, target, ssl, rd>>

(* ... or another's: it becomes the payload's target.                       *)
PeekOther(w) ==
  /\ pc[w] = "peek"
  /\ PeekDecrypts(conn[w], serial[w])
  /\ ParseRequestOwner(conn[w]) \notin {w, NoName}
  /\ target' = [target EXCEPT ![w] = ParseRequestOwner(conn[w])]
  /\ pc' = [pc EXCEPT ![w] = "relay"]
  /\ UNCHANGED <<clientVars, streamVars, backlog, uds, up,
                 conn, fds, serial, ssl, rd>>

PeekOwnerFails(w) ==
  /\ pc[w] = "peek"
  /\ \/ PeekFails(conn[w], serial[w])
     \/ /\ PeekDecrypts(conn[w], serial[w])
        /\ ParseRequestOwner(conn[w]) = NoName
  /\ CloseConn(w)

(* Mutant: after a relay the worker keeps the session and relays it again. *)
MutRelayToGateway(w) ==
  /\ pc[w] = "relay" /\ Listening(Relayer) /\ Len(uds[Relayer]) < MaxQueue
  /\ uds' = [uds EXCEPT ![Relayer] = Append(@, Message(w))]
  /\ UNCHANGED <<clientVars, streamVars, backlog, up, localVars>>

RelayToGateway(w) ==
  /\ pc[w] = "relay"
  /\ HandOff(w, Relayer)

(* find_subseq: the first blank line in a header buffer, 0 if there is none. *)
EndsHeaders(buf, i) ==
  buf[i].kind = "end" /\ \A j \in 1..(i - 1) : buf[j].kind # "end"

HeaderEnd(buf) ==
  IF \E i \in DOMAIN buf : EndsHeaders(buf, i)
  THEN CHOOSE i \in DOMAIN buf : EndsHeaders(buf, i) ELSE 0

(* Mutant: off by one. *)
MutBodyLacks(c, i, extra) ==
  LET n == reqs[c][i].body IN IF extra + 1 < n THEN n - extra - 1 ELSE 0

(* Body bytes request i still lacks when extra of them came with its headers. *)
(* What exceeds Content-Length is freed with the buffer.                      *)
BodyLacks(c, i, extra) ==
  LET n == reqs[c][i].body IN IF extra < n THEN n - extra ELSE 0

(* read_one_request once the buffer is buf: look for the end of the headers.  *)
AfterHeaders(w, buf) ==
  LET h == HeaderEnd(buf)
      want == BodyLacks(conn[w], buf[h].id, Len(buf) - h)
  IN IF h = 0
     THEN /\ pc' = [pc EXCEPT ![w] = "headers"]
          /\ rd' = [rd EXCEPT ![w] = [buf |-> buf, want |-> 0, id |-> 0]]
     ELSE /\ pc' = [pc EXCEPT ![w] = IF want > 0 THEN "body" ELSE "respond"]
          /\ rd' = [rd EXCEPT ![w] = [buf |-> <<>>, want |-> want, id |-> buf[h].id]]

(* Mutant: a read from the session's buffer is counted as a record. *)
MutReadHeadersPending(w) ==
  /\ pc[w] = "headers" /\ ssl[w].pending # <<>>
  /\ AfterHeaders(w, rd[w].buf \o ssl[w].pending)
  /\ ssl' = [ssl EXCEPT ![w].pending = <<>>, ![w].read = @ + 1]
  /\ UNCHANGED <<clientVars, streamVars, backlog, uds, up,
                 conn, fds, serial, target>>

(* wolfssl_read_more returns the decrypted bytes the session still holds ... *)
ReadHeadersPending(w) ==
  /\ pc[w] = "headers" /\ ssl[w].pending # <<>>
  /\ AfterHeaders(w, rd[w].buf \o ssl[w].pending)
  /\ ssl' = [ssl EXCEPT ![w].pending = <<>>]
  /\ UNCHANGED <<clientVars, streamVars, backlog, uds, up,
                 conn, fds, serial, target>>

(* ... or, if there are none, those of the next record.                      *)
ReadHeaders(w) ==
  /\ pc[w] = "headers" /\ ssl[w].pending = <<>>
  /\ RecordReadable(w, conn[w])
  /\ AfterHeaders(w, rd[w].buf \o Peeked(conn[w]))
  /\ consumed' = [consumed EXCEPT ![conn[w]] = @ + 1]
  /\ ssl' = [ssl EXCEPT ![w].read = @ + 1]
  /\ UNCHANGED <<clientVars, resp, backlog, uds, up, conn, fds, serial, target>>

(* wolfSSL_read of at most the bytes the body still lacks; what the record   *)
(* holds beyond them stays in the session.                                   *)
ReadBody(w) ==
  LET rec == Peeked(conn[w])
      n == IF Len(rec) < rd[w].want THEN Len(rec) ELSE rd[w].want
  IN /\ pc[w] = "body" /\ RecordReadable(w, conn[w])
     /\ consumed' = [consumed EXCEPT ![conn[w]] = @ + 1]
     /\ ssl' = [ssl EXCEPT ![w].read = @ + 1,
                           ![w].pending = SubSeq(rec, n + 1, Len(rec))]
     /\ rd' = [rd EXCEPT ![w].want = @ - n]
     /\ pc' = [pc EXCEPT ![w] = IF n = rd[w].want THEN "respond" ELSE "body"]
     /\ UNCHANGED <<clientVars, resp, backlog, uds, up, conn, fds, serial, target>>

ReadRequestFails(w) ==
  /\ pc[w] \in {"headers", "body"} /\ ssl[w].pending = <<>>
  /\ ReadFails(w, conn[w])
  /\ CloseConn(w)

(* The record the response goes out in. *)
WriteResponse(w) ==
  resp' = [resp EXCEPT ![conn[w]] =
             Append(@, [id |-> rd[w].id, by |-> w, seq |-> ssl[w].write])]

(* Mutant: read_seq_num is left as it was. *)
MutLiveSerial(w) == [serial[w] EXCEPT !.blob_read = ssl[w].read,
                                      !.blob_write = ssl[w].write + 1]

(* What export_live_serial writes once the response is out.                 *)
LiveSerial(w) == [read_seq_num |-> ssl[w].read, blob_read |-> ssl[w].read,
                  blob_write |-> ssl[w].write + 1]

(* send_response, then export_live_serial for the next peek.                *)
RespondAndKeep(w) ==
  /\ pc[w] = "respond"
  /\ ~reqs[conn[w]][rd[w].id].close
  /\ WriteResponse(w)
  /\ ssl' = [ssl EXCEPT ![w].write = @ + 1]
  /\ serial' = [serial EXCEPT ![w] = LiveSerial(w)]
  /\ rd' = [rd EXCEPT ![w] = NoRead]
  /\ pc' = [pc EXCEPT ![w] = "peek"]
  /\ UNCHANGED <<clientVars, consumed, backlog, uds, up, conn, fds, target>>

(* send_response, then should_close or a failing export_live_serial.        *)
RespondAndClose(w) ==
  /\ pc[w] = "respond"
  /\ reqs[conn[w]][rd[w].id].close \/ Fault("export", conn[w])
  /\ WriteResponse(w)
  /\ Drop(w)
  /\ UNCHANGED <<clientVars, consumed, backlog, uds, up>>

(* wolfSSL_write fails because the client is gone.                          *)
RespondFails(w) ==
  /\ pc[w] = "respond" /\ client[conn[w]] = "gone"
  /\ CloseConn(w)

WorkerStep(w) ==
  \/ RecvFd(w, "restore") \/ RecvFdFails(w)
  \/ Restore(w) \/ RestoreFails(w)
  \/ PeekOwn(w) \/ PeekOther(w) \/ PeekOwnerFails(w)
  \/ RelayToGateway(w)
  \/ ReadHeadersPending(w) \/ ReadHeaders(w) \/ ReadBody(w) \/ ReadRequestFails(w)
  \/ RespondAndKeep(w) \/ RespondAndClose(w) \/ RespondFails(w)

-----------------------------------------------------------------------------
(* Processes start and die *)

(* A worker's main, runRelay or Run begins: unix_server_socket unlinks what *)
(* an earlier process left, binds and listens.                              *)
Start(p) ==
  /\ pc[p] = "down"
  /\ pc' = [pc EXCEPT ![p] = "accept"]
  /\ up' = [l \in Listeners |-> up[l] \/ l = p]
  /\ UNCHANGED <<clientVars, streamVars, backlog, uds,
                 conn, fds, serial, target, ssl, rd>>

(* The kernel closes a dead process's descriptors and drops what is queued  *)
(* on its sockets, descriptors in flight included.                          *)
Die(P) ==
  /\ pc' = [p \in Procs |-> IF p \in P THEN "down" ELSE pc[p]]
  /\ conn' = [p \in Procs |-> IF p \in P THEN NoConn ELSE conn[p]]
  /\ fds' = [p \in Procs |-> IF p \in P THEN {} ELSE fds[p]]
  /\ serial' = [p \in Procs |-> IF p \in P THEN NoSerial ELSE serial[p]]
  /\ target' = [p \in Procs |-> IF p \in P THEN NoName ELSE target[p]]
  /\ ssl' = [p \in Procs |-> IF p \in P THEN NoSession ELSE ssl[p]]
  /\ rd' = [p \in Procs |-> IF p \in P THEN NoRead ELSE rd[p]]
  /\ uds' = [l \in Listeners |-> IF l \in P THEN <<>> ELSE uds[l]]
  /\ up' = [l \in Listeners |-> up[l] /\ l \notin P]
  /\ UNCHANGED <<clientVars, streamVars>>

WorkerDies(w) ==
  /\ "crash" \in Faults /\ pc[w] # "down"
  /\ Die({w})
  /\ UNCHANGED backlog

(* Both goroutines live in one process, which also owns the TCP listener.   *)
GatewayDies ==
  /\ "gateway_crash" \in Faults /\ pc[Acceptor] # "down"
  /\ Die({Acceptor, Relayer})
  /\ backlog' = {}

-----------------------------------------------------------------------------

ClientStep(c) ==
  \/ Connect(c) \/ Hello(c) \/ RestArrives(c) \/ ClientClose(c)
  \/ \E r \in Requests : IssueRequest(c, r)
  \/ \E k \in 1..Len(todo[c]), cut \in BOOLEAN : SendRecord(c, k, cut)

(* Every client has finished and the server holds nothing of theirs.        *)
AllDone ==
  /\ \A c \in Conns : client[c] = "gone" /\ ~Open(c)
  /\ \A l \in Listeners : uds[l] = <<>>

Finished == AllDone /\ UNCHANGED vars

Next ==
  \/ \E c \in Conns : ClientStep(c)
  \/ AcceptorStep
  \/ RelayerStep
  \/ \E w \in Functions : WorkerStep(w) \/ WorkerDies(w)
  \/ \E p \in Procs : Start(p)
  \/ GatewayDies
  \/ Finished

Spec == Init /\ [][Next]_vars

(***************************************************************************)
(* Blocking calls return once what they wait for is there, the goroutines  *)
(* and workers are scheduled, and clients behave: they finish the          *)
(* handshake, send the whole of a request, and close an idle connection.   *)
(***************************************************************************)
Fairness ==
  /\ \A c \in Conns : WF_vars(ClientStep(c))
  /\ WF_vars(AcceptorStep)
  /\ WF_vars(RelayerStep)
  /\ \A w \in Functions : WF_vars(WorkerStep(w))

FairSpec == Spec /\ Fairness

-----------------------------------------------------------------------------
(* Safety *)

Queued(c, l, i) == i \in DOMAIN uds[l] /\ uds[l][i].conn = c

(***************************************************************************)
(* sendfd.c: "the worker now exclusively owns the connection".  At most    *)
(* one of the accept queue, the processes and the messages in flight holds *)
(* a descriptor of a connection, whatever send, receive or process fails:  *)
(* two holders would write TLS records under the same nonce.               *)
(***************************************************************************)
SingleHolder ==
  \A c \in Conns :
    /\ \A p, q \in Procs : c \in fds[p] /\ c \in fds[q] => p = q
    /\ \A p \in Procs, l \in Listeners : \A i \in DOMAIN uds[l] :
         c \in fds[p] => ~Queued(c, l, i)
    /\ \A l, m \in Listeners :
         \A i \in DOMAIN uds[l], j \in DOMAIN uds[m] :
           Queued(c, l, i) /\ Queued(c, m, j) => l = m /\ i = j
    /\ c \in backlog =>
         /\ \A p \in Procs : c \notin fds[p]
         /\ \A l \in Listeners : \A i \in DOMAIN uds[l] : ~Queued(c, l, i)

(***************************************************************************)
(* On every path through accept_peek_export, send_fd, accept_recv,         *)
(* relay_to_gateway and process_session a process has open exactly the     *)
(* descriptor it is working on; back in its accept loop it has none.       *)
(***************************************************************************)
NoLeak ==
  \A p \in Procs : fds[p] = IF conn[p] = NoConn THEN {} ELSE {conn[p]}

SerialCurrent(c, s) ==
  /\ s.read_seq_num = consumed[c]
  /\ s.blob_read = consumed[c]
  /\ s.blob_write = Len(resp[c])

(***************************************************************************)
(* The exported state a process sends, restores or peeks with is the       *)
(* connection's: its record number is that of the first record in the      *)
(* kernel, its write number that of the next response.                     *)
(***************************************************************************)
SerialFresh ==
  /\ \A p \in Procs : pc[p] \in {"dispatch", "restore", "peek", "relay"} =>
       SerialCurrent(conn[p], serial[p])
  /\ \A l \in Listeners : \A i \in DOMAIN uds[l] :
       uds[l][i].conn # NoConn => SerialCurrent(uds[l][i].conn, uds[l][i].serial)

(***************************************************************************)
(* The responses on a connection, whichever workers wrote them, carry      *)
(* consecutive record numbers: no write nonce is used twice or skipped.    *)
(***************************************************************************)
NoncesInOrder ==
  \A c \in Conns : \A i \in DOMAIN resp[c] : resp[c][i].seq = i - 1

(* Each TLS record of c carries bytes of one request only.                 *)
Unmixed(c) ==
  \A i \in DOMAIN sent[c] : \A j \in DOMAIN sent[c][i] :
    sent[c][i][j].id = sent[c][i][1].id

(***************************************************************************)
(* The i-th response answers the i-th request, and the worker of the       *)
(* function that request names wrote it, as long as the client puts no two *)
(* requests in one TLS record: read_one_request drops or strands what      *)
(* follows a request in its last record.                                   *)
(***************************************************************************)
AnsweredByNamed ==
  \A c \in Conns : Unmixed(c) => \A i \in DOMAIN resp[c] :
    /\ resp[c][i].id = i
    /\ resp[c][i].by = reqs[c][i].fn

(***************************************************************************)
(* When a process peeks at a connection or passes it on, no decrypted      *)
(* bytes are stranded in a session the next owner will not have, and the   *)
(* first record in the kernel begins the next unanswered request (again if *)
(* no record carries two requests).                                        *)
(***************************************************************************)
AtRequestBoundary ==
  \A p \in Procs :
    pc[p] \in {"dispatch", "restore", "peek", "relay"} /\ Unmixed(conn[p]) =>
      /\ ssl[p].pending = <<>>
      /\ consumed[conn[p]] < Len(sent[conn[p]]) =>
           LET i == Len(resp[conn[p]]) + 1
           IN /\ i \in DOMAIN reqs[conn[p]]
              /\ Peeked(conn[p])[1] = Plaintext(reqs[conn[p]][i], i)[1]

(***************************************************************************)
(* Records leave the kernel's receive buffer only in the worker of the     *)
(* function that the current request names: neither the gateway nor a      *)
(* worker that relays the connection consumes anything.                    *)
(***************************************************************************)
OnlyOwnerConsumes ==
  [][\A c \in Conns : consumed'[c] # consumed[c] /\ Unmixed(c) =>
       \E w \in Functions :
         conn[w] = c /\ reqs[c][Len(resp[c]) + 1].fn = w]_vars

(***************************************************************************)
(* The relay goroutine waits for room in a worker's queue while that       *)
(* worker waits for room in the relay's: neither ever accepts again.       *)
(***************************************************************************)
CircularWait(w) ==
  /\ pc[Relayer] = "dispatch" /\ target[Relayer] = w /\ up[w]
  /\ pc[w] = "relay" /\ up[Relayer]
  /\ Len(uds[w]) = MaxQueue /\ Len(uds[Relayer]) = MaxQueue

(* connect() to l blocks. *)
NoRoom(l) == Listening(l) /\ ~(Len(uds[l]) < MaxQueue)

(***************************************************************************)
(* A request that names the relay's own socket is dispatched by the relay  *)
(* to itself.  When its queue is full that connect waits for the one       *)
(* process that could make room.                                           *)
(***************************************************************************)
SelfWait ==
  pc[Relayer] = "dispatch" /\ target[Relayer] = Relayer /\ NoRoom(Relayer)

(* The relay waits for itself or for a worker that waits for it. *)
RelayDeadlock == SelfWait \/ \E w \in Functions : CircularWait(w)

Connected == {c \in Conns : client[c] # "idle"}

(***************************************************************************)
(* Either wait takes as many connections as the full queues and the        *)
(* processes in connect have room for; with listen(4096), a queue of 4097, *)
(* that is 2 * 4097 + 2 for the circle and 4097 + 1 for the relay alone.   *)
(***************************************************************************)
DeadlockNeedsConnections ==
  /\ (\E w \in Functions : CircularWait(w)) => Cardinality(Connected) >= 2 * MaxQueue + 2
  /\ SelfWait => Cardinality(Connected) >= MaxQueue + 1

(* The call p is in does not return before somebody else acts. *)
Blocked(p) ==
  \/ pc[p] = "accept" /\ IF p = Acceptor THEN backlog = {} ELSE uds[p] = <<>>
  \/ pc[p] = "handshake" /\ client[conn[p]] \notin {"hello", "gone"}
  \/ pc[p] = "peek" /\ ~PeekReturns(conn[p])
  \/ /\ pc[p] = "body" \/ (pc[p] = "headers" /\ ssl[p].pending = <<>>)
     /\ client[conn[p]] # "gone" /\ ~RecordReadable(p, conn[p])
  \/ pc[p] = "dispatch" /\ NoRoom(target[p])
  \/ pc[p] = "relay" /\ NoRoom(Relayer)

(* The client of c has closed or waits for the server: for its handshake,   *)
(* or, with everything sent and arrived, for a response.                    *)
Waits(c) ==
  \/ client[c] = "gone"
  \/ client[c] = "hello" /\ Open(c)
  \/ /\ client[c] = "secure" /\ Open(c)
     /\ todo[c] = <<>> /\ ~partial[c] /\ Len(resp[c]) < Len(reqs[c])

(* Everybody waits for somebody else. *)
Stuck ==
  /\ \A p \in Procs : Blocked(p)
  /\ \A c \in Conns : Waits(c)
  /\ ~AllDone

(***************************************************************************)
(* The system as a whole comes to a stop, every process blocked and every  *)
(* client waiting, only while the relay waits for itself or in a circle    *)
(* with a worker: every other blocking call is one that a client or        *)
(* another process ends.                                                   *)
(***************************************************************************)
StopsOnlyInRelayDeadlock ==
  ~ENABLED Next => Stuck /\ RelayDeadlock

-----------------------------------------------------------------------------
(* The inductive invariant behind SingleHolder, NoLeak, SerialFresh and     *)
(* NoncesInOrder *)

(* Every byte sent, decrypted or buffered belongs to a request the client   *)
(* issued, and a process in its accept loop has no session.                 *)
TokenUpTo(n) == {t \in Token : t.id \in 1..n}

IdsOK ==
  /\ \A c \in Conns :
       /\ todo[c] \in Seq(TokenUpTo(Len(reqs[c])))
       /\ sent[c] \in Seq(Seq(TokenUpTo(Len(reqs[c]))))
  /\ \A p \in Procs :
       IF conn[p] = NoConn
       THEN ssl[p] = NoSession /\ rd[p] = NoRead
       ELSE /\ ssl[p].pending \in Seq(TokenUpTo(Len(reqs[conn[p]])))
            /\ rd[p].buf \in Seq(TokenUpTo(Len(reqs[conn[p]])))
            /\ pc[p] \in {"body", "respond"} => rd[p].id \in 1..Len(reqs[conn[p]])

(* A process works on a connection except in its accept loop, and each kind *)
(* of process makes only its own calls.                                     *)
PcOK ==
  /\ \A p \in Procs : conn[p] = NoConn <=> pc[p] \in {"accept", "down"}
  /\ pc[Acceptor] \in {"accept", "handshake", "peek", "dispatch", "down"}
  /\ pc[Relayer] \in {"accept", "dispatch", "down"}
  /\ \A w \in Functions : pc[w] \notin {"handshake", "dispatch"}

(* What the typing proof carries from state to state. *)
TypeInv == TypeOK /\ PcOK /\ IdsOK

(* Nobody holds a descriptor of a connection that does not exist yet.       *)
IdleUnheld == \A c \in Conns : client[c] = "idle" => ~Open(c)

(* Until it is dispatched for the first time a session has moved no record, *)
(* and the accept goroutine's context is the one memset left.               *)
Untouched ==
  /\ \A c \in Conns : client[c] = "idle" \/ c \in backlog \/ c \in fds[Acceptor] =>
       consumed[c] = 0 /\ resp[c] = <<>>
  /\ pc[Acceptor] # "dispatch" => serial[Acceptor] = NoSerial
  /\ ssl[Acceptor] = NoSession

(* The live session of a worker is in step with the connection.             *)
SessionFresh ==
  \A w \in Functions : pc[w] \in {"peek", "relay", "headers", "body", "respond"} =>
    /\ ssl[w].read = consumed[conn[w]]
    /\ ssl[w].write = Len(resp[conn[w]])

(* Who holds what, and how the exported state relates to the connection. *)
OwnInv == IdleUnheld /\ NoLeak /\ SingleHolder
SeqInv == Untouched /\ SerialFresh /\ SessionFresh /\ NoncesInOrder

IInv == PcOK /\ OwnInv /\ SeqInv

-----------------------------------------------------------------------------
(* Liveness *)

(* Every request of c names a deployed function in one record. *)
Servable(c) ==
  \A i \in DOMAIN reqs[c] :
    reqs[c][i].fn \in Functions \cap GatewayNames /\ ~reqs[c][i].split

(* The next request of c to be answered names the relay's socket. *)
NamesRelay(c) ==
  Len(resp[c]) < Len(reqs[c]) /\ reqs[c][Len(resp[c]) + 1].fn = Relayer

(***************************************************************************)
(* The relay's queue does not fill for ever: neither a RelayDeadlock nor a *)
(* worker whose connect() finds the place it waits for taken every time by *)
(* a connection that goes round the relay (connect is not served in turn). *)
(***************************************************************************)
RelayKeepsRoom == <>[]~NoRoom(Relayer)

(***************************************************************************)
(* A well-behaved client that waits for a response gets it, however often  *)
(* its connection is passed between functions and whatever fails on others *)
(* or goes round the relay beside it, while the relay's queue has room.    *)
(***************************************************************************)
RequestsAnswered ==
  RelayKeepsRoom =>
    \A c \in Conns \ Faulty :
      Len(resp[c]) < Len(reqs[c]) /\ Servable(c) ~> Len(resp[c]) = Len(reqs[c])

(***************************************************************************)
(* Whatever single calls fail, a client that waits is answered or its      *)
(* connection is closed while the relay's queue has room, unless it waits  *)
(* for a request that names the relay, which server.go sends round the     *)
(* relay's own socket for ever: open, and neither answered nor closed.     *)
(***************************************************************************)
AnsweredOrClosed ==
  RelayKeepsRoom =>
    \A c \in Conns :
      Len(resp[c]) < Len(reqs[c])
        ~> Len(resp[c]) = Len(reqs[c]) \/ ~Open(c) \/ NamesRelay(c)

=============================================================================
