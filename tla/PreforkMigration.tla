------------------------- MODULE PreforkMigration -------------------------
(***************************************************************************)
(* The first migration system (libtlspeek/gateway, libtlspeek/worker).     *)
(*                                                                         *)
(* Pre-forked gateway processes share a listening socket.  Each accepts a  *)
(* connection, completes the TLS handshake, peeks at the first request,    *)
(* routes it, exports the session and sends descriptor and state to a      *)
(* worker, all with blocking calls.  A worker is an epoll loop: it keeps   *)
(* every connection it was sent and answers whatever it reads from it.     *)
(* Its sessions are found by descriptor number in the array clients[].     *)
(*                                                                         *)
(* Bytes of a record that is not whole change nothing but wolfSSL's input  *)
(* buffer and are left out; in the gateway, where they make the peek fail, *)
(* they are the fault "peek".                                              *)
(***************************************************************************)
EXTENDS Integers, Sequences, FiniteSets

CONSTANTS
  Conns,       \* TCP connections clients open
  Children,    \* forked gateway processes
  NWorkers,    \* workers, numbered from 0
  MaxFd,       \* descriptor numbers 1..MaxFd are free for a worker's connections
  Requests,    \* requests clients send
  Silent,      \* clients that may fall silent at any point
  NoConn,      \* no connection
  MaxRequests, \* bound: requests on one connection
  Faults       \* failures of the environment that may happen

FaultKinds == {"handshake", "peek", "sendmsg", "restore", "write", "window",
               "abort", "crash"}

Workers == 0..(NWorkers - 1)
Fds == 1..MaxFd

(* A request, sealed in one TLS record: the worker route_request names for  *)
(* its path, and the number of 8191-byte reads it takes.                    *)
Request == [route: {0, 1}, chunks: Nat \ {0}]

ASSUME PreforkConstants ==
  /\ IsFiniteSet(Conns) /\ NoConn \notin Conns
  /\ NWorkers \in Nat \ {0}
  /\ MaxFd \in Nat /\ MaxFd > Cardinality(Conns)
  /\ Requests \subseteq Request
  /\ Silent \subseteq Conns
  /\ MaxRequests \in Nat
  /\ Faults \subseteq FaultKinds

VARIABLES
  client,   \* client[c]: idle, connected, hello, secure, gone
  sent,     \* sent[c]: the requests sent, one record each
  consumed, \* consumed[c]: records taken out of the kernel's buffer
  resp,     \* resp[c]: the responses written
  backlog,  \* connections in the shared accept queue
  gpc,      \* gpc[g]: accept, handshake, peek, send
  gconn,    \* gconn[g]: the connection child g handles
  gfds,     \* gfds[g]: client descriptors open in child g
  uds,      \* uds[w]: connections in w's Unix socket, with the message each holds
  wpc,      \* wpc[w]: events, accept, down
  batch,    \* batch[w]: descriptors epoll_wait reported and w has yet to handle
  listening,\* listening[w]: the listening socket is among them
  open,     \* open[w][f]: the connection behind descriptor f of w
  epoll,    \* epoll[w]: descriptors registered with epoll
  clients   \* clients[w][f]: the conn_state_t of f

clientVars == <<client, sent>>
streamVars == <<consumed, resp>>
gatewayVars == <<backlog, gpc, gconn, gfds>>
workerVars == <<uds, wpc, batch, listening, open, epoll, clients>>
vars == <<clientVars, streamVars, gatewayVars, workerVars>>

(* conn_state_t: active, and the connection and record numbers of its ssl;  *)
(* pending counts the reads that the decrypted rest of a record will take.  *)
ConnState == [active: BOOLEAN, conn: Conns \cup {NoConn},
              read: Nat, write: Nat, pending: Nat]
Inactive == [active |-> FALSE, conn |-> NoConn, read |-> 0, write |-> 0, pending |-> 0]

(* What tlspeek_restore makes of the state the gateway exported before the  *)
(* session read or wrote a record.                                          *)
Restored(c) == [active |-> TRUE, conn |-> c, read |-> 0, write |-> 0, pending |-> 0]

(* whole: not cut short because the client's receive window was full.       *)
Response == [id: Nat, by: Workers, seq: Nat, whole: BOOLEAN]

TypeOK ==
  /\ client \in [Conns -> {"idle", "connected", "hello", "secure", "gone"}]
  /\ sent \in [Conns -> Seq(Request)]
  /\ consumed \in [Conns -> Nat]
  /\ resp \in [Conns -> Seq(Response)]
  /\ backlog \subseteq Conns
  /\ gpc \in [Children -> {"accept", "handshake", "peek", "send"}]
  /\ gconn \in [Children -> Conns \cup {NoConn}]
  /\ gfds \in [Children -> SUBSET Conns]
  /\ uds \in [Workers -> Seq(Conns \cup {NoConn})]
  /\ wpc \in [Workers -> {"events", "accept", "down"}]
  /\ batch \in [Workers -> SUBSET Fds]
  /\ listening \in [Workers -> BOOLEAN]
  /\ open \in [Workers -> [Fds -> Conns \cup {NoConn}]]
  /\ epoll \in [Workers -> SUBSET Fds]
  /\ clients \in [Workers -> [Fds -> ConnState]]

Init ==
  /\ client = [c \in Conns |-> "idle"]
  /\ sent = [c \in Conns |-> <<>>]
  /\ consumed = [c \in Conns |-> 0]
  /\ resp = [c \in Conns |-> <<>>]
  /\ backlog = {}
  /\ gpc = [g \in Children |-> "accept"]
  /\ gconn = [g \in Children |-> NoConn]
  /\ gfds = [g \in Children |-> {}]
  /\ uds = [w \in Workers |-> <<>>]
  /\ wpc = [w \in Workers |-> "events"]
  /\ batch = [w \in Workers |-> {}]
  /\ listening = [w \in Workers |-> FALSE]
  /\ open = [w \in Workers |-> [f \in Fds |-> NoConn]]
  /\ epoll = [w \in Workers |-> {}]
  /\ clients = [w \in Workers |-> [f \in Fds |-> Inactive]]

Holds(w, c) == \E f \in Fds : open[w][f] = c

(* Some process or message holds a reference to the server's end of c.      *)
Open(c) ==
  \/ c \in backlog
  \/ \E g \in Children : c \in gfds[g]
  \/ \E w \in Workers : Holds(w, c) \/ \E i \in DOMAIN uds[w] : uds[w][i] = c

-----------------------------------------------------------------------------
(* Clients *)

Connect(c) ==
  /\ client[c] = "idle"
  /\ client' = [client EXCEPT ![c] = "connected"]
  /\ backlog' = backlog \cup {c}
  /\ UNCHANGED <<sent, streamVars, gpc, gconn, gfds, workerVars>>

Hello(c) ==
  /\ client[c] = "connected"
  /\ client' = [client EXCEPT ![c] = "hello"]
  /\ UNCHANGED <<sent, streamVars, gatewayVars, workerVars>>

SendRequest(c, r) ==
  /\ client[c] = "secure" /\ Open(c)
  /\ Len(sent[c]) < MaxRequests
  /\ sent' = [sent EXCEPT ![c] = Append(@, r)]
  /\ UNCHANGED <<client, streamVars, gatewayVars, workerVars>>

(* A client closes when it has its answers or the server has closed, or, if *)
(* it aborts, at any time.                                                  *)
ClientClose(c) ==
  /\ client[c] \in {"connected", "hello", "secure"}
  /\ \/ "abort" \in Faults
     \/ client[c] = "secure" /\ sent[c] # <<>> /\ Len(resp[c]) >= Len(sent[c])
     \/ ~Open(c)
  /\ client' = [client EXCEPT ![c] = "gone"]
  /\ UNCHANGED <<sent, streamVars, gatewayVars, workerVars>>

-----------------------------------------------------------------------------
(* Gateway processes: handle_connection *)

Accept(g, c) ==
  /\ gpc[g] = "accept" /\ c \in backlog
  /\ backlog' = backlog \ {c}
  /\ gpc' = [gpc EXCEPT ![g] = "handshake"]
  /\ gconn' = [gconn EXCEPT ![g] = c]
  /\ gfds' = [gfds EXCEPT ![g] = @ \cup {c}]
  /\ UNCHANGED <<clientVars, streamVars, workerVars>>

Return(g) ==
  /\ gpc' = [gpc EXCEPT ![g] = "accept"]
  /\ gconn' = [gconn EXCEPT ![g] = NoConn]

(* close(client_fd) and return. *)
CloseAndReturn(g) ==
  /\ Return(g)
  /\ gfds' = [gfds EXCEPT ![g] = @ \ {gconn[g]}]

(* wolfSSL_accept blocks until the client has sent its part. *)
Handshake(g) ==
  /\ gpc[g] = "handshake" /\ client[gconn[g]] = "hello"
  /\ client' = [client EXCEPT ![gconn[g]] = "secure"]
  /\ gpc' = [gpc EXCEPT ![g] = "peek"]
  /\ UNCHANGED <<sent, streamVars, backlog, gconn, gfds, workerVars>>

(* wolfSSL_accept fails, or keys_ready is still 0 after it. *)
HandshakeFails(g) ==
  /\ gpc[g] = "handshake"
  /\ \/ client[gconn[g]] = "gone"
     \/ client[gconn[g]] = "hello" /\ "handshake" \in Faults
  /\ CloseAndReturn(g)
  /\ UNCHANGED <<clientVars, streamVars, backlog, workerVars>>

(* Mutant: the gateway reads the request instead of peeking at it. *)
MutPeekAndExport(g) ==
  /\ gpc[g] = "peek" /\ sent[gconn[g]] # <<>>
  /\ gpc' = [gpc EXCEPT ![g] = "send"]
  /\ consumed' = [consumed EXCEPT ![gconn[g]] = @ + 1]
  /\ UNCHANGED <<clientVars, resp, backlog, gconn, gfds, workerVars>>

(* tls_read_peek on the first record, and wolfSSL_tls_export. *)
PeekAndExport(g) ==
  /\ gpc[g] = "peek" /\ sent[gconn[g]] # <<>>
  /\ gpc' = [gpc EXCEPT ![g] = "send"]
  /\ UNCHANGED <<clientVars, streamVars, backlog, gconn, gfds, workerVars>>

PeekOrExportFails(g) ==
  /\ gpc[g] = "peek"
  /\ \/ client[gconn[g]] = "gone"
     \/ sent[gconn[g]] # <<>> /\ "peek" \in Faults
  /\ CloseAndReturn(g)
  /\ UNCHANGED <<clientVars, streamVars, backlog, workerVars>>

(* route_request, and worker 0 for a number out of range. *)
RouteRequest(c) ==
  LET worker_id == sent[c][1].route
  IN IF worker_id >= NWorkers THEN 0 ELSE worker_id

(* Mutant: sendfd_with_state does not close the sender's descriptor. *)
MutSendFd(g) ==
  /\ gpc[g] = "send"
  /\ LET w == RouteRequest(gconn[g])
     IN wpc[w] # "down" /\ uds' = [uds EXCEPT ![w] = Append(@, gconn[g])]
  /\ Return(g)
  /\ UNCHANGED <<clientVars, streamVars, backlog, gfds,
                 wpc, batch, listening, open, epoll, clients>>

(* unix_client_connect and sendfd_with_state. *)
SendFd(g) ==
  /\ gpc[g] = "send"
  /\ LET w == RouteRequest(gconn[g])
     IN wpc[w] # "down" /\ uds' = [uds EXCEPT ![w] = Append(@, gconn[g])]
  /\ CloseAndReturn(g)
  /\ UNCHANGED <<clientVars, streamVars, backlog,
                 wpc, batch, listening, open, epoll, clients>>

(* No worker listens: client_fd is closed. *)
ConnectFails(g) ==
  /\ gpc[g] = "send" /\ wpc[RouteRequest(gconn[g])] = "down"
  /\ CloseAndReturn(g)
  /\ UNCHANGED <<clientVars, streamVars, backlog, workerVars>>

(* sendmsg fails after connect: sendfd_with_state returns before its        *)
(* close(fd_to_send), and handle_connection closes only uds_fd.             *)
SendFdFails(g) ==
  /\ "sendmsg" \in Faults
  /\ gpc[g] = "send"
  /\ LET w == RouteRequest(gconn[g])
     IN wpc[w] # "down" /\ uds' = [uds EXCEPT ![w] = Append(@, NoConn)]
  /\ Return(g)
  /\ UNCHANGED <<clientVars, streamVars, backlog, gfds,
                 wpc, batch, listening, open, epoll, clients>>

ChildStep(g) ==
  \/ \E c \in Conns : Accept(g, c)
  \/ Handshake(g) \/ HandshakeFails(g)
  \/ PeekAndExport(g) \/ PeekOrExportFails(g)
  \/ SendFd(g) \/ ConnectFails(g) \/ SendFdFails(g)

-----------------------------------------------------------------------------
(* Workers: one epoll loop *)

(* Level-triggered EPOLLIN, or the hang-up that epoll always reports.       *)
Readable(w, f) ==
  LET c == open[w][f]
  IN c # NoConn /\ (consumed[c] < Len(sent[c]) \/ client[c] = "gone")

Ready(w) == {f \in epoll[w] : Readable(w, f)}

EpollWait(w) ==
  /\ wpc[w] = "events" /\ batch[w] = {} /\ ~listening[w]
  /\ Ready(w) # {} \/ uds[w] # <<>>
  /\ batch' = [batch EXCEPT ![w] = Ready(w)]
  /\ listening' = [listening EXCEPT ![w] = uds[w] # <<>>]
  /\ UNCHANGED <<clientVars, streamVars, gatewayVars, uds, wpc, open, epoll, clients>>

(* The listening socket's event: accept until there is nothing to accept.   *)
BeginAccept(w) ==
  /\ wpc[w] = "events" /\ listening[w]
  /\ wpc' = [wpc EXCEPT ![w] = "accept"]
  /\ listening' = [listening EXCEPT ![w] = FALSE]
  /\ UNCHANGED <<clientVars, streamVars, gatewayVars, uds, batch, open, epoll, clients>>

EndAccept(w) ==
  /\ wpc[w] = "accept" /\ uds[w] = <<>>
  /\ wpc' = [wpc EXCEPT ![w] = "events"]
  /\ UNCHANGED <<clientVars, streamVars, gatewayVars, uds, batch, listening,
                 open, epoll, clients>>

Free(w) == {f \in Fds : open[w][f] = NoConn}
Lowest(S) == CHOOSE f \in S : \A g \in S : f <= g

(* The accepted Unix connection takes the lowest free number while recvmsg  *)
(* installs the client's descriptor; it is closed before the next accept.   *)
NextFd(w) == Lowest(Free(w) \ {Lowest(Free(w))})

(* recvmsg yields nothing: the sender closed after a failed sendmsg. *)
RecvNothing(w) ==
  /\ wpc[w] = "accept" /\ uds[w] # <<>> /\ Head(uds[w]) = NoConn
  /\ uds' = [uds EXCEPT ![w] = Tail(@)]
  /\ UNCHANGED <<clientVars, streamVars, gatewayVars, wpc, batch, listening,
                 open, epoll, clients>>

(* wolfSSL_new or tlspeek_restore fails: the descriptor is closed. *)
RestoreFails(w) ==
  /\ "restore" \in Faults
  /\ wpc[w] = "accept" /\ uds[w] # <<>> /\ Head(uds[w]) # NoConn
  /\ uds' = [uds EXCEPT ![w] = Tail(@)]
  /\ UNCHANGED <<clientVars, streamVars, gatewayVars, wpc, batch, listening,
                 open, epoll, clients>>

(* Mutant: the descriptor is not added to the epoll set. *)
MutRegister(w) ==
  /\ wpc[w] = "accept" /\ uds[w] # <<>> /\ Head(uds[w]) # NoConn
  /\ uds' = [uds EXCEPT ![w] = Tail(@)]
  /\ LET f == NextFd(w)
     IN /\ open' = [open EXCEPT ![w][f] = Head(uds[w])]
        /\ clients' = [clients EXCEPT ![w][f] = Restored(Head(uds[w]))]
  /\ UNCHANGED <<clientVars, streamVars, gatewayVars, wpc, batch, listening, epoll>>

(* The session is restored, entered in clients[] and added to the epoll set. *)
Register(w) ==
  /\ wpc[w] = "accept" /\ uds[w] # <<>> /\ Head(uds[w]) # NoConn
  /\ uds' = [uds EXCEPT ![w] = Tail(@)]
  /\ LET f == NextFd(w)
     IN /\ open' = [open EXCEPT ![w][f] = Head(uds[w])]
        /\ clients' = [clients EXCEPT ![w][f] = Restored(Head(uds[w]))]
        /\ epoll' = [epoll EXCEPT ![w] = @ \cup {f}]
  /\ UNCHANGED <<clientVars, streamVars, gatewayVars, wpc, batch, listening>>

(* A client's event is handled.  close_client's guard and the loop's own    *)
(* check of clients[fd].active are this conjunct.                           *)
Event(w, f) ==
  /\ wpc[w] = "events" /\ f \in batch[w] /\ clients[w][f].active
  /\ batch' = [batch EXCEPT ![w] = @ \ {f}]

(* Mutant: one chunk too few is left pending. *)
MutAfterRead(s) ==
  IF s.pending > 0
  THEN [s EXCEPT !.pending = @ - 1]
  ELSE [s EXCEPT !.read = @ + 1,
                 !.pending = sent[s.conn][consumed[s.conn] + 1].chunks - 2]

(* wolfSSL_read returns up to 8191 bytes: the rest of a decrypted record    *)
(* first, else the first record in the kernel if its number is the next.    *)
AfterRead(s) ==
  IF s.pending > 0
  THEN [s EXCEPT !.pending = @ - 1]
  ELSE [s EXCEPT !.read = @ + 1,
                 !.pending = sent[s.conn][consumed[s.conn] + 1].chunks - 1]

ReadSucceeds(s) ==
  \/ s.pending > 0
  \/ consumed[s.conn] < Len(sent[s.conn]) /\ s.read = consumed[s.conn]

(* Mutant: the read leaves the record in the kernel. *)
MutConsumedBy(s) == consumed[s.conn]

ConsumedBy(s) == IF s.pending > 0 THEN consumed[s.conn] ELSE consumed[s.conn] + 1

(* A read that returns bytes, and the response written at once: one per     *)
(* read, whatever was read.  When writing would block, the loop gives up on *)
(* the rest of the response and keeps the connection.                       *)
Serve(w, f, whole) ==
  LET s == clients[w][f]
  IN /\ Event(w, f) /\ ReadSucceeds(s)
     /\ whole \/ "window" \in Faults
     /\ consumed' = [consumed EXCEPT ![s.conn] = ConsumedBy(s)]
     /\ resp' = [resp EXCEPT ![s.conn] =
                   Append(@, [id |-> ConsumedBy(s), by |-> w, seq |-> s.write, whole |-> whole])]
     /\ clients' = [clients EXCEPT ![w][f] = [AfterRead(s) EXCEPT !.write = @ + 1]]
     /\ UNCHANGED <<clientVars, gatewayVars, uds, wpc, listening, open, epoll>>

(* Mutant: clients[fd] is not cleared. *)
MutCloseClient(w, f) ==
  /\ epoll' = [epoll EXCEPT ![w] = @ \ {f}]
  /\ open' = [open EXCEPT ![w][f] = NoConn]
  /\ UNCHANGED clients

(* close_client. *)
CloseClient(w, f) ==
  /\ epoll' = [epoll EXCEPT ![w] = @ \ {f}]
  /\ open' = [open EXCEPT ![w][f] = NoConn]
  /\ clients' = [clients EXCEPT ![w][f] = Inactive]

(* End of file, or a record that does not decrypt. *)
ReadFails(w, f) ==
  /\ Event(w, f)
  /\ LET s == clients[w][f]
     IN \/ client[s.conn] = "gone"
        \/ consumed[s.conn] < Len(sent[s.conn]) /\ ~ReadSucceeds(s)
  /\ CloseClient(w, f)
  /\ UNCHANGED <<clientVars, streamVars, gatewayVars, uds, wpc, listening>>

(* The request is read and writing the response fails. *)
WriteFails(w, f) ==
  LET s == clients[w][f]
  IN /\ Event(w, f) /\ ReadSucceeds(s)
     /\ client[s.conn] = "gone" \/ "write" \in Faults
     /\ consumed' = [consumed EXCEPT ![s.conn] = ConsumedBy(s)]
     /\ CloseClient(w, f)
     /\ UNCHANGED <<clientVars, resp, gatewayVars, uds, wpc, listening>>

WorkerStep(w) ==
  \/ EpollWait(w) \/ BeginAccept(w) \/ EndAccept(w)
  \/ RecvNothing(w) \/ RestoreFails(w) \/ Register(w)
  \/ \E f \in batch[w] : ReadFails(w, f) \/ WriteFails(w, f)
                         \/ \E whole \in BOOLEAN : Serve(w, f, whole)

(* A worker dies: the kernel closes what it had and what was queued for it. *)
WorkerDies(w) ==
  /\ "crash" \in Faults /\ wpc[w] # "down"
  /\ uds' = [uds EXCEPT ![w] = <<>>]
  /\ wpc' = [wpc EXCEPT ![w] = "down"]
  /\ batch' = [batch EXCEPT ![w] = {}]
  /\ listening' = [listening EXCEPT ![w] = FALSE]
  /\ open' = [open EXCEPT ![w] = [f \in Fds |-> NoConn]]
  /\ epoll' = [epoll EXCEPT ![w] = {}]
  /\ clients' = [clients EXCEPT ![w] = [f \in Fds |-> Inactive]]
  /\ UNCHANGED <<clientVars, streamVars, gatewayVars>>

(* It is started again: unix_server_socket unlinks, binds and listens. *)
WorkerStarts(w) ==
  /\ wpc[w] = "down"
  /\ wpc' = [wpc EXCEPT ![w] = "events"]
  /\ UNCHANGED <<clientVars, streamVars, gatewayVars, uds, batch, listening,
                 open, epoll, clients>>

-----------------------------------------------------------------------------

ClientStep(c) ==
  \/ Connect(c) \/ Hello(c) \/ ClientClose(c)
  \/ \E r \in Requests : SendRequest(c, r)

(* All but the silent clients have finished and the workers are idle. *)
Finished ==
  /\ \A c \in Conns \ Silent : client[c] = "gone" /\ ~Open(c)
  /\ \A w \in Workers : uds[w] = <<>> /\ batch[w] = {} /\ wpc[w] = "events"
  /\ UNCHANGED vars

Next ==
  \/ \E c \in Conns : ClientStep(c)
  \/ \E g \in Children : ChildStep(g)
  \/ \E w \in Workers : WorkerStep(w) \/ WorkerDies(w) \/ WorkerStarts(w)
  \/ Finished

Spec == Init /\ [][Next]_vars

(***************************************************************************)
(* The processes are scheduled and their blocking calls return once what   *)
(* they wait for is there; every client but the silent ones connects,      *)
(* finishes its handshake, sends a request and closes when it has its      *)
(* answers.  A silent one may stop before any of these steps.              *)
(***************************************************************************)
Fairness ==
  /\ \A c \in Conns \ Silent : WF_vars(ClientStep(c))
  /\ \A g \in Children : WF_vars(ChildStep(g))
  /\ \A w \in Workers : WF_vars(WorkerStep(w))

FairSpec == Spec /\ Fairness

-----------------------------------------------------------------------------
(* Properties *)

Queued(w, c) == \E i \in DOMAIN uds[w] : uds[w][i] = c

(***************************************************************************)
(* A connection is in one place: the accept queue, one gateway process, a  *)
(* message, or under one descriptor number of one worker.  Two holders     *)
(* would use the same write nonces.                                        *)
(***************************************************************************)
SingleHolder ==
  \A c \in Conns :
    /\ \A g, h \in Children : c \in gfds[g] /\ c \in gfds[h] => g = h
    /\ \A w, v \in Workers : \A i \in DOMAIN uds[w], j \in DOMAIN uds[v] :
         uds[w][i] = c /\ uds[v][j] = c => w = v /\ i = j
    /\ \A w, v \in Workers : \A f, e \in Fds :
         open[w][f] = c /\ open[v][e] = c => w = v /\ f = e
    /\ \A g \in Children, w \in Workers : c \in gfds[g] => ~Holds(w, c) /\ ~Queued(w, c)
    /\ \A v, w \in Workers : Holds(v, c) => ~Queued(w, c)
    /\ c \in backlog =>
         /\ \A g \in Children : c \notin gfds[g]
         /\ \A w \in Workers : ~Holds(w, c) /\ ~Queued(w, c)

(***************************************************************************)
(* The array clients[] tells the truth about descriptors, however often    *)
(* their numbers are reused: an entry is active exactly while its number   *)
(* is registered with epoll, its session is that of the connection behind  *)
(* the number, and an event still to be handled is for a live entry.       *)
(***************************************************************************)
ClientTableTrue ==
  \A w \in Workers, f \in Fds :
    /\ clients[w][f].active <=> f \in epoll[w]
    /\ clients[w][f].conn = open[w][f]
    /\ f \in batch[w] => clients[w][f].active

(***************************************************************************)
(* The worker reads and writes each connection's records in their order:   *)
(* its session's numbers are those of the next record in the kernel and of *)
(* the next response, so no nonce is used twice or skipped.                *)
(***************************************************************************)
SessionsInStep ==
  /\ \A w \in Workers, f \in Fds : clients[w][f].active =>
       /\ clients[w][f].read = consumed[open[w][f]]
       /\ clients[w][f].write = Len(resp[open[w][f]])
  /\ \A c \in Conns : \A i \in DOMAIN resp[c] : resp[c][i].seq = i - 1

(* Every request of c fits one wolfSSL_read. *)
OneReadEach(c) == \A i \in DOMAIN sent[c] : sent[c][i].chunks = 1

(***************************************************************************)
(* The i-th response on a connection answers the i-th request, and the     *)
(* worker that the first request was routed to writes all of them, as long *)
(* as no request is longer than the 8191 bytes of one read: every further  *)
(* read of a longer one counts as a request of its own.                    *)
(***************************************************************************)
AnsweredInOrder ==
  \A c \in Conns : OneReadEach(c) =>
    \A i \in DOMAIN resp[c] : resp[c][i].id = i /\ resp[c][i].by = RouteRequest(c)

(***************************************************************************)
(* gateway.c, on a failed sendfd_with_state: "client_fd is closed by       *)
(* sendfd_with_state even on partial failure usually".  A gateway process  *)
(* back in its accept loop has no client's descriptor open.                *)
(***************************************************************************)
NoGatewayLeak ==
  \A g \in Children : gfds[g] = IF gconn[g] = NoConn THEN {} ELSE {gconn[g]}

(***************************************************************************)
(* As long as fewer clients stay silent than there are gateway processes,  *)
(* every other client's session comes to its end: it is accepted, routed,  *)
(* answered and closed.                                                    *)
(***************************************************************************)
SessionsEnd ==
  Cardinality(Silent) < Cardinality(Children) =>
    \A c \in Conns \ Silent : client[c] = "connected" ~> client[c] = "gone"
=============================================================================
