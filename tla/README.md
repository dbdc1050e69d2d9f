# Verification of TLS session migration by descriptor passing

The repository moves a live TLS 1.3 connection between processes. A gateway
completes the handshake, looks at the first request without consuming it
(`tls_read_peek`: `recv(MSG_PEEK)` and a stateless decryption), exports the
session and sends the client's TCP descriptor and the exported state over a Unix
socket (`SCM_RIGHTS`) to the worker of the function that the request names. In
the keep-alive prototype a worker peeks at every later request too and sends
the connection back through a relay socket of the gateway when the request
names another function.

## Inventory

| Part | State | Operations | Modelled |
|---|---|---|---|
| Keep-alive gateway, accept goroutine (`prototype/faasd_tlsmigrate_keepalive/gateway`: `Run`, `accept_peek_export`, `send_fd`) | client descriptor, wolfSSL session, payload | accept, handshake, peek, export, parse, dispatch | `KeepaliveMigration` |
| Keep-alive gateway, relay goroutine (`runRelay`, `accept_recv`) | descriptor, payload | accept + receive, dispatch | `KeepaliveMigration` |
| Keep-alive worker (`function/timing-fn`: `main`, `process_session`) | descriptor, payload, session, header buffer | receive, restore, peek, relay, read, respond, export | `KeepaliveMigration` |
| Descriptor passing (`libtlspeek/common`) | Unix socket queues | `sendfd_with_state`, `recvfd_with_state`, connect, accept | `KeepaliveMigration` |
| tlspeek library (`libtlspeek/lib`) | traffic keys, suite, `read_seq_num`, stack buffers | derive keys, peek, serialise, restore | `TlsPeek` |
| libtlspeek pre-forked gateway (`libtlspeek/gateway`) | client descriptor, session | accept, handshake, peek, route, export, send | `PreforkMigration` |
| libtlspeek epoll worker (`libtlspeek/worker`) | `clients[]` by descriptor number, epoll set, sessions | receive, restore, read, respond, close | `PreforkMigration` |
| Initial-request prototype (`prototype/faasd_tlsmigrate`: the gateway as a patch, `timing_fn_worker.c`) | descriptor, payload, session, header buffer | accept, peek, export, send; receive, second peek, restore, read, respond, close | `InitialMigration` |
| Hot-potato prototype (`faad_optimization-Romero_New`: `gateway.c`, `worker_sum.c`, `worker_product.c`) | `migration_msg_t`, session, descriptor copies | poll, accept, read, export, send; receive, respond, read next, send back | `HotPotato` |
| SNI-routing gateway and workers (`Performance_old`) | a child process per connection on each side, copies of the descriptor | poll, peek, send, wait for the byte; fork, receive, serve, acknowledge | `SniRouting` |
| Epoll gateway and worker of `micro-bench-max-throughput` | | event-driven keep-alive migration | no |
| Plain-HTTP variants | | the same hand-over without TLS state | no |
| Baseline proxies, load generators, scripts, results, demonstrations | | measurement harness | no |
| `faas`, `faasd`, `of-watchdog`, `wolfssl` | | empty submodules; wolfSSL is modelled from its use | external |

What is hard about it: three kinds of processes and the clients interleave; a
connection is owned by whoever has its descriptor and two owners would reuse
nonces; exported state is a copy that goes stale with the next record; peeking
sees only what has arrived; every call blocks, in single-threaded processes, so
that a silent client or a full queue stops others; processes die with
descriptors in flight; TLS records and HTTP requests need not coincide.
`PROJECT.json` lists these hazards at their lines.

## Modules

`KeepaliveMigration` is the system: clients, network, gateway and workers.

| Variable | Code |
|---|---|
| `client`, `reqs`, `todo`, `sent`, `partial` | a client: where it is, requests issued, plaintext not yet sealed, TLS records sent, and whether the last of them has arrived only in part |
| `consumed` | records read out of the kernel's receive buffer; it is also the number of the next record |
| `resp` | responses written, with the worker and the record number each was sealed with |
| `backlog`, `uds`, `up` | the TCP accept queue; each Unix socket's pending connections with the message in them; whether it is bound |
| `pc`, `conn` | the blocking call a process is in and the connection it concerns |
| `fds` | client descriptors open in a process |
| `serial`, `target` | the payload: `tlspeek_serial_t` (the peek's `read_seq_num`, the record numbers in the wolfSSL blob) and `target_function` |
| `ssl`, `rd` | the worker's wolfSSL session (record numbers, decrypted bytes not yet read) and the locals of `read_one_request` |

One action per blocking call with what the code does up to the next one, error
paths as actions of their own (`HandshakeFails`, `SendFdFails`,
`PeekOwnerFails`, ...). `Drop` is `close(client_fd)` and the return to the accept
loop, which every error path ends in. `SendFd` contains the `close` that
`sendfd_with_state` performs. `RespondAndKeep` contains the export that follows a
response.

Abstractions. A request is cut where record boundaries matter: its request line
(in two halves if it may be split), the rest of its headers, body bytes.
Decryption succeeds exactly when the nonce's number is the record's. Response
record numbers count from the export after the handshake (session tickets sent
before it shift all of them alike). A function name is a member of
`Names`; `GatewayNames` are those whose characters `parseFunctionName` accepts;
of a cut request line it may return any name, being a prefix of the real one.
`Relayer` may be one of the names: in the default configuration the relay's socket lies
in the directory of the functions' sockets (`config.go:42-43`), so that a request for
`/function/keepalive-relay` is dispatched to the relay itself. It goes round the relay's
queue for ever, and when that queue is full the relay waits in `connect` for itself
(`SelfWait`). Only a function deployed under that very socket name is excluded, since the
two processes would unlink each other's socket.
The 1 MiB header limit, name lengths, payload magic (all senders write it) and
timestamps are left out.

`TlsPeek` is the library on one connection, driven by the keep-alive gateway
and workers: `KeylogCb` in any order during the handshake, `GatewayPeek` and
export, `WorkerPeek`, `ReadRecord`, `ExportLiveSerial`. Key material is what it is
derived from (secret, hash, length); a record is its header fields and padding. The sizes of
`raw`, `plaintext`, header and tag are the code's, and lengths range over 16 bits.
The AEAD call verifies exactly when cipher, key and number are those the client
sealed the record with. A record that is not application data is an error to
`wolfSSL_read`; key updates are left out.

`PreforkMigration` is libtlspeek's own system: pre-forked gateway processes, which
serve one connection at a time with blocking calls, and workers, each an epoll
loop. `gpc`, `gconn`, `gfds` are a gateway process's call, connection and open
descriptors; `open` is a worker's descriptor table, with the lowest free number
given out as the kernel does; `epoll`, `batch`, `listening` are the registered
descriptors and the events of one `epoll_wait` still to be handled; `clients` is the
array of sessions. Connect and `sendmsg` are one step, since the worker's
`recvmsg` blocks until the message or the close of its sender. A
request is one TLS record and counts the 8191-byte reads it takes. A full Unix
socket queue (`listen(4096)` holds 4097), exhausted descriptors and the worker's plain-HTTP path are left
out. A response cut short by a full window is recorded as such; what wolfSSL makes of
the buffered rest is not modelled.

`InitialMigration` is the prototype with one request per connection. The gateway peeks,
the worker peeks at the same record again and refuses what is not its own, restores,
reads with a header buffer of bounded size (`BufSize` tokens; `Room` is what is left of
it), answers and closes. `reset` records the kernel's answer to a close with
unread bytes, or to bytes that come after it; `got` that the client has read its
response. `Prefixes` says which names a cut request line may show. Any record may
arrive in two parts (`partial`), whoever sent it: TCP cuts where it likes. `tls_read_peek` fails
on a record that is not all there and the gateway peeks once, so it may close a client that
behaves (`FirstCut`); `wolfSSL_read` in the worker waits for the rest.

`HotPotato` is the earlier prototype, in which nothing is peeked at: whoever has the
session reads the next request and exports the session after it. Messages carry
the request. `copies[p][c]` counts the descriptors of `c` open in `p`: hand-overs in
case A and from workers leave one behind, and `MaxFds` bounds the table, so that
`socket`, `accept` and the descriptor in `recvmsg` can fail. The results of
`wolfSSL_tls_export`, `wolfSSL_tls_import` and `wolfSSL_write` are ignored by the code;
the model lets them succeed. A failed `sendmsg` leaves an empty Unix connection,
which the peer accepts and closes; it is left out. Two processes blocked in
`connect` at each other would need both queues of the code (10 each, plus the sessions in
hand) full, more connections than any instance here has.

`SniRouting` migrates before the handshake: gateway and worker fork a child per
connection and nothing is serialised. The handshake in the worker's child is as many steps
as it has messages to wait for: the ClientHello is answered (`AnswerHello`, the client is
`greeted`), the client sends its Finished (`Finish`), and only then does the first
`wolfSSL_read` go on to requests (`Handshake`). `gpc[c]` and `wpc[c]` are the two children of
connection `c`, `gfds` and `wfds` their descriptors, `kept` what a parent has open when
it forks. accept, fork and close are one action, since the parent does nothing
else in between. Time is not modelled: the time-out of one second may fire for
clients in `Slow`. Of the ClientHello only the number of bytes in which the name is
found matters (`need`). A failed fork is recorded in `refused`.

In these three modules `Faulty` are the connections on which clients may abort and
calls may fail; the others share gateway and workers with them. `KeepaliveMigration`
has the same constant, beside the kinds of failures (`Faults`).

`SessionOwnership` is what migration promises: one holder per session; the receive number
moves only in the hands of its `Readers` and the send number in a function's, and both
travel unchanged; a lost session stays lost. Where the gateway only peeks, the readers are
the functions; in the hot potato it reads too. `KeepaliveOwnership`, `InitialOwnership`,
`PotatoOwnership` and `PreforkOwnership` map the four migrations that export a session
onto it. (`SniRouting` exports none: the session begins after the hand-over.) In
`PreforkOwnership` the holders among workers are named by their sockets, since the
model numbers its workers. The `MC...` modules hold the instances.
Definitions named `Mut...` are faulty variants of the definition after them,
used to confirm that the properties notice the fault; no specification uses them.

## Runs

The keep-alive runs use two functions and, but for the liveness run, `MaxQueue = 1` (a full
queue needs one message). Connections named "faulty" may have failing calls and aborts.

| Run | Instance | Shows |
|---|---|---|
| `keepalive_safety` | 1 connection, 3 requests of eight kinds (with body, long body, close, split line, unserved name, odd name, unroutable, the relay's name), sent ahead, any record cut | `TypeOK`; `AnsweredByNamed`; `AtRequestBoundary`; `SerialFresh`; `OnlyOwnerConsumes` |
| `keepalive_faults` | 2 connections, 3 requests without bodies, every call failure, partial records, aborts, processes that start late, die and restart | `SingleHolder`; `NoLeak`; `AnsweredByNamed`; `NoncesInOrder`; `ImplementsOwnership` |
| `keepalive_crowd` | 4 connections, 2 requests, some naming the relay | `DeadlockNeedsConnections`; `StopsOnlyInRelayDeadlock` |
| `keepalive_liveness` | 2 connections, one of them with call failures, partial records and aborts, 3 requests, some naming the relay, `MaxQueue = 2`, fair | `RequestsAnswered`; `AnsweredOrClosed` |
| `tlspeek` | all suites, lengths around every check and buffer size, padding, 2 records read | `PeekInBounds`; `PeekShowsContent` |
| `tlspeek_suites` | the same | `PeekShowsEverySuite` is violated |
| `prefork_safety` | 2 connections, 2 requests of one and two reads, 2 gateway processes, 2 workers that die and restart, every call failure, aborts | `TypeOK`; `SessionsInStep`; `AnsweredInOrder`; `SingleHolder`; `ClientTableTrue` |
| `prefork_silent` | 3 connections, one that may fall silent at any point, 2 gateway processes, fair | `SessionsEnd` |
| `prefork_leak` | failing `sendmsg` | `NoGatewayLeak` is violated |
| `hotpotato` | 2 connections, one faulty with split, oversized and invalid requests, 4 requests, tables of 3 to 5 descriptors, fair | `TypeOK`; `SingleUser`; `RecordsInStep`; `AnsweredByNamed`; `CopiesBounded`; `RequestsAnswered` |
| `initial_migration` | 2 connections, one faulty, eight kinds of requests, records in parts, a header buffer of 3 tokens, 3 functions, fair | `TypeOK`; `OneHolder`; `SecondPeekAgrees`; `OnlyNamedConsumes`; `NoResetAfterAnswer`; `ImplementsOwnership`; `Delivered` |
| `sni_routing` | 2 connections, one slow, silent and faulty, TLS and plain HTTP, through the gateway or direct, few processes, fair | `TypeOK`; `NoStrayCopies`; `FlightSettled`; `ServedDespiteSilent`; `ChildrenEnd` |

Bounds. Two connections let a worker hold one while the other is queued,
relayed or in the gateway; three requests bring a connection to another function and
back. Four connections are exactly what a circular wait needs with queues of one
(the run reaches it). What pipelining and the cutting of records do concerns one
connection, hence the one of `keepalive_safety`. Two connections through one worker
reuse descriptor numbers while events for the other are pending. In `hotpotato` four
requests take a session to the other worker twice, which fills the smaller table. In
`initial_migration` a record can end anywhere in a request; headers are shorter than the
buffer, end exactly at its end, or exceed it by one token. In `sni_routing` a flight of three
units can be seen before, at and after the name. In `keepalive_faults` requests have no body,
as a worker that waits for one is in no other danger than one that waits for headers, which
partial records keep waiting too. With `MaxQueue = 1` one connection that goes round the relay could
keep its queue full for ever; `keepalive_liveness` has room for two, of the code's 4097
(`listen(4096)`).
Symmetry permutes connections and gateway processes, and functions where the requests
treat them alike; never with liveness.

Deadlock is checked in `keepalive_faults`, `keepalive_liveness` and
`prefork_silent`. Elsewhere the system may stop. In `tlspeek` the stream is bounded
and a closed connection is the end. In `prefork_safety` the client of
a connection that the gateway leaked waits for ever. `keepalive_crowd` reaches the
circular wait and the relay's wait for itself, which `StopsOnlyInRelayDeadlock` is about. In `keepalive_safety` a
client that puts two requests in one record waits for an answer that never comes
(`read_one_request` frees what follows a request). In `hotpotato`,
`initial_migration` and `sni_routing` clients come and go once and the servers then wait;
their liveness properties say what has to happen before that.

`AnsweredByNamed`, `AtRequestBoundary` and `OnlyOwnerConsumes` speak of connections on
which no record carries bytes of two requests. That is what the code needs: after a
response the worker peeks at the kernel's buffer and does not look at bytes
already decrypted.

Fairness is weak fairness of each client, goroutine and worker. For processes
it says that a blocking call returns when it can. For clients it is an
assumption: they finish a handshake and a request they began and close an idle
connection. Without it a silent client holds the accept goroutine or a worker for ever,
since no call has a timeout. No fairness is assumed of starting a dead process.
In `prefork_silent` and `sni_routing` the clients in `Silent` are exempt: they may stop
at any point, before, within (`sni_routing`; elsewhere the client's part of the
handshake is one step) and after the handshake, and between requests. `FlightSettled`
includes them as far as the code does not wait for them: a whole ClientHello is answered or
the connection closed, but a client silent after it keeps both children for ever.
`RequestsAnswered` and `AnsweredOrClosed` of the keep-alive system suppose that the relay's
queue does not stay full (`RelayKeepsRoom`), which requests naming the relay can bring about, as
can the circular wait; of the request that names the relay `AnsweredOrClosed` promises nothing, since
it is neither. `Delivered` excepts the connection that the gateway closed over a first record
that was there in part. `RequestsAnswered` of `HotPotato` holds until some process is `Exhausted`:
with a descriptor left behind per stay, the table fills after enough migrations. `ChildrenEnd`
and `FlightSettled` except the state `Wedged`, in which the code really stays
after a failed `sendmsg`: the gateway's child waits for the byte of a worker's child that
waits for the message.

## Findings

- `tlspeek_suites`: `tlspeek_keylog_cb` derives a 16-byte key from every 32-byte
  secret, but both AEAD functions read 32 bytes. A connection that negotiates
  AES-128-GCM or ChaCha20-Poly1305 cannot be peeked at and is closed, although
  `tlspeek.h` promises both. (`set_cipher_suite_from_name` also never finds "AES-128"
  in wolfSSL's names.)
- `prefork_leak`: when `sendmsg` fails, `sendfd_with_state` returns before it closes
  the descriptor, and `handle_connection` relies on it to have done so. The descriptor
  stays open in the gateway process and the client waits for an answer.

## Proofs

The theorems hold for all values of the constants that satisfy the named assumptions:
any sets of connections, functions and requests, any queue lengths, buffer sizes and
limits, with every way of cutting requests into records and every set of failures.
`ConstantsOK`, `PreforkConstants`, `InitialConstants`, `PotatoConstants`, `SniConstants`
and `PeekConstants` give the constants their types, keep names, processes and "none"
values apart, make queues and buffers at least one long, give a pre-forked worker more
descriptor numbers than there are connections, and let a hot-potato process open what
its first client or session takes.

`KeepaliveMigration`, in three modules, each of which extends the one it needs:

- `KeepaliveSafetyProofs`: `TypeCorrect`, `Spec => []TypeOK`. `TypeOK` is not
  inductive: `AfterHeaders` indexes `reqs` with the number in a token, and each
  action needs to know it works on a connection. `TypeInv` adds `IdsOK` (every
  token belongs to an issued request) and `PcOK` (which process can be in
  which call, and that it has a connection there). Then `ExactlyOneHolder`,
  `NoDescriptorLeaks`, `ExportedStateCurrent`, `NoncesNeverRepeat`. Their invariant
  has two layers. `OwnInv`
  (`SingleHolder`, `NoLeak`, nobody holds an unopened connection) is inductive given
  `TypeInv`: steps keep, shrink (`OwnShrinks`) or move ownership (`OwnSendFd`,
  `OwnRecvFd`, `OwnAccept`). `SeqInv` (`SerialFresh`, `SessionFresh`, `Untouched`,
  `NoncesInOrder`) is inductive given both: by `Exclusive` the worker that reads or
  answers is the connection's only holder, so no other copy of its record numbers
  exists to go stale.
- `KeepaliveStreamProofs`: `ResponsesMatchRequests`, `PassedOnAtBoundary`,
  `OnlyNamedWorkerReads`. All three speak of where a connection stands in the bytes its
  client wrote. That position is a sum over all requests and records so far; instead of
  a recursive sum, `StreamInv` says that functions `start` (where each request begins)
  and `off` (where each record begins) exist with which requests, records and the bytes
  still to be sent agree (`Laid`). Only `IssueRequest` and `SendRecord` touch these, and
  they extend the functions at the end (`LaidIssue`, `LaidSend`). `InPlace` then relates
  the records consumed to the responses: between requests the position is the start of
  the next unanswered request, and a reading worker has taken its prefix (`Reading`).
  `FirstRecord` and `PieceRead` turn positions into the tokens that a peek or a read
  sees, `HeaderFound` and `HeadersAdvance` follow `read_one_request`. As in the runs,
  this is for connections on which no record carries bytes of two requests.
- `KeepaliveOwnershipProofs`: `KeepaliveImplementsOwnership`, `Spec =>
  ImplementsOwnership`, and `DeadlockNeedsCrowd`. `HolderMap` says what the refinement
  mapping gives for each place a connection can be in; it follows from `OwnInv` and needs
  `PlacesDistinct` (no function is one of the strings the mapping uses for the other
  places). Each action then is a step of `SessionOwnership` or leaves it alone. For the
  crowd, every pending Unix connection is given a client connection of its own
  (`Stands`). A message's is the one it carries. A failed `sendmsg` leaves an empty
  connection in the queue, whose client was closed; since the abstract specification
  never reopens a lost session, its place is not taken again. Two full queues and the two
  senders at them are then `2 * MaxQueue + 2` different clients; the relay's own full queue and
the connection it dispatches are `MaxQueue + 1`.

`StopsOnlyInRelayDeadlock` says with `ENABLED` that the system comes to a stop only in that
circular wait or when the relay waits for itself (`RelayDeadlock`). What it promises beyond the
guards is proved: `NoOtherDeadlock`, that whenever every process is `Blocked` and every client
`Waits` (`Stuck`), there is a `RelayDeadlock`.
`ShakenInv` (only connections whose handshake is over are queued or worked on past it) and
`QueueBound` are the invariants it adds. From `StreamInv`, `NobodyReads`: a peek or read in
which a worker waits concerns bytes its client still has to send, so a waiting client
rules it out. Then every process is in accept or connect, and from a full queue
`FullQueueWaits` leads to its owner, blocked in a connect to another full queue; workers
connect only to the relay socket and the relay to workers or to itself, which closes the circle. The theorem
supposes `Unmixed` connections, and it has to: with two requests in one record the rest of
the record is freed with the session and the client waits for good, a stop that is no
`RelayDeadlock` (the reason deadlock is not checked in `keepalive_safety`).
`SequentialClientsUnmixed` shows that clients which await each response never cause it, so
`SequentialNoOtherDeadlock` has no hypothesis on the state; by `StopNeedsCrowd` such a stop
needs `2 * MaxQueue + 2` connections, or `MaxQueue + 1` when the relay waits for itself.

The other modules:

- `PreforkMigrationProofs`: `PreforkTypeCorrect`, `PreforkOneHolder`,
  `PreforkClientTable`, `PreforkNonces`, `PreforkInOrder`. The invariant has, for each
  connection, where it is (`Own`), that it is untouched until the worker it is routed to has it
  (`Route`) and what was answered (`Answers`); for each descriptor number of each worker, that
  `clients[]`, the table, the epoll set and the batch of events agree (`Entry`). The
  properties need each other: an event for a number is handled for the right connection
  only because closing clears the entry and no other process has the connection. That a
  free number exists at every receive is a pigeonhole argument from `Own`.
  `PreforkImplementsOwnership` has one step of the epoll loop that no other system has: a
  request taken and answered at once, after which the session may be lost (`Use`).
  `PreforkLeakNeedsFailedSend` is the converse of the finding of `prefork_leak`: without
  a failing `sendmsg` nothing is left open. `PreforkNoLostWakeup`: when every gateway process
  waits for a client and no event is pending (`Quiet`), every record on an open connection has been
  read; if each request is one read (`OneReadEach`), the i-th response is to the i-th request,
  from the worker the connection was routed to, and whole unless the client's window can fill up
  (`Answered`). Of a request of two reads the decrypted rest may be left in the session with
  nothing to announce it (`worker.c:251`), so nothing is said of its answers.
  A waiting child is in `accept` with an empty backlog, in a
  handshake with a silent client, or in the peek of a connection on which nothing was sent.
  It needs that a worker has every descriptor it holds registered with epoll, so that a
  readable one is reported (`Entry`), that a client sends nothing before its handshake is
  done, and that a worker never takes a record without answering (`StreamInv`). The
  connections that a failed `sendmsg` left behind are excepted.
- `InitialMigrationProofs`: `InitialTypeCorrect`, `InitialOneHolder`,
  `InitialSecondPeekAgrees`, `InitialOnlyNamedConsumes`, `InitialNoResetAfterAnswer`,
  `InitialImplementsOwnership`. `OwnInv` says where a connection is, `UseInv` how much of it
  has been used there (nothing before the named worker restores it), `StreamInv` gives
  the record boundaries by a witness `off` as above (`CutAt`) and what the reader has of them
  (`ReadAt`), pending bytes included; `AnswerInv` keeps what that implies after the close.
  The refinement uses `PlacesDistinct` and the same `HolderMap` argument.
  `InitialServableAnswered` is the safety half of `Delivered`, as an action property: a step
  that closes an open connection with a `Servable` request of a client outside `Faulty` comes after
  its function's answer, with no reset, or is the gateway's close over a first record that was there
  in part (`FirstCut`). `PathInv` follows it: the whole line in the first record gives the
  gateway one name to read (`StraightNames`), the queue and the verifying worker are that
  name's (`RouteInv`), and its headers end within the buffer (`HeadersFit`), so that each error
  path supposes something such a connection does not have (`GatewayKeeps`, `WorkerKeeps`).
  `InitialSettles` is the other half: when all wait, nothing is open. `NoEndlessRead` shows
  from `ReadAt` that a worker which has read all that its client sent is not reading any more.
- `HotPotatoProofs`: `PotatoTypeCorrect`, `PotatoSingleUser`, `PotatoRecordsInStep`,
  `PotatoAnswered`, `PotatoCopiesBounded`. Every action is first shown to be one of ten
  kinds of step (`Moves`: a client's step, accept, close, pass on, get, lose, read, respond
  and so on), and the layers are proved for those. `OwnInv` adds to `SingleUser` that a
  connection nobody has accepted is untouched (`Fresh`). `StreamInv` says which request each
  session has answered last (`Answered`) or each message carries (`Pending`); a step
  concerns one connection, and by `SingleUser` everybody else's stays as it was (`Kept`).
  `CopyInv` counts the entries of each descriptor table: a hand-over that leaves a copy
  behind needed a spare descriptor for its socket, which is why a waiting process has room.
  `PotatoImplementsOwnership` shows that the copies do no harm to the sessions: the kinds of
  steps are steps of `SessionOwnership` one by one.
- `SniRoutingProofs`: `SniTypeCorrect`, `SniNoStrayCopies`, `SniHandoffsHeld`,
  `SniForkedOnce` (an action property). `CopyInv` says that parents keep nothing when they
  fork and a child has at most its own client's descriptor; `StageInv` how far each
  side has come with a connection, without which a message could start a second child.
  `SniWedgeNeedsFault`: the pair of children that wait for each other (`Wedged`, excepted by
  `FlightSettled`) exists only on connections where a call failed; `PairInv` says that a
  gateway's child that awaits its byte has sent the message or failed to. `SniAcceptNeverBlocks`: a
  worker's parent finds the connection that poll reported. `SniSettlesWhenQuiet`: when no
  parent and no child can go on, then of every client, silent or not, a whole ClientHello has been
  answered or the connection is closed; where the client's Finished is missing the worker's child
  is in the read that waits for it; after it all requests are answered; and clients that
  went have left nothing.
- `TlsPeekProofs`, from `PeekConstants`: `PeekStaysInBounds` for every 16-bit length
  and any number of bytes arrived (`AcceptedFits`), and `PeekSeesRecord`,
  `Spec => []PeekShowsContent`. The latter needs `SerialMatches` (exported key and
  number are the client's and the kernel's, except between a read and the next
  export) and `HandshakeMatches` (the order of callbacks does not matter); with
  `TypeOK` they form the inductive `PeekInv`.

Only model-checked: the liveness properties (`RequestsAnswered`, `AnsweredOrClosed`, `SessionsEnd`,
`Delivered`, `FlightSettled`, `ServedDespiteSilent`, `ChildrenEnd`), because fairness is outside the
prover; of `StopsOnlyInRelayDeadlock`, that its guards are those of `ENABLED Next`. What
can be proved without fairness is: `PreforkNoLostWakeup`, `SniSettlesWhenQuiet`,
`InitialSettles` and `NoOtherDeadlock` say that no system rests in a state in which something is
still owed (with the exceptions named above), which leaves to TLC that it cannot go on for ever without getting there. In
`HotPotato` no such statement is made.

Only proved: `PotatoImplementsOwnership` and `PreforkImplementsOwnership`, and the theorems
without a property in the table of runs; their invariants held in TLC on the same
instances while they were developed.

## Not modelled

- The throughput benchmark's epoll gateway and worker and the plain-HTTP variants:
  the hand-over modelled here, driven by events or without TLS state. Their event loops
  would be next.
- `worker.c` of `faad_optimization-Romero_New` uses an undefined `UDS_PATH` and is not
  part of a build.
- Proxies, load generators, demonstrations and scripts: measurement, no migration.
- In `PreforkMigration`, a short request that its client cuts into two records.
- Descriptor numbers in `KeepaliveMigration`: `relay_to_gateway` closes a descriptor
  that `process_session` closes again. The worker is single-threaded and
  opens nothing in between.
- Short reads of a payload (`recvfd_with_state`), and what wolfSSL does with a response that
  a full window cut short: both depend on code outside the repository.
- SIGPIPE: the older workers do not ignore it, and whether a write raises it depends
  on wolfSSL's flags.

## Plan

1. The epoll gateway and worker of `micro-bench-max-throughput`, and their refinement of
   `SessionOwnership`.
2. The worker's plain-HTTP path over the Unix socket in `PreforkMigration`.
3. Which waiting states `HotPotato` can rest in, as for the other systems.
