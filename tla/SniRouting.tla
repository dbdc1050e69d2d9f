----------------------------- MODULE SniRouting -----------------------------
(***************************************************************************)
(* Migration before the handshake (Performance_old).                       *)
(*                                                                         *)
(* The gateway forks a child per connection.  It waits at most a second    *)
(* for bytes, peeks at the ClientHello (or at plain HTTP), passes the      *)
(* descriptor to the worker of the named function and waits for one byte.  *)
(* The worker forks a child per hand-over, and per client of its own TCP   *)
(* port, which completes the handshake and answers until the client goes,  *)
(* then acknowledges.  Nothing is serialised; what can go wrong is waiting:*)
(* two processes and three copies of a descriptor per connection, with the *)
(* end of file as the only sign that a process is gone.                    *)
(***************************************************************************)
EXTENDS Integers, Sequences, FiniteSets, FiniteSetsExt

CONSTANTS
  Conns,       \* TCP connections clients open
  Functions,   \* functions; also their workers
  Gateway,     \* the gateway's parent process
  NoName,      \* no function name
  Plans,       \* Plans[c]: where the client of c may connect and what it sends
  Requests,    \* requests after the handshake, by what on_url makes of them
  MaxRequests, \* bound: requests on one connection
  PeekSize,    \* size of the child's peek buffer
  MaxQueue,    \* pending connections a Unix listening socket holds
  MaxProcs,    \* child processes the system can have
  Slow,        \* connections whose client may take longer than the timeout
  Silent,      \* connections whose client may stop at any point
  Faulty       \* connections whose client may abort and whose calls may fail

Parents == Functions \cup {Gateway}

(***************************************************************************)
(* Where a client connects, the kind and the size of its first flight, the *)
(* function it names (server name or URL) and how much of the flight has   *)
(* to be seen to find the name.                                            *)
(***************************************************************************)
Plan == [to: Parents, kind: {"tls", "plain"}, size: Nat \ {0},
         fn: Functions \cup {NoName}, need: Nat]

ASSUME SniConstants ==
  /\ IsFiniteSet(Conns) /\ Gateway \notin Functions /\ NoName \notin Functions
  /\ Plans \in [Conns -> SUBSET Plan]
  /\ Requests \subseteq Functions \cup {NoName}
  /\ MaxRequests \in Nat /\ PeekSize \in Nat \ {0}
  /\ MaxQueue \in Nat \ {0} /\ MaxProcs \in Nat \ {0}
  /\ Slow \subseteq Conns /\ Silent \subseteq Conns /\ Faulty \subseteq Conns

VARIABLES
  client,   \* client[c]: idle, connected, greeted (the server's part of the
            \* handshake is out), secure (it has sent its Finished), gone
  plan,     \* plan[c]: the client's plan
  arrived,  \* arrived[c]: units of the first flight in the kernel's buffer
  reqs,     \* reqs[c]: the requests sent
  answered, \* answered[c]: how many of them are answered
  backlog,  \* connections in a TCP accept queue
  uds,      \* uds[w]: Unix connections in w's accept queue, by client
  msgs,     \* Unix connections with an unread message
  acked,    \* Unix connections with the worker's byte
  rev,      \* rev[w]: revents w has not handled yet
  kept,     \* kept[p]: client descriptors open in parent p
  refused,  \* history: connections for which a fork failed
  gpc,      \* gpc[c]: the gateway's child for c
  wpc,      \* wpc[c]: the worker's child for c
  gfds,     \* gfds[c], wfds[c]: client descriptors open in it
  wfds

clientVars == <<client, plan, reqs>>
udsVars == <<uds, msgs, acked>>
parentVars == <<rev, kept, refused>>
childVars == <<gpc, wpc, gfds, wfds>>
vars == <<clientVars, arrived, answered, backlog, udsVars, parentVars, childVars>>

TypeOK ==
  /\ client \in [Conns -> {"idle", "connected", "greeted", "secure", "gone"}]
  /\ plan \in [Conns -> Plan]
  /\ arrived \in [Conns -> Nat]
  /\ reqs \in [Conns -> Seq(Functions \cup {NoName})]
  /\ answered \in [Conns -> Nat] /\ \A c \in Conns : answered[c] <= Len(reqs[c])
  /\ backlog \subseteq Conns /\ msgs \subseteq Conns /\ acked \subseteq Conns
  /\ uds \in [Functions -> Seq(Conns)]
  /\ rev \in [Functions -> SUBSET {"uds", "tcp"}]
  /\ kept \in [Parents -> SUBSET Conns] /\ refused \subseteq Conns
  /\ gpc \in [Conns -> {"none", "poll", "peek", "send", "ack", "exited"}]
  /\ wpc \in [Conns -> {"none", "recv", "accept", "finish", "read", "ack", "exited"}]
  /\ gfds \in [Conns -> SUBSET Conns] /\ wfds \in [Conns -> SUBSET Conns]

Init ==
  /\ client = [c \in Conns |-> "idle"]
  /\ plan \in {f \in [Conns -> UNION {Plans[c] : c \in Conns}] :
                \A c \in Conns : f[c] \in Plans[c]}
  /\ arrived = [c \in Conns |-> 0]
  /\ reqs = [c \in Conns |-> <<>>]
  /\ answered = [c \in Conns |-> 0]
  /\ backlog = {} /\ msgs = {} /\ acked = {}
  /\ uds = [w \in Functions |-> <<>>]
  /\ rev = [w \in Functions |-> {}]
  /\ kept = [p \in Parents |-> {}] /\ refused = {}
  /\ gpc = [c \in Conns |-> "none"]
  /\ wpc = [c \in Conns |-> "none"]
  /\ gfds = [c \in Conns |-> {}]
  /\ wfds = [c \in Conns |-> {}]

Running(pc) == {c \in Conns : pc[c] \notin {"none", "exited"}}

(* fork fails: no room for another process. *)
Full == Cardinality(Running(gpc)) + Cardinality(Running(wpc)) >= MaxProcs
Refuse(c) == refused' = IF Full THEN refused \cup {c} ELSE refused

(* The server's end of c stays open as long as any copy of it exists.       *)
Open(c) ==
  \/ c \in backlog \cup msgs
  \/ \E p \in Parents : c \in kept[p]
  \/ \E d \in Conns : c \in gfds[d] \cup wfds[d]

Queued(c) == \E w \in Functions : \E i \in DOMAIN uds[w] : uds[w][i] = c

-----------------------------------------------------------------------------
(* Clients *)

Connect(c) ==
  /\ client[c] = "idle"
  /\ client' = [client EXCEPT ![c] = "connected"]
  /\ backlog' = backlog \cup {c}
  /\ UNCHANGED <<plan, reqs, arrived, answered, udsVars, parentVars, childVars>>

(* The next k units of the first flight arrive. *)
SendFlight(c, k) ==
  /\ client[c] = "connected" /\ Open(c) /\ arrived[c] + k <= plan[c].size
  /\ arrived' = [arrived EXCEPT ![c] = @ + k]
  /\ UNCHANGED <<clientVars, answered, backlog, udsVars, parentVars, childVars>>

(* The client checks the server's part of the handshake and ends its own.   *)
Finish(c) ==
  /\ client[c] = "greeted" /\ Open(c)
  /\ client' = [client EXCEPT ![c] = "secure"]
  /\ UNCHANGED <<plan, reqs, arrived, answered, backlog, udsVars, parentVars, childVars>>

SendRequest(c, r) ==
  /\ client[c] = "secure" /\ Open(c)
  /\ answered[c] = Len(reqs[c]) /\ Len(reqs[c]) < MaxRequests
  /\ reqs' = [reqs EXCEPT ![c] = Append(@, r)]
  /\ UNCHANGED <<client, plan, arrived, answered, backlog, udsVars, parentVars, childVars>>

ClientClose(c) ==
  /\ client[c] \in {"connected", "greeted", "secure"}
  /\ \/ c \in Faulty \/ ~Open(c)
     \/ client[c] = "secure" /\ reqs[c] # <<>> /\ answered[c] = Len(reqs[c])
  /\ client' = [client EXCEPT ![c] = "gone"]
  /\ UNCHANGED <<plan, reqs, arrived, answered, backlog, udsVars, parentVars, childVars>>

ClientStep(c) ==
  \/ Connect(c) \/ Finish(c) \/ ClientClose(c)
  \/ \E k \in 1..plan[c].size : SendFlight(c, k)
  \/ \E r \in Requests : SendRequest(c, r)

-----------------------------------------------------------------------------
(* The gateway's parent *)

(* Mutant: the parent does not close its copy. *)
MutAcceptClient(c) ==
  /\ c \in backlog /\ plan[c].to = Gateway
  /\ backlog' = backlog \ {c}
  /\ kept' = [kept EXCEPT ![Gateway] = @ \cup {c}]
  /\ Refuse(c)
  /\ IF Full THEN UNCHANGED <<gpc, gfds>>
     ELSE /\ gpc' = [gpc EXCEPT ![c] = "poll"]
          /\ gfds' = [gfds EXCEPT ![c] = kept[Gateway] \cup {c}]
  /\ UNCHANGED <<clientVars, arrived, answered, udsVars, rev, wpc, wfds>>

(* Mutant: the parent waits for its child instead of ignoring SIGCHLD. *)
MutAcceptClientWaits(c) ==
  /\ c \in backlog /\ plan[c].to = Gateway /\ Running(gpc) = {}
  /\ backlog' = backlog \ {c}
  /\ Refuse(c)
  /\ IF Full THEN UNCHANGED <<gpc, gfds>>
     ELSE /\ gpc' = [gpc EXCEPT ![c] = "poll"]
          /\ gfds' = [gfds EXCEPT ![c] = kept[Gateway] \cup {c}]
  /\ UNCHANGED <<clientVars, arrived, answered, udsVars, rev, kept, wpc, wfds>>

(* accept, fork, close: a child inherits what the parent has open.          *)
AcceptClient(c) ==
  /\ c \in backlog /\ plan[c].to = Gateway
  /\ backlog' = backlog \ {c}
  /\ Refuse(c)
  /\ IF Full THEN UNCHANGED <<gpc, gfds>>
     ELSE /\ gpc' = [gpc EXCEPT ![c] = "poll"]
          /\ gfds' = [gfds EXCEPT ![c] = kept[Gateway] \cup {c}]
  /\ UNCHANGED <<clientVars, arrived, answered, udsVars, rev, kept, wpc, wfds>>

-----------------------------------------------------------------------------
(* The gateway's child for c *)

GatewayChildMoves(c, from, to) ==
  /\ gpc[c] = from
  /\ gpc' = [gpc EXCEPT ![c] = to]
  /\ UNCHANGED <<clientVars, answered, backlog, parentVars, wpc, wfds>>

Readable(c) == arrived[c] > 0 \/ client[c] = "gone"

PollReturns(c) ==
  /\ Readable(c)
  /\ GatewayChildMoves(c, "poll", "peek")
  /\ UNCHANGED <<arrived, udsVars, gfds>>

(* close(client_fd) and exit. *)
GatewayChildExits(c, from) ==
  /\ GatewayChildMoves(c, from, "exited")
  /\ gfds' = [gfds EXCEPT ![c] = {}]
  /\ UNCHANGED arrived

(* A second has passed. *)
PollTimesOut(c) ==
  /\ ~Readable(c) /\ c \in Slow
  /\ GatewayChildExits(c, "poll")
  /\ UNCHANGED udsVars

(* parse_sni or on_url_gw on what the peek buffer holds.  A name, once it is *)
(* there as a whole, is found; of a cut one nothing is.                      *)
Target(c) ==
  IF Min({arrived[c], PeekSize}) >= plan[c].need THEN plan[c].fn ELSE NoName

Peek(c) ==
  /\ Target(c) # NoName
  /\ GatewayChildMoves(c, "peek", "send")
  /\ UNCHANGED <<arrived, udsVars, gfds>>

(* Mutant: the child waits for more. *)
MutPeekFails(c) ==
  /\ Target(c) = NoName
  /\ GatewayChildMoves(c, "peek", "poll")
  /\ UNCHANGED <<arrived, udsVars, gfds>>

(* End of file, too few bytes, no or an unknown name. *)
PeekFails(c) ==
  /\ Target(c) = NoName
  /\ GatewayChildExits(c, "peek")
  /\ UNCHANGED udsVars

(* send_to_worker: connect waits for room in the queue. *)
SendToWorker(c) ==
  /\ gpc[c] = "send" /\ Len(uds[plan[c].fn]) < MaxQueue
  /\ uds' = [uds EXCEPT ![plan[c].fn] = Append(@, c)]
  /\ \/ msgs' = msgs \cup {c}
     \/ c \in Faulty /\ UNCHANGED msgs   \* sendmsg fails; the byte is awaited all the same
  /\ GatewayChildMoves(c, "send", "ack")
  /\ UNCHANGED <<arrived, acked, gfds>>

ConnectFails(c) ==
  /\ c \in Faulty
  /\ GatewayChildExits(c, "send")
  /\ UNCHANGED udsVars

(* The worker's end of c's Unix connection exists. *)
PeerOpen(c) == Queued(c) \/ wpc[c] \notin {"none", "exited"}

(* Mutant: the end of file is not taken for an answer. *)
MutAckReturns(c) ==
  /\ c \in acked
  /\ GatewayChildExits(c, "ack")
  /\ UNCHANGED udsVars

(* read returns the byte, or end of file.                                   *)
AckReturns(c) ==
  /\ c \in acked \/ ~PeerOpen(c)
  /\ GatewayChildExits(c, "ack")
  /\ UNCHANGED udsVars

GatewayChild(c) ==
  \/ PollReturns(c) \/ PollTimesOut(c) \/ Peek(c) \/ PeekFails(c)
  \/ SendToWorker(c) \/ ConnectFails(c) \/ AckReturns(c)

-----------------------------------------------------------------------------
(* A worker's parent *)

DirectClients(w) == {c \in backlog : plan[c].to = w}

Poll(w) ==
  /\ rev[w] = {}
  /\ rev' = [rev EXCEPT ![w] = (IF uds[w] # <<>> THEN {"uds"} ELSE {})
                                 \cup (IF DirectClients(w) # {} THEN {"tcp"} ELSE {})]
  /\ UNCHANGED <<clientVars, arrived, answered, backlog, udsVars, kept, refused, childVars>>

(* fork: the child inherits what the parent has open. *)
ForkChild(w, c, first, own) ==
  /\ Refuse(c)
  /\ IF Full THEN UNCHANGED <<wpc, wfds>>
     ELSE /\ wpc' = [wpc EXCEPT ![c] = first]
          /\ wfds' = [wfds EXCEPT ![c] = kept[w] \cup own]

(* A hand-over: accept, fork, close.  Without a child the Unix connection   *)
(* is closed with its message.                                              *)
AcceptHandoff(w) ==
  LET c == Head(uds[w]) IN
  /\ "uds" \in rev[w]
  /\ rev' = [rev EXCEPT ![w] = @ \ {"uds"}]
  /\ uds' = [uds EXCEPT ![w] = Tail(@)]
  /\ msgs' = IF Full THEN msgs \ {c} ELSE msgs
  /\ ForkChild(w, c, "recv", {})
  /\ UNCHANGED <<clientVars, arrived, answered, backlog, acked, kept, gpc, gfds>>

(* A client of the worker's own port. *)
AcceptDirect(w, c) ==
  /\ rev[w] = {"tcp"} /\ c \in DirectClients(w)
  /\ rev' = [rev EXCEPT ![w] = {}]
  /\ backlog' = backlog \ {c}
  /\ ForkChild(w, c, "accept", {c})
  /\ UNCHANGED <<clientVars, arrived, answered, udsVars, kept, gpc, gfds>>

WorkerParent(w) ==
  Poll(w) \/ AcceptHandoff(w) \/ \E c \in Conns : AcceptDirect(w, c)

-----------------------------------------------------------------------------
(* The worker's child for c *)

WorkerChildMoves(c, to) ==
  /\ wpc' = [wpc EXCEPT ![c] = to]
  /\ UNCHANGED <<plan, reqs, backlog, uds, parentVars, gpc, gfds>>

(* receive_handoff_v3: recvmsg with a descriptor ... *)
ReceiveHandoff(c) ==
  /\ wpc[c] = "recv" /\ c \in msgs
  /\ msgs' = msgs \ {c}
  /\ wfds' = [wfds EXCEPT ![c] = @ \cup {c}]
  /\ WorkerChildMoves(c, "accept")
  /\ UNCHANGED <<client, arrived, answered, acked>>

(* ... or without: the message is parsed as HTTP, in vain, and acknowledged. *)
ReceiveNoFd(c) ==
  /\ wpc[c] = "recv" /\ c \in msgs \cap Faulty
  /\ msgs' = msgs \ {c}
  /\ WorkerChildMoves(c, "ack")
  /\ UNCHANGED <<client, arrived, answered, acked, wfds>>

(* The first wolfSSL_read answers the ClientHello once it is there whole ... *)
AnswerHello(c) ==
  /\ wpc[c] = "accept" /\ client[c] = "connected"
  /\ plan[c].kind = "tls" /\ arrived[c] = plan[c].size
  /\ client' = [client EXCEPT ![c] = "greeted"]
  /\ arrived' = [arrived EXCEPT ![c] = 0]
  /\ WorkerChildMoves(c, "finish")
  /\ UNCHANGED <<answered, msgs, acked, wfds>>

(* ... and waits for the client's Finished before it looks for a request.   *)
Handshake(c) ==
  /\ wpc[c] = "finish" /\ client[c] = "secure"
  /\ WorkerChildMoves(c, "read")
  /\ UNCHANGED <<client, arrived, answered, msgs, acked, wfds>>

(* handle_client returns: close(client_fd); a direct child is done.         *)
EndOfClient(c) ==
  /\ wfds' = [wfds EXCEPT ![c] = {}]
  /\ WorkerChildMoves(c, IF plan[c].to = Gateway THEN "ack" ELSE "exited")
  /\ UNCHANGED <<client, arrived, answered, msgs, acked>>

(* The client has gone, fails the handshake, or speaks plain HTTP.          *)
HandshakeFails(c) ==
  /\ wpc[c] \in {"accept", "finish"}
  /\ \/ client[c] = "gone"
     \/ wpc[c] = "accept" /\ arrived[c] > 0 /\ (plan[c].kind = "plain" \/ c \in Faulty)
     \/ wpc[c] = "finish" /\ client[c] = "secure" /\ c \in Faulty
  /\ EndOfClient(c)

NextRequest(c) == reqs[c][answered[c] + 1]

(* Mutant: the result of wolfSSL_read is not checked. *)
MutRespond(c) ==
  /\ wpc[c] = "read"
  /\ answered' = [answered EXCEPT ![c] = @ + 1]
  /\ WorkerChildMoves(c, "read")
  /\ UNCHANGED <<client, arrived, msgs, acked, wfds>>

Respond(c) ==
  /\ wpc[c] = "read" /\ answered[c] < Len(reqs[c]) /\ NextRequest(c) # NoName
  /\ answered' = [answered EXCEPT ![c] = @ + 1]
  /\ WorkerChildMoves(c, "read")
  /\ UNCHANGED <<client, arrived, msgs, acked, wfds>>

(* wolfSSL_read fails, or the parser finds no function. *)
RequestsEnd(c) ==
  /\ wpc[c] = "read"
  /\ IF answered[c] < Len(reqs[c]) THEN NextRequest(c) = NoName ELSE client[c] = "gone"
  /\ EndOfClient(c)

(* write the byte, close, exit. *)
Ack(c) ==
  /\ wpc[c] = "ack"
  /\ acked' = acked \cup {c}
  /\ WorkerChildMoves(c, "exited")
  /\ UNCHANGED <<client, arrived, answered, msgs, wfds>>

(* The child is killed: what it has open is closed, a message with it.      *)
ChildDies(c) ==
  /\ c \in Faulty /\ wpc[c] \in {"recv", "accept", "finish", "read", "ack"}
  /\ wfds' = [wfds EXCEPT ![c] = {}]
  /\ msgs' = msgs \ {c}
  /\ WorkerChildMoves(c, "exited")
  /\ UNCHANGED <<client, arrived, answered, acked>>

WorkerChild(c) ==
  \/ ReceiveHandoff(c) \/ ReceiveNoFd(c)
  \/ AnswerHello(c) \/ Handshake(c) \/ HandshakeFails(c)
  \/ Respond(c) \/ RequestsEnd(c) \/ Ack(c)

-----------------------------------------------------------------------------

Next ==
  \/ \E c \in Conns : ClientStep(c) \/ AcceptClient(c)
  \/ \E c \in Conns : GatewayChild(c) \/ WorkerChild(c) \/ ChildDies(c)
  \/ \E w \in Functions : WorkerParent(w)

Spec == Init /\ [][Next]_vars

(***************************************************************************)
(* Every process is scheduled and its calls return once what they wait for *)
(* is there.  Clients keep their side up, except the silent ones.          *)
(***************************************************************************)
Fairness ==
  /\ \A c \in Conns \ Silent : WF_vars(ClientStep(c))
  /\ WF_vars(\E c \in Conns : AcceptClient(c))
  /\ \A c \in Conns : WF_vars(GatewayChild(c)) /\ WF_vars(WorkerChild(c))
  /\ \A w \in Functions : WF_vars(WorkerParent(w))

FairSpec == Spec /\ Fairness

-----------------------------------------------------------------------------
(* Properties *)

(***************************************************************************)
(* Children never inherit another client's descriptor: once nobody works   *)
(* on a connection any more, no copy of it is left and its client sees the *)
(* end of file.  Holds only because each parent closes its copy before it  *)
(* forks again.                                                            *)
(***************************************************************************)
NoStrayCopies ==
  \A c \in Conns : Open(c) =>
    \/ c \in backlog \cup msgs
    \/ c \in Running(gpc) \cup Running(wpc)

(* Both children of c wait for the other. *)
Wedged(c) == gpc[c] = "ack" /\ wpc[c] = "recv" /\ c \notin msgs

(***************************************************************************)
(* The ClientHello of a client that has sent all of it is answered, or the *)
(* client is closed, whatever it asks for (plain HTTP, which the gateway   *)
(* routes but the worker takes for TLS, no name, a name past the peek      *)
(* buffer) and whatever other, silent clients do; once it has sent its     *)
(* Finished, too, wolfSSL_read goes on to its requests or it is closed.    *)
(* In between the children wait for the client: one that goes silent after *)
(* its ClientHello keeps both, and the connection, for ever.               *)
(***************************************************************************)
FlightSettled ==
  \A c \in Conns :
    /\ arrived[c] = plan[c].size ~>
         client[c] \in {"greeted", "secure", "gone"} \/ ~Open(c) \/ Wedged(c)
    /\ client[c] = "secure" ~> wpc[c] # "finish"

(* A client the gateway and the worker can serve. *)
Servable(c) ==
  /\ plan[c].kind = "tls"
  /\ plan[c].to = Gateway => plan[c].fn # NoName /\ plan[c].need <= PeekSize

(***************************************************************************)
(* Silent clients hold processes, not other clients: one that behaves gets *)
(* its session and every response unless a fork for its own sake fails.    *)
(* It starts from a hello that has arrived whole on a connection still     *)
(* open: of one that comes in two segments the gateway's child may see the *)
(* first only, find no name and close.                                     *)
(***************************************************************************)
ServedDespiteSilent ==
  \A c \in Conns \ (Faulty \cup Slow \cup Silent) :
    /\ client[c] = "connected" /\ arrived[c] = plan[c].size /\ Servable(c)
         ~> wpc[c] = "read" \/ c \in refused
    /\ \A n \in 1..MaxRequests :
         Len(reqs[c]) >= n /\ reqs[c][n] # NoName ~> answered[c] >= n \/ c \in refused

(***************************************************************************)
(* Once its client has gone, everything kept for a connection is released, *)
(* also when the worker's child was killed before it could acknowledge;    *)
(* except when sendmsg failed: then both children wait for each other.     *)
(***************************************************************************)
ChildrenEnd ==
  \A c \in Conns :
    client[c] = "gone" ~> (~Open(c) /\ c \notin Running(wpc)) \/ Wedged(c)
=============================================================================
