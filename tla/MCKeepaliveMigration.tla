------------------------ MODULE MCKeepaliveMigration ------------------------
(* Instances of KeepaliveMigration and its refinement for TLC. *)
EXTENDS KeepaliveOwnership, TLC

CONSTANTS c1, c2, c3, c4, fa, fb, stray, odd

(* A request with body length b; z asks to close, s may split its line. *)
Req(f, b, z, s) == [fn |-> f, body |-> b, close |-> z, split |-> s]

(* /function/keepalive-relay: the name of the relay's own socket. *)
RelayRequest == Req(Relayer, 0, FALSE, FALSE)

(* Bodies, a close, names nobody serves, an unroutable path, a split line. *)
MixedRequests ==
  {Req(fa, 1, FALSE, FALSE), Req(fb, 2, FALSE, FALSE), Req(fb, 0, TRUE, FALSE),
   Req(stray, 0, FALSE, FALSE), Req(odd, 0, FALSE, FALSE),
   Req(Unroutable, 0, FALSE, FALSE), Req(fa, 0, FALSE, TRUE), RelayRequest}

(* The smallest requests, for instances with many connections. *)
SmallRequests == {Req(fa, 0, FALSE, FALSE), Req(fb, 0, FALSE, FALSE)}
CrowdRequests == SmallRequests \cup {RelayRequest}

(* A body, a close, and the relay's own name. *)
FaultRequests ==
  {Req(fa, 1, FALSE, FALSE), Req(fb, 0, FALSE, FALSE), Req(fb, 0, TRUE, FALSE),
   RelayRequest}

NoFaults == {}
CallFaults == {"handshake", "export", "sendmsg", "recvmsg", "restore", "partial", "abort"}
AllFaults == CallFaults \cup {"crash", "gateway_crash", "startup"}

(* Sound when Requests treats the functions alike. *)
FullSymmetry == {f @@ g : f \in Permutations(Conns), g \in Permutations(Functions)}
=============================================================================
