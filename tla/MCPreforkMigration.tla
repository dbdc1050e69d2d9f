------------------------ MODULE MCPreforkMigration ------------------------
(* Instances of PreforkMigration for TLC. *)
EXTENDS PreforkOwnership, TLC

CONSTANTS c1, c2, c3, g1, g2

Req(w, n) == [route |-> w, chunks |-> n]

(* Both routes, and a request longer than one read. *)
LongRequests == {Req(1, 1), Req(0, 2)}
OneRoute == {Req(0, 1)}

Socks == [w \in Workers |-> IF w = 0 THEN "worker_0.sock" ELSE "worker_1.sock"]

NoFaults == {}
AllFaults == {"crash", "window", "handshake", "peek", "sendmsg", "restore", "write", "abort"}
SendFault == {"sendmsg"}

(* Sound for safety: clients (none of them silent) and children are alike. *)
ProcessSymmetry == {p @@ q : p \in Permutations(Conns), q \in Permutations(Children)}
=============================================================================
