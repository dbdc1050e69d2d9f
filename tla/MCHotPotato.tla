---------------------------- MODULE MCHotPotato ----------------------------
(* Instance of HotPotato for TLC. *)
EXTENDS PotatoOwnership, TLC

CONSTANTS c1, c2, sum, product

Req(f, s) == [fn |-> f, shape |-> s]

(* One client with plain requests; the other's take two records, two reads, *)
(* or name nothing.                                                         *)
PotatoRequests ==
  (c1 :> {Req(sum, "one"), Req(product, "one")}) @@
  (c2 :> {Req(product, "one"), Req(sum, "split"), Req(product, "long"), Req(NoName, "one")})

(* A worker that one session has left cannot pass on another. *)
FewFds == (Gateway :> 5) @@ (sum :> 3) @@ (product :> 4)
=============================================================================
