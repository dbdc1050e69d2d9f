--------------------------- MODULE MCSniRouting ---------------------------
(* Instance of SniRouting for TLC. *)
EXTENDS SniRouting, TLC

CONSTANTS c1, c2, sum, product

Flight(p, k, f, n) == [to |-> p, kind |-> k, size |-> 3, fn |-> f, need |-> n]

(* c1 connects to the gateway or to a worker.  c2's first flight is TLS or   *)
(* plain, names nothing, or names a function past the peek buffer.           *)
ClientPlans ==
  (c1 :> {Flight(Gateway, "tls", sum, 2), Flight(product, "tls", product, 2)}) @@
  (c2 :> {Flight(Gateway, "tls", sum, 2), Flight(Gateway, "plain", product, 1),
          Flight(Gateway, "tls", NoName, 1), Flight(Gateway, "tls", sum, 3),
          Flight(product, "plain", sum, 1), Flight(product, "tls", product, 1)})
=============================================================================
