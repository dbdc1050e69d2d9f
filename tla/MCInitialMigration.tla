------------------------- MODULE MCInitialMigration -------------------------
(* Instance of InitialMigration for TLC. *)
EXTENDS InitialOwnership, TLC

CONSTANTS c1, c2, f, ff, long, odd

Req(n, l, h, b, framed, extra) ==
  [fn |-> n, line |-> l, hdr |-> h, body |-> b, framed |-> framed, extra |-> extra]

Deployed == {f, ff, long}

(* f is a prefix of ff; long does not fit the worker's buffer; odd has a     *)
(* character the gateway refuses.                                            *)
NamePrefixes == (f :> {f}) @@ (ff :> {f, ff}) @@ (long :> {long}) @@ (odd :> {odd})

(* c1 sends requests whose end the worker knows, one with headers that fill  *)
(* the header buffer; c2 all kinds, one of them larger than that buffer.     *)
ClientRequests ==
  (c1 :> {Req(f, "whole", 0, 1, TRUE, FALSE), Req(ff, "whole", 1, 0, FALSE, FALSE)}) @@
  (c2 :> {Req(ff, "cut", 0, 0, FALSE, FALSE),
          Req(f, "whole", 0, 0, FALSE, TRUE), Req(f, "whole", 2, 0, FALSE, FALSE),
          Req(ff, "bare", 0, 0, FALSE, FALSE), Req(long, "whole", 0, 0, FALSE, FALSE),
          Req(odd, "whole", 0, 0, FALSE, FALSE)})
=============================================================================
