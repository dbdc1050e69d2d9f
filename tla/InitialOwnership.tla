-------------------------- MODULE InitialOwnership --------------------------
(***************************************************************************)
(* InitialMigration implements SessionOwnership, too: the descriptors tell *)
(* who holds the session, the kernel's receive position and the responses  *)
(* its record numbers.                                                     *)
(***************************************************************************)
EXTENDS InitialMigration

(* No function is called like one of the places SessionOwnership names. *)
ASSUME PlacesDistinct == Functions \cap {"none", "gateway", "transit", "lost"} = {}

Holder(c) ==
  IF client[c] = "idle" THEN "none"
  ELSE IF c \in backlog \cup fds[Gateway] THEN "gateway"
  ELSE IF InTransit(c) THEN "transit"
  ELSE IF Open(c) THEN CHOOSE w \in Functions : c \in fds[w]
  ELSE "lost"

SO == INSTANCE SessionOwnership WITH
        Readers <- Functions,
        holder <- [c \in Conns |-> Holder(c)],
        read <- consumed,
        write <- [c \in Conns |-> Len(resp[c])]

(***************************************************************************)
(* Every step is a step of SessionOwnership or leaves it alone: peeking    *)
(* twice, in two processes, never moves the receive position; only the     *)
(* worker that restored the session does, and a connection closed on any   *)
(* path is never used again.                                               *)
(***************************************************************************)
ImplementsOwnership == SO!Spec
=============================================================================
