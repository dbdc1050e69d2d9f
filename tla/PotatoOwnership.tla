-------------------------- MODULE PotatoOwnership --------------------------
(***************************************************************************)
(* HotPotato implements SessionOwnership, with a gateway that reads the    *)
(* first request: not the copies of a descriptor but the process that      *)
(* works on a session, the accept queue or the message that carries it     *)
(* determine the holder.                                                   *)
(***************************************************************************)
EXTENDS HotPotato

(* No function is called like one of the places SessionOwnership names. *)
ASSUME PlacesDistinct == Functions \cap {"none", "gateway", "transit", "lost"} = {}

Holder(c) ==
  IF client[c] = "idle" THEN "none"
  ELSE IF c \in backlog \/ conn(Gateway) = c THEN "gateway"
  ELSE IF \E w \in Functions : conn(w) = c
       THEN CHOOSE w \in Functions : conn(w) = c
  ELSE IF \E p \in Procs : Queued(c, p) THEN "transit" ELSE "lost"

SO == INSTANCE SessionOwnership WITH
        Readers <- Functions \cup {"gateway"},
        holder <- [c \in Conns |-> Holder(c)],
        read <- consumed,
        write <- [c \in Conns |-> Len(resp[c])]

(***************************************************************************)
(* Every step is a step of SessionOwnership or leaves it alone: the copies *)
(* of a descriptor that stay behind are never read from or written to, and *)
(* a session freed on any path is never used again although the connection *)
(* may stay open for good.                                                 *)
(***************************************************************************)
ImplementsOwnership == SO!Spec

=============================================================================
