------------------------- MODULE KeepaliveOwnership -------------------------
(***************************************************************************)
(* KeepaliveMigration implements SessionOwnership: the descriptors in the  *)
(* processes, the accept queue and the messages determine the holder, the  *)
(* kernel's receive position and the responses the two record numbers.     *)
(***************************************************************************)
EXTENDS KeepaliveMigration

(* No function is called like one of the places SessionOwnership names. *)
ASSUME PlacesDistinct == Functions \cap {"none", "gateway", "transit", "lost"} = {}

InGateway(c) == c \in backlog \/ c \in fds[Acceptor] \/ c \in fds[Relayer]
InTransit(c) == \E l \in Listeners : \E i \in DOMAIN uds[l] : uds[l][i].conn = c

Holder(c) ==
  IF client[c] = "idle" THEN "none"
  ELSE IF InGateway(c) THEN "gateway"
  ELSE IF \E w \in Functions : c \in fds[w]
       THEN CHOOSE w \in Functions : c \in fds[w]
  ELSE IF InTransit(c) THEN "transit" ELSE "lost"

SO == INSTANCE SessionOwnership WITH
        Readers <- Functions,
        holder <- [c \in Conns |-> Holder(c)],
        read <- consumed,
        write <- [c \in Conns |-> Len(resp[c])]

(***************************************************************************)
(* Every step of gateway, workers, clients and failures is a step of       *)
(* SessionOwnership or leaves holder and record numbers alone: a session   *)
(* is never answered in transit or in the gateway, never has its receive   *)
(* position moved there, and is never resurrected once closed.             *)
(***************************************************************************)
ImplementsOwnership == SO!Spec

=============================================================================
