------------------------- MODULE PreforkOwnership -------------------------
(***************************************************************************)
(* PreforkMigration implements SessionOwnership: the connection a child    *)
(* handles, the messages and the descriptors in the workers determine the  *)
(* holder.  A descriptor that a child leaks holds nothing.                 *)
(***************************************************************************)
EXTENDS PreforkMigration

CONSTANT Sock  \* Sock[w]: the path of worker w's Unix socket

(* Workers have sockets of their own, not called like one of the places     *)
(* SessionOwnership names.                                                  *)
ASSUME SocksDistinct ==
  /\ DOMAIN Sock = Workers
  /\ \A v, w \in Workers : Sock[v] = Sock[w] => v = w
  /\ {Sock[w] : w \in Workers} \cap {"none", "gateway", "transit", "lost"} = {}

InTransit(c) == \E w \in Workers : \E i \in DOMAIN uds[w] : uds[w][i] = c

Holder(c) ==
  IF client[c] = "idle" THEN "none"
  ELSE IF c \in backlog \/ \E g \in Children : gconn[g] = c THEN "gateway"
  ELSE IF \E w \in Workers : Holds(w, c)
       THEN Sock[CHOOSE w \in Workers : Holds(w, c)]
  ELSE IF InTransit(c) THEN "transit" ELSE "lost"

SO == INSTANCE SessionOwnership WITH
        Functions <- {Sock[w] : w \in Workers},
        Readers <- {Sock[w] : w \in Workers},
        holder <- [c \in Conns |-> Holder(c)],
        read <- consumed,
        write <- [c \in Conns |-> Len(resp[c])]

(***************************************************************************)
(* Every step is a step of SessionOwnership or leaves it alone: peeking    *)
(* never moves the receive position, records are read and answers written  *)
(* in a worker's epoll loop only, and a connection that is closed, or      *)
(* dropped by a failed sendmsg, is never used again.                       *)
(***************************************************************************)
ImplementsOwnership == SO!Spec

=============================================================================
