-------------------------- MODULE SessionOwnership --------------------------
(***************************************************************************)
(* What session migration promises, without processes, sockets or records: *)
(* a TLS session has one holder at a time, its record numbers advance only *)
(* in the hands of those that may read and of the functions that answer,   *)
(* they travel unchanged from one holder to the next, and a session that   *)
(* is lost stays lost.                                                     *)
(***************************************************************************)
EXTENDS Naturals

CONSTANTS
  Conns,     \* sessions, one per TCP connection
  Functions, \* functions that may hold a session and answer on it
  Readers    \* holders that may take records: the functions, and the gateway
             \* if it reads requests instead of peeking at them

VARIABLES
  holder, \* holder[c]: who holds the session
  read,   \* read[c]: client records taken from the connection
  write   \* write[c]: responses written on it

svars == <<holder, read, write>>

(* "none": not connected yet; "gateway": accepted, or about to be, by the   *)
(* gateway; "transit": in a message between two processes; "lost": closed.  *)
Places == {"none", "gateway", "transit", "lost"}

Init ==
  /\ holder = [c \in Conns |-> "none"]
  /\ read = [c \in Conns |-> 0]
  /\ write = [c \in Conns |-> 0]

Arrive(c) ==
  /\ holder[c] = "none"
  /\ holder' = [holder EXCEPT ![c] = "gateway"]
  /\ UNCHANGED <<read, write>>

HandOver(c) ==
  /\ holder[c] \in Functions \cup {"gateway"}
  /\ holder' = [holder EXCEPT ![c] = "transit"]
  /\ UNCHANGED <<read, write>>

Receive(c, h) ==
  /\ holder[c] = "transit"
  /\ holder' = [holder EXCEPT ![c] = h]
  /\ UNCHANGED <<read, write>>

(* A record is taken off the connection, a response is written on it. *)
Take(c) ==
  /\ holder[c] \in Readers
  /\ read' = [read EXCEPT ![c] = @ + 1]

Answer(c) ==
  /\ holder[c] \in Functions
  /\ write' = [write EXCEPT ![c] = @ + 1]

(* The holder takes a record, answers, or does both before it looks at      *)
(* anything else; if that fails, or was the last answer, it closes.         *)
Use(c) ==
  /\ \/ Take(c) /\ UNCHANGED write
     \/ Answer(c) /\ UNCHANGED read
     \/ Take(c) /\ Answer(c)
  /\ holder' \in {holder, [holder EXCEPT ![c] = "lost"]}

(* Sessions are lost together when the process that holds them dies. *)
Lose(S) ==
  /\ \A c \in S : holder[c] \notin {"none", "lost"}
  /\ holder' = [c \in Conns |-> IF c \in S THEN "lost" ELSE holder[c]]
  /\ UNCHANGED <<read, write>>

Next ==
  \/ \E c \in Conns :
       \/ Arrive(c) \/ HandOver(c) \/ Use(c)
       \/ \E h \in Functions \cup {"gateway"} : Receive(c, h)
  \/ \E S \in SUBSET Conns : Lose(S)

Spec == Init /\ [][Next]_svars

=============================================================================
