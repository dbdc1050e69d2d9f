------------------------ MODULE KeepaliveStreamProofs ------------------------
(***************************************************************************)
(* What a worker reads is what the client wrote to it: responses answer    *)
(* the requests in order and come from the worker each request names, a    *)
(* connection is passed on between two requests, and only the named worker *)
(* takes records off it.                                                   *)
(*                                                                         *)
(* How many bytes precede a request or a record is a sum over the whole    *)
(* history, which would need a recursive definition and induction over it. *)
(* StreamInv states instead that some pair of functions, start and off,    *)
(* gives those positions (Laid); a step of the client extends the witness  *)
(* at its end, every other step keeps it.  Relative to the witness the     *)
(* whole state of a reader is one equation between the bytes taken off the *)
(* connection and the request it answers (Reading).                        *)
(***************************************************************************)
EXTENDS KeepaliveSafetyProofs

-----------------------------------------------------------------------------
(* Requests and records on a connection *)

(* The plaintext of the i-th request of R; its blank line is token HeadLen. *)
Text(R, i) == Plaintext(R[i], i)
HeadLen(r) == (IF r.split THEN 1 ELSE 0) + 2

(* Token t is the n-th of the whole stream when request i's first is token  *)
(* start[i] + 1.                                                            *)
At(R, start, n, t) ==
  /\ t.id \in 1..Len(R) /\ start[t.id] < n /\ n <= start[t.id + 1]
  /\ t = Text(R, t.id)[n - start[t.id]]

(* The records S and the bytes T still to be sent are the plaintext of the  *)
(* requests R in order; off[k] tokens precede record k.                     *)
Laid(R, S, T, start, off) ==
  /\ start \in [Nat -> Nat] /\ off \in [Nat -> Nat] /\ start[1] = 0 /\ off[1] = 0
  /\ \A i \in 1..Len(R) : start[i + 1] = start[i] + Len(Text(R, i))
  /\ \A i, j \in 1..(Len(R) + 1) : i < j => start[i] < start[j]
  /\ \A k \in 1..Len(S) : Len(S[k]) > 0 /\ off[k + 1] = off[k] + Len(S[k])
  /\ \A k \in 1..Len(S) : \A j \in 1..Len(S[k]) : At(R, start, off[k] + j, S[k][j])
  /\ \A j \in 1..Len(T) : At(R, start, off[Len(S) + 1] + j, T[j])
  /\ off[Len(S) + 1] + Len(T) = start[Len(R) + 1]

LEMMA Concat ==
  ASSUME NEW s \in Seq(Token), NEW t \in Seq(Token)
  PROVE  /\ s \o t \in Seq(Token) /\ Len(s \o t) = Len(s) + Len(t)
         /\ \A i \in 1..Len(s) : (s \o t)[i] = s[i]
         /\ \A i \in 1..Len(t) : (s \o t)[Len(s) + i] = t[i]
         /\ \A i \in 1..Len(s \o t) :
              \/ i \in 1..Len(s) /\ (s \o t)[i] = s[i]
              \/ i - Len(s) \in 1..Len(t) /\ (s \o t)[i] = t[i - Len(s)]
OBVIOUS

LEMMA AppendAny ==
  ASSUME NEW T, NEW s \in Seq(T), NEW e
  PROVE  /\ Len(Append(s, e)) = Len(s) + 1
         /\ \A i \in 1..(Len(s) + 1) : \/ i \in 1..Len(s) /\ Append(s, e)[i] = s[i]
                                       \/ i = Len(s) + 1 /\ Append(s, e)[i] = e
OBVIOUS

(* Tokens of request i, the blank line at index n only. *)
Marked(s, i, n) == \A j \in 1..Len(s) : s[j].id = i /\ (s[j].kind = "end" <=> j = n)

LEMMA PlaintextShape ==
  ASSUME NEW r \in Request, NEW i \in Nat
  PROVE  /\ Plaintext(r, i) \in Seq(Token) /\ Len(Plaintext(r, i)) = HeadLen(r) + r.body
         /\ HeadLen(r) \in Nat /\ HeadLen(r) >= 2 /\ r.body \in Nat
         /\ Marked(Plaintext(r, i), i, HeadLen(r))
<1> DEFINE h == IF r.split THEN <<[kind |-> "half", id |-> i]>> ELSE <<>>
           l == <<[kind |-> "line", id |-> i], [kind |-> "end", id |-> i]>>
           b == [k \in 1..r.body |-> [kind |-> "body", id |-> i]]
           n == IF r.split THEN 1 ELSE 0
           m == HeadLen(r)
<1>0. r.body \in Nat /\ r.split \in BOOLEAN /\ n \in {0, 1} /\ m = n + 2
  BY DEF Request, HeadLen
<1>1. h \in Seq(Token) /\ Len(h) = n /\ Marked(h, i, 0)
  <2>1. CASE r.split
    BY <2>1 DEF Token, Marked
  <2>2. CASE ~r.split
    BY <2>2 DEF Token, Marked
  <2> QED BY <2>1, <2>2
<1>2. l \in Seq(Token) /\ Len(l) = 2 /\ Marked(l, i, 2)
  <2>1. l \in Seq(Token) /\ Len(l) = 2
    BY DEF Token
  <2>2. \A j \in 1..2 : j = 1 \/ j = 2
    OBVIOUS
  <2> QED BY <2>1, <2>2 DEF Marked
<1>3. b \in Seq(Token) /\ Len(b) = r.body /\ Marked(b, i, 0)
  <2>1. \A k \in 1..r.body : [kind |-> "body", id |-> i] \in Token
    BY DEF Token
  <2>2. b \in Seq(Token) /\ Len(b) = r.body
    BY <1>0, <2>1
  <2>3. \A k \in 1..r.body : b[k].id = i /\ b[k].kind = "body" /\ k # 0
    BY <1>0
  <2> QED BY <2>2, <2>3 DEF Marked
<1>4. Plaintext(r, i) = (h \o l) \o b
  BY DEF Plaintext
<1> HIDE DEF h, l, b, n, m
<1> DEFINE g == h \o l
<1>5. /\ g \in Seq(Token) /\ Len(g) = n + 2
      /\ \A j \in 1..Len(g) : \/ j \in 1..n /\ g[j] = h[j]
                              \/ j - n \in 1..2 /\ g[j] = l[j - n]
  <2>1. /\ g \in Seq(Token) /\ Len(g) = Len(h) + Len(l)
        /\ \A j \in 1..Len(g) : \/ j \in 1..Len(h) /\ g[j] = h[j]
                                \/ j - Len(h) \in 1..Len(l) /\ g[j] = l[j - Len(h)]
    BY <1>1, <1>2, Concat
  <2> HIDE DEF g
  <2> QED BY <1>1, <1>2, <2>1
<1> HIDE DEF g
<1>6. g \in Seq(Token) /\ Len(g) = m /\ m \in Nat /\ m >= 2 /\ Marked(g, i, m)
  <2>1. ASSUME NEW j \in 1..Len(g)
        PROVE  g[j].id = i /\ (g[j].kind = "end" <=> j = m)
    <3>1. CASE j \in 1..n /\ g[j] = h[j]
      <4>1. h[j].id = i /\ h[j].kind # "end"
        BY <1>0, <1>1, <3>1 DEF Marked
      <4>2. j # m
        BY <1>0, <3>1
      <4> QED BY <3>1, <4>1, <4>2
    <3>2. CASE j - n \in 1..2 /\ g[j] = l[j - n]
      <4>1. l[j - n].id = i /\ (l[j - n].kind = "end" <=> j - n = 2)
        BY <1>2, <3>2 DEF Marked
      <4>2. j - n = 2 <=> j = m
        BY <1>0, <1>5, <3>2
      <4> QED BY <3>2, <4>1, <4>2
    <3> QED BY <1>5, <3>1, <3>2
  <2> QED BY <1>0, <1>5, <2>1 DEF Marked
<1>7. /\ g \o b \in Seq(Token) /\ Len(g \o b) = m + r.body
      /\ \A j \in 1..Len(g \o b) : \/ j \in 1..m /\ (g \o b)[j] = g[j]
                                   \/ j - m \in 1..r.body /\ (g \o b)[j] = b[j - m]
  <2> DEFINE f == g \o b
  <2>1. /\ f \in Seq(Token) /\ Len(f) = Len(g) + Len(b)
        /\ \A j \in 1..Len(f) : \/ j \in 1..Len(g) /\ f[j] = g[j]
                                \/ j - Len(g) \in 1..Len(b) /\ f[j] = b[j - Len(g)]
    BY <1>3, <1>6, Concat
  <2> HIDE DEF f
  <2>2. /\ f \in Seq(Token) /\ Len(f) = m + r.body
        /\ \A j \in 1..Len(f) : \/ j \in 1..m /\ f[j] = g[j]
                                \/ j - m \in 1..r.body /\ f[j] = b[j - m]
    BY <1>3, <1>6, <2>1
  <2> QED BY <2>2 DEF f
<1>8. Marked(g \o b, i, m)
  <2>1. ASSUME NEW j \in 1..Len(g \o b)
        PROVE  (g \o b)[j].id = i /\ ((g \o b)[j].kind = "end" <=> j = m)
    <3>1. CASE j \in 1..m /\ (g \o b)[j] = g[j]
      BY <1>6, <3>1 DEF Marked
    <3>2. CASE j - m \in 1..r.body /\ (g \o b)[j] = b[j - m]
      <4>1. b[j - m].id = i /\ b[j - m].kind # "end"
        BY <1>0, <1>3, <3>2 DEF Marked
      <4>2. j # m
        BY <1>0, <1>6, <3>2
      <4> QED BY <3>2, <4>1, <4>2
    <3> QED BY <1>7, <3>1, <3>2
  <2> QED BY <2>1 DEF Marked
<1>9. Plaintext(r, i) = g \o b
  BY <1>4 DEF g
<1> QED BY <1>0, <1>6, <1>7, <1>8, <1>9 DEF m

LEMMA HeadLenType ==
  ASSUME NEW r \in Request
  PROVE  HeadLen(r) \in Nat /\ HeadLen(r) >= 2
BY 0 \in Nat, PlaintextShape

(* What the connection's own variables are. *)
LEMMA StreamTypes ==
  ASSUME TypeInv, NEW c \in Conns
  PROVE  /\ reqs[c] \in Seq(Request) /\ Len(reqs[c]) \in Nat
         /\ todo[c] \in Seq(Token) /\ Len(todo[c]) \in Nat
         /\ sent[c] \in Seq(Seq(Token)) /\ Len(sent[c]) \in Nat
         /\ resp[c] \in Seq(Response) /\ Len(resp[c]) \in Nat /\ consumed[c] \in Nat
         /\ \A k \in 1..Len(sent[c]) : sent[c][k] \in Seq(Token) /\ Len(sent[c][k]) \in Nat
         /\ \A i \in 1..Len(reqs[c]) : reqs[c][i] \in Request
BY DEF TypeInv, TypeOK

(* The position of a token tells its request. *)
LEMMA TokenHere ==
  ASSUME NEW R \in Seq(Request), NEW S, NEW T, NEW start, NEW off, Laid(R, S, T, start, off),
         NEW r \in 1..Len(R), NEW n \in Nat, start[r] < n, n <= start[r + 1],
         NEW t, At(R, start, n, t)
  PROVE  t.id = r /\ t = Text(R, r)[n - start[r]]
<1> DEFINE N == Len(R)
           i == t.id
<1>0. N \in Nat /\ start \in [Nat -> Nat]
  <2>1. start \in [Nat -> Nat]
    BY DEF Laid
  <2>2. Len(R) \in Nat
    BY ONLY R \in Seq(Request)
  <2> QED BY <2>1, <2>2
<1>1. i \in 1..N /\ start[i] < n /\ n <= start[i + 1] /\ t = Text(R, i)[n - start[i]]
  BY DEF At
<1>2. \A a, b \in 1..(N + 1) : a < b => start[a] < start[b]
  BY DEF Laid
<1>r. r \in 1..N
  OBVIOUS
<1> HIDE DEF N, i
<1>3. /\ i \in Nat /\ i + 1 \in 1..(N + 1) /\ r \in Nat /\ r + 1 \in 1..(N + 1)
      /\ i \in 1..(N + 1) /\ r \in 1..(N + 1)
      /\ start[i] \in Nat /\ start[r] \in Nat /\ start[i + 1] \in Nat /\ start[r + 1] \in Nat
  BY <1>0, <1>1, <1>r
<1>4. ~(i < r)
  <2> SUFFICES ASSUME i < r PROVE FALSE
    OBVIOUS
  <2>1. i + 1 = r \/ i + 1 < r
    BY <1>3
  <2>2. start[i + 1] <= start[r]
    BY <1>2, <1>3, <2>1
  <2> QED BY <1>1, <1>3, <2>2
<1>5. ~(r < i)
  <2> SUFFICES ASSUME r < i PROVE FALSE
    OBVIOUS
  <2>1. r + 1 = i \/ r + 1 < i
    BY <1>3
  <2>2. start[r + 1] <= start[i]
    BY <1>2, <1>3, <2>1
  <2> QED BY <1>1, <1>3, <2>2
<1>6. i = r
  BY <1>3, <1>4, <1>5
<1> QED BY <1>1, <1>6 DEF i

(* rec, after a tokens of the stream, is a piece of request r. *)
PieceOf(R, rec, start, a, next, r) ==
  /\ Len(rec) > 0 /\ next = a + Len(rec) /\ next <= start[r + 1]
  /\ \A j \in 1..Len(rec) : rec[j] = Text(R, r)[(a + j) - start[r]]

(* A record that begins inside request r, and carries no other request's   *)
(* bytes, ends inside it.                                                  *)
LEMMA RecordHere ==
  ASSUME NEW R \in Seq(Request), NEW S \in Seq(Seq(Token)), NEW T, NEW start, NEW off,
         Laid(R, S, T, start, off),
         NEW k \in 1..Len(S), NEW r \in 1..Len(R), start[r] <= off[k], off[k] < start[r + 1],
         \A j \in 1..Len(S[k]) : S[k][j].id = S[k][1].id
  PROVE  PieceOf(R, S[k], start, off[k], off[k + 1], r)
<1> DEFINE rec == S[k]
           L == Len(rec)
           a == off[k]
           b == start[r]
           e == start[r + 1]
<1>k. k \in Nat /\ r \in Nat /\ Len(S) \in Nat /\ Len(R) \in Nat
  OBVIOUS
<1>s. rec \in Seq(Token) /\ L \in Nat
  OBVIOUS
<1>0. L > 0 /\ off[k + 1] = a + L /\ a \in Nat /\ b \in Nat /\ e \in Nat
  <2>1. /\ start \in [Nat -> Nat] /\ off \in [Nat -> Nat]
        /\ L > 0 /\ off[k + 1] = off[k] + L
    BY DEF Laid
  <2> QED BY <1>k, <2>1
<1>1. \A j \in 1..L : At(R, start, a + j, rec[j])
  BY DEF Laid
<1>2. \A j \in 1..L : rec[j].id = rec[1].id
  OBVIOUS
<1>3. b <= a /\ a < e
  OBVIOUS
<1> HIDE DEF rec, L, a, b, e
<1>4. a + 1 \in Nat /\ b < a + 1 /\ a + 1 <= e /\ 1 \in 1..L /\ L \in 1..L
  BY ONLY <1>s, <1>0, <1>3
<1>5. rec[1].id = r
  <2> DEFINE n == a + 1
  <2>1. At(R, start, n, rec[1]) /\ n \in Nat /\ start[r] < n /\ n <= start[r + 1]
    BY <1>1, <1>4 DEF b, e
  <2> HIDE DEF n
  <2> QED BY <2>1, TokenHere
<1>6. ASSUME NEW j \in 1..L
      PROVE  a + j <= e /\ rec[j] = Text(R, r)[(a + j) - b]
  <2>1. At(R, start, a + j, rec[j]) /\ rec[j].id = r
    BY <1>1, <1>2, <1>5
  <2> DEFINE n == a + j
             t == rec[j]
  <2> HIDE DEF n, t
  <2>2. At(R, start, n, t) /\ t.id = r
    BY <2>1 DEF n, t
  <2>3. n <= start[r + 1] /\ t = Text(R, r)[n - start[r]]
    BY <2>2 DEF At
  <2> QED BY <2>3 DEF b, e, n, t
<1>7. a + L <= e
  BY <1>4, <1>6
<1> QED BY <1>s, <1>0, <1>6, <1>7 DEF rec, L, a, b, e, PieceOf

(* A record that begins where request r does (or where the next request     *)
(* would) begins with the first byte of request r, which exists.             *)
LEMMA FirstRecord ==
  ASSUME NEW R \in Seq(Request), NEW S \in Seq(Seq(Token)), NEW T, NEW start, NEW off,
         Laid(R, S, T, start, off),
         NEW k \in 1..Len(S), NEW r \in 1..(Len(R) + 1), off[k] = start[r]
  PROVE  r \in 1..Len(R) /\ S[k][1].id = r /\ S[k][1] = Text(R, r)[1]
<1> DEFINE N == Len(R)
           L == Len(S[k])
           t == S[k][1]
           i == t.id
           a == off[k]
<1>0. /\ k \in Nat /\ r \in Nat /\ N \in Nat /\ L \in Nat
      /\ start \in [Nat -> Nat] /\ off \in [Nat -> Nat]
  <2>1. start \in [Nat -> Nat] /\ off \in [Nat -> Nat]
    BY DEF Laid
  <2>2. Len(S) \in Nat /\ Len(R) \in Nat
    BY ONLY S \in Seq(Seq(Token)), R \in Seq(Request)
  <2>3. k \in Nat /\ r \in Nat
    BY ONLY <2>2, k \in 1..Len(S), r \in 1..(Len(R) + 1)
  <2>4. Len(S[k]) \in Nat
    BY ONLY S \in Seq(Seq(Token)), k \in 1..Len(S)
  <2> QED BY <2>1, <2>2, <2>3, <2>4
<1>1. L > 0 /\ \A j \in 1..L : At(R, start, a + j, S[k][j])
  BY DEF Laid
<1>3. \A x, y \in 1..(N + 1) : x < y => start[x] < start[y]
  BY DEF Laid
<1>4. r \in 1..(N + 1) /\ a = start[r] /\ a \in Nat
  BY <1>0
<1> HIDE DEF a, L, N
<1> DEFINE n == a + 1
<1>2. At(R, start, n, t)
  BY <1>0, <1>1
<1>n. n = a + 1
  OBVIOUS
<1> HIDE DEF n, t
<1>5. i \in 1..N /\ start[i] < n /\ n <= start[i + 1]
  BY <1>2 DEF At, N
<1> HIDE DEF i
<1>6. r \in 1..N
  <2> SUFFICES ASSUME r \notin 1..N PROVE FALSE
    OBVIOUS
  <2>1. r = N + 1 /\ i + 1 \in 1..(N + 1) /\ i + 1 \in Nat
    BY <1>0, <1>4, <1>5
  <2>2. i \in Nat /\ (i + 1 = r \/ i + 1 < r)
    BY ONLY <1>0, <1>5, <2>1
  <2>3. start[i + 1] <= start[r] /\ start[i + 1] \in Nat /\ start[r] \in Nat
    <3>1. start[i + 1] \in Nat /\ start[r] \in Nat
      BY ONLY <1>0, <2>1
    <3>2. i + 1 < r => start[i + 1] < start[r]
      BY ONLY <1>3, <1>4, <2>1
    <3> DEFINE x == start[i + 1]
               y == start[r]
    <3>3. x \in Nat /\ y \in Nat /\ (x = y \/ x < y)
      BY <2>2, <3>1, <3>2
    <3> HIDE DEF x, y
    <3>4. x <= y
      BY ONLY <3>3
    <3> QED BY <3>3, <3>4 DEF x, y
  <2> DEFINE x == start[i + 1]
             y == start[r]
  <2>4. a = y /\ n <= x /\ n = a + 1 /\ x <= y /\ x \in Nat /\ y \in Nat
    BY <1>4, <1>5, <1>n, <2>3
  <2> HIDE DEF x, y
  <2> QED BY ONLY <2>4
<1>7. r \in 1..Len(R) /\ n \in Nat /\ start[r] < n /\ n <= start[r + 1]
  <2>0. r \in 1..(N + 1) /\ r + 1 \in 1..(N + 1) /\ r + 1 \in Nat
    BY <1>0, <1>6
  <2>1. start[r + 1] \in Nat /\ start[r] < start[r + 1]
    <3>0. r \in Nat /\ start \in [Nat -> Nat]
      BY <1>0
    <3>1. r + 1 \in Nat /\ r < r + 1
      BY ONLY <3>0
    <3>2. start[r + 1] \in Nat /\ r < r + 1
      BY ONLY <3>0, <3>1
    <3>3. r \in 1..(N + 1) /\ r + 1 \in 1..(N + 1)
      BY <2>0
    <3> QED BY ONLY <1>3, <3>2, <3>3
  <2> DEFINE x == start[r + 1]
  <2>2. x \in Nat /\ a < x /\ a \in Nat /\ n = a + 1
    BY <1>4, <1>n, <2>1
  <2> HIDE DEF x
  <2>3. n \in Nat /\ a < n /\ n <= x
    BY ONLY <2>2
  <2> QED BY <1>4, <1>6, <2>3 DEF N, x
<1>8. t.id = r /\ t = Text(R, r)[n - start[r]]
  BY <1>2, <1>7, TokenHere
<1>9. n - start[r] = 1
  BY <1>4, <1>n
<1> QED BY <1>7, <1>8, <1>9 DEF t

-----------------------------------------------------------------------------
(* Where the connection stands in its stream *)

(* The calls a process makes with a session between two requests, and while *)
(* it reads and answers one.                                                *)
BetweenPCs == {"handshake", "peek", "dispatch", "restore", "relay"}
ReadingPCs == {"headers", "body", "respond"}

(* No request of c is being read: the connection is new, queued or with a   *)
(* process that has taken nothing off it.                                   *)
Between(c) ==
  \/ client[c] = "idle" \/ c \in backlog
  \/ \E l \in Listeners : \E i \in DOMAIN uds[l] : uds[l][i].conn = c
  \/ \E p \in Procs : conn[p] = c /\ pc[p] \in BetweenPCs

(* What worker w, in call step with locals d, has read of request r when    *)
(* pos tokens have come off the connection.                                 *)
Reading(R, start, pos, r, w, step, d) ==
  /\ step \in ReadingPCs => r <= Len(R) /\ R[r].fn = w
  /\ step = "headers" =>
       /\ pos = start[r] + Len(d.buf) /\ Len(d.buf) < HeadLen(R[r])
       /\ \A j \in 1..Len(d.buf) : d.buf[j] = Text(R, r)[j]
  /\ step = "body" =>
       /\ d.id = r /\ d.want > 0
       /\ start[r] < pos /\ pos + d.want = start[r + 1]
  /\ step = "respond" => d.id = r /\ pos = start[r + 1]

(* The records consumed are the requests answered and what has been read of *)
(* the next one, by the worker it names.                                    *)
InPlace(c, start, pos) ==
  /\ Len(resp[c]) <= Len(reqs[c])
  /\ Between(c) => pos = start[Len(resp[c]) + 1]
  /\ \A p \in Procs : conn[p] = c =>
       /\ ssl[p].pending = <<>>
       /\ Reading(reqs[c], start, pos, Len(resp[c]) + 1, p, pc[p], rd[p])
  /\ \A i \in 1..Len(resp[c]) : resp[c][i].id = i /\ resp[c][i].by = reqs[c][i].fn

Placed(c, start, off) ==
  /\ Laid(reqs[c], sent[c], todo[c], start, off) /\ consumed[c] <= Len(sent[c])
  /\ Unmixed(c) => InPlace(c, start, off[consumed[c] + 1])

ConnPlaced(c) == \E start, off : Placed(c, start, off)

BuffersEmpty == \A p \in Procs : pc[p] \in BetweenPCs => rd[p].buf = <<>>

StreamInv == BuffersEmpty /\ \A c \in Conns : ConnPlaced(c)

(* Steps that move nothing on c and read nothing of it. *)
LEMMA StreamFrame ==
  ASSUME NEW c \in Conns, ConnPlaced(c),
         reqs'[c] = reqs[c], todo'[c] = todo[c], sent'[c] = sent[c],
         consumed'[c] = consumed[c], resp'[c] = resp[c],
         Between(c)' => Between(c),
         \A p \in Procs : conn'[p] = c =>
           /\ \/ ssl'[p].pending = <<>>
              \/ conn[p] = c /\ ssl'[p].pending = ssl[p].pending
           /\ pc'[p] \in ReadingPCs => conn[p] = c /\ pc[p] = pc'[p] /\ rd'[p] = rd[p]
  PROVE  ConnPlaced(c)'
<1> PICK start, off : Placed(c, start, off)
  BY DEF ConnPlaced
<1> PICK pos : pos = off[consumed[c] + 1]
  OBVIOUS
<1>1. Laid(reqs[c], sent[c], todo[c], start, off)'
  BY DEF Placed
<1>2. consumed'[c] <= Len(sent'[c])
  BY DEF Placed
<1>3. Unmixed(c)' = Unmixed(c)
  BY DEF Unmixed
<1>4. ASSUME Unmixed(c)
      PROVE  InPlace(c, start, pos)'
  <2>1. InPlace(c, start, pos)
    BY <1>4 DEF Placed
  <2>2. Between(c)' => pos = start[Len(resp'[c]) + 1]
    BY <2>1 DEF InPlace
  <2>3. ASSUME NEW p \in Procs, conn'[p] = c
        PROVE  /\ ssl'[p].pending = <<>>
               /\ Reading(reqs'[c], start, pos, Len(resp'[c]) + 1, p, pc'[p], rd'[p])
    <3>1. conn[p] = c => /\ ssl[p].pending = <<>>
                         /\ Reading(reqs[c], start, pos, Len(resp[c]) + 1, p, pc[p], rd[p])
      BY <2>1 DEF InPlace
    <3>2. ssl'[p].pending = <<>>
      BY <2>3, <3>1
    <3>3. CASE pc'[p] \in ReadingPCs
      BY <2>3, <3>1, <3>2, <3>3
    <3>4. CASE pc'[p] \notin ReadingPCs
      <4>1. pc'[p] \notin {"headers", "body", "respond"}
        BY <3>4 DEF ReadingPCs
      <4> QED BY <3>2, <3>4, <4>1 DEF Reading
    <3> QED BY <3>3, <3>4
  <2>4. /\ Len(resp'[c]) <= Len(reqs'[c])
        /\ \A i \in 1..Len(resp'[c]) : resp'[c][i].id = i /\ resp'[c][i].by = reqs'[c][i].fn
    BY <2>1 DEF InPlace
  <2> QED BY <2>2, <2>3, <2>4 DEF InPlace
<1>5. off[consumed'[c] + 1] = pos
  OBVIOUS
<1> QED BY <1>1, <1>2, <1>3, <1>4, <1>5 DEF ConnPlaced, Placed

(* How a process may change in a step that reads nothing: not at all, back  *)
(* to its accept loop (or dead), or on to another call between requests.    *)
Moved(p) ==
  \/ conn'[p] = conn[p] /\ pc'[p] = pc[p] /\ ssl'[p] = ssl[p] /\ rd'[p] = rd[p]
  \/ conn'[p] = NoConn /\ pc'[p] \notin BetweenPCs \cup ReadingPCs
  \/ /\ pc'[p] \in BetweenPCs \ ReadingPCs /\ Between(conn'[p]) /\ rd'[p].buf = <<>>
     /\ \/ ssl'[p].pending = <<>>
        \/ conn'[p] = conn[p] /\ ssl'[p].pending = ssl[p].pending

LEMMA StreamStill ==
  ASSUME StreamInv, UNCHANGED <<reqs, todo, sent, consumed, resp>>,
         \A c \in Conns : client'[c] = "idle" => client[c] = "idle",
         \A c \in Conns : c \in backlog' => Between(c),
         \A l \in Listeners : \A i \in DOMAIN uds'[l] :
           uds'[l][i].conn \in Conns => Between(uds'[l][i].conn),
         \A p \in Procs : Moved(p)
  PROVE  StreamInv'
<1>n. NoConn \notin Conns
  BY ConstantsOK
<1>1. BuffersEmpty'
  <2> SUFFICES ASSUME NEW p \in Procs, pc'[p] \in BetweenPCs
               PROVE  rd'[p].buf = <<>>
    BY DEF BuffersEmpty
  <2>1. Moved(p)
    OBVIOUS
  <2> QED BY <2>1 DEF Moved, StreamInv, BuffersEmpty
<1>2. ASSUME NEW c \in Conns
      PROVE  ConnPlaced(c)'
  <2>1. ASSUME Between(c)' PROVE Between(c)
    <3>1. CASE client'[c] = "idle"
      BY <3>1 DEF Between
    <3>2. CASE c \in backlog'
      BY <3>2
    <3>3. CASE \E l \in Listeners : \E i \in DOMAIN uds'[l] : uds'[l][i].conn = c
      BY <3>3
    <3>4. ASSUME NEW p \in Procs, conn'[p] = c, pc'[p] \in BetweenPCs
          PROVE  Between(c)
      <4>1. Moved(p)
        OBVIOUS
      <4> QED BY <3>4, <4>1, <1>n DEF Moved, Between
    <3> QED BY <2>1, <3>1, <3>2, <3>3, <3>4 DEF Between
  <2>2. ASSUME NEW p \in Procs, conn'[p] = c
        PROVE  /\ \/ ssl'[p].pending = <<>>
                  \/ conn[p] = c /\ ssl'[p].pending = ssl[p].pending
               /\ pc'[p] \in ReadingPCs => conn[p] = c /\ pc[p] = pc'[p] /\ rd'[p] = rd[p]
    <3>1. Moved(p)
      OBVIOUS
    <3> QED BY <1>n, <2>2, <3>1 DEF Moved
  <2>3. /\ ConnPlaced(c) /\ reqs'[c] = reqs[c] /\ todo'[c] = todo[c] /\ sent'[c] = sent[c]
        /\ consumed'[c] = consumed[c] /\ resp'[c] = resp[c]
    BY DEF StreamInv
  <2> QED BY <2>1, <2>2, <2>3, StreamFrame
<1> QED BY <1>1, <1>2 DEF StreamInv

(* A process that has a connection between requests, or drops its own. *)
LEMMA StreamLocal ==
  ASSUME TypeInv, StreamInv, UNCHANGED <<reqs, todo, sent, consumed, resp>>,
         NEW q \in Procs, Moved(q),
         \A p \in Procs \ {q} :
           conn'[p] = conn[p] /\ pc'[p] = pc[p] /\ ssl'[p] = ssl[p] /\ rd'[p] = rd[p],
         \A c \in Conns : client'[c] = "idle" => client[c] = "idle",
         backlog' \subseteq backlog,
         \A l \in Listeners : \A i \in DOMAIN uds'[l] :
           uds'[l][i].conn \in Conns => Between(uds'[l][i].conn)
  PROVE  StreamInv'
<1>1. \A p \in Procs : Moved(p)
  BY DEF Moved
<1>2. \A c \in Conns : c \in backlog' => Between(c)
  BY DEF Between
<1> QED BY <1>1, <1>2, StreamStill

(* A connection in a queue is between requests. *)
LEMMA QueuedBetween ==
  \A l \in Listeners : \A i \in DOMAIN uds[l] :
    uds[l][i].conn \in Conns => Between(uds[l][i].conn)
BY DEF Between

LEMMA DropMoves ==
  ASSUME TypeInv, NEW q \in Procs, Drop(q)
  PROVE  /\ Moved(q)
         /\ \A p \in Procs \ {q} :
              conn'[p] = conn[p] /\ pc'[p] = pc[p] /\ ssl'[p] = ssl[p] /\ rd'[p] = rd[p]
<1>1. conn'[q] = NoConn /\ pc'[q] = "accept"
  BY DEF Drop, Reset, TypeInv, TypeOK
<1>2. Moved(q)
  BY <1>1 DEF Moved, BetweenPCs, ReadingPCs
<1>3. ASSUME NEW p \in Procs \ {q}
      PROVE  conn'[p] = conn[p] /\ pc'[p] = pc[p] /\ ssl'[p] = ssl[p] /\ rd'[p] = rd[p]
  BY DEF Drop, Reset, TypeInv, TypeOK
<1> QED BY <1>2, <1>3

LEMMA StreamCloseConn ==
  ASSUME TypeInv, StreamInv, NEW p \in Procs, CloseConn(p)
  PROVE  StreamInv'
<1>1. UNCHANGED <<client, reqs, todo, sent, consumed, resp, backlog, uds>> /\ Drop(p)
  BY DEF CloseConn, clientVars, streamVars
<1>2. \A l \in Listeners : \A i \in DOMAIN uds'[l] :
        uds'[l][i].conn \in Conns => Between(uds'[l][i].conn)
  BY <1>1, QueuedBetween
<1> QED BY <1>1, <1>2, DropMoves, StreamLocal

LEMMA StreamHandOff ==
  ASSUME TypeInv, StreamInv, NEW p \in Procs, NEW l, HandOff(p, l), pc[p] \in BetweenPCs
  PROVE  StreamInv'
<1>1. /\ UNCHANGED <<client, reqs, todo, sent, consumed, resp, backlog>> /\ Drop(p)
      /\ \/ uds' = uds
         \/ l \in Listeners /\ uds' = [uds EXCEPT ![l] = Append(@, Message(p))]
         \/ l \in Listeners /\ uds' = [uds EXCEPT ![l] = Append(@, EmptyEntry)]
  BY DEF HandOff, ConnectRefused, SendFd, SendFdFails, Listening, clientVars, streamVars
<1>t. /\ uds \in [Listeners -> Seq(Entry)] /\ EmptyEntry \in Entry /\ Message(p) \in Entry
      /\ EmptyEntry.conn = NoConn /\ NoConn \notin Conns /\ Message(p).conn = conn[p]
  <2>1. serial[p] \in Serial /\ target[p] \in Names \cup {NoName} /\ conn[p] \in Conns \cup {NoConn}
    BY DEF TypeInv, TypeOK
  <2> QED BY <2>1, DefaultTypes, ConstantsOK DEF TypeInv, TypeOK, EmptyEntry, Message, Entry
<1>b. conn[p] \in Conns => Between(conn[p])
  BY DEF Between
<1>2. ASSUME NEW m \in Listeners, NEW i \in DOMAIN uds'[m], uds'[m][i].conn \in Conns
      PROVE  Between(uds'[m][i].conn)
  <2>1. CASE uds' = uds
    BY <1>2, <2>1, QueuedBetween
  <2>2. ASSUME NEW e \in Entry, l \in Listeners, uds' = [uds EXCEPT ![l] = Append(@, e)],
               e.conn \in Conns => Between(e.conn)
        PROVE  Between(uds'[m][i].conn)
    <3>1. CASE m # l
      <4>1. uds'[m] = uds[m]
        BY <2>2, <3>1, <1>t
      <4> QED BY <1>2, <4>1, QueuedBetween
    <3>2. CASE m = l
      <4>1. uds'[m] = Append(uds[l], e) /\ uds[l] \in Seq(Entry)
        BY <2>2, <3>2, <1>t
      <4>2. \/ i \in DOMAIN uds[l] /\ uds'[m][i] = uds[l][i]
            \/ uds'[m][i] = e
        BY <4>1, AppendEntries
      <4> QED BY <1>2, <2>2, <4>2, QueuedBetween
    <3> QED BY <3>1, <3>2
  <2> QED BY <1>1, <1>t, <1>b, <2>1, <2>2
<1> QED BY <1>1, <1>2, DropMoves, StreamLocal

(* Taking the first pending Unix connection. *)
LEMMA TailBetween ==
  ASSUME TypeInv, NEW p \in Listeners, uds[p] # <<>>, uds' = [uds EXCEPT ![p] = Tail(@)]
  PROVE  /\ \A l \in Listeners : \A i \in DOMAIN uds'[l] :
              uds'[l][i].conn \in Conns => Between(uds'[l][i].conn)
         /\ Head(uds[p]).conn \in Conns => Between(Head(uds[p]).conn)
         /\ Head(uds[p]) \in Entry
<1>t. uds \in [Listeners -> Seq(Entry)] /\ uds[p] \in Seq(Entry)
  BY DEF TypeInv, TypeOK
<1>1. /\ 1 \in DOMAIN uds[p] /\ Head(uds[p]) = uds[p][1]
      /\ \A i \in DOMAIN Tail(uds[p]) : i + 1 \in DOMAIN uds[p] /\ Tail(uds[p])[i] = uds[p][i + 1]
  BY <1>t, TailEntries
<1>2. ASSUME NEW l \in Listeners, NEW i \in DOMAIN uds'[l], uds'[l][i].conn \in Conns
      PROVE  Between(uds'[l][i].conn)
  <2>1. CASE l # p
    <3>1. uds'[l] = uds[l]
      BY <1>t, <2>1
    <3> QED BY <1>2, <3>1, QueuedBetween
  <2>2. CASE l = p
    <3>1. uds'[l] = Tail(uds[p])
      BY <1>t, <2>2
    <3>2. i + 1 \in DOMAIN uds[p] /\ uds'[l][i] = uds[p][i + 1]
      BY <1>1, <3>1
    <3> QED BY <1>2, <3>2, QueuedBetween
  <2> QED BY <2>1, <2>2
<1>3. Head(uds[p]).conn \in Conns => Between(Head(uds[p]).conn)
  BY <1>1, QueuedBetween
<1>4. Head(uds[p]) \in Entry
  BY <1>t
<1> QED BY <1>2, <1>3, <1>4

LEMMA StreamRecvFdFails ==
  ASSUME TypeInv, StreamInv, NEW p \in Listeners, RecvFdFails(p)
  PROVE  StreamInv'
<1>1. /\ UNCHANGED <<client, reqs, todo, sent, consumed, resp, backlog, pc, conn, ssl, rd>>
      /\ uds[p] # <<>> /\ uds' = [uds EXCEPT ![p] = Tail(@)] /\ p \in Procs
  BY DEF RecvFdFails, clientVars, streamVars, localVars, Procs
<1>2. \A q \in Procs : Moved(q)
  BY <1>1 DEF Moved
<1> QED BY <1>1, <1>2, TailBetween, StreamLocal

LEMMA StreamRecvFd ==
  ASSUME TypeInv, StreamInv, NEW p \in Listeners, NEW next \in {"restore", "dispatch"},
         RecvFd(p, next)
  PROVE  StreamInv'
<1>1. /\ UNCHANGED <<client, reqs, todo, sent, consumed, resp, backlog, ssl, rd>>
      /\ uds[p] # <<>> /\ uds' = [uds EXCEPT ![p] = Tail(@)] /\ p \in Procs
      /\ Head(uds[p]).conn # NoConn /\ pc[p] = "accept"
      /\ pc' = [pc EXCEPT ![p] = next] /\ conn' = [conn EXCEPT ![p] = Head(uds[p]).conn]
  BY DEF RecvFd, TakeMessage, clientVars, streamVars, Procs
<1>2. /\ Head(uds[p]) \in Entry /\ (Head(uds[p]).conn \in Conns => Between(Head(uds[p]).conn))
      /\ \A l \in Listeners : \A i \in DOMAIN uds'[l] :
              uds'[l][i].conn \in Conns => Between(uds'[l][i].conn)
  BY <1>1, TailBetween
<1>3. conn'[p] = Head(uds[p]).conn /\ pc'[p] = next /\ Head(uds[p]).conn \in Conns
  BY <1>1, <1>2 DEF TypeInv, TypeOK, Entry
<1>4. conn[p] = NoConn
  BY <1>1 DEF TypeInv, PcOK
<1>5. ssl[p] = NoSession /\ rd[p] = NoRead
  BY <1>1, <1>4 DEF TypeInv, IdsOK
<1>6. Moved(p)
  <2>1. ssl'[p].pending = <<>> /\ rd'[p].buf = <<>>
    BY <1>1, <1>5 DEF NoSession, NoRead
  <2> QED BY <1>2, <1>3, <2>1 DEF Moved, BetweenPCs, ReadingPCs
<1>7. \A q \in Procs \ {p} :
        conn'[q] = conn[q] /\ pc'[q] = pc[q] /\ ssl'[q] = ssl[q] /\ rd'[q] = rd[q]
  BY <1>1 DEF TypeInv, TypeOK
<1> QED BY <1>1, <1>2, <1>6, <1>7, StreamLocal

(* A step from one call between requests to another, on the same connection. *)
LEMMA StreamNextCall ==
  ASSUME TypeInv, StreamInv, NEW p \in Procs, NEW next \in BetweenPCs,
         pc[p] \in BetweenPCs, pc' = [pc EXCEPT ![p] = next],
         UNCHANGED <<reqs, todo, sent, consumed, resp, backlog, uds, conn, rd>>,
         \A q \in Procs \ {p} : ssl'[q] = ssl[q],
         ssl'[p].pending \in {<<>>, ssl[p].pending},
         \A c \in Conns : client'[c] = "idle" => client[c] = "idle"
  PROVE  StreamInv'
<1>1. pc'[p] = next /\ \A q \in Procs \ {p} : pc'[q] = pc[q]
  BY DEF TypeInv, TypeOK
<1>2. rd[p].buf = <<>>
  BY DEF StreamInv, BuffersEmpty
<1>3. Moved(p)
  <2>1. Between(conn[p])
    BY DEF Between
  <2> QED BY <1>1, <1>2, <2>1 DEF Moved, BetweenPCs, ReadingPCs
<1>4. \A l \in Listeners : \A i \in DOMAIN uds'[l] :
        uds'[l][i].conn \in Conns => Between(uds'[l][i].conn)
  BY QueuedBetween
<1> QED BY <1>1, <1>3, <1>4, StreamLocal

LEMMA StreamAcceptor ==
  ASSUME TypeInv, OwnInv, StreamInv, AcceptorStep
  PROVE  StreamInv'
<1>p. Acceptor \in Procs
  BY DEF Procs
<1>t. ssl \in [Procs -> Session] /\ client \in [Conns -> {"idle", "connected", "hello", "secure", "gone"}]
  BY DEF TypeInv, TypeOK
<1>1. CASE Accept
  <2> PICK c \in backlog : conn' = [conn EXCEPT ![Acceptor] = c] /\ backlog' = backlog \ {c}
    BY <1>1 DEF Accept
  <2>1. /\ UNCHANGED <<client, reqs, todo, sent, consumed, resp, uds, ssl, rd>>
        /\ pc[Acceptor] = "accept" /\ pc' = [pc EXCEPT ![Acceptor] = "handshake"]
    BY <1>1 DEF Accept, clientVars, streamVars
  <2>2. conn'[Acceptor] = c /\ pc'[Acceptor] = "handshake" /\ conn[Acceptor] = NoConn
    BY <1>p, <2>1 DEF TypeInv, TypeOK, PcOK
  <2>3. ssl[Acceptor] = NoSession /\ rd[Acceptor] = NoRead
    BY <1>p, <2>2 DEF TypeInv, IdsOK
  <2>4. Moved(Acceptor)
    <3>1. ssl'[Acceptor].pending = <<>> /\ rd'[Acceptor].buf = <<>>
      BY <2>1, <2>3 DEF NoSession, NoRead
    <3>2. Between(c)
      BY DEF Between
    <3> QED BY <2>2, <3>1, <3>2 DEF Moved, BetweenPCs, ReadingPCs
  <2>5. \A q \in Procs \ {Acceptor} :
          conn'[q] = conn[q] /\ pc'[q] = pc[q] /\ ssl'[q] = ssl[q] /\ rd'[q] = rd[q]
    BY <2>1 DEF TypeInv, TypeOK
  <2>6. \A l \in Listeners : \A i \in DOMAIN uds'[l] :
          uds'[l][i].conn \in Conns => Between(uds'[l][i].conn)
    BY <2>1, QueuedBetween
  <2>7. backlog' \subseteq backlog
    OBVIOUS
  <2> QED BY <1>p, <2>1, <2>4, <2>5, <2>6, <2>7, StreamLocal
<1>2. CASE Handshake
  <2>1. /\ UNCHANGED <<reqs, todo, sent, consumed, resp, backlog, uds, conn, rd, ssl>>
        /\ pc[Acceptor] \in BetweenPCs /\ pc' = [pc EXCEPT ![Acceptor] = "peek"]
    BY <1>2 DEF Handshake, streamVars, BetweenPCs
  <2>2. \A c \in Conns : client'[c] = "idle" => client[c] = "idle"
    BY <1>2, <1>t DEF Handshake
  <2>3. "peek" \in BetweenPCs /\ ssl'[Acceptor].pending \in {<<>>, ssl[Acceptor].pending}
    BY <2>1 DEF BetweenPCs
  <2> QED BY <1>p, <2>1, <2>2, <2>3, StreamNextCall
<1>3. CASE HandshakeFails \/ PeekAndExportFails
  BY <1>p, <1>3, StreamCloseConn DEF HandshakeFails, PeekAndExportFails
<1>4. ASSUME NEW f \in GatewayNames, PeekAndExport(f)
      PROVE  StreamInv'
  <2>1. /\ UNCHANGED <<client, reqs, todo, sent, consumed, resp, backlog, uds, conn, rd>>
        /\ pc[Acceptor] \in BetweenPCs /\ pc' = [pc EXCEPT ![Acceptor] = "dispatch"]
        /\ ssl' = [ssl EXCEPT ![Acceptor] = NoSession]
    BY <1>4 DEF PeekAndExport, clientVars, streamVars, BetweenPCs
  <2>2. "dispatch" \in BetweenPCs /\ ssl'[Acceptor].pending \in {<<>>, ssl[Acceptor].pending}
    BY <1>p, <1>t, <2>1 DEF BetweenPCs, NoSession
  <2>3. \A q \in Procs \ {Acceptor} : ssl'[q] = ssl[q]
    BY <1>t, <2>1
  <2> QED BY <1>p, <2>1, <2>2, <2>3, StreamNextCall
<1>5. CASE DispatchToFunction(Acceptor)
  <2>1. HandOff(Acceptor, target[Acceptor]) /\ pc[Acceptor] \in BetweenPCs
    BY <1>5 DEF DispatchToFunction, BetweenPCs
  <2> QED BY <1>p, <2>1, StreamHandOff
<1> QED BY <1>1, <1>2, <1>3, <1>4, <1>5 DEF AcceptorStep

LEMMA StreamRelayer ==
  ASSUME TypeInv, StreamInv, RelayerStep
  PROVE  StreamInv'
<1>p. Relayer \in Listeners /\ Relayer \in Procs
  BY DEF Procs, Listeners
<1>1. CASE RecvFd(Relayer, "dispatch")
  BY <1>1, <1>p, StreamRecvFd
<1>2. CASE RecvFdFails(Relayer)
  BY <1>2, <1>p, StreamRecvFdFails
<1>3. CASE DispatchToFunction(Relayer)
  <2>1. HandOff(Relayer, target[Relayer]) /\ pc[Relayer] \in BetweenPCs
    BY <1>3 DEF DispatchToFunction, BetweenPCs
  <2> QED BY <1>p, <2>1, StreamHandOff
<1> QED BY <1>1, <1>2, <1>3 DEF RelayerStep

LEMMA StreamDie ==
  ASSUME TypeInv, StreamInv, NEW P, Die(P), backlog' \subseteq backlog
  PROVE  StreamInv'
<1>1. UNCHANGED <<client, reqs, todo, sent, consumed, resp>>
  BY DEF Die, clientVars, streamVars
<1>2. ASSUME NEW p \in Procs PROVE Moved(p)
  <2>1. CASE p \in P
    <3>1. conn'[p] = NoConn /\ pc'[p] = "down"
      BY <2>1 DEF Die
    <3> QED BY <3>1 DEF Moved, BetweenPCs, ReadingPCs
  <2>2. CASE p \notin P
    <3>1. conn'[p] = conn[p] /\ pc'[p] = pc[p] /\ ssl'[p] = ssl[p] /\ rd'[p] = rd[p]
      BY <2>2 DEF Die
    <3> QED BY <3>1 DEF Moved
  <2> QED BY <2>1, <2>2
<1>3. ASSUME NEW l \in Listeners, NEW i \in DOMAIN uds'[l], uds'[l][i].conn \in Conns
      PROVE  Between(uds'[l][i].conn)
  <2>1. l \notin P /\ uds'[l] = uds[l]
    BY <1>3 DEF Die
  <2> QED BY <1>3, <2>1, QueuedBetween
<1>4. \A c \in Conns : c \in backlog' => Between(c)
  BY DEF Between
<1> QED BY <1>1, <1>2, <1>3, <1>4, StreamStill

LEMMA StreamStart ==
  ASSUME TypeInv, StreamInv, NEW p \in Procs, Start(p)
  PROVE  StreamInv'
<1>1. /\ UNCHANGED <<client, reqs, todo, sent, consumed, resp, backlog, uds, conn, ssl, rd>>
      /\ pc[p] = "down" /\ pc' = [pc EXCEPT ![p] = "accept"]
  BY DEF Start, clientVars, streamVars
<1>2. conn'[p] = NoConn /\ pc'[p] = "accept" /\ \A q \in Procs \ {p} : pc'[q] = pc[q]
  BY <1>1 DEF TypeInv, TypeOK, PcOK
<1>3. Moved(p)
  BY <1>2 DEF Moved, BetweenPCs, ReadingPCs
<1>4. \A l \in Listeners : \A i \in DOMAIN uds'[l] :
        uds'[l][i].conn \in Conns => Between(uds'[l][i].conn)
  BY <1>1, QueuedBetween
<1> QED BY <1>1, <1>2, <1>3, <1>4, StreamLocal

(* Steps of a client that put nothing on the stream. *)
LEMMA StreamClient ==
  ASSUME TypeInv, StreamInv, NEW c \in Conns,
         Connect(c) \/ Hello(c) \/ RestArrives(c) \/ ClientClose(c)
  PROVE  StreamInv'
<1>1. /\ UNCHANGED <<reqs, todo, sent, consumed, resp, uds, pc, conn, ssl, rd>>
      /\ backlog' = backlog \/ (backlog' = backlog \cup {c} /\ client[c] = "idle")
      /\ \/ client' = client
         \/ \E s \in {"connected", "hello", "gone"} : client' = [client EXCEPT ![c] = s]
  BY DEF Connect, Hello, RestArrives, ClientClose, streamVars, localVars
<1>2. \A d \in Conns : client'[d] = "idle" => client[d] = "idle"
  BY <1>1 DEF TypeInv, TypeOK
<1>3. \A d \in Conns : d \in backlog' => Between(d)
  BY <1>1 DEF Between
<1>4. \A l \in Listeners : \A i \in DOMAIN uds'[l] :
        uds'[l][i].conn \in Conns => Between(uds'[l][i].conn)
  BY <1>1, QueuedBetween
<1>5. \A p \in Procs : Moved(p)
  BY <1>1 DEF Moved
<1> QED BY <1>1, <1>2, <1>3, <1>4, <1>5, StreamStill

-----------------------------------------------------------------------------
(* The worker that reads *)

(* What the worker's step must establish for the connection it works on. *)
Advanced(c, w, start, off) ==
  /\ consumed'[c] <= Len(sent[c])
  /\ Unmixed(c) =>
       /\ Len(resp'[c]) <= Len(reqs[c])
       /\ \A i \in 1..Len(resp'[c]) : resp'[c][i].id = i /\ resp'[c][i].by = reqs[c][i].fn
       /\ conn'[w] = c =>
            /\ ssl'[w].pending = <<>>
            /\ pc'[w] \in BetweenPCs => off[consumed'[c] + 1] = start[Len(resp'[c]) + 1]
            /\ Reading(reqs[c], start, off[consumed'[c] + 1], Len(resp'[c]) + 1, w,
                       pc'[w], rd'[w])

LEMMA StreamWorker ==
  ASSUME TypeInv, OwnInv, StreamInv, NEW w \in Procs, NEW c \in Conns, conn[w] = c,
         UNCHANGED <<client, reqs, todo, sent, backlog, uds>>,
         conn'[w] \in {c, NoConn},
         \A p \in Procs \ {w} :
           conn'[p] = conn[p] /\ pc'[p] = pc[p] /\ ssl'[p] = ssl[p] /\ rd'[p] = rd[p],
         \A d \in Conns \ {c} : consumed'[d] = consumed[d] /\ resp'[d] = resp[d],
         pc'[w] \in BetweenPCs => rd'[w].buf = <<>>,
         NEW start, NEW off, Laid(reqs[c], sent[c], todo[c], start, off),
         Advanced(c, w, start, off)
  PROVE  StreamInv'
<1>n. NoConn \notin Conns
  BY ConstantsOK
<1>1. BuffersEmpty'
  BY DEF StreamInv, BuffersEmpty
<1>e. /\ c \notin backlog /\ client[c] # "idle" /\ \A p \in Procs \ {w} : conn[p] # c
      /\ \A l \in Listeners : \A i \in DOMAIN uds[l] : uds[l][i].conn # c
  BY Exclusive
<1>2. ASSUME NEW d \in Conns \ {c}
      PROVE  ConnPlaced(d)'
  <2>1. /\ ConnPlaced(d) /\ reqs'[d] = reqs[d] /\ todo'[d] = todo[d] /\ sent'[d] = sent[d]
        /\ consumed'[d] = consumed[d] /\ resp'[d] = resp[d]
    BY DEF StreamInv
  <2>2. ASSUME NEW p \in Procs, conn'[p] = d
        PROVE  conn[p] = d /\ pc'[p] = pc[p] /\ ssl'[p] = ssl[p] /\ rd'[p] = rd[p]
    <3>1. p # w
      BY <1>n, <2>2
    <3> QED BY <2>2, <3>1
  <2>3. Between(d)' => Between(d)
    BY <2>2 DEF Between
  <2> QED BY <2>1, <2>2, <2>3, StreamFrame
<1>3. ConnPlaced(c)'
  <2> PICK pos : pos = off[consumed'[c] + 1]
    OBVIOUS
  <2>1. Laid(reqs[c], sent[c], todo[c], start, off)' /\ consumed'[c] <= Len(sent'[c])
    BY DEF Advanced
  <2>2. Unmixed(c)' = Unmixed(c)
    BY DEF Unmixed
  <2>3. ASSUME Unmixed(c)
        PROVE  InPlace(c, start, pos)'
    <3>1. \A p \in Procs : conn'[p] = c => p = w
      BY <1>e
    <3>2. Between(c)' => pos = start[Len(resp'[c]) + 1]
      <4>1. Between(c)' => conn'[w] = c /\ pc'[w] \in BetweenPCs
        BY <1>e, <3>1 DEF Between
      <4> QED BY <2>3, <4>1 DEF Advanced
    <3>3. ASSUME NEW p \in Procs, conn'[p] = c
          PROVE  /\ ssl'[p].pending = <<>>
                 /\ Reading(reqs'[c], start, pos, Len(resp'[c]) + 1, p, pc'[p], rd'[p])
      <4>1. p = w /\ conn'[w] = c /\ reqs'[c] = reqs[c]
        BY <3>1, <3>3
      <4> QED BY <2>3, <4>1 DEF Advanced
    <3>4. /\ Len(resp'[c]) <= Len(reqs'[c])
          /\ \A i \in 1..Len(resp'[c]) : resp'[c][i].id = i /\ resp'[c][i].by = reqs'[c][i].fn
      BY <2>3 DEF Advanced
    <3> QED BY <3>2, <3>3, <3>4 DEF InPlace
  <2> QED BY <2>1, <2>2, <2>3 DEF ConnPlaced, Placed
<1> QED BY <1>1, <1>2, <1>3 DEF StreamInv

(* The connection's place, and what its parts are. *)
LEMMA WorkerPlace ==
  ASSUME TypeInv, StreamInv, NEW w \in Functions, NEW c, conn[w] = c,
         pc[w] \in BetweenPCs \cup ReadingPCs
  PROVE  /\ w \in Procs /\ c \in Conns /\ \E start, off : Placed(c, start, off)
         /\ reqs[c] \in Seq(Request) /\ sent[c] \in Seq(Seq(Token)) /\ resp[c] \in Seq(Response)
         /\ consumed[c] \in Nat /\ Len(sent[c]) \in Nat /\ Len(reqs[c]) \in Nat /\ Len(resp[c]) \in Nat
         /\ rd[w] \in ReadState /\ rd[w].buf \in Seq(Token) /\ rd[w].want \in Nat
<1>1. w \in Procs
  BY DEF Procs, Listeners
<1>2. c \in Conns
  <2>1. pc[w] \notin {"accept", "down"}
    BY DEF BetweenPCs, ReadingPCs
  <2> QED BY <1>1, <2>1 DEF TypeInv, TypeOK, PcOK
<1>3. \E start, off : Placed(c, start, off)
  BY <1>2 DEF StreamInv, ConnPlaced
<1>4. rd[w] \in ReadState
  BY <1>1 DEF TypeInv, TypeOK
<1> QED BY <1>1, <1>2, <1>3, <1>4, StreamTypes DEF ReadState

(* A whole record waits. *)
LEMMA RecordWaits ==
  ASSUME TypeInv, NEW c \in Conns, consumed[c] < Arrived(c)
  PROVE  consumed[c] + 1 \in 1..Len(sent[c]) /\ consumed[c] + 1 <= Len(sent[c])
BY DEF TypeInv, TypeOK, Arrived

(* Between requests the first record in the kernel begins the next one. *)
LEMMA NextRecord ==
  ASSUME TypeInv, NEW c \in Conns, NEW start, NEW off, Placed(c, start, off),
         Unmixed(c), Between(c), consumed[c] < Len(sent[c]), NEW r, r = Len(resp[c]) + 1
  PROVE  /\ r \in 1..Len(reqs[c]) /\ Peeked(c)[1].id = r
         /\ Peeked(c)[1] = Text(reqs[c], r)[1]
         /\ off[consumed[c] + 1] = start[r]
<1>p. PICK k, R, S, T : k = consumed[c] + 1 /\ R = reqs[c] /\ S = sent[c] /\ T = todo[c]
  OBVIOUS
<1>1. off[k] = start[r] /\ Len(resp[c]) <= Len(R)
  BY <1>p DEF Placed, InPlace
<1>2. k \in 1..Len(S) /\ r \in 1..(Len(R) + 1)
  <2>1. /\ Len(resp[c]) \in Nat /\ Len(R) \in Nat /\ consumed[c] \in Nat /\ Len(S) \in Nat
        /\ consumed[c] < Len(S) /\ k = consumed[c] + 1
    BY <1>p, StreamTypes
  <2>2. k \in 1..Len(S)
    BY ONLY <2>1
  <2>3. r \in 1..(Len(R) + 1)
    BY <1>1, <2>1
  <2> QED BY <2>2, <2>3
<1>3. R \in Seq(Request) /\ S \in Seq(Seq(Token)) /\ Laid(R, S, T, start, off)
  BY <1>p, StreamTypes DEF Placed
<1>4. Peeked(c) = S[k]
  BY <1>p DEF Peeked
<1>5. r \in 1..Len(R) /\ S[k][1].id = r /\ S[k][1] = Text(R, r)[1]
  <2>1. /\ R \in Seq(Request) /\ S \in Seq(Seq(Token)) /\ Laid(R, S, T, start, off)
        /\ k \in 1..Len(S) /\ r \in 1..(Len(R) + 1) /\ off[k] = start[r]
    BY <1>1, <1>2, <1>3
  <2> QED BY ONLY <2>1, FirstRecord
<1> QED BY <1>1, <1>4, <1>5, <1>p

(* A record that names w as its owner begins a request of w. *)
LEMMA OwnerNamed ==
  ASSUME NEW c \in Conns, NEW w \in Functions, ParseRequestOwner(c) = w
  PROVE  reqs[c][Peeked(c)[1].id].fn = w
<1>1. w \in Names /\ NoName \notin Names
  BY ConstantsOK
<1> QED BY <1>1 DEF ParseRequestOwner, PeekedPath

LEMMA StreamPeekOwn ==
  ASSUME TypeInv, OwnInv, StreamInv, NEW w \in Functions, PeekOwn(w)
  PROVE  StreamInv'
<1>1. /\ UNCHANGED <<client, reqs, todo, sent, backlog, uds, consumed, resp, conn, ssl, rd>>
      /\ pc[w] = "peek" /\ pc' = [pc EXCEPT ![w] = "headers"]
      /\ consumed[conn[w]] < Arrived(conn[w]) /\ ParseRequestOwner(conn[w]) = w
  BY DEF PeekOwn, PeekDecrypts, clientVars, streamVars
<1> PICK c : c = conn[w]
  OBVIOUS
<1>2. pc[w] \in BetweenPCs
  BY <1>1 DEF BetweenPCs
<1>3. w \in Procs /\ c \in Conns /\ reqs[c] \in Seq(Request) /\ sent[c] \in Seq(Seq(Token))
  BY <1>2, WorkerPlace
<1>4. PICK start, off : Placed(c, start, off)
  BY <1>2, WorkerPlace
<1>5. Laid(reqs[c], sent[c], todo[c], start, off)
  BY <1>4 DEF Placed
<1> DEFINE k == consumed[c] + 1
           r == Len(resp[c]) + 1
<1>6. Advanced(c, w, start, off)
  <2>1. consumed'[c] <= Len(sent[c])
    BY <1>1, <1>4 DEF Placed
  <2>2. ASSUME Unmixed(c)
        PROVE  /\ Len(resp[c]) <= Len(reqs[c])
               /\ \A i \in 1..Len(resp[c]) : resp[c][i].id = i /\ resp[c][i].by = reqs[c][i].fn
               /\ ssl[w].pending = <<>>
               /\ Reading(reqs[c], start, off[k], r, w, "headers", rd[w])
    <3>1. InPlace(c, start, off[k])
      BY <1>4, <2>2 DEF Placed
    <3>2. Between(c)
      BY <1>2, <1>3 DEF Between
    <3>3. Len(resp[c]) <= Len(reqs[c]) /\ ssl[w].pending = <<>>
      BY <1>3, <3>1, <3>2 DEF InPlace
    <3>4. k \in 1..Len(sent[c]) /\ consumed[c] < Len(sent[c])
      BY <1>1, <1>3, RecordWaits, StreamTypes
    <3>5. r \in 1..Len(reqs[c]) /\ Peeked(c)[1].id = r /\ off[k] = start[r]
      BY <1>3, <1>4, <2>2, <3>2, <3>4, NextRecord
    <3>6. reqs[c][r].fn = w
      BY <1>1, <1>3, <3>5, OwnerNamed
    <3>7. rd[w].buf = <<>>
      BY <1>2, <1>3 DEF StreamInv, BuffersEmpty
    <3>8. HeadLen(reqs[c][r]) >= 2 /\ HeadLen(reqs[c][r]) \in Nat
      <4>1. reqs[c][r] \in Request
        BY <1>3, <3>5, StreamTypes
      <4> QED BY <4>1, HeadLenType
    <3>9. start[r] + 0 = start[r] /\ r <= Len(reqs[c])
      <4>1. start \in [Nat -> Nat]
        BY <1>5 DEF Laid
      <4>2. r \in Nat /\ r <= Len(reqs[c])
        BY <1>3, <3>5
      <4>3. start[r] \in Nat
        BY <4>1, <4>2
      <4> QED BY <4>2, <4>3
    <3>10. Len(rd[w].buf) = 0 /\ \A j \in 1..Len(rd[w].buf) : FALSE
      BY <3>7
    <3> HIDE DEF k, r
    <3>11. Reading(reqs[c], start, off[k], r, w, "headers", rd[w])
      BY <3>5, <3>6, <3>8, <3>9, <3>10 DEF Reading, ReadingPCs
    <3>12. \A i \in 1..Len(resp[c]) : resp[c][i].id = i /\ resp[c][i].by = reqs[c][i].fn
      BY <3>1 DEF InPlace
    <3> QED BY <3>3, <3>11, <3>12
  <2>3. pc'[w] = "headers" /\ "headers" \notin BetweenPCs
    BY <1>1, <1>3 DEF TypeInv, TypeOK, BetweenPCs
  <2> QED BY <1>1, <2>1, <2>2, <2>3 DEF Advanced
<1>7. pc'[w] \notin BetweenPCs /\ \A p \in Procs \ {w} : pc'[p] = pc[p]
  BY <1>1, <1>3 DEF TypeInv, TypeOK, BetweenPCs
<1> QED BY <1>1, <1>3, <1>5, <1>6, <1>7, StreamWorker

(* find_subseq on a buffer that holds the beginning of one request. *)
LEMMA HeaderFound ==
  ASSUME NEW x \in Request, NEW i \in Nat, NEW buf \in Seq(Token),
         Len(buf) <= Len(Plaintext(x, i)),
         \A j \in 1..Len(buf) : buf[j] = Plaintext(x, i)[j]
  PROVE  /\ Len(buf) < HeadLen(x) => HeaderEnd(buf) = 0
         /\ Len(buf) >= HeadLen(x) => HeaderEnd(buf) = HeadLen(x) /\ buf[HeadLen(x)].id = i
<1> DEFINE m == HeadLen(x)
           L == Len(buf)
<1>1. /\ Len(Plaintext(x, i)) \in Nat /\ m \in Nat /\ m >= 2
      /\ \A j \in 1..Len(Plaintext(x, i)) : Plaintext(x, i)[j].id = i /\ (Plaintext(x, i)[j].kind = "end" <=> j = m)
  BY PlaintextShape DEF Marked
<1>2. L \in Nat /\ DOMAIN buf = 1..L
  OBVIOUS
<1>3. ASSUME NEW j \in 1..L
      PROVE  buf[j].id = i /\ (buf[j].kind = "end" <=> j = m)
  <2>1. j \in 1..Len(Plaintext(x, i)) /\ buf[j] = Plaintext(x, i)[j]
    BY <1>1, <1>2
  <2> QED BY <1>1, <2>1
<1> HIDE DEF m, L
<1>4. CASE L < m
  <2>1. \A j \in 1..L : j # m
    BY <1>1, <1>2, <1>4
  <2>2. \A j \in DOMAIN buf : ~EndsHeaders(buf, j)
    BY <1>2, <1>3, <2>1 DEF EndsHeaders
  <2>3. HeaderEnd(buf) = 0
    BY <2>2 DEF HeaderEnd
  <2>4. ~(L >= m)
    BY <1>1, <1>2, <1>4
  <2> QED BY <2>3, <2>4 DEF m, L
<1>5. CASE L >= m
  <2>1. m \in 1..L /\ \A j \in 1..(m - 1) : j \in 1..L /\ j # m
    BY <1>1, <1>2, <1>5
  <2>2. EndsHeaders(buf, m)
    BY <1>3, <2>1 DEF EndsHeaders
  <2>3. \A j \in DOMAIN buf : EndsHeaders(buf, j) => j = m
    BY <1>2, <1>3 DEF EndsHeaders
  <2>4. HeaderEnd(buf) = m
    BY <1>2, <2>1, <2>2, <2>3 DEF HeaderEnd
  <2>5. buf[m].id = i
    BY <1>3, <2>1
  <2>6. ~(L < m)
    BY <1>1, <1>2, <1>5
  <2> QED BY <2>4, <2>5, <2>6 DEF m, L
<1> QED BY <1>1, <1>2, <1>4, <1>5

(* read_one_request after a read that leaves the buffer at token pos of      *)
(* request r.                                                                *)
LEMMA HeadersAdvance ==
  ASSUME TypeInv, NEW w \in Functions, NEW c \in Conns, conn[w] = c, w \in Procs,
         NEW start \in [Nat -> Nat], NEW pos \in Nat, NEW r \in 1..Len(reqs[c]),
         reqs[c][r].fn = w, start[r + 1] = start[r] + Len(Text(reqs[c], r)),
         NEW buf \in Seq(Token), Len(buf) > 0, pos = start[r] + Len(buf), pos <= start[r + 1],
         \A j \in 1..Len(buf) : buf[j] = Text(reqs[c], r)[j],
         AfterHeaders(w, buf)
  PROVE  /\ Reading(reqs[c], start, pos, r, w, pc'[w], rd'[w])
         /\ pc'[w] \in ReadingPCs
<1> DEFINE x == reqs[c][r]
           m == HeadLen(x)
           L == Len(buf)
           n == x.body
           b == start[r]
           e == start[r + 1]
           want == BodyLacks(c, r, L - m)
<1>0. x \in Request /\ r \in Nat /\ Len(reqs[c]) \in Nat /\ r <= Len(reqs[c])
  <2>1. Len(reqs[c]) \in Nat /\ x \in Request
    BY StreamTypes
  <2>2. r \in Nat /\ r <= Len(reqs[c])
    BY ONLY <2>1, r \in 1..Len(reqs[c])
  <2> QED BY <2>1, <2>2
<1>1. Len(Text(reqs[c], r)) = m + n /\ m \in Nat /\ m >= 2 /\ n \in Nat
  BY <1>0, PlaintextShape DEF Text
<1>2. /\ L \in Nat /\ b \in Nat /\ e \in Nat /\ pos \in Nat /\ L <= m + n
      /\ e = b + (m + n) /\ pos = b + L /\ L > 0
  <2>1. L \in Nat
    OBVIOUS
  <2>2. r + 1 \in Nat
    BY <1>0
  <2>3. b \in Nat /\ e \in Nat
    BY <1>0, <2>2
  <2>4. e = b + (m + n) /\ pos = b + L /\ pos <= e /\ L > 0
    BY <1>1
  <2> HIDE DEF b, e, m, n, L
  <2> QED BY ONLY <1>1, <2>1, <2>3, <2>4
<1>3. /\ L < m => HeaderEnd(buf) = 0
      /\ L >= m => HeaderEnd(buf) = m /\ buf[m].id = r
  <2>1. Len(buf) <= Len(Plaintext(x, r)) /\ \A j \in 1..Len(buf) : buf[j] = Plaintext(x, r)[j]
    BY <1>1, <1>2 DEF Text
  <2> QED BY <1>0, <2>1, HeaderFound
<1>4. CASE L < m
  <2>1. HeaderEnd(buf) = 0
    BY <1>3, <1>4
  <2>2. pc' = [pc EXCEPT ![w] = "headers"] /\ rd' = [rd EXCEPT ![w] = [buf |-> buf, want |-> 0, id |-> 0]]
    BY <2>1 DEF AfterHeaders
  <2>3. pc'[w] = "headers" /\ rd'[w].buf = buf
    BY <2>2 DEF TypeInv, TypeOK
  <2>4. pos = start[r] + Len(buf) /\ Len(buf) < HeadLen(reqs[c][r])
    BY <1>4
  <2> QED BY <1>0, <2>3, <2>4 DEF Reading, ReadingPCs
<1>5. CASE L >= m
  <2>1. HeaderEnd(buf) = m /\ buf[m].id = r /\ m # 0
    BY <1>1, <1>3, <1>5
  <2>2. /\ pc' = [pc EXCEPT ![w] = IF want > 0 THEN "body" ELSE "respond"]
        /\ rd' = [rd EXCEPT ![w] = [buf |-> <<>>, want |-> want, id |-> r]]
    BY <2>1 DEF AfterHeaders
  <2>3. /\ pc'[w] = IF want > 0 THEN "body" ELSE "respond"
        /\ rd'[w].want = want /\ rd'[w].id = r
    BY <2>2 DEF TypeInv, TypeOK
  <2>4. want \in Nat /\ want = (m + n) - L
    <3>1. want = IF L - m < n THEN n - (L - m) ELSE 0
      BY DEF BodyLacks
    <3> HIDE DEF want, n, m, L, b, e
    <3> QED BY ONLY <1>1, <1>2, <1>5, <3>1
  <2>5. pos + want = e /\ b < pos /\ (want = 0 => pos = e)
    <3> HIDE DEF want, n, m, L, b, e
    <3> QED BY ONLY <1>1, <1>2, <2>4
  <2>6. /\ pos + want = start[r + 1] /\ start[r] < pos
        /\ want = 0 => pos = start[r + 1]
    <3> HIDE DEF want
    <3> QED BY <2>5
  <2> HIDE DEF want
  <2>7. CASE want > 0
    <3>1. pc'[w] = "body"
      BY <2>3, <2>7
    <3> QED BY <1>0, <2>3, <2>6, <2>7, <3>1 DEF Reading, ReadingPCs
  <2>8. CASE want = 0
    <3>1. pc'[w] = "respond"
      BY <2>3, <2>8
    <3> QED BY <1>0, <2>3, <2>6, <2>8, <3>1 DEF Reading, ReadingPCs
  <2> QED BY <2>4, <2>7, <2>8
<1> QED BY <1>1, <1>2, <1>4, <1>5

(* In the middle of request r: the next record is a further piece of it. *)
LEMMA PieceRead ==
  ASSUME TypeInv, NEW c \in Conns, NEW start, NEW off, Placed(c, start, off), Unmixed(c),
         consumed[c] < Arrived(c), NEW r \in 1..Len(reqs[c]), NEW k, k = consumed[c] + 1,
         start[r] <= off[k], off[k] < start[r + 1]
  PROVE  /\ k \in 1..Len(sent[c]) /\ Peeked(c) = sent[c][k] /\ Peeked(c) \in Seq(Token)
         /\ PieceOf(reqs[c], Peeked(c), start, off[k], off[k + 1], r)
<1> DEFINE R == reqs[c]
           S == sent[c]
           T == todo[c]
<1>1. k \in 1..Len(S) /\ Peeked(c) = S[k] /\ Peeked(c) \in Seq(Token)
  BY RecordWaits, PeekedType DEF Peeked
<1>2. R \in Seq(Request) /\ S \in Seq(Seq(Token)) /\ Laid(R, S, T, start, off)
  BY StreamTypes DEF Placed
<1>3. \A j \in 1..Len(S[k]) : S[k][j].id = S[k][1].id
  <2>1. S[k] \in Seq(Token) /\ k \in DOMAIN S
    BY <1>1, <1>2
  <2> QED BY <2>1 DEF Unmixed
<1>4. r \in 1..Len(R) /\ start[r] <= off[k] /\ off[k] < start[r + 1]
  OBVIOUS
<1> HIDE DEF R, S, T
<1>5. PieceOf(R, S[k], start, off[k], off[k + 1], r)
  <2>1. k \in 1..Len(S)
    BY <1>1
  <2> QED BY ONLY <1>2, <1>3, <1>4, <2>1, RecordHere
<1> QED BY <1>1, <1>5 DEF R, S

LEMMA StreamReadHeaders ==
  ASSUME TypeInv, OwnInv, StreamInv, NEW w \in Functions, ReadHeaders(w)
  PROVE  StreamInv'
<1> PICK c : c = conn[w]
  OBVIOUS
<1> PICK buf : buf = rd[w].buf \o Peeked(c)
  OBVIOUS
<1>1. /\ UNCHANGED <<client, reqs, todo, sent, backlog, uds, resp, conn>>
      /\ pc[w] = "headers" /\ ssl[w].pending = <<>> /\ consumed[c] < Arrived(c)
      /\ consumed' = [consumed EXCEPT ![c] = @ + 1]
      /\ ssl' = [ssl EXCEPT ![w].read = @ + 1]
      /\ AfterHeaders(w, buf)
  BY DEF ReadHeaders, RecordReadable, clientVars
<1>2. pc[w] \in ReadingPCs
  BY <1>1 DEF ReadingPCs
<1>3. /\ w \in Procs /\ c \in Conns /\ rd[w].buf \in Seq(Token) /\ consumed[c] \in Nat
      /\ Len(reqs[c]) \in Nat /\ Len(resp[c]) \in Nat
  BY <1>2, WorkerPlace
<1>4. PICK start, off : Placed(c, start, off)
  BY <1>2, WorkerPlace
<1>5. Laid(reqs[c], sent[c], todo[c], start, off)
  BY <1>4 DEF Placed
<1>6. /\ \A p \in Procs \ {w} : pc'[p] = pc[p] /\ ssl'[p] = ssl[p] /\ rd'[p] = rd[p]
      /\ ssl'[w].pending = ssl[w].pending
      /\ pc'[w] \in ReadingPCs
      /\ consumed'[c] = consumed[c] + 1 /\ \A d \in Conns \ {c} : consumed'[d] = consumed[d]
  <2>1. \A p \in Procs \ {w} : pc'[p] = pc[p] /\ rd'[p] = rd[p]
    BY <1>1 DEF AfterHeaders, TypeInv, TypeOK
  <2>2. pc'[w] \in ReadingPCs
    BY <1>1, <1>3 DEF AfterHeaders, ReadingPCs, TypeInv, TypeOK
  <2>3. ssl'[w].pending = ssl[w].pending /\ \A p \in Procs \ {w} : ssl'[p] = ssl[p]
    BY <1>1, <1>3 DEF TypeInv, TypeOK, Session
  <2>4. consumed'[c] = consumed[c] + 1 /\ \A d \in Conns \ {c} : consumed'[d] = consumed[d]
    BY <1>1, <1>3 DEF TypeInv, TypeOK
  <2> QED BY <2>1, <2>2, <2>3, <2>4
<1> DEFINE r == Len(resp[c]) + 1
           k == consumed[c] + 1
<1>7. ASSUME Unmixed(c)
      PROVE  Reading(reqs[c], start, off[k + 1], r, w, pc'[w], rd'[w])
  <2>1. InPlace(c, start, off[k])
    BY <1>4, <1>7 DEF Placed
  <2>2. Reading(reqs[c], start, off[k], r, w, "headers", rd[w])
    BY <1>1, <1>3, <2>1 DEF InPlace
  <2> DEFINE b0 == rd[w].buf
             x == reqs[c][r]
             e == start[r + 1]
             b == start[r]
             a == off[k]
             rec == Peeked(c)
  <2>3. /\ r <= Len(reqs[c]) /\ x.fn = w /\ a = b + Len(b0) /\ Len(b0) < HeadLen(x)
        /\ \A j \in 1..Len(b0) : b0[j] = Text(reqs[c], r)[j]
    BY <2>2 DEF Reading, ReadingPCs
  <2>4. r \in 1..Len(reqs[c]) /\ r \in Nat /\ k \in Nat
    BY <1>3, <2>3
  <2>5. Len(Text(reqs[c], r)) >= HeadLen(x) /\ Len(Text(reqs[c], r)) \in Nat /\ HeadLen(x) \in Nat
    <3>1. x \in Request
      BY <1>3, <2>4, StreamTypes
    <3>2. /\ Len(Text(reqs[c], r)) = HeadLen(x) + x.body /\ HeadLen(x) \in Nat /\ x.body \in Nat
      BY <2>4, <3>1, PlaintextShape DEF Text
    <3> HIDE DEF x, r
    <3> QED BY <3>2
  <2>6. start \in [Nat -> Nat] /\ off \in [Nat -> Nat] /\ e = b + Len(Text(reqs[c], r))
    BY <1>5, <2>4 DEF Laid
  <2>7. a \in Nat /\ b \in Nat /\ e \in Nat /\ k + 1 \in Nat /\ off[k + 1] \in Nat
    <3>1. r + 1 \in Nat /\ k + 1 \in Nat
      BY <2>4
    <3> HIDE DEF r, k
    <3> QED BY <2>4, <2>6, <3>1
  <2>8. Len(b0) \in Nat
    BY <1>3
  <2>9. b <= a /\ a < e
    <3> DEFINE n == Len(Text(reqs[c], r))
               m == HeadLen(x)
               l == Len(b0)
    <3>1. /\ a = b + l /\ l < m /\ n >= m /\ n \in Nat /\ m \in Nat /\ l \in Nat
          /\ e = b + n /\ a \in Nat /\ b \in Nat /\ e \in Nat
      BY <2>3, <2>5, <2>6, <2>7, <2>8
    <3> HIDE DEF a, b, e, n, m, l
    <3> QED BY ONLY <3>1
  <2>10. /\ rec \in Seq(Token) /\ Len(rec) \in Nat /\ Len(rec) > 0
         /\ off[k + 1] = a + Len(rec) /\ off[k + 1] <= e
         /\ \A j \in 1..Len(rec) : rec[j] = Text(reqs[c], r)[(a + j) - b]
    <3>1. rec \in Seq(Token) /\ PieceOf(reqs[c], rec, start, off[k], off[k + 1], r)
      <4> HIDE DEF r
      <4> QED BY <1>1, <1>3, <1>4, <1>7, <2>4, <2>9, PieceRead
    <3>2. Len(rec) \in Nat
      BY <3>1
    <3> QED BY <3>1, <3>2 DEF PieceOf
  <2>11. /\ buf \in Seq(Token) /\ Len(buf) = Len(b0) + Len(rec)
         /\ \A j \in 1..Len(buf) :
              \/ j \in 1..Len(b0) /\ buf[j] = b0[j]
              \/ j - Len(b0) \in 1..Len(rec) /\ buf[j] = rec[j - Len(b0)]
    <3>1. b0 \in Seq(Token) /\ rec \in Seq(Token) /\ buf = b0 \o rec
      BY <1>3, <2>10
    <3> HIDE DEF b0, rec
    <3> QED BY ONLY <3>1, Concat
  <2> HIDE DEF rec, b0, b, a, e, x
  <2>12. ASSUME NEW j \in 1..Len(buf)
         PROVE  buf[j] = Text(reqs[c], r)[j]
    <3>1. CASE j \in 1..Len(b0) /\ buf[j] = b0[j]
      BY <2>3, <3>1
    <3>2. CASE j - Len(b0) \in 1..Len(rec) /\ buf[j] = rec[j - Len(b0)]
      <4>1. rec[j - Len(b0)] = Text(reqs[c], r)[(a + (j - Len(b0))) - b]
        BY <2>10, <3>2
      <4>2. j \in Nat
        BY <2>8, <2>10, <2>11
      <4>3. (a + (j - Len(b0))) - b = j
        <5> HIDE DEF r, k
        <5> QED BY <2>3, <2>7, <2>8, <4>2
      <4> QED BY <3>2, <4>1, <4>3
    <3> QED BY <2>11, <3>1, <3>2
  <2>13. Len(buf) > 0 /\ off[k + 1] = b + Len(buf)
    <3> HIDE DEF r, k
    <3> QED BY <2>3, <2>7, <2>8, <2>10, <2>11
  <2> HIDE DEF r, k
  <2>14. /\ start[r + 1] = start[r] + Len(Text(reqs[c], r)) /\ off[k + 1] = start[r] + Len(buf)
         /\ off[k + 1] <= start[r + 1] /\ reqs[c][r].fn = w /\ conn[w] = c
    BY <2>3, <2>6, <2>10, <2>13 DEF b, e, x
  <2> QED BY <1>1, <1>3, <2>4, <2>6, <2>7, <2>11, <2>12, <2>13, <2>14, HeadersAdvance
<1>8. Advanced(c, w, start, off)
  <2>1. consumed'[c] <= Len(sent[c])
    BY <1>1, <1>3, <1>6, RecordWaits
  <2>2. "headers" \in ReadingPCs /\ pc'[w] \notin BetweenPCs
    BY <1>6 DEF ReadingPCs, BetweenPCs
  <2>3. ASSUME Unmixed(c)
        PROVE  /\ Len(resp[c]) <= Len(reqs[c])
               /\ \A i \in 1..Len(resp[c]) : resp[c][i].id = i /\ resp[c][i].by = reqs[c][i].fn
    BY <1>4, <2>3 DEF Placed, InPlace
  <2> QED BY <1>1, <1>6, <1>7, <2>1, <2>2, <2>3 DEF Advanced
<1>9. pc'[w] \notin BetweenPCs
  BY <1>6 DEF ReadingPCs, BetweenPCs
<1> QED BY <1>1, <1>3, <1>5, <1>6, <1>8, <1>9, StreamWorker

(* Only a client that mixes requests leaves bytes in the session. *)
LEMMA StreamReadPending ==
  ASSUME TypeInv, OwnInv, StreamInv, NEW w \in Functions, ReadHeadersPending(w)
  PROVE  StreamInv'
<1> PICK c : c = conn[w]
  OBVIOUS
<1> PICK buf : buf = rd[w].buf \o ssl[w].pending
  OBVIOUS
<1>1. /\ UNCHANGED <<client, reqs, todo, sent, backlog, uds, consumed, resp, conn>>
      /\ pc[w] = "headers" /\ ssl[w].pending # <<>>
      /\ ssl' = [ssl EXCEPT ![w].pending = <<>>]
      /\ AfterHeaders(w, buf)
  BY DEF ReadHeadersPending, clientVars, streamVars
<1>2. pc[w] \in ReadingPCs
  BY <1>1 DEF ReadingPCs
<1>3. w \in Procs /\ c \in Conns
  BY <1>2, WorkerPlace
<1>4. PICK start, off : Placed(c, start, off)
  BY <1>2, WorkerPlace
<1>5. Laid(reqs[c], sent[c], todo[c], start, off)
  BY <1>4 DEF Placed
<1>6. /\ \A p \in Procs \ {w} : pc'[p] = pc[p] /\ ssl'[p] = ssl[p] /\ rd'[p] = rd[p]
      /\ pc'[w] \in ReadingPCs
  <2>1. \A p \in Procs \ {w} : pc'[p] = pc[p] /\ ssl'[p] = ssl[p] /\ rd'[p] = rd[p]
    BY <1>1 DEF AfterHeaders, TypeInv, TypeOK
  <2>2. pc'[w] \in ReadingPCs
    BY <1>1, <1>3 DEF AfterHeaders, ReadingPCs, TypeInv, TypeOK
  <2> QED BY <2>1, <2>2
<1>7. ~Unmixed(c)
  BY <1>1, <1>3, <1>4 DEF Placed, InPlace
<1>8. Advanced(c, w, start, off)
  BY <1>1, <1>4, <1>7 DEF Advanced, Placed
<1>9. pc'[w] \notin BetweenPCs
  BY <1>6 DEF ReadingPCs, BetweenPCs
<1> QED BY <1>1, <1>3, <1>5, <1>6, <1>8, <1>9, StreamWorker

LEMMA StreamReadBody ==
  ASSUME TypeInv, OwnInv, StreamInv, NEW w \in Functions, ReadBody(w)
  PROVE  StreamInv'
<1> PICK c : c = conn[w]
  OBVIOUS
<1> PICK rec : rec = Peeked(c)
  OBVIOUS
<1> PICK want : want = rd[w].want
  OBVIOUS
<1> PICK n : n = IF Len(rec) < want THEN Len(rec) ELSE want
  OBVIOUS
<1>1. /\ UNCHANGED <<client, reqs, todo, sent, backlog, uds, resp, conn>>
      /\ pc[w] = "body" /\ consumed[c] < Arrived(c)
      /\ consumed' = [consumed EXCEPT ![c] = @ + 1]
      /\ ssl' = [ssl EXCEPT ![w].read = @ + 1, ![w].pending = SubSeq(rec, n + 1, Len(rec))]
      /\ rd' = [rd EXCEPT ![w].want = @ - n]
      /\ pc' = [pc EXCEPT ![w] = IF n = want THEN "respond" ELSE "body"]
  BY DEF ReadBody, RecordReadable, clientVars
<1>2. pc[w] \in ReadingPCs
  BY <1>1 DEF ReadingPCs
<1>3. /\ w \in Procs /\ c \in Conns /\ consumed[c] \in Nat /\ want \in Nat
      /\ Len(reqs[c]) \in Nat /\ Len(resp[c]) \in Nat /\ Len(sent[c]) \in Nat
  BY <1>2, WorkerPlace
<1>4. PICK start, off : Placed(c, start, off)
  BY <1>2, WorkerPlace
<1>5. Laid(reqs[c], sent[c], todo[c], start, off)
  BY <1>4 DEF Placed
<1>6. /\ \A p \in Procs \ {w} : pc'[p] = pc[p] /\ ssl'[p] = ssl[p] /\ rd'[p] = rd[p]
      /\ ssl'[w].pending = SubSeq(rec, n + 1, Len(rec))
      /\ rd'[w].want = want - n /\ rd'[w].id = rd[w].id
      /\ pc'[w] = IF n = want THEN "respond" ELSE "body"
      /\ consumed'[c] = consumed[c] + 1 /\ \A d \in Conns \ {c} : consumed'[d] = consumed[d]
  <2>1. \A p \in Procs \ {w} : pc'[p] = pc[p] /\ ssl'[p] = ssl[p] /\ rd'[p] = rd[p]
    BY <1>1 DEF TypeInv, TypeOK
  <2>2. pc'[w] = IF n = want THEN "respond" ELSE "body"
    BY <1>1, <1>3 DEF TypeInv, TypeOK
  <2>3. ssl'[w].pending = SubSeq(rec, n + 1, Len(rec))
    BY <1>1, <1>3 DEF TypeInv, TypeOK, Session
  <2>4. rd'[w].want = want - n /\ rd'[w].id = rd[w].id
    BY <1>1, <1>3 DEF TypeInv, TypeOK, ReadState
  <2>5. consumed'[c] = consumed[c] + 1 /\ \A d \in Conns \ {c} : consumed'[d] = consumed[d]
    BY <1>1, <1>3 DEF TypeInv, TypeOK
  <2> QED BY <2>1, <2>2, <2>3, <2>4, <2>5
<1> DEFINE r == Len(resp[c]) + 1
           k == consumed[c] + 1
<1>7. ASSUME Unmixed(c)
      PROVE  /\ ssl'[w].pending = <<>>
             /\ Reading(reqs[c], start, off[k + 1], r, w, pc'[w], rd'[w])
  <2>1. InPlace(c, start, off[k])
    BY <1>4, <1>7 DEF Placed
  <2>2. Reading(reqs[c], start, off[k], r, w, "body", rd[w])
    BY <1>1, <1>3, <2>1 DEF InPlace
  <2> DEFINE e == start[r + 1]
             b == start[r]
             a == off[k]
             z == off[k + 1]
             L == Len(rec)
  <2>3. /\ r <= Len(reqs[c]) /\ reqs[c][r].fn = w /\ rd[w].id = r
        /\ want > 0 /\ b < a /\ a + want = e
    BY <2>2 DEF Reading, ReadingPCs
  <2>4. r \in 1..Len(reqs[c]) /\ r \in Nat /\ k \in Nat
    <3>1. /\ Len(resp[c]) \in Nat /\ Len(reqs[c]) \in Nat /\ consumed[c] \in Nat
          /\ r <= Len(reqs[c])
      BY <1>3, <2>3
    <3> QED BY ONLY <3>1
  <2>5. a \in Nat /\ b \in Nat /\ e \in Nat /\ z \in Nat
    <3>1. start \in [Nat -> Nat] /\ off \in [Nat -> Nat]
      BY <1>5 DEF Laid
    <3>2. r + 1 \in Nat /\ k + 1 \in Nat
      BY <2>4
    <3> HIDE DEF r, k
    <3> QED BY <2>4, <3>1, <3>2
  <2>6. b <= a /\ a < e
    <3> HIDE DEF a, b, e, r, k
    <3> QED BY <1>3, <2>3, <2>5
  <2>7. rec \in Seq(Token) /\ PieceOf(reqs[c], rec, start, off[k], off[k + 1], r)
    <3> HIDE DEF r
    <3> QED BY <1>1, <1>3, <1>4, <1>7, <2>4, <2>6, PieceRead
  <2>8. L \in Nat /\ L > 0 /\ z = a + L /\ z <= e
    BY <2>7 DEF PieceOf
  <2>9. n = L /\ want - L \in Nat /\ b < z /\ z + (want - L) = e
        /\ (L # want => want - L > 0) /\ (L = want => z = e)
    <3>1. n = IF L < want THEN L ELSE want
      OBVIOUS
    <3> HIDE DEF a, b, e, z, L
    <3> QED BY ONLY <1>3, <2>3, <2>5, <2>8, <3>1
  <2>10. ssl'[w].pending = <<>>
    <3>1. SubSeq(rec, L + 1, L) = <<>>
      <4> HIDE DEF L
      <4> QED BY <2>7, <2>8
    <3> QED BY <1>6, <2>9, <3>1
  <2> HIDE DEF r, k, L
  <2>11. CASE L = want
    <3>1. pc'[w] = "respond" /\ rd'[w].id = r /\ off[k + 1] = start[r + 1]
      BY <1>6, <2>3, <2>9, <2>11
    <3> QED BY <2>3, <2>10, <3>1 DEF Reading
  <2>12. CASE L # want
    <3>1. pc'[w] = "body" /\ rd'[w].id = r /\ rd'[w].want = want - L
      BY <1>6, <2>3, <2>9, <2>12
    <3>2. want - L > 0 /\ start[r] < off[k + 1] /\ off[k + 1] + (want - L) = start[r + 1]
      BY <2>9, <2>12
    <3> QED BY <2>3, <2>10, <3>1, <3>2 DEF Reading
  <2> QED BY <2>11, <2>12
<1>8. Advanced(c, w, start, off)
  <2>1. consumed'[c] <= Len(sent[c])
    BY <1>1, <1>3, <1>6, RecordWaits
  <2>2. pc'[w] \notin BetweenPCs
    BY <1>6 DEF BetweenPCs
  <2>3. ASSUME Unmixed(c)
        PROVE  /\ Len(resp[c]) <= Len(reqs[c])
               /\ \A i \in 1..Len(resp[c]) : resp[c][i].id = i /\ resp[c][i].by = reqs[c][i].fn
    BY <1>4, <2>3 DEF Placed, InPlace
  <2> QED BY <1>1, <1>6, <1>7, <2>1, <2>2, <2>3 DEF Advanced
<1>9. pc'[w] \notin BetweenPCs
  BY <1>6 DEF BetweenPCs
<1> QED BY <1>1, <1>3, <1>5, <1>6, <1>8, <1>9, StreamWorker

(* The response answers the request that has been read to its end. *)
LEMMA StreamRespond ==
  ASSUME TypeInv, OwnInv, StreamInv, NEW w \in Functions, pc[w] = "respond", WriteResponse(w),
         UNCHANGED <<client, reqs, todo, sent, backlog, uds, consumed>>,
         \A p \in Procs \ {w} :
           conn'[p] = conn[p] /\ pc'[p] = pc[p] /\ ssl'[p] = ssl[p] /\ rd'[p] = rd[p],
         \/ conn'[w] = NoConn /\ pc'[w] = "accept"
         \/ /\ conn'[w] = conn[w] /\ pc'[w] = "peek" /\ rd'[w].buf = <<>>
            /\ ssl'[w].pending = ssl[w].pending
  PROVE  StreamInv'
<1> PICK c : c = conn[w]
  OBVIOUS
<1> PICK e : e = [id |-> rd[w].id, by |-> w, seq |-> ssl[w].write]
  OBVIOUS
<1>2. pc[w] \in ReadingPCs
  BY DEF ReadingPCs
<1>3. /\ w \in Procs /\ c \in Conns /\ consumed[c] \in Nat /\ resp[c] \in Seq(Response)
      /\ Len(reqs[c]) \in Nat /\ Len(resp[c]) \in Nat /\ Len(sent[c]) \in Nat
  BY <1>2, WorkerPlace
<1>4. PICK start, off : Placed(c, start, off)
  BY <1>2, WorkerPlace
<1>5. Laid(reqs[c], sent[c], todo[c], start, off)
  BY <1>4 DEF Placed
<1>1. resp' = [resp EXCEPT ![c] = Append(resp[c], e)]
  BY DEF WriteResponse
<1>6. resp'[c] = Append(resp[c], e) /\ \A d \in Conns \ {c} : resp'[d] = resp[d]
  BY <1>1, <1>3 DEF TypeInv, TypeOK
<1> DEFINE r == Len(resp[c]) + 1
           k == consumed[c] + 1
<1>7. /\ Len(resp'[c]) = r
      /\ \A i \in 1..r : \/ i \in 1..Len(resp[c]) /\ resp'[c][i] = resp[c][i]
                         \/ i = r /\ resp'[c][i] = e
  BY <1>3, <1>6, AppendAny
<1>8. Advanced(c, w, start, off)
  <2>1. consumed'[c] <= Len(sent[c])
    BY <1>4 DEF Placed
  <2>2. ASSUME Unmixed(c)
        PROVE  /\ r <= Len(reqs[c]) /\ ssl[w].pending = <<>>
               /\ \A i \in 1..r : resp'[c][i].id = i /\ resp'[c][i].by = reqs[c][i].fn
               /\ off[k] = start[r + 1]
    <3>1. InPlace(c, start, off[k])
      BY <1>4, <2>2 DEF Placed
    <3>2. Reading(reqs[c], start, off[k], r, w, "respond", rd[w]) /\ ssl[w].pending = <<>>
      BY <1>3, <3>1 DEF InPlace
    <3>3. r <= Len(reqs[c]) /\ reqs[c][r].fn = w /\ rd[w].id = r /\ off[k] = start[r + 1]
      BY <3>2 DEF Reading, ReadingPCs
    <3>4. e.id = r /\ e.by = reqs[c][r].fn
      BY <3>3
    <3>5. \A i \in 1..Len(resp[c]) : resp[c][i].id = i /\ resp[c][i].by = reqs[c][i].fn
      BY <3>1 DEF InPlace
    <3> HIDE DEF r, k
    <3>6. \A i \in 1..r : resp'[c][i].id = i /\ resp'[c][i].by = reqs[c][i].fn
      BY <1>7, <3>4, <3>5
    <3> QED BY <3>2, <3>3, <3>6
  <2>3. CASE conn'[w] = NoConn
    <3>1. conn'[w] # c
      BY <1>3, <2>3, ConstantsOK
    <3> QED BY <1>7, <2>1, <2>2, <3>1 DEF Advanced
  <2>4. CASE pc'[w] = "peek" /\ ssl'[w].pending = ssl[w].pending
    <3>1. \A pos : Reading(reqs[c], start, pos, r + 1, w, pc'[w], rd'[w])
      BY <2>4 DEF Reading, ReadingPCs
    <3> QED BY <1>7, <2>1, <2>2, <2>4, <3>1 DEF Advanced
  <2> QED BY <2>3, <2>4
<1>9. pc'[w] \in BetweenPCs => rd'[w].buf = <<>>
  BY DEF BetweenPCs
<1>10. conn'[w] \in {c, NoConn}
  OBVIOUS
<1> QED BY <1>3, <1>5, <1>6, <1>8, <1>9, <1>10, StreamWorker

LEMMA StreamReader ==
  ASSUME TypeInv, OwnInv, StreamInv, NEW w \in Functions, WorkerStep(w)
  PROVE  StreamInv'
<1>p. w \in Procs /\ w \in Listeners
  BY DEF Procs, Listeners
<1>t. ssl \in [Procs -> Session] /\ rd \in [Procs -> ReadState]
  BY DEF TypeInv, TypeOK
<1>1. CASE RecvFd(w, "restore")
  BY <1>1, <1>p, StreamRecvFd
<1>2. CASE RecvFdFails(w)
  BY <1>2, <1>p, StreamRecvFdFails
<1>3. CASE Restore(w)
  <2>1. /\ UNCHANGED <<client, reqs, todo, sent, consumed, resp, backlog, uds, conn, rd>>
        /\ pc[w] \in BetweenPCs /\ pc' = [pc EXCEPT ![w] = "peek"]
    BY <1>3 DEF Restore, clientVars, streamVars, BetweenPCs
  <2>2. "peek" \in BetweenPCs /\ ssl'[w].pending \in {<<>>, ssl[w].pending}
    BY <1>3, <1>p, <1>t DEF BetweenPCs, Restore
  <2>3. \A q \in Procs \ {w} : ssl'[q] = ssl[q]
    BY <1>3, <1>t DEF Restore
  <2> QED BY <1>p, <2>1, <2>2, <2>3, StreamNextCall
<1>4. CASE RestoreFails(w) \/ PeekOwnerFails(w) \/ ReadRequestFails(w) \/ RespondFails(w)
  BY <1>4, <1>p, StreamCloseConn DEF RestoreFails, PeekOwnerFails, ReadRequestFails, RespondFails
<1>5. CASE PeekOther(w)
  <2>1. /\ UNCHANGED <<client, reqs, todo, sent, consumed, resp, backlog, uds, conn, ssl, rd>>
        /\ pc[w] \in BetweenPCs /\ pc' = [pc EXCEPT ![w] = "relay"]
    BY <1>5 DEF PeekOther, clientVars, streamVars, BetweenPCs
  <2>2. "relay" \in BetweenPCs /\ ssl'[w].pending \in {<<>>, ssl[w].pending}
    BY <2>1 DEF BetweenPCs
  <2> QED BY <1>p, <2>1, <2>2, StreamNextCall
<1>6. CASE RelayToGateway(w)
  <2>1. HandOff(w, Relayer) /\ pc[w] \in BetweenPCs
    BY <1>6 DEF RelayToGateway, BetweenPCs
  <2> QED BY <1>p, <2>1, StreamHandOff
<1>7. CASE RespondAndKeep(w)
  <2>1. /\ UNCHANGED <<client, reqs, todo, sent, consumed, backlog, uds, conn>>
        /\ pc[w] = "respond" /\ WriteResponse(w)
        /\ pc' = [pc EXCEPT ![w] = "peek"] /\ rd' = [rd EXCEPT ![w] = NoRead]
        /\ ssl' = [ssl EXCEPT ![w].write = @ + 1]
    BY <1>7 DEF RespondAndKeep, clientVars
  <2>2. pc'[w] = "peek" /\ rd'[w].buf = <<>> /\ ssl'[w].pending = ssl[w].pending
    BY <2>1, <1>p DEF TypeInv, TypeOK, NoRead, Session
  <2>3. \A q \in Procs \ {w} : pc'[q] = pc[q] /\ ssl'[q] = ssl[q] /\ rd'[q] = rd[q]
    BY <2>1 DEF TypeInv, TypeOK
  <2> QED BY <2>1, <2>2, <2>3, StreamRespond
<1>8. CASE RespondAndClose(w)
  <2>1. /\ UNCHANGED <<client, reqs, todo, sent, consumed, backlog, uds>>
        /\ pc[w] = "respond" /\ WriteResponse(w) /\ Drop(w)
    BY <1>8 DEF RespondAndClose, clientVars
  <2>2. pc'[w] = "accept" /\ conn'[w] = NoConn
    BY <2>1, <1>p DEF TypeInv, TypeOK, Drop, Reset
  <2> QED BY <1>p, <2>1, <2>2, DropMoves, StreamRespond
<1> QED BY <1>1, <1>2, <1>3, <1>4, <1>5, <1>6, <1>7, <1>8, StreamPeekOwn, StreamReadHeaders,
           StreamReadPending, StreamReadBody DEF WorkerStep

-----------------------------------------------------------------------------
(* The client writes *)

(* A token keeps its place when a request is added. *)
LEMMA AtKept ==
  ASSUME NEW R \in Seq(Request), NEW Q \in Seq(Request), Len(R) <= Len(Q),
         \A i \in 1..Len(R) : Q[i] = R[i], NEW start, NEW start2,
         \A i \in 1..(Len(R) + 1) : start2[i] = start[i],
         NEW n, NEW t, At(R, start, n, t)
  PROVE  At(Q, start2, n, t)
<1> DEFINE i == t.id
<1>1. i \in 1..Len(R) /\ start[i] < n /\ n <= start[i + 1] /\ t = Text(R, i)[n - start[i]]
  BY DEF At
<1>2. Len(R) \in Nat /\ Len(Q) \in Nat
  OBVIOUS
<1> HIDE DEF i
<1>3. i \in 1..Len(Q) /\ i \in 1..(Len(R) + 1) /\ i + 1 \in 1..(Len(R) + 1)
  BY <1>1, <1>2
<1>4. Text(Q, i) = Text(R, i) /\ start2[i] = start[i] /\ start2[i + 1] = start[i + 1]
  BY <1>1, <1>3 DEF Text
<1>5. i \in 1..Len(Q) /\ start2[i] < n /\ n <= start2[i + 1] /\ t = Text(Q, i)[n - start2[i]]
  BY <1>1, <1>3, <1>4
<1> QED BY <1>5 DEF At, i

(* What the client has issued and sent goes on from what it had. *)
Extends(R, S, start, off, R2, S2, T2, start2, off2) ==
  /\ Laid(R2, S2, T2, start2, off2)
  /\ Len(R) <= Len(R2) /\ \A i \in 1..Len(R) : R2[i] = R[i]
  /\ \A i \in 1..(Len(R) + 1) : start2[i] = start[i]
  /\ Len(S) <= Len(S2) /\ \A i \in 1..Len(S) : S2[i] = S[i]
  /\ \A i \in 1..(Len(S) + 1) : off2[i] = off[i]

(* The client's writes leave everything already read in its place. *)
LEMMA StreamWrites ==
  ASSUME TypeInv, TypeInv', NEW c \in Conns, NEW start, NEW off, Placed(c, start, off),
         UNCHANGED <<client, backlog, uds, consumed, resp, pc, conn, ssl, rd>>,
         NEW start2, NEW off2,
         Extends(reqs[c], sent[c], start, off, reqs'[c], sent'[c], todo'[c], start2, off2)
  PROVE  ConnPlaced(c)'
<1> DEFINE N == Len(reqs[c])
           M == Len(sent[c])
           k == consumed[c] + 1
           n == Len(resp[c])
<1> PICK r : r = n + 1
  OBVIOUS
<1>0. /\ N \in Nat /\ M \in Nat /\ consumed[c] \in Nat /\ n \in Nat
      /\ Len(reqs'[c]) \in Nat /\ Len(sent'[c]) \in Nat
  <2>1. N \in Nat /\ M \in Nat /\ consumed[c] \in Nat /\ n \in Nat
    BY StreamTypes
  <2>2. reqs'[c] \in Seq(Request) /\ sent'[c] \in Seq(Seq(Token))
    BY DEF TypeInv, TypeOK
  <2> QED BY <2>1, <2>2
<1>e. /\ Laid(reqs'[c], sent'[c], todo'[c], start2, off2)
      /\ N <= Len(reqs'[c]) /\ \A i \in 1..N : reqs'[c][i] = reqs[c][i]
      /\ \A i \in 1..(N + 1) : start2[i] = start[i]
      /\ M <= Len(sent'[c]) /\ \A i \in 1..M : sent'[c][i] = sent[c][i]
      /\ \A i \in 1..(M + 1) : off2[i] = off[i]
  BY DEF Extends
<1>u. Unmixed(c)' => Unmixed(c)
  <2>1. DOMAIN sent[c] = 1..M /\ DOMAIN sent'[c] = 1..Len(sent'[c])
    BY DEF TypeInv, TypeOK
  <2>2. \A i \in DOMAIN sent[c] : i \in DOMAIN sent'[c] /\ sent'[c][i] = sent[c][i]
    BY <1>0, <1>e, <2>1
  <2> QED BY <2>2 DEF Unmixed
<1>1. consumed[c] <= M
  BY DEF Placed
<1>2. consumed'[c] <= Len(sent'[c]) /\ k \in 1..(M + 1)
  BY <1>0, <1>1, <1>e
<1>3. off2[k] = off[k]
  BY <1>2, <1>e
<1> PICK pos : pos = off[k]
  OBVIOUS
<1>4. ASSUME Unmixed(c)
      PROVE  InPlace(c, start2, pos)'
  <2>1. InPlace(c, start, pos)
    BY <1>4 DEF Placed
  <2>2. n <= N /\ (Between(c) => pos = start[r])
    BY <2>1 DEF InPlace
  <2>3. n <= Len(reqs'[c]) /\ start2[r] = start[r]
    <3>1. r \in 1..(N + 1) /\ n <= Len(reqs'[c])
      BY <1>0, <1>e, <2>2
    <3> QED BY <1>e, <3>1
  <2>4. Between(c)' = Between(c)
    BY DEF Between
  <2>5. ASSUME NEW p \in Procs, conn[p] = c
        PROVE  ssl[p].pending = <<>> /\ Reading(reqs'[c], start2, pos, r, p, pc[p], rd[p])
    <3>1. ssl[p].pending = <<>> /\ Reading(reqs[c], start, pos, r, p, pc[p], rd[p])
      BY <2>1, <2>5 DEF InPlace
    <3>2. CASE pc[p] \notin ReadingPCs
      BY <3>1, <3>2 DEF Reading, ReadingPCs
    <3>3. CASE pc[p] \in ReadingPCs
      <4>1. r <= N /\ reqs[c][r].fn = p
        BY <3>1, <3>3 DEF Reading
      <4>2. r \in 1..N /\ r + 1 \in 1..(N + 1) /\ r <= Len(reqs'[c])
        BY <1>0, <1>e, <4>1
      <4>3. reqs'[c][r] = reqs[c][r] /\ start2[r + 1] = start[r + 1]
        BY <1>e, <4>2
      <4>4. Text(reqs'[c], r) = Text(reqs[c], r)
        BY <4>3 DEF Text
      <4> QED BY <2>3, <3>1, <4>1, <4>2, <4>3, <4>4 DEF Reading
    <3> QED BY <3>2, <3>3
  <2>6. ASSUME NEW i \in 1..n
        PROVE  resp[c][i].id = i /\ resp[c][i].by = reqs'[c][i].fn
    <3>1. resp[c][i].id = i /\ resp[c][i].by = reqs[c][i].fn
      BY <2>1 DEF InPlace
    <3>2. i \in 1..N
      BY <1>0, <2>2
    <3> QED BY <1>e, <3>1, <3>2
  <2>7. /\ n <= Len(reqs'[c]) /\ (Between(c)' => pos = start2[Len(resp'[c]) + 1])
    BY <2>2, <2>3, <2>4
  <2> QED BY <2>5, <2>6, <2>7 DEF InPlace
<1>5. Placed(c, start2, off2)'
  BY <1>2, <1>3, <1>4, <1>e, <1>u DEF Placed
<1> QED BY <1>5 DEF ConnPlaced

(* A request is added at the end of the stream. *)
LEMMA LaidIssue ==
  ASSUME NEW R \in Seq(Request), NEW S \in Seq(Seq(Token)), NEW T \in Seq(Token),
         NEW q \in Request, NEW start, NEW off, Laid(R, S, T, start, off)
  PROVE  \E start2 : Extends(R, S, start, off, Append(R, q), S,
                             T \o Plaintext(q, Len(R) + 1), start2, off)
<1> PICK N : N = Len(R)
  OBVIOUS
<1> PICK P : P = Plaintext(q, N + 1)
  OBVIOUS
<1> PICK Q : Q = Append(R, q)
  OBVIOUS
<1>s. PICK start2 : start2 = [start EXCEPT ![N + 2] = start[N + 1] + Len(P)]
  OBVIOUS
<1> DEFINE M == Len(S)
           L == Len(P)
           U == T \o P
           z == start[N + 1]
<1>0. N \in Nat /\ M \in Nat /\ N + 1 \in Nat /\ N + 2 \in Nat /\ Len(T) \in Nat
  OBVIOUS
<1>1. Q \in Seq(Request) /\ Len(Q) = N + 1 /\ Q[N + 1] = q /\ \A i \in 1..N : Q[i] = R[i]
  OBVIOUS
<1>2. P \in Seq(Token) /\ L \in Nat /\ L > 0 /\ \A j \in 1..L : P[j].id = N + 1
  <2>1. /\ P \in Seq(Token) /\ L = HeadLen(q) + q.body /\ HeadLen(q) \in Nat /\ HeadLen(q) >= 2
        /\ q.body \in Nat /\ Marked(P, N + 1, HeadLen(q))
    BY <1>0, PlaintextShape
  <2>2. L \in Nat /\ L > 0
    <3> HIDE DEF L
    <3> QED BY ONLY <2>1
  <2> QED BY <2>1, <2>2 DEF Marked
<1>3. start \in [Nat -> Nat] /\ off \in [Nat -> Nat] /\ start[1] = 0 /\ off[1] = 0
  BY DEF Laid
<1>4. /\ start2 \in [Nat -> Nat] /\ start2[N + 2] = z + L /\ z \in Nat
      /\ \A i \in Nat \ {N + 2} : start2[i] = start[i]
  <2>1. z \in Nat /\ z + L \in Nat
    <3>1. z \in Nat
      BY ONLY <1>0, <1>3
    <3> QED BY ONLY <1>2, <3>1
  <2> QED BY ONLY <1>0, <1>3, <1>s, <2>1
<1>5. \A i \in 1..(N + 1) : i \in Nat /\ i # N + 2 /\ start2[i] = start[i]
  <2>1. \A i \in 1..(N + 1) : i \in Nat \ {N + 2}
    BY ONLY <1>0
  <2> QED BY ONLY <2>1, <1>4
<1>l. /\ \A i \in 1..N : start[i + 1] = start[i] + Len(Text(R, i))
      /\ \A i, j \in 1..(N + 1) : i < j => start[i] < start[j]
      /\ \A k \in 1..M : Len(S[k]) > 0 /\ off[k + 1] = off[k] + Len(S[k])
      /\ \A k \in 1..M : \A j \in 1..Len(S[k]) : At(R, start, off[k] + j, S[k][j])
      /\ \A j \in 1..Len(T) : At(R, start, off[M + 1] + j, T[j])
      /\ off[M + 1] + Len(T) = z
  BY DEF Laid
<1>6. Text(Q, N + 1) = P /\ \A i \in 1..N : Text(Q, i) = Text(R, i)
  BY <1>1 DEF Text
<1>7. ASSUME NEW i \in 1..(N + 1)
      PROVE  start2[i + 1] = start2[i] + Len(Text(Q, i))
  <2>1. CASE i \in 1..N
    <3>1. i \in 1..(N + 1) /\ i + 1 \in 1..(N + 1)
      BY ONLY <1>0, <2>1
    <3>2. start2[i] = start[i] /\ start2[i + 1] = start[i + 1]
      BY <1>5, <3>1
    <3> QED BY <1>l, <1>6, <2>1, <3>2
  <2>2. CASE i = N + 1
    <3>1. i + 1 = N + 2 /\ start2[i] = z
      BY <1>0, <1>5, <2>2
    <3> QED BY <1>4, <1>6, <2>2, <3>1
  <2>3. i \in 1..N \/ i = N + 1
    BY ONLY <1>0, i \in 1..(N + 1)
  <2> QED BY <2>1, <2>2, <2>3
<1>8. ASSUME NEW i \in 1..(N + 2), NEW j \in 1..(N + 2), i < j
      PROVE  start2[i] < start2[j]
  <2>0. i \in 1..(N + 1) /\ (j \in 1..(N + 1) \/ j = N + 2)
    BY ONLY <1>0, <1>8
  <2>1. CASE j \in 1..(N + 1)
    BY <1>l, <1>5, <1>8, <2>0, <2>1
  <2>2. CASE j = N + 2
    <3>1. start[i] <= z
      <4>1. i = N + 1 \/ i < N + 1
        BY ONLY <1>0, <2>0
      <4>2. N + 1 \in 1..(N + 1) /\ start[i] \in Nat
        <5>1. N + 1 \in 1..(N + 1) /\ i \in Nat
          BY ONLY <1>0, <2>0
        <5> QED BY ONLY <1>3, <5>1
      <4>3. i < N + 1 => start[i] < z
        BY <1>l, <2>0, <4>2
      <4>4. i = N + 1 => start[i] = z
        OBVIOUS
      <4>5. z \in Nat
        BY <1>4
      <4> DEFINE x == start[i]
      <4>6. x \in Nat /\ z \in Nat /\ (x = z \/ x < z)
        BY <4>1, <4>2, <4>3, <4>4, <4>5
      <4> HIDE DEF x, z
      <4>7. x <= z
        BY ONLY <4>6
      <4> QED BY <4>7 DEF x
    <3>2. start2[i] = start[i] /\ start2[j] = z + L /\ start[i] \in Nat
      BY <1>3, <1>4, <1>5, <2>0, <2>2
    <3>3. L \in Nat /\ L > 0 /\ z \in Nat
      BY <1>2, <1>4
    <3> HIDE DEF z, L
    <3>4. start[i] < z + L
      BY ONLY <3>1, <3>2, <3>3
    <3> QED BY <3>2, <3>4
  <2> QED BY <2>0, <2>1, <2>2
<1>9. \A n, t : At(R, start, n, t) => At(Q, start2, n, t)
  <2>1. Len(R) <= Len(Q) /\ \A i \in 1..(Len(R) + 1) : start2[i] = start[i]
    BY <1>0, <1>1, <1>5
  <2>2. \A i \in 1..Len(R) : Q[i] = R[i]
    BY <1>1
  <2>3. Q \in Seq(Request)
    BY <1>1
  <2> SUFFICES ASSUME NEW n, NEW t, At(R, start, n, t)
               PROVE  At(Q, start2, n, t)
    OBVIOUS
  <2>4. At(R, start, n, t) /\ R \in Seq(Request)
    OBVIOUS
  <2> QED BY ONLY <2>1, <2>2, <2>3, <2>4, AtKept
<1>10. /\ U \in Seq(Token) /\ Len(U) = Len(T) + L
       /\ \A j \in 1..Len(U) : \/ j \in 1..Len(T) /\ U[j] = T[j]
                               \/ j - Len(T) \in 1..L /\ U[j] = P[j - Len(T)]
  BY <1>2, Concat
<1> HIDE DEF U
<1>11. ASSUME NEW j \in 1..Len(U)
       PROVE  At(Q, start2, off[M + 1] + j, U[j])
  <2>1. CASE j \in 1..Len(T) /\ U[j] = T[j]
    BY <1>l, <1>9, <2>1
  <2>2. CASE j - Len(T) \in 1..L /\ U[j] = P[j - Len(T)]
    <3> DEFINE i == j - Len(T)
               n == off[M + 1] + j
               t == U[j]
    <3>1. off[M + 1] \in Nat /\ j \in Nat
      <4>1. M + 1 \in Nat
        BY <1>0
      <4>2. off[M + 1] \in Nat
        BY <1>3, <4>1
      <4> QED BY <1>0, <1>2, <1>10, <4>2
    <3>2. n = z + i /\ i \in 1..L
      <4> DEFINE o == off[M + 1]
                 l == Len(T)
      <4>1. o \in Nat /\ o + l = z /\ l \in Nat /\ j \in Nat /\ z \in Nat
        BY <1>0, <1>l, <1>4, <3>1
      <4> HIDE DEF o, z, l
      <4>2. o + j = z + (j - l)
        BY ONLY <4>1
      <4> QED BY <2>2, <4>2 DEF o, l
    <3>3. t.id = N + 1 /\ t = P[i]
      BY <1>2, <2>2
    <3> HIDE DEF n, i, t, z, L
    <3>4. n - z = i /\ z < n /\ n <= z + L
      <4>1. L \in Nat /\ z \in Nat /\ i \in 1..L /\ n = z + i
        BY <1>2, <1>4, <3>2
      <4> QED BY ONLY <4>1
    <3>5. start2[N + 1] = z /\ start2[(N + 1) + 1] = z + L
      <4>1. N + 1 \in 1..(N + 1) /\ (N + 1) + 1 = N + 2
        BY ONLY <1>0
      <4> QED BY <1>4, <1>5, <4>1 DEF z
    <3>6. N + 1 \in 1..Len(Q)
      BY <1>0, <1>1
    <3>7. At(Q, start2, n, t)
      BY <1>6, <3>3, <3>4, <3>5, <3>6 DEF At
    <3> QED BY <3>7 DEF n, t
  <2> QED BY <1>10, <2>1, <2>2
<1>12. off[M + 1] + Len(U) = start2[Len(Q) + 1]
  <2> DEFINE o == off[M + 1]
  <2>1. o \in Nat /\ o + Len(T) = z
    <3>1. M + 1 \in Nat
      BY <1>0
    <3> QED BY <1>3, <1>l, <3>1
  <2>2. Len(Q) + 1 = N + 2
    BY <1>0, <1>1
  <2>3. o + Len(U) = z + L
    <3> DEFINE l == Len(T)
               u == Len(U)
    <3>1. /\ l \in Nat /\ L \in Nat /\ z \in Nat /\ o \in Nat
          /\ u = l + L /\ o + l = z
      BY <1>0, <1>2, <1>4, <1>10, <2>1
    <3> HIDE DEF o, z, L, l, u
    <3>2. o + u = z + L
      BY ONLY <3>1
    <3> QED BY <3>2 DEF u
  <2> HIDE DEF o, z, L
  <2> QED BY <1>4, <2>2, <2>3 DEF o
<1>13. start2[1] = 0
  <2>1. 1 \in 1..(N + 1)
    BY <1>0
  <2> QED BY <1>3, <1>5, <2>1
<1>14. Laid(Q, S, U, start2, off)
  <2>1. \A i \in 1..Len(Q) : start2[i + 1] = start2[i] + Len(Text(Q, i))
    BY <1>1, <1>7
  <2>2. Len(Q) + 1 = N + 2
    BY <1>0, <1>1
  <2>3. \A i, j \in 1..(Len(Q) + 1) : i < j => start2[i] < start2[j]
    BY <1>8, <2>2
  <2>4. \A k \in 1..M : \A j \in 1..Len(S[k]) : At(Q, start2, off[k] + j, S[k][j])
    BY <1>l, <1>9
  <2> QED BY <1>l, <1>3, <1>4, <1>11, <1>12, <1>13, <2>1, <2>3, <2>4 DEF Laid
<1>15. N <= Len(Q)
  BY <1>0, <1>1
<1>16. \A i \in 1..(M + 1) : off[i] = off[i]
  OBVIOUS
<1>17. Extends(R, S, start, off, Q, S, U, start2, off)
  BY <1>0, <1>1, <1>5, <1>14, <1>15, <1>16 DEF Extends
<1> QED BY <1>17 DEF U

(* What a write takes of a sequence and what it leaves. *)
LEMMA SplitSeq ==
  ASSUME NEW T \in Seq(Token), NEW k \in 1..Len(T)
  PROVE  /\ SubSeq(T, 1, k) \in Seq(Token) /\ Len(SubSeq(T, 1, k)) = k
         /\ \A j \in 1..k : SubSeq(T, 1, k)[j] = T[j]
         /\ SubSeq(T, k + 1, Len(T)) \in Seq(Token) /\ Len(SubSeq(T, k + 1, Len(T))) = Len(T) - k
         /\ \A j \in 1..(Len(T) - k) : SubSeq(T, k + 1, Len(T))[j] = T[k + j]
OBVIOUS

(* The next k tokens go out in a record. *)
LEMMA LaidSend ==
  ASSUME NEW R \in Seq(Request), NEW S \in Seq(Seq(Token)), NEW T \in Seq(Token),
         NEW start, NEW off, Laid(R, S, T, start, off), NEW k \in 1..Len(T)
  PROVE  \E off2 : Extends(R, S, start, off, R, Append(S, SubSeq(T, 1, k)),
                           SubSeq(T, k + 1, Len(T)), start, off2)
<1> PICK M : M = Len(S)
  OBVIOUS
<1> PICK rec : rec = SubSeq(T, 1, k)
  OBVIOUS
<1> PICK S2 : S2 = Append(S, rec)
  OBVIOUS
<1> PICK T2 : T2 = SubSeq(T, k + 1, Len(T))
  OBVIOUS
<1>s. PICK off2 : off2 = [off EXCEPT ![M + 2] = off[M + 1] + k]
  OBVIOUS
<1> DEFINE o == off[M + 1]
           l == Len(T)
<1>0. M \in Nat /\ M + 1 \in Nat /\ M + 2 \in Nat /\ l \in Nat /\ k \in Nat /\ k > 0 /\ k <= l
  OBVIOUS
<1>1. rec \in Seq(Token) /\ Len(rec) = k /\ \A j \in 1..k : rec[j] = T[j]
  BY SplitSeq
<1>2. T2 \in Seq(Token) /\ Len(T2) = l - k /\ \A j \in 1..(l - k) : T2[j] = T[k + j]
  BY SplitSeq
<1>3. Len(S2) = M + 1 /\ S2[M + 1] = rec /\ \A i \in 1..M : S2[i] = S[i]
  BY <1>1
<1>4. start \in [Nat -> Nat] /\ off \in [Nat -> Nat] /\ start[1] = 0 /\ off[1] = 0
  BY DEF Laid
<1>5. /\ off2 \in [Nat -> Nat] /\ off2[M + 2] = o + k /\ o \in Nat
      /\ \A i \in Nat \ {M + 2} : off2[i] = off[i]
  <2>1. o \in Nat
    BY ONLY <1>0, <1>4
  <2>2. o + k \in Nat
    <3> HIDE DEF o
    <3> QED BY ONLY <1>0, <2>1
  <2> QED BY ONLY <1>0, <1>4, <1>s, <2>1, <2>2
<1>6. \A i \in 1..(M + 1) : i \in Nat /\ off2[i] = off[i]
  <2>1. \A i \in 1..(M + 1) : i \in Nat \ {M + 2}
    BY ONLY <1>0
  <2> QED BY ONLY <2>1, <1>5
<1>7. /\ \A i \in 1..Len(R) : start[i + 1] = start[i] + Len(Text(R, i))
      /\ \A i, j \in 1..(Len(R) + 1) : i < j => start[i] < start[j]
      /\ \A i \in 1..M : Len(S[i]) > 0 /\ off[i + 1] = off[i] + Len(S[i])
      /\ \A i \in 1..M : \A j \in 1..Len(S[i]) : At(R, start, off[i] + j, S[i][j])
      /\ \A j \in 1..l : At(R, start, o + j, T[j])
      /\ o + l = start[Len(R) + 1]
  BY DEF Laid
<1>8. ASSUME NEW i \in 1..(M + 1)
      PROVE  /\ Len(S2[i]) > 0 /\ off2[i + 1] = off2[i] + Len(S2[i])
             /\ \A j \in 1..Len(S2[i]) : At(R, start, off2[i] + j, S2[i][j])
  <2>1. CASE i \in 1..M
    <3>1. i \in 1..(M + 1) /\ i + 1 \in 1..(M + 1)
      BY ONLY <1>0, <2>1
    <3>2. off2[i] = off[i] /\ off2[i + 1] = off[i + 1] /\ S2[i] = S[i]
      BY <1>3, <1>6, <2>1, <3>1
    <3>3. /\ Len(S[i]) > 0 /\ off[i + 1] = off[i] + Len(S[i])
          /\ \A j \in 1..Len(S[i]) : At(R, start, off[i] + j, S[i][j])
      BY <1>7, <2>1
    <3> QED BY <3>2, <3>3
  <2>2. CASE i = M + 1
    <3>1. i + 1 = M + 2 /\ off2[i] = o /\ S2[i] = rec
      BY <1>0, <1>3, <1>6, <2>2
    <3>2. off2[i + 1] = off2[i] + Len(S2[i]) /\ Len(S2[i]) = k
      BY <1>1, <1>5, <3>1
    <3>3. ASSUME NEW j \in 1..k
          PROVE  At(R, start, o + j, rec[j])
      <4>1. j \in 1..l
        BY ONLY <1>0, j \in 1..k
      <4> QED BY <1>1, <1>7, <4>1
    <3> QED BY <1>0, <3>1, <3>2, <3>3
  <2>3. i \in 1..M \/ i = M + 1
    BY ONLY <1>0, i \in 1..(M + 1)
  <2> QED BY <2>1, <2>2, <2>3
<1>e. Len(S2) + 1 = M + 2
  BY <1>0, <1>3
<1>9. ASSUME NEW j \in 1..Len(T2)
      PROVE  At(R, start, off2[Len(S2) + 1] + j, T2[j])
  <2> DEFINE i == k + j
  <2>1. j \in 1..(l - k)
    BY <1>2
  <2>2. i \in 1..l /\ j \in Nat
    <3> HIDE DEF l
    <3> QED BY ONLY <1>0, <2>1
  <2>3. T2[j] = T[i]
    BY <1>2, <2>1
  <2>4. (o + k) + j = o + i
    <3>1. o \in Nat
      BY <1>5
    <3> HIDE DEF o
    <3> QED BY ONLY <1>0, <2>2, <3>1
  <2> HIDE DEF i, o, l
  <2>5. At(R, start, o + i, T[i])
    BY <1>7, <2>2
  <2> QED BY <1>e, <1>5, <2>3, <2>4, <2>5
<1>10. off2[Len(S2) + 1] + Len(T2) = start[Len(R) + 1]
  <2>1. o \in Nat /\ o + l = start[Len(R) + 1]
    BY <1>5, <1>7
  <2> HIDE DEF o, l
  <2>2. (o + k) + (l - k) = o + l
    BY ONLY <1>0, <2>1
  <2> QED BY <1>e, <1>2, <1>5, <2>1, <2>2
<1>11. off2[1] = 0
  <2>1. 1 \in 1..(M + 1)
    BY <1>0
  <2> QED BY <1>4, <1>6, <2>1
<1>12. Laid(R, S2, T2, start, off2)
  <2>1. \A i \in 1..Len(S2) : Len(S2[i]) > 0 /\ off2[i + 1] = off2[i] + Len(S2[i])
    BY <1>3, <1>8
  <2>2. \A i \in 1..Len(S2) : \A j \in 1..Len(S2[i]) : At(R, start, off2[i] + j, S2[i][j])
    BY <1>3, <1>8
  <2> QED BY <1>4, <1>5, <1>7, <1>9, <1>10, <1>11, <2>1, <2>2 DEF Laid
<1>13. M <= Len(S2)
  BY <1>0, <1>3
<1>14. Len(R) <= Len(R) /\ \A i \in 1..(Len(R) + 1) : start[i] = start[i]
  OBVIOUS
<1>15. Extends(R, S, start, off, R, S2, T2, start, off2)
  BY <1>3, <1>6, <1>12, <1>13, <1>14 DEF Extends
<1> QED BY <1>15

(* A write on c leaves the other connections as they were. *)
LEMMA StreamOthers ==
  ASSUME TypeInv, StreamInv, NEW c \in Conns,
         UNCHANGED <<client, backlog, uds, consumed, resp, pc, conn, ssl, rd>>,
         \A d \in Conns \ {c} : reqs'[d] = reqs[d] /\ todo'[d] = todo[d] /\ sent'[d] = sent[d],
         ConnPlaced(c)'
  PROVE  StreamInv'
<1>1. BuffersEmpty'
  BY DEF StreamInv, BuffersEmpty
<1>2. ASSUME NEW d \in Conns \ {c} PROVE ConnPlaced(d)'
  <2>1. Between(d)' => Between(d)
    BY DEF Between
  <2>2. /\ ConnPlaced(d) /\ reqs'[d] = reqs[d] /\ todo'[d] = todo[d] /\ sent'[d] = sent[d]
        /\ consumed'[d] = consumed[d] /\ resp'[d] = resp[d]
    BY DEF StreamInv
  <2> QED BY <2>1, <2>2, StreamFrame
<1> QED BY <1>1, <1>2 DEF StreamInv

(* The client issues a request, and sends part of what it has issued. *)
LEMMA StreamIssue ==
  ASSUME TypeInv, TypeInv', StreamInv, NEW c \in Conns, NEW q \in Requests, IssueRequest(c, q)
  PROVE  StreamInv'
<1>1. /\ UNCHANGED <<client, sent, backlog, uds, consumed, resp, pc, conn, ssl, rd>>
      /\ reqs' = [reqs EXCEPT ![c] = Append(@, q)]
      /\ todo' = [todo EXCEPT ![c] = @ \o Plaintext(q, Len(reqs[c]) + 1)]
  BY DEF IssueRequest, streamVars, localVars
<1>2. PICK start, off : Placed(c, start, off)
  BY DEF StreamInv, ConnPlaced
<1>3. /\ reqs'[c] = Append(reqs[c], q) /\ sent'[c] = sent[c]
      /\ todo'[c] = todo[c] \o Plaintext(q, Len(reqs[c]) + 1)
      /\ \A d \in Conns \ {c} : reqs'[d] = reqs[d] /\ todo'[d] = todo[d] /\ sent'[d] = sent[d]
  BY <1>1 DEF TypeInv, TypeOK
<1>4. /\ reqs[c] \in Seq(Request) /\ sent[c] \in Seq(Seq(Token)) /\ todo[c] \in Seq(Token)
      /\ q \in Request /\ Laid(reqs[c], sent[c], todo[c], start, off)
  BY <1>2, StreamTypes, ConstantsOK DEF Placed
<1>5. \E start2 : Extends(reqs[c], sent[c], start, off, Append(reqs[c], q), sent[c],
                          todo[c] \o Plaintext(q, Len(reqs[c]) + 1), start2, off)
  BY ONLY <1>4, LaidIssue
<1>6. PICK start2 : Extends(reqs[c], sent[c], start, off, reqs'[c], sent'[c], todo'[c], start2, off)
  BY <1>3, <1>5
<1>7. ConnPlaced(c)'
  BY <1>1, <1>2, <1>6, StreamWrites
<1> QED BY <1>1, <1>3, <1>7, StreamOthers

LEMMA StreamSend ==
  ASSUME TypeInv, TypeInv', StreamInv, NEW c \in Conns, NEW k \in 1..Len(todo[c]),
         NEW cut \in BOOLEAN, SendRecord(c, k, cut)
  PROVE  StreamInv'
<1>1. /\ UNCHANGED <<client, reqs, backlog, uds, consumed, resp, pc, conn, ssl, rd>>
      /\ sent' = [sent EXCEPT ![c] = Append(@, SubSeq(todo[c], 1, k))]
      /\ todo' = [todo EXCEPT ![c] = SubSeq(@, k + 1, Len(@))]
  BY DEF SendRecord, streamVars, localVars
<1>2. PICK start, off : Placed(c, start, off)
  BY DEF StreamInv, ConnPlaced
<1>3. /\ reqs'[c] = reqs[c] /\ sent'[c] = Append(sent[c], SubSeq(todo[c], 1, k))
      /\ todo'[c] = SubSeq(todo[c], k + 1, Len(todo[c]))
      /\ \A d \in Conns \ {c} : reqs'[d] = reqs[d] /\ todo'[d] = todo[d] /\ sent'[d] = sent[d]
  BY <1>1 DEF TypeInv, TypeOK
<1>4. /\ reqs[c] \in Seq(Request) /\ sent[c] \in Seq(Seq(Token)) /\ todo[c] \in Seq(Token)
      /\ Laid(reqs[c], sent[c], todo[c], start, off)
  BY <1>2, StreamTypes DEF Placed
<1>5. \E off2 : Extends(reqs[c], sent[c], start, off, reqs[c],
                        Append(sent[c], SubSeq(todo[c], 1, k)),
                        SubSeq(todo[c], k + 1, Len(todo[c])), start, off2)
  BY ONLY <1>4, LaidSend
<1>6. PICK off2 : Extends(reqs[c], sent[c], start, off, reqs'[c], sent'[c], todo'[c], start, off2)
  BY <1>3, <1>5
<1>7. ConnPlaced(c)'
  BY <1>1, <1>2, <1>6, StreamWrites
<1> QED BY <1>1, <1>3, <1>7, StreamOthers

LEMMA StreamNext == TypeInv /\ TypeInv' /\ OwnInv /\ StreamInv /\ [Next]_vars => StreamInv'
<1> SUFFICES ASSUME TypeInv, TypeInv', OwnInv, StreamInv, [Next]_vars PROVE StreamInv'
  OBVIOUS
<1>1. ASSUME NEW c \in Conns, ClientStep(c) PROVE StreamInv'
  BY <1>1, StreamClient, StreamIssue, StreamSend DEF ClientStep
<1>2. ASSUME NEW w \in Functions, WorkerDies(w) PROVE StreamInv'
  BY <1>2, StreamDie DEF WorkerDies
<1>3. ASSUME GatewayDies PROVE StreamInv'
  BY <1>3, StreamDie DEF GatewayDies
<1>4. ASSUME UNCHANGED vars PROVE StreamInv'
  <2>1. UNCHANGED <<client, reqs, todo, sent, consumed, resp, backlog, uds, pc, conn, ssl, rd>>
    BY <1>4 DEF vars, clientVars, streamVars, localVars
  <2>2. \A p \in Procs : Moved(p)
    BY <2>1 DEF Moved
  <2>3. /\ \A c \in Conns : c \in backlog' => Between(c)
        /\ \A l \in Listeners : \A i \in DOMAIN uds'[l] :
             uds'[l][i].conn \in Conns => Between(uds'[l][i].conn)
    BY <2>1 DEF Between
  <2> QED BY <2>1, <2>2, <2>3, StreamStill
<1> QED BY <1>1, <1>2, <1>3, <1>4, StreamAcceptor, StreamRelayer, StreamReader, StreamStart
        DEF Next, Finished

LEMMA StreamInit == Init => StreamInv
<1> SUFFICES ASSUME Init PROVE StreamInv
  OBVIOUS
<1>1. BuffersEmpty
  BY DEF Init, BuffersEmpty, NoRead
<1>2. ASSUME NEW c \in Conns PROVE ConnPlaced(c)
  <2> PICK z : z = [n \in Nat |-> 0]
    OBVIOUS
  <2>1. /\ reqs[c] = <<>> /\ sent[c] = <<>> /\ todo[c] = <<>> /\ resp[c] = <<>> /\ consumed[c] = 0
        /\ \A p \in Procs : conn[p] = NoConn
    BY DEF Init
  <2>2. z \in [Nat -> Nat] /\ z[1] = 0 /\ z[0 + 1] = 0
    OBVIOUS
  <2>3. Laid(reqs[c], sent[c], todo[c], z, z)
    BY <2>1, <2>2 DEF Laid
  <2>4. InPlace(c, z, z[0 + 1])
    <3>1. \A p \in Procs : conn[p] # c
      BY <2>1, ConstantsOK
    <3> QED BY <2>1, <2>2, <3>1 DEF InPlace
  <2> QED BY <2>1, <2>3, <2>4 DEF ConnPlaced, Placed
<1> QED BY <1>1, <1>2 DEF StreamInv

(***************************************************************************)
(* The stream of every connection is in place: the records consumed are    *)
(* the requests answered and what the worker named by the next request has *)
(* read of it.                                                             *)
(***************************************************************************)
THEOREM StreamInPlace == Spec => [](TypeInv /\ OwnInv /\ StreamInv)
<1>1. Init => TypeInv /\ OwnInv /\ StreamInv
  BY InitTypes, OwnInit, StreamInit
<1>2. (TypeInv /\ OwnInv /\ StreamInv) /\ [Next]_vars => (TypeInv /\ OwnInv /\ StreamInv)'
  BY NextTypes, OwnNext, StreamNext
<1> QED BY <1>1, <1>2, PTL DEF Spec

(***************************************************************************)
(* However often a connection is relayed, the i-th response on it answers  *)
(* the i-th request and is written by the worker that request names, for   *)
(* any number of functions, connections, requests and records.             *)
(***************************************************************************)
THEOREM ResponsesMatchRequests == Spec => []AnsweredByNamed
<1>1. TypeInv /\ StreamInv => AnsweredByNamed
  <2> SUFFICES ASSUME TypeInv, StreamInv, NEW c \in Conns, Unmixed(c), NEW i \in DOMAIN resp[c]
               PROVE  resp[c][i].id = i /\ resp[c][i].by = reqs[c][i].fn
    BY DEF AnsweredByNamed
  <2>1. PICK start, off : Placed(c, start, off)
    BY DEF StreamInv, ConnPlaced
  <2>2. i \in 1..Len(resp[c])
    BY StreamTypes
  <2> QED BY <2>1, <2>2 DEF Placed, InPlace
<1> QED BY <1>1, StreamInPlace, PTL

(***************************************************************************)
(* A process that peeks at a connection or passes it on strands nothing,   *)
(* and the first record in the kernel begins the next unanswered request.  *)
(***************************************************************************)
THEOREM PassedOnAtBoundary == Spec => []AtRequestBoundary
<1>1. TypeInv /\ OwnInv /\ StreamInv => AtRequestBoundary
  <2> SUFFICES ASSUME TypeInv, OwnInv, StreamInv, NEW p \in Procs, NEW c, c = conn[p],
                      pc[p] \in {"dispatch", "restore", "peek", "relay"}, Unmixed(c)
               PROVE  /\ ssl[p].pending = <<>>
                      /\ consumed[c] < Len(sent[c]) =>
                           LET i == Len(resp[c]) + 1
                           IN /\ i \in DOMAIN reqs[c]
                              /\ Peeked(c)[1] = Plaintext(reqs[c][i], i)[1]
    BY DEF AtRequestBoundary
  <2>1. c \in Conns
    BY DEF TypeInv, TypeOK, PcOK
  <2>2. PICK start, off : Placed(c, start, off)
    BY <2>1 DEF StreamInv, ConnPlaced
  <2>3. Between(c)
    BY DEF Between, BetweenPCs
  <2>4. ssl[p].pending = <<>>
    BY <2>2 DEF Placed, InPlace
  <2>5. ASSUME consumed[c] < Len(sent[c])
        PROVE  /\ Len(resp[c]) + 1 \in DOMAIN reqs[c]
               /\ Peeked(c)[1] = Plaintext(reqs[c][Len(resp[c]) + 1], Len(resp[c]) + 1)[1]
    <3> PICK r : r = Len(resp[c]) + 1
      OBVIOUS
    <3>1. r \in 1..Len(reqs[c]) /\ Peeked(c)[1] = Text(reqs[c], r)[1]
      BY <2>1, <2>2, <2>3, <2>5, NextRecord
    <3>2. r \in DOMAIN reqs[c]
      BY <2>1, <3>1, StreamTypes
    <3> QED BY <3>1, <3>2 DEF Text
  <2> QED BY <2>4, <2>5
<1> QED BY <1>1, StreamInPlace, PTL

(***************************************************************************)
(* wolfSSL_read runs only in the worker of the function the current        *)
(* request names; the gateway and relaying workers take nothing.           *)
(***************************************************************************)
THEOREM OnlyNamedWorkerReads == Spec => OnlyOwnerConsumes
<1>1. ASSUME TypeInv, OwnInv, StreamInv, [Next]_vars,
             NEW c \in Conns, consumed'[c] # consumed[c], Unmixed(c)
      PROVE  \E w \in Functions : conn[w] = c /\ reqs[c][Len(resp[c]) + 1].fn = w
  <2>1. \E w \in Functions : ReadHeaders(w) \/ ReadBody(w)
    BY <1>1, ZenonT(60) DEF Next, vars, clientVars, streamVars, ClientStep, Connect, Hello, RestArrives,
          ClientClose, IssueRequest, SendRecord, AcceptorStep, Accept, Handshake, HandshakeFails,
          PeekAndExport, PeekAndExportFails, DispatchToFunction, HandOff, RelayerStep, RecvFd,
          RecvFdFails, CloseConn, WorkerStep, Restore, RestoreFails, PeekOwn, PeekOther,
          PeekOwnerFails, RelayToGateway, ReadHeadersPending, ReadRequestFails, RespondAndKeep,
          RespondAndClose, RespondFails, WorkerDies, GatewayDies, Die, Start, Finished
  <2>2. PICK w \in Functions : ReadHeaders(w) \/ ReadBody(w)
    BY <2>1
  <2>3. pc[w] \in ReadingPCs /\ consumed' = [consumed EXCEPT ![conn[w]] = @ + 1]
    BY <2>2 DEF ReadHeaders, ReadBody, ReadingPCs
  <2>4. conn[w] = c
    BY <1>1, <2>3 DEF TypeInv, TypeOK
  <2>5. w \in Procs
    BY DEF Procs, Listeners
  <2>6. PICK start, off : Placed(c, start, off)
    BY <1>1 DEF StreamInv, ConnPlaced
  <2>7. Reading(reqs[c], start, off[consumed[c] + 1], Len(resp[c]) + 1, w, pc[w], rd[w])
    BY <1>1, <2>4, <2>5, <2>6 DEF Placed, InPlace
  <2>8. reqs[c][Len(resp[c]) + 1].fn = w
    BY ONLY <2>3, <2>7 DEF Reading
  <2>9. w \in Functions
    OBVIOUS
  <2> QED BY ONLY <2>4, <2>8, <2>9, Zenon
<1>2. TypeInv /\ OwnInv /\ StreamInv /\ [Next]_vars =>
        [\A c \in Conns : consumed'[c] # consumed[c] /\ Unmixed(c) =>
           \E w \in Functions : conn[w] = c /\ reqs[c][Len(resp[c]) + 1].fn = w]_vars
  BY <1>1
<1> QED BY <1>2, StreamInPlace, PTL DEF Spec, OnlyOwnerConsumes

-----------------------------------------------------------------------------
(* The whole system stops only in a circular wait *)

(* A client that has sent everything and waits for a response: what is      *)
(* still owed to the worker lies in the kernel.                             *)
LEMMA BytesOwed ==
  ASSUME TypeInv, NEW c \in Conns, NEW start, NEW off, Placed(c, start, off), todo[c] = <<>>,
         NEW r \in 1..Len(reqs[c]), off[consumed[c] + 1] < start[r + 1]
  PROVE  consumed[c] < Len(sent[c])
<1> PICK n, m, k : n = Len(reqs[c]) /\ m = Len(sent[c]) /\ k = consumed[c]
  OBVIOUS
<1>1. n \in Nat /\ m \in Nat /\ k \in Nat /\ r \in 1..n
  BY StreamTypes
<1>2. /\ start \in [Nat -> Nat] /\ off \in [Nat -> Nat] /\ k <= m
      /\ \A i, j \in 1..(n + 1) : i < j => start[i] < start[j]
      /\ off[m + 1] + Len(todo[c]) = start[n + 1] /\ off[k + 1] < start[r + 1]
  BY DEF Placed, Laid
<1>3. Len(todo[c]) = 0
  OBVIOUS
<1>4. off[m + 1] = start[n + 1]
  BY ONLY <1>1, <1>2, <1>3
<1>5. start[r + 1] <= start[n + 1]
  <2> PICK a, b : a = r + 1 /\ b = n + 1
    OBVIOUS
  <2>1. a \in 1..b /\ b \in 1..b /\ (a = b \/ a < b) /\ a \in Nat /\ b \in Nat
    BY <1>1
  <2>2. start[a] \in Nat /\ start[b] \in Nat /\ (a < b => start[a] < start[b])
    BY <1>2, <2>1
  <2>3. start[a] <= start[b]
    BY ONLY <2>1, <2>2
  <2> QED BY <2>3
<1>6. k # m
  BY ONLY <1>1, <1>2, <1>4, <1>5
<1>7. k < m
  BY ONLY <1>1, <1>2, <1>6
<1> QED BY <1>7

(* A connection that somebody holds is between requests or being read.      *)
LEMMA HeldPlaces ==
  ASSUME TypeInv, OwnInv, NEW c \in Conns, Open(c)
  PROVE  Between(c) \/ \E p \in Procs : conn[p] = c /\ pc[p] \in ReadingPCs
<1>1. ASSUME NEW p \in Procs, c \in fds[p]
      PROVE  conn[p] = c /\ pc[p] \in BetweenPCs \cup ReadingPCs
  <2>1. conn[p] = c
    BY <1>1 DEF OwnInv, NoLeak
  <2>2. conn[p] # NoConn
    BY <2>1, ConstantsOK
  <2> QED BY <2>1, <2>2 DEF TypeInv, TypeOK, PcOK, BetweenPCs, ReadingPCs
<1> QED BY <1>1 DEF Open, Between

(* Once every request is answered, all the client wanted to send is read.   *)
LEMMA NothingLeft ==
  ASSUME TypeInv, OwnInv, StreamInv, NEW c \in Conns, Open(c), Unmixed(c),
         Len(resp[c]) = Len(reqs[c])
  PROVE  todo[c] = <<>>
<1>1. PICK start, off : Placed(c, start, off)
  BY DEF StreamInv, ConnPlaced
<1> PICK n, m, k, t : n = Len(reqs[c]) /\ m = Len(sent[c]) /\ k = consumed[c] /\ t = Len(todo[c])
  OBVIOUS
<1>2. n \in Nat /\ m \in Nat /\ k \in Nat /\ t \in Nat
  BY StreamTypes
<1>3. Between(c)
  <2>1. ASSUME NEW p \in Procs, conn[p] = c, pc[p] \in ReadingPCs PROVE FALSE
    <3>1. Reading(reqs[c], start, off[consumed[c] + 1], Len(resp[c]) + 1, p, pc[p], rd[p])
      BY <1>1, <2>1 DEF Placed, InPlace
    <3>2. n + 1 <= n
      BY <2>1, <3>1 DEF Reading
    <3> QED BY <1>2, <3>2
  <2> QED BY <2>1, HeldPlaces
<1>4. /\ start \in [Nat -> Nat] /\ off \in [Nat -> Nat] /\ k <= m
      /\ off[m + 1] + t = start[n + 1] /\ off[k + 1] = start[n + 1]
  BY <1>1, <1>3 DEF Placed, Laid, InPlace
<1>5. ASSUME k < m PROVE FALSE
  <2>1. Len(resp[c]) + 1 \in 1..Len(reqs[c])
    BY <1>1, <1>3, <1>5, NextRecord
  <2> QED BY <1>2, <2>1
<1>6. t = 0
  BY ONLY <1>2, <1>4, <1>5
<1>7. todo[c] \in Seq(Token) /\ Len(todo[c]) = 0
  BY <1>6, StreamTypes
<1> QED BY ONLY <1>7

(* The handshake is over for c. *)
Shaken(c) == client[c] \in {"secure", "gone"}

(* The accept queue and wolfSSL_accept have connections whose handshake is  *)
(* not over, everybody else those whose handshake is.                       *)
ShakenInv ==
  /\ \A c \in backlog : client[c] # "secure"
  /\ \A p \in Procs : conn[p] \in Conns =>
       IF pc[p] = "handshake" THEN client[conn[p]] # "secure" ELSE Shaken(conn[p])
  /\ \A l \in Listeners : \A i \in DOMAIN uds[l] :
       uds[l][i].conn \in Conns => Shaken(uds[l][i].conn)

(* listen(MaxQueue). *)
QueueBound == \A l \in Listeners : Len(uds[l]) <= MaxQueue

(* One process moves: it keeps its call between handshake and the rest, or  *)
(* works on a connection that has had its handshake, or on none.            *)
LEMMA ShakenLocal ==
  ASSUME TypeInv, ShakenInv, client' = client, backlog' \subseteq backlog,
         NEW q \in Procs,
         \A p \in Procs \ {q} : conn'[p] = conn[p] /\ pc'[p] = pc[p],
         \/ conn'[q] = NoConn
         \/ conn'[q] = conn[q] /\ (pc'[q] = "handshake" <=> pc[q] = "handshake")
         \/ pc'[q] # "handshake" /\ (conn'[q] \in Conns => Shaken(conn'[q])),
         \A l \in Listeners : \A i \in DOMAIN uds'[l] :
           uds'[l][i].conn \in Conns => Shaken(uds'[l][i].conn)
  PROVE  ShakenInv'
<1>1. NoConn \notin Conns
  BY ConstantsOK
<1>3. ASSUME NEW p \in Procs, conn'[p] \in Conns
      PROVE  IF pc'[p] = "handshake" THEN client'[conn'[p]] # "secure"
             ELSE client'[conn'[p]] \in {"secure", "gone"}
  <2>1. CASE p # q
    BY <1>3, <2>1 DEF ShakenInv, Shaken
  <2>2. CASE p = q
    BY <1>1, <1>3, <2>2 DEF ShakenInv, Shaken
  <2> QED BY <2>1, <2>2
<1>4. \A c \in backlog' : client'[c] # "secure"
  BY DEF ShakenInv
<1>5. \A l \in Listeners : \A i \in DOMAIN uds'[l] :
        uds'[l][i].conn \in Conns => client'[uds'[l][i].conn] \in {"secure", "gone"}
  BY DEF Shaken
<1> QED BY <1>3, <1>4, <1>5 DEF ShakenInv, Shaken

LEMMA ShakenDrop ==
  ASSUME TypeInv, ShakenInv, NEW q \in Procs, Drop(q), client' = client, backlog' \subseteq backlog,
         \A l \in Listeners : \A i \in DOMAIN uds'[l] :
           uds'[l][i].conn \in Conns => Shaken(uds'[l][i].conn)
  PROVE  ShakenInv'
<1>1. conn'[q] = NoConn /\ \A p \in Procs \ {q} : conn'[p] = conn[p] /\ pc'[p] = pc[p]
  BY DEF Drop, Reset, TypeInv, TypeOK
<1> QED BY <1>1, ShakenLocal

LEMMA ShakenCloseConn ==
  ASSUME TypeInv, ShakenInv, QueueBound, NEW p \in Procs, CloseConn(p)
  PROVE  ShakenInv' /\ QueueBound'
<1>1. client' = client /\ backlog' = backlog /\ uds' = uds /\ Drop(p)
  BY DEF CloseConn, clientVars
<1> QED BY <1>1, ShakenDrop DEF ShakenInv, QueueBound

LEMMA ShakenHandOff ==
  ASSUME TypeInv, ShakenInv, QueueBound, NEW p \in Procs, NEW l, HandOff(p, l),
         pc[p] \notin {"accept", "down", "handshake"}
  PROVE  ShakenInv' /\ QueueBound'
<1>1. /\ client' = client /\ backlog' = backlog /\ Drop(p)
      /\ \/ uds' = uds
         \/ /\ l \in Listeners /\ Len(uds[l]) < MaxQueue
            /\ \/ uds' = [uds EXCEPT ![l] = Append(@, Message(p))]
               \/ uds' = [uds EXCEPT ![l] = Append(@, EmptyEntry)]
  BY DEF HandOff, ConnectRefused, SendFd, SendFdFails, Listening, clientVars, streamVars
<1>t. /\ uds \in [Listeners -> Seq(Entry)] /\ EmptyEntry \in Entry /\ Message(p) \in Entry
      /\ EmptyEntry.conn = NoConn /\ NoConn \notin Conns /\ Message(p).conn = conn[p]
      /\ MaxQueue \in Nat
  <2>1. serial[p] \in Serial /\ target[p] \in Names \cup {NoName} /\ conn[p] \in Conns \cup {NoConn}
    BY DEF TypeInv, TypeOK
  <2> QED BY <2>1, DefaultTypes, ConstantsOK DEF TypeInv, TypeOK, EmptyEntry, Message, Entry
<1>s. Shaken(conn[p])
  BY Busy DEF ShakenInv
<1>2. CASE uds' = uds
  BY <1>1, <1>2, ShakenDrop DEF ShakenInv, QueueBound
<1>3. ASSUME NEW e \in Entry, e.conn \in Conns => Shaken(e.conn), l \in Listeners,
             Len(uds[l]) < MaxQueue, uds' = [uds EXCEPT ![l] = Append(@, e)]
      PROVE  ShakenInv' /\ QueueBound'
  <2>1. ASSUME NEW m \in Listeners
        PROVE  /\ Len(uds'[m]) <= MaxQueue
               /\ \A i \in DOMAIN uds'[m] : uds'[m][i].conn \in Conns => Shaken(uds'[m][i].conn)
    <3>1. CASE m # l
      <4>1. uds'[m] = uds[m]
        BY <1>3, <1>t, <3>1
      <4> QED BY <4>1 DEF ShakenInv, QueueBound
    <3>2. CASE m = l
      <4>1. uds'[m] = Append(uds[l], e) /\ uds[l] \in Seq(Entry)
        BY <1>3, <1>t, <3>2
      <4>2. Len(uds'[m]) <= MaxQueue
        BY <1>3, <1>t, <4>1
      <4>3. ASSUME NEW i \in DOMAIN uds'[m], uds'[m][i].conn \in Conns
            PROVE  Shaken(uds'[m][i].conn)
        <5>1. \/ i \in DOMAIN uds[l] /\ uds'[m][i] = uds[l][i]
              \/ uds'[m][i] = e
          BY <4>1, AppendEntries
        <5> QED BY <1>3, <4>3, <5>1 DEF ShakenInv
      <4> QED BY <4>2, <4>3
    <3> QED BY <3>1, <3>2
  <2>2. ShakenInv'
    BY <1>1, <2>1, ShakenDrop
  <2> QED BY <2>1, <2>2 DEF QueueBound
<1> QED BY <1>1, <1>2, <1>3, <1>t, <1>s

(* Taking the first pending Unix connection. *)
LEMMA ShakenTail ==
  ASSUME TypeInv, ShakenInv, QueueBound, NEW p \in Listeners, uds[p] # <<>>,
         uds' = [uds EXCEPT ![p] = Tail(@)]
  PROVE  /\ QueueBound'
         /\ Head(uds[p]) \in Entry /\ (Head(uds[p]).conn \in Conns => Shaken(Head(uds[p]).conn))
         /\ \A l \in Listeners : \A i \in DOMAIN uds'[l] :
              uds'[l][i].conn \in Conns => Shaken(uds'[l][i].conn)
<1>t. uds \in [Listeners -> Seq(Entry)] /\ uds[p] \in Seq(Entry) /\ MaxQueue \in Nat
  BY ConstantsOK DEF TypeInv, TypeOK
<1>1. /\ 1 \in DOMAIN uds[p] /\ Head(uds[p]) = uds[p][1]
      /\ \A i \in DOMAIN Tail(uds[p]) : i + 1 \in DOMAIN uds[p] /\ Tail(uds[p])[i] = uds[p][i + 1]
  BY <1>t, TailEntries
<1>2. ASSUME NEW l \in Listeners
      PROVE  /\ Len(uds'[l]) <= MaxQueue
             /\ \A i \in DOMAIN uds'[l] : uds'[l][i].conn \in Conns => Shaken(uds'[l][i].conn)
  <2>1. CASE l # p
    <3>1. uds'[l] = uds[l]
      BY <1>t, <2>1
    <3> QED BY <3>1 DEF ShakenInv, QueueBound
  <2>2. CASE l = p
    <3>1. uds'[l] = Tail(uds[p]) /\ Len(uds[p]) <= MaxQueue
      BY <1>t, <2>2 DEF QueueBound
    <3>2. Len(uds'[l]) <= MaxQueue
      BY ONLY <1>t, <3>1, uds[p] # <<>>
    <3>3. \A i \in DOMAIN uds'[l] : uds'[l][i].conn \in Conns => Shaken(uds'[l][i].conn)
      BY <1>1, <3>1 DEF ShakenInv
    <3> QED BY <3>2, <3>3
  <2> QED BY <2>1, <2>2
<1>3. Head(uds[p]).conn \in Conns => Shaken(Head(uds[p]).conn)
  BY <1>1 DEF ShakenInv
<1>4. Head(uds[p]) \in Entry
  BY <1>t
<1> QED BY <1>2, <1>3, <1>4 DEF QueueBound

LEMMA ShakenRecvFdFails ==
  ASSUME TypeInv, ShakenInv, QueueBound, NEW p \in Listeners, RecvFdFails(p)
  PROVE  ShakenInv' /\ QueueBound'
<1>1. /\ UNCHANGED <<client, backlog, pc, conn>> /\ p \in Procs
      /\ uds[p] # <<>> /\ uds' = [uds EXCEPT ![p] = Tail(@)]
  BY DEF RecvFdFails, clientVars, localVars, Procs
<1> QED BY <1>1, ShakenTail, ShakenLocal

LEMMA ShakenRecvFd ==
  ASSUME TypeInv, ShakenInv, QueueBound, NEW p \in Listeners, NEW next \in {"restore", "dispatch"},
         RecvFd(p, next)
  PROVE  ShakenInv' /\ QueueBound'
<1>1. /\ UNCHANGED <<client, backlog>> /\ p \in Procs
      /\ uds[p] # <<>> /\ uds' = [uds EXCEPT ![p] = Tail(@)]
      /\ pc' = [pc EXCEPT ![p] = next] /\ conn' = [conn EXCEPT ![p] = Head(uds[p]).conn]
  BY DEF RecvFd, TakeMessage, clientVars, Procs
<1>2. /\ conn'[p] = Head(uds[p]).conn /\ pc'[p] = next
      /\ \A q \in Procs \ {p} : conn'[q] = conn[q] /\ pc'[q] = pc[q]
  BY <1>1 DEF TypeInv, TypeOK
<1>3. pc'[p] # "handshake" /\ (conn'[p] \in Conns => Shaken(conn'[p]))
  BY <1>1, <1>2, ShakenTail
<1> QED BY <1>1, <1>2, <1>3, ShakenTail, ShakenLocal

(* A step that moves no connection. *)
LEMMA ShakenStays ==
  ASSUME TypeInv, ShakenInv, QueueBound, UNCHANGED <<client, backlog, uds, conn>>, NEW q \in Procs,
         pc[q] # "handshake", pc'[q] # "handshake", \A p \in Procs \ {q} : pc'[p] = pc[p]
  PROVE  ShakenInv' /\ QueueBound'
<1>1. QueueBound'
  BY DEF QueueBound
<1>2. \A l \in Listeners : \A i \in DOMAIN uds'[l] :
        uds'[l][i].conn \in Conns => Shaken(uds'[l][i].conn)
  BY DEF ShakenInv
<1> QED BY <1>1, <1>2, ShakenLocal

LEMMA ShakenAcceptor ==
  ASSUME TypeInv, OwnInv, ShakenInv, QueueBound, AcceptorStep
  PROVE  ShakenInv' /\ QueueBound'
<1>p. Acceptor \in Procs
  BY DEF Procs
<1>t. /\ pc = [p \in Procs |-> pc[p]] /\ conn \in [Procs -> Conns \cup {NoConn}]
      /\ client \in [Conns -> {"idle", "connected", "hello", "secure", "gone"}]
  BY DEF TypeInv, TypeOK
<1>1. CASE Accept
  <2> PICK c \in backlog : conn' = [conn EXCEPT ![Acceptor] = c] /\ backlog' = backlog \ {c}
    BY <1>1 DEF Accept
  <2>1. UNCHANGED <<client, uds>> /\ pc' = [pc EXCEPT ![Acceptor] = "handshake"]
    BY <1>1 DEF Accept, clientVars
  <2>2. /\ conn'[Acceptor] = c /\ pc'[Acceptor] = "handshake"
        /\ \A p \in Procs \ {Acceptor} : conn'[p] = conn[p] /\ pc'[p] = pc[p]
    BY <1>p, <1>t, <2>1
  <2>3. client[c] # "secure"
    BY DEF ShakenInv
  <2>4. ASSUME NEW p \in Procs, conn'[p] \in Conns
        PROVE  IF pc'[p] = "handshake" THEN client'[conn'[p]] # "secure"
               ELSE client'[conn'[p]] \in {"secure", "gone"}
    BY <2>1, <2>2, <2>3, <2>4 DEF ShakenInv, Shaken
  <2> QED BY <2>1, <2>4 DEF ShakenInv, QueueBound, Shaken
<1>2. CASE Handshake
  <2> PICK c : c = conn[Acceptor]
    OBVIOUS
  <2>1. /\ UNCHANGED <<backlog, uds, conn>> /\ pc[Acceptor] = "handshake"
        /\ client' = [client EXCEPT ![c] = "secure"] /\ pc' = [pc EXCEPT ![Acceptor] = "peek"]
    BY <1>2 DEF Handshake
  <2>2. c \in Conns /\ c \notin backlog /\ \A p \in Procs \ {Acceptor} : conn[p] # c
    BY <1>p, <2>1, Busy, Exclusive
  <2>3. client'[c] = "secure" /\ \A d \in Conns \ {c} : client'[d] = client[d]
    BY <1>t, <2>1, <2>2
  <2>4. ASSUME NEW p \in Procs, conn'[p] \in Conns
        PROVE  IF pc'[p] = "handshake" THEN client'[conn'[p]] # "secure"
               ELSE client'[conn'[p]] \in {"secure", "gone"}
    <3>1. CASE p = Acceptor
      BY <1>p, <1>t, <2>1, <2>3, <3>1
    <3>2. CASE p # Acceptor
      <4>1. pc'[p] = pc[p] /\ conn'[p] = conn[p] /\ conn[p] \in Conns \ {c}
        BY <1>t, <2>1, <2>2, <2>4, <3>2
      <4> QED BY <2>3, <4>1 DEF ShakenInv, Shaken
    <3> QED BY <3>1, <3>2
  <2>5. \A d \in Conns : Shaken(d) => client'[d] \in {"secure", "gone"}
    BY <2>3 DEF Shaken
  <2>6. \A d \in backlog : client'[d] # "secure"
    <3>1. backlog \subseteq Conns
      BY DEF TypeInv, TypeOK
    <3> QED BY <2>2, <2>3, <3>1 DEF ShakenInv
  <2>7. \A l \in Listeners : \A i \in DOMAIN uds'[l] :
          uds'[l][i].conn \in Conns => client'[uds'[l][i].conn] \in {"secure", "gone"}
    BY <2>1, <2>5 DEF ShakenInv
  <2> QED BY <2>1, <2>4, <2>6, <2>7 DEF ShakenInv, QueueBound, Shaken
<1>3. CASE HandshakeFails \/ PeekAndExportFails
  BY <1>p, <1>3, ShakenCloseConn DEF HandshakeFails, PeekAndExportFails
<1>4. ASSUME NEW f \in GatewayNames, PeekAndExport(f)
      PROVE  ShakenInv' /\ QueueBound'
  <2>1. /\ UNCHANGED <<client, backlog, uds, conn>> /\ pc[Acceptor] = "peek"
        /\ pc'[Acceptor] = "dispatch" /\ \A p \in Procs \ {Acceptor} : pc'[p] = pc[p]
    BY <1>4, <1>p, <1>t DEF PeekAndExport, clientVars
  <2> QED BY <1>p, <2>1, ShakenStays
<1>5. CASE DispatchToFunction(Acceptor)
  BY <1>p, <1>5, ShakenHandOff DEF DispatchToFunction
<1> QED BY <1>1, <1>2, <1>3, <1>4, <1>5 DEF AcceptorStep

LEMMA ShakenWorker ==
  ASSUME TypeInv, ShakenInv, QueueBound, NEW w \in Functions, WorkerStep(w)
  PROVE  ShakenInv' /\ QueueBound'
<1>p. w \in Procs /\ w \in Listeners
  BY DEF Procs, Listeners
<1>t. pc = [p \in Procs |-> pc[p]] /\ pc[w] # "handshake"
  BY DEF TypeInv, TypeOK, PcOK
<1>1. CASE RecvFd(w, "restore") \/ RecvFdFails(w)
  BY <1>p, <1>1, ShakenRecvFd, ShakenRecvFdFails
<1>2. CASE RestoreFails(w) \/ PeekOwnerFails(w) \/ ReadRequestFails(w) \/ RespondFails(w)
  BY <1>p, <1>2, ShakenCloseConn DEF RestoreFails, PeekOwnerFails, ReadRequestFails, RespondFails
<1>3. CASE RelayToGateway(w)
  BY <1>p, <1>3, ShakenHandOff DEF RelayToGateway
<1>4. CASE Restore(w) \/ PeekOwn(w) \/ PeekOther(w) \/ RespondAndKeep(w)
  <2>1. /\ UNCHANGED <<client, backlog, uds, conn>>
        /\ \E s \in {"peek", "headers", "relay"} : pc' = [pc EXCEPT ![w] = s]
    BY <1>4 DEF Restore, PeekOwn, PeekOther, RespondAndKeep, clientVars
  <2>2. pc'[w] # "handshake" /\ \A p \in Procs \ {w} : pc'[p] = pc[p]
    BY <1>p, <1>t, <2>1
  <2> QED BY <1>p, <1>t, <2>1, <2>2, ShakenStays
<1>5. CASE ReadHeadersPending(w) \/ ReadHeaders(w) \/ ReadBody(w)
  <2>1. /\ UNCHANGED <<client, backlog, uds, conn>>
        /\ \E s \in {"headers", "body", "respond"} : pc' = [pc EXCEPT ![w] = s]
    BY <1>5 DEF ReadHeadersPending, ReadHeaders, ReadBody, AfterHeaders, clientVars
  <2>2. pc'[w] # "handshake" /\ \A p \in Procs \ {w} : pc'[p] = pc[p]
    BY <1>p, <1>t, <2>1
  <2> QED BY <1>p, <1>t, <2>1, <2>2, ShakenStays
<1>6. CASE RespondAndClose(w)
  <2>1. client' = client /\ backlog' = backlog /\ uds' = uds /\ Drop(w)
    BY <1>6 DEF RespondAndClose, clientVars
  <2> QED BY <1>p, <2>1, ShakenDrop DEF ShakenInv, QueueBound
<1> QED BY <1>1, <1>2, <1>3, <1>4, <1>5, <1>6 DEF WorkerStep

LEMMA ShakenClient ==
  ASSUME TypeInv, OwnInv, ShakenInv, QueueBound, NEW c \in Conns, ClientStep(c)
  PROVE  ShakenInv' /\ QueueBound'
<1>1. UNCHANGED <<uds, pc, conn>>
  BY DEF ClientStep, Connect, Hello, RestArrives, ClientClose, IssueRequest, SendRecord, localVars
<1>2. /\ \A d \in Conns \ {c} : client'[d] = client[d]
      /\ \/ client'[c] = client[c] /\ backlog' = backlog
         \/ client'[c] = "gone" /\ backlog' = backlog
         \/ client[c] = "connected" /\ client'[c] = "hello" /\ backlog' = backlog
         \/ client[c] = "idle" /\ client'[c] = "connected" /\ backlog' = backlog \cup {c}
  BY DEF ClientStep, Connect, Hello, RestArrives, ClientClose, IssueRequest, SendRecord,
     TypeInv, TypeOK
<1>3. \A d \in Conns : Shaken(d) => client'[d] \in {"secure", "gone"}
  BY <1>2 DEF Shaken
<1>4. \A d \in Conns : client[d] # "secure" => client'[d] # "secure"
  BY <1>2
<1>5. ASSUME NEW p \in Procs, conn[p] \in Conns
      PROVE  IF pc[p] = "handshake" THEN client'[conn[p]] # "secure"
             ELSE client'[conn[p]] \in {"secure", "gone"}
  BY <1>3, <1>4, <1>5 DEF ShakenInv
<1>6. \A d \in backlog' : client'[d] # "secure"
  <2>1. backlog \subseteq Conns
    BY DEF TypeInv, TypeOK
  <2> QED BY <1>2, <1>4, <2>1 DEF ShakenInv
<1>7. \A l \in Listeners : \A i \in DOMAIN uds[l] :
        uds[l][i].conn \in Conns => client'[uds[l][i].conn] \in {"secure", "gone"}
  BY <1>3 DEF ShakenInv
<1> QED BY <1>1, <1>5, <1>6, <1>7 DEF ShakenInv, QueueBound, Shaken

LEMMA ShakenDie ==
  ASSUME TypeInv, ShakenInv, QueueBound, NEW P, Die(P), backlog' \subseteq backlog
  PROVE  ShakenInv' /\ QueueBound'
<1>1. client' = client /\ NoConn \notin Conns /\ MaxQueue \in Nat
  BY ConstantsOK DEF Die, clientVars
<1>2. ASSUME NEW p \in Procs, conn'[p] \in Conns
      PROVE  conn'[p] = conn[p] /\ pc'[p] = pc[p]
  BY <1>1, <1>2 DEF Die
<1>3. \A l \in Listeners : uds'[l] \in {uds[l], <<>>}
  BY DEF Die
<1>4. ASSUME NEW l \in Listeners
      PROVE  /\ Len(uds'[l]) <= MaxQueue
             /\ \A i \in DOMAIN uds'[l] : uds'[l][i].conn \in Conns => Shaken(uds'[l][i].conn)
  <2>1. CASE uds'[l] = uds[l]
    BY <2>1 DEF ShakenInv, QueueBound
  <2>2. CASE uds'[l] = <<>>
    BY <1>1, <2>2
  <2> QED BY <1>3, <2>1, <2>2
<1> QED BY <1>1, <1>2, <1>4 DEF ShakenInv, QueueBound, Shaken

LEMMA ShakenNext ==
  TypeInv /\ OwnInv /\ ShakenInv /\ QueueBound /\ [Next]_vars => (ShakenInv /\ QueueBound)'
<1> SUFFICES ASSUME TypeInv, OwnInv, ShakenInv, QueueBound, [Next]_vars
             PROVE  ShakenInv' /\ QueueBound'
  OBVIOUS
<1>1. CASE RelayerStep
  <2>1. Relayer \in Listeners /\ Relayer \in Procs
    BY DEF Procs, Listeners
  <2> QED BY <1>1, <2>1, ShakenRecvFd, ShakenRecvFdFails, ShakenHandOff
          DEF RelayerStep, DispatchToFunction
<1>2. ASSUME NEW p \in Procs, Start(p) PROVE ShakenInv' /\ QueueBound'
  <2>1. /\ UNCHANGED <<client, backlog, uds, conn>> /\ pc[p] = "down"
        /\ pc'[p] = "accept" /\ \A q \in Procs \ {p} : pc'[q] = pc[q]
    BY <1>2 DEF Start, clientVars, TypeInv, TypeOK
  <2> QED BY <2>1, ShakenStays
<1>3. CASE GatewayDies \/ \E w \in Functions : WorkerDies(w)
  BY <1>3, ShakenDie DEF WorkerDies, GatewayDies
<1>4. CASE UNCHANGED vars \/ Finished
  BY <1>4 DEF Finished, vars, clientVars, localVars, ShakenInv, QueueBound, Shaken
<1> QED BY <1>1, <1>2, <1>3, <1>4, ShakenAcceptor, ShakenWorker, ShakenClient DEF Next

LEMMA ShakenInit == Init => ShakenInv /\ QueueBound
BY ConstantsOK DEF Init, ShakenInv, QueueBound

(* A process that waits for bytes waits for a client that has sent all it   *)
(* will, but the bytes it needs are among those.                            *)
LEMMA NobodyReads ==
  ASSUME TypeInv, OwnInv, SeqInv, StreamInv, ShakenInv, Stuck, \A c \in Conns : Unmixed(c),
         NEW p \in Procs
  PROVE  pc[p] \in {"accept", "dispatch", "relay"}
<1> SUFFICES ASSUME pc[p] \notin {"accept", "dispatch", "relay"} PROVE FALSE
  OBVIOUS
<1> PICK c : c = conn[p]
  OBVIOUS
<1>1. Blocked(p)
  BY DEF Stuck
<1>2. pc[p] \in {"handshake", "peek", "headers", "body"}
  BY <1>1 DEF Blocked
<1>3. c \in Conns
  BY <1>2, Busy
<1>4. Waits(c) /\ Unmixed(c)
  BY <1>3 DEF Stuck
<1>5. CASE pc[p] = "handshake"
  BY <1>1, <1>3, <1>4, <1>5 DEF Blocked, Waits, ShakenInv
<1>6. CASE pc[p] # "handshake"
  <2>1. client[c] # "gone"
    BY <1>1, <1>2, <1>6 DEF Blocked, PeekReturns
  <2>2. client[c] = "secure"
    BY <1>3, <1>6, <2>1 DEF ShakenInv, Shaken
  <2>3. todo[c] = <<>> /\ ~partial[c] /\ Len(resp[c]) < Len(reqs[c])
    BY <1>4, <2>2 DEF Waits
  <2> PICK n, k, r : n = Len(reqs[c]) /\ k = consumed[c] /\ r = Len(resp[c]) + 1
    OBVIOUS
  <2>4. n \in Nat /\ k \in Nat /\ r \in 1..n /\ Len(sent[c]) \in Nat
    BY <1>3, <2>3, StreamTypes
  <2>5. PICK start, off : Placed(c, start, off)
    BY <1>3 DEF StreamInv, ConnPlaced
  <2>6. off[k + 1] < start[r + 1]
    <3>1. /\ start[r] \in Nat /\ start[r + 1] \in Nat /\ off[k + 1] \in Nat
          /\ start[r] < start[r + 1]
      <4>1. Laid(reqs[c], sent[c], todo[c], start, off)
        BY <2>5 DEF Placed
      <4>2. /\ start \in [Nat -> Nat] /\ off \in [Nat -> Nat]
            /\ \A i, j \in 1..(n + 1) : i < j => start[i] < start[j]
        BY <4>1 DEF Laid
      <4>3. /\ r \in 1..(n + 1) /\ r + 1 \in 1..(n + 1) /\ r < r + 1
            /\ r \in Nat /\ r + 1 \in Nat /\ k + 1 \in Nat
        BY ONLY <2>4
      <4> QED BY ONLY <4>2, <4>3
    <3>2. CASE pc[p] = "peek"
      <4>1. off[k + 1] = start[r]
        BY <1>3, <1>4, <2>5, <3>2 DEF Placed, InPlace, Between, BetweenPCs
      <4> QED BY <3>1, <4>1
    <3>3. CASE pc[p] \in {"headers", "body"}
      <4>1. Reading(reqs[c], start, off[k + 1], r, p, pc[p], rd[p])
        BY <1>4, <2>5 DEF Placed, InPlace
      <4>2. reqs[c][r] \in Request /\ rd[p].buf \in Seq(Token) /\ rd[p].want \in Nat
        BY <1>3, <2>4 DEF TypeInv, TypeOK, ReadState
      <4>3. CASE pc[p] = "headers"
        <5>1. off[k + 1] = start[r] + Len(rd[p].buf) /\ Len(rd[p].buf) < HeadLen(reqs[c][r])
          BY <4>1, <4>3 DEF Reading
        <5>2. start[r + 1] = start[r] + Len(Text(reqs[c], r))
          BY <2>4, <2>5 DEF Placed, Laid
        <5>3. HeadLen(reqs[c][r]) <= Len(Text(reqs[c], r)) /\ Len(Text(reqs[c], r)) \in Nat
          <6>1. r \in Nat
            BY ONLY <2>4
          <6>2. /\ Len(Text(reqs[c], r)) = HeadLen(reqs[c][r]) + reqs[c][r].body
                /\ HeadLen(reqs[c][r]) \in Nat /\ reqs[c][r].body \in Nat
            BY <4>2, <6>1, PlaintextShape DEF Text
          <6> QED BY ONLY <6>2
        <5>4. HeadLen(reqs[c][r]) \in Nat
          BY <4>2, HeadLenType
        <5>5. Len(rd[p].buf) \in Nat
          BY <4>2
        <5> QED BY ONLY <3>1, <5>1, <5>2, <5>3, <5>4, <5>5
      <4>4. CASE pc[p] = "body"
        <5>1. rd[p].want > 0 /\ off[k + 1] + rd[p].want = start[r + 1]
          BY <4>1, <4>4 DEF Reading
        <5> QED BY ONLY <3>1, <4>2, <5>1
      <4> QED BY <3>3, <4>3, <4>4
    <3> QED BY <1>2, <1>6, <3>2, <3>3
  <2>7. consumed[c] < Len(sent[c])
    BY <1>3, <2>3, <2>4, <2>5, <2>6, BytesOwed
  <2>8. consumed[c] < Arrived(c)
    BY <2>3, <2>4, <2>7 DEF Arrived
  <2>9. CASE pc[p] = "peek"
    BY <1>1, <2>7, <2>9 DEF Blocked, PeekReturns
  <2>10. CASE pc[p] \in {"headers", "body"}
    <3>1. p \in Functions
      BY <2>10 DEF TypeInv, PcOK, Procs, Listeners
    <3>2. ssl[p].read = consumed[c]
      BY <2>10, <3>1 DEF SeqInv, SessionFresh
    <3> QED BY <1>1, <2>8, <2>10, <3>2 DEF Blocked, RecordReadable
  <2> QED BY <1>2, <1>6, <2>9, <2>10
<1> QED BY <1>5, <1>6

(* Whoever waits for room waits for a process that waits for room, too.     *)
LEMMA FullQueueWaits ==
  ASSUME TypeInv, OwnInv, SeqInv, StreamInv, ShakenInv, Stuck, \A c \in Conns : Unmixed(c),
         NEW l \in Listeners, NoRoom(l)
  PROVE  IF l = Relayer THEN pc[l] = "dispatch" /\ NoRoom(target[l])
         ELSE pc[l] = "relay" /\ NoRoom(Relayer)
<1>1. l \in Procs /\ l # Acceptor
  BY ConstantsOK DEF Procs, Listeners
<1>2. Blocked(l) /\ pc[l] \in {"accept", "dispatch", "relay"}
  BY <1>1, NobodyReads DEF Stuck
<1>3. uds[l] # <<>>
  <2>1. Len(<<>>) = 0 /\ MaxQueue \in Nat /\ MaxQueue > 0
    BY ConstantsOK
  <2> QED BY <2>1 DEF NoRoom
<1>4. pc[l] # "accept"
  BY <1>1, <1>2, <1>3 DEF Blocked
<1>5. CASE l = Relayer
  BY <1>2, <1>4, <1>5 DEF Blocked, TypeInv, PcOK
<1>6. CASE l # Relayer
  <2>1. l \in Functions
    BY <1>6 DEF Listeners
  <2>2. pc[l] = "relay"
    BY <1>2, <1>4, <2>1 DEF TypeInv, PcOK
  <2> QED BY <1>2, <1>6, <2>2 DEF Blocked
<1> QED BY <1>5, <1>6

LEMMA StuckInRelayDeadlock ==
  ASSUME TypeInv, OwnInv, SeqInv, StreamInv, ShakenInv, QueueBound, Stuck,
         \A c \in Conns : Unmixed(c)
  PROVE  RelayDeadlock
<1>p. /\ Relayer \in Listeners /\ Relayer \in Procs /\ Acceptor \in Procs
      /\ Functions \subseteq Listeners /\ Listeners \subseteq Procs /\ Relayer \notin Functions
      /\ Procs = Functions \cup {Relayer, Acceptor} /\ Acceptor \notin Listeners
  BY ConstantsOK DEF Procs, Listeners
(* The relay's queue is full: the relay waits for itself or for a worker    *)
(* that sends to the relay.                                                 *)
<1>1. ASSUME NoRoom(Relayer) PROVE RelayDeadlock
  <2>1. pc[Relayer] = "dispatch" /\ NoRoom(target[Relayer])
    BY <1>p, <1>1, FullQueueWaits
  <2> PICK w : w = target[Relayer]
    OBVIOUS
  <2>2. CASE w = Relayer
    BY <2>1, <2>2 DEF RelayDeadlock, SelfWait
  <2>3. CASE w # Relayer
    <3>1. w \in Functions /\ NoRoom(w)
      BY <2>1, <2>3 DEF NoRoom, Listening, Listeners
    <3>2. pc[w] = "relay"
      BY <1>p, <3>1, FullQueueWaits
    <3>3. ASSUME NEW l \in Listeners, NoRoom(l) PROVE up[l] /\ Len(uds[l]) = MaxQueue
      <4>1. Len(uds[l]) \in Nat /\ MaxQueue \in Nat
        BY ConstantsOK DEF TypeInv, TypeOK
      <4>2. up[l] /\ ~(Len(uds[l]) < MaxQueue) /\ Len(uds[l]) <= MaxQueue
        BY <3>3 DEF NoRoom, Listening, QueueBound
      <4> QED BY <4>1, <4>2
    <3>4. CircularWait(w)
      BY <1>1, <1>p, <2>1, <3>1, <3>2, <3>3 DEF CircularWait
    <3> QED BY <3>1, <3>4 DEF RelayDeadlock
  <2> QED BY <2>2, <2>3
<1>2. ASSUME NEW l \in Listeners, NoRoom(l) PROVE NoRoom(Relayer)
  BY <1>p, <1>2, FullQueueWaits
<1>4. ASSUME NEW p \in Procs, pc[p] # "accept" PROVE RelayDeadlock
  <2>1. Blocked(p) /\ pc[p] \in {"dispatch", "relay"}
    BY <1>4, NobodyReads DEF Stuck
  <2>2. CASE pc[p] = "relay"
    BY <1>1, <2>1, <2>2 DEF Blocked
  <2>3. CASE pc[p] = "dispatch"
    <3>1. NoRoom(target[p])
      BY <2>1, <2>3 DEF Blocked
    <3>2. target[p] \in Listeners
      BY <3>1 DEF NoRoom, Listening
    <3> QED BY <1>1, <1>2, <3>1, <3>2
  <2> QED BY <2>1, <2>2, <2>3
<1>5. CASE \A p \in Procs : pc[p] = "accept"
  <2>1. backlog = {} /\ \A l \in Listeners : uds[l] = <<>>
    BY <1>p, <1>5 DEF Stuck, Blocked
  <2>2. \A p \in Procs : fds[p] = {}
    BY <1>5 DEF TypeInv, PcOK, OwnInv, NoLeak
  <2>3. \A c \in Conns : ~Open(c)
    BY <2>1, <2>2 DEF Open
  <2>4. \A c \in Conns : client[c] = "gone"
    BY <2>3 DEF Stuck, Waits
  <2> QED BY <2>1, <2>3, <2>4 DEF Stuck, AllDone
<1> QED BY <1>4, <1>5

(***************************************************************************)
(* Gateway, relay and workers come to a stop, every process in a call that *)
(* does not return and every client waiting for an answer, only when the   *)
(* relay's connect() to a worker and that worker's connect() to the relay  *)
(* wait for each other's queue, or the relay's connect() to itself for its *)
(* own, provided no TLS record holds parts of two requests.  No accept     *)
(* loop, peek, read or other connect() is ever left waiting for something  *)
(* nobody will send.                                                       *)
(***************************************************************************)
StuckOnlyInRelayDeadlock ==
  Stuck /\ (\A c \in Conns : Unmixed(c)) => RelayDeadlock

LEMMA ShakenInvariant == Spec => [](ShakenInv /\ QueueBound)
<1>1. (TypeInv /\ OwnInv /\ SeqInv) /\ (ShakenInv /\ QueueBound) /\ [Next]_vars =>
        (ShakenInv /\ QueueBound)'
  BY ShakenNext
<1> QED BY <1>1, ShakenInit, Invariant, PTL DEF Spec

(* When every process is blocked, the only reason is one of those waits.    *)
THEOREM NoOtherDeadlock == Spec => []StuckOnlyInRelayDeadlock
<1>1. TypeInv /\ OwnInv /\ SeqInv /\ StreamInv /\ ShakenInv /\ QueueBound =>
        StuckOnlyInRelayDeadlock
  BY StuckInRelayDeadlock DEF StuckOnlyInRelayDeadlock
<1> QED BY <1>1, Invariant, StreamInPlace, ShakenInvariant, PTL

-----------------------------------------------------------------------------
(* A client that waits for each response before its next request never puts *)
(* two requests in one record.                                              *)
OneRequestLeft(c) ==
  /\ Unmixed(c)
  /\ \A j \in 1..Len(todo[c]) : todo[c][j].id = Len(reqs[c])

LEMMA OneLeftIssue ==
  ASSUME TypeInv, OwnInv, StreamInv, NEW c \in Conns, NEW r \in Requests, IssueRequest(c, r),
         ~Pipelining, OneRequestLeft(c)
  PROVE  OneRequestLeft(c)'
<1>1. Open(c) /\ Len(resp[c]) = Len(reqs[c]) /\ Unmixed(c) /\ sent' = sent
  BY DEF IssueRequest, OneRequestLeft
<1>2. todo[c] = <<>>
  BY <1>1, NothingLeft
<1> PICK n, t : n = Len(reqs[c]) /\ t = Plaintext(r, n + 1)
  OBVIOUS
<1>3. n \in Nat /\ n + 1 \in Nat /\ reqs[c] \in Seq(Request) /\ r \in Request
  BY StreamTypes, ConstantsOK
<1>4. reqs'[c] = Append(reqs[c], r) /\ todo'[c] = todo[c] \o t
  BY DEF IssueRequest, TypeInv, TypeOK
<1>5. Len(reqs'[c]) = n + 1
  BY <1>3, <1>4
<1>6. t \in Seq(Token) /\ \A j \in 1..Len(t) : t[j].id = n + 1
  BY <1>3, PlaintextShape DEF Marked
<1>7. todo'[c] = t
  BY <1>2, <1>4, <1>6
<1>8. Unmixed(c)'
  BY <1>1 DEF Unmixed
<1> QED BY <1>5, <1>6, <1>7, <1>8 DEF OneRequestLeft

LEMMA OneLeftSend ==
  ASSUME TypeInv, NEW c \in Conns, NEW k \in 1..Len(todo[c]), NEW cut \in BOOLEAN,
         SendRecord(c, k, cut), OneRequestLeft(c)
  PROVE  OneRequestLeft(c)'
<1> PICK s, t, n : s = sent[c] /\ t = todo[c] /\ n = Len(reqs[c])
  OBVIOUS
<1>1. s \in Seq(Seq(Token)) /\ t \in Seq(Token) /\ k \in 1..Len(t)
  BY StreamTypes
<1>2. \A j \in 1..Len(t) : t[j].id = n
  BY DEF OneRequestLeft
<1> PICK a, b : a = SubSeq(t, 1, k) /\ b = SubSeq(t, k + 1, Len(t))
  OBVIOUS
<1>3. sent'[c] = Append(s, a) /\ todo'[c] = b /\ reqs' = reqs
  BY DEF SendRecord, TypeInv, TypeOK
<1>4. a \in Seq(Token) /\ Len(a) = k /\ \A j \in 1..k : a[j] = t[j]
  BY ONLY <1>1, a = SubSeq(t, 1, k)
<1>5. Len(b) = Len(t) - k /\ \A j \in 1..Len(b) : b[j] = t[k + j]
  BY ONLY <1>1, b = SubSeq(t, k + 1, Len(t))
<1>6. \A j \in 1..k : a[j].id = n
  BY ONLY <1>1, <1>2, <1>4
<1>7. \A j \in 1..Len(b) : b[j].id = n
  <2> SUFFICES ASSUME NEW j \in 1..Len(b) PROVE b[j].id = n
    OBVIOUS
  <2>1. k + j \in 1..Len(t)
    BY ONLY <1>1, <1>5, j \in 1..Len(b)
  <2> QED BY <1>2, <1>5, <2>1
<1>8. Unmixed(c)'
  <2>1. \A i \in DOMAIN s : \A j \in DOMAIN s[i] : s[i][j].id = s[i][1].id
    BY DEF OneRequestLeft, Unmixed
  <2>2. SUFFICES ASSUME NEW i \in DOMAIN Append(s, a), NEW j \in DOMAIN (Append(s, a)[i])
                 PROVE  Append(s, a)[i][j].id = Append(s, a)[i][1].id
    BY <1>3 DEF Unmixed
  <2>3. CASE i \in DOMAIN s
    <3>1. Append(s, a)[i] = s[i]
      BY <1>1, <1>4, <2>3
    <3> QED BY <2>1, <2>2, <2>3, <3>1
  <2>4. CASE i \notin DOMAIN s
    <3>1. Append(s, a)[i] = a
      BY <1>1, <1>4, <2>2, <2>4
    <3>2. j \in DOMAIN a
      BY <2>2, <3>1
    <3>3. DOMAIN a = 1..Len(a)
      BY ONLY <1>4
    <3>4. j \in 1..k
      BY ONLY <1>4, <3>2, <3>3
    <3>5. 1 \in 1..k
      BY ONLY <1>1
    <3> QED BY <1>6, <3>1, <3>4, <3>5
  <2> QED BY <2>3, <2>4
<1> QED BY <1>3, <1>7, <1>8 DEF OneRequestLeft

LEMMA OneLeftNext ==
  ASSUME TypeInv, OwnInv, StreamInv, [Next]_vars, ~Pipelining, NEW c \in Conns, OneRequestLeft(c)
  PROVE  OneRequestLeft(c)'
<1>1. ASSUME todo'[c] = todo[c], reqs'[c] = reqs[c], sent'[c] = sent[c]
      PROVE  OneRequestLeft(c)'
  BY <1>1 DEF OneRequestLeft, Unmixed
<1>2. ASSUME NEW d \in Conns, ClientStep(d) PROVE OneRequestLeft(c)'
  <2>1. ASSUME NEW r \in Requests, IssueRequest(d, r) PROVE OneRequestLeft(c)'
    <3>1. CASE c = d
      BY <2>1, <3>1, OneLeftIssue
    <3>2. CASE c # d
      BY <1>1, <2>1, <3>2 DEF IssueRequest, TypeInv, TypeOK
    <3> QED BY <3>1, <3>2
  <2>2. ASSUME NEW k \in 1..Len(todo[d]), NEW cut \in BOOLEAN, SendRecord(d, k, cut)
        PROVE  OneRequestLeft(c)'
    <3>1. CASE c = d
      BY <2>2, <3>1, OneLeftSend
    <3>2. CASE c # d
      BY <1>1, <2>2, <3>2 DEF SendRecord, TypeInv, TypeOK
    <3> QED BY <3>1, <3>2
  <2>3. CASE Connect(d) \/ Hello(d) \/ RestArrives(d) \/ ClientClose(d)
    BY <1>1, <2>3 DEF Connect, Hello, RestArrives, ClientClose
  <2> QED BY <1>2, <2>1, <2>2, <2>3 DEF ClientStep
<1>3. CASE \E d \in Conns : ClientStep(d)
  BY <1>2, <1>3
<1>4. CASE ~\E d \in Conns : ClientStep(d)
  <2>1. todo' = todo /\ reqs' = reqs /\ sent' = sent
    BY <1>4, ZenonT(60) DEF Next, vars, clientVars,
          AcceptorStep, Accept, Handshake, HandshakeFails,
          PeekAndExport, PeekAndExportFails, DispatchToFunction, HandOff, RelayerStep, RecvFd,
          RecvFdFails, CloseConn, WorkerStep, Restore, RestoreFails, PeekOwn, PeekOther,
          PeekOwnerFails, RelayToGateway, ReadHeaders, ReadHeadersPending, ReadBody,
          ReadRequestFails, RespondAndKeep,
          RespondAndClose, RespondFails, WorkerDies, GatewayDies, Die, Start, Finished
  <2> QED BY <1>1, <2>1
<1> QED BY <1>3, <1>4

(***************************************************************************)
(* For clients that send one request at a time, as the load generators do, *)
(* no record ever holds parts of two requests: the hypothesis under which  *)
(* the theorems above speak of what read_one_request reads.                *)
(***************************************************************************)
THEOREM SequentialClientsUnmixed == Spec => [](~Pipelining => \A c \in Conns : Unmixed(c))
<1> DEFINE I == ~Pipelining => \A c \in Conns : OneRequestLeft(c)
<1>1. Init => I
  BY DEF Init, OneRequestLeft, Unmixed
<1>2. (TypeInv /\ OwnInv /\ StreamInv) /\ I /\ [Next]_vars => I'
  BY OneLeftNext
<1>3. I => (~Pipelining => \A c \in Conns : Unmixed(c))
  BY DEF OneRequestLeft
<1> QED BY <1>1, <1>2, <1>3, StreamInPlace, PTL DEF Spec

(***************************************************************************)
(* With such clients the relay's connect(), to a worker that waits for the *)
(* relay or to itself, is the only way the system as a whole can stop.     *)
(***************************************************************************)
THEOREM SequentialNoOtherDeadlock ==
  Spec => [](~Pipelining /\ Stuck => RelayDeadlock)
<1>1. StuckOnlyInRelayDeadlock /\ (~Pipelining => \A c \in Conns : Unmixed(c)) =>
        (~Pipelining /\ Stuck => RelayDeadlock)
  BY DEF StuckOnlyInRelayDeadlock
<1> QED BY <1>1, NoOtherDeadlock, SequentialClientsUnmixed, PTL
=============================================================================
