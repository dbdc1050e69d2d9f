--------------------------- MODULE TlsPeekProofs ---------------------------
(***************************************************************************)
(* Proofs about TlsPeek: the peek stays inside its buffers for every       *)
(* length a header can claim, and with AES-256-GCM it shows the record in  *)
(* every process that the connection reaches.                              *)
(***************************************************************************)
EXTENDS TlsPeek, TLAPS

(* The fields of a record are numbers. *)
LEMMA RecordFields ==
  ASSUME NEW r \in Record
  PROVE  r.len \in Nat /\ r.pad \in Nat /\ r.type \in UINT8
<1>1. UINT16 \subseteq Nat
  BY DEF UINT16
<1> QED BY <1>1 DEF Record

(***************************************************************************)
(* The checks of tls_read_peek on the record header keep the tag inside    *)
(* the bytes peeked and the plaintext inside its buffer.                   *)
(***************************************************************************)
LEMMA AcceptedFits ==
  ASSUME NEW r \in Record, NEW n \in Nat, HeaderAccepted(r, n)
  PROVE  /\ HEADER_SIZE + CtLen(r) + TAG_SIZE <= RawLen(n)
         /\ CtLen(r) \in 1..MAX_RECORD
<1> DEFINE len == r.len
<1>1. len \in Nat
  BY RecordFields
<1>2. RawLen(n) \in Nat /\ RawLen(n) <= 16661
  BY DEF RawLen, Min2, RAW_SIZE, HEADER_SIZE, MAX_RECORD, TAG_SIZE
<1>3. RawLen(n) >= 5 + len /\ len > 16
  BY DEF HeaderAccepted, HEADER_SIZE, TAG_SIZE
<1>4. CtLen(r) = len - 16
  BY DEF CtLen, TAG_SIZE
<1> HIDE DEF len
<1> QED BY <1>1, <1>2, <1>3, <1>4 DEF HEADER_SIZE, TAG_SIZE, MAX_RECORD

(* The states the library starts in satisfy the invariant. *)
LEMMA PeekInit == Init => PeekInv
<1> SUFFICES ASSUME Init PROVE PeekInv
  OBVIOUS
<1>1. rec \in Record /\ suite \in AllSuites
  BY PeekConstants DEF Init, Records, Record
<1>2. ctx \in Context /\ serial \in Serials
  BY DEF Init, NoContext, NoSerial, Context, Serials, Derived, Zeroed, KEY_SIZE
<1>3. TypeOK
  BY <1>1, <1>2 DEF Init, TypeOK
<1>4. SerialMatches /\ HandshakeMatches
  BY DEF Init, SerialMatches, HandshakeMatches, NoContext
<1> QED BY <1>3, <1>4 DEF PeekInv

(* What the callback derives has its type, and for a 48-byte secret it is  *)
(* the key the client writes with.                                         *)
LEMMA CallbackTypes ==
  ASSUME NEW c \in Context, NEW id \in SecretIds, NEW s \in AllSuites
  PROVE  /\ AfterCallback(c, id, HashLen(s)) \in Context
         /\ AfterCallback(c, id, HashLen(s)).read_seq_num = c.read_seq_num
         /\ AfterCallback(c, id, HashLen(s)).ready
              <=> c.ready \/ id = SERVER_TRAFFIC_SECRET
         /\ AfterCallback(c, id, HashLen(s)).key
              = IF id = CLIENT_TRAFFIC_SECRET
                THEN [secret |-> id, hash |-> HashOfSecret(HashLen(s)),
                      len |-> KeyLenOfSecret(HashLen(s))]
                ELSE c.key
<1> DEFINE k == [secret |-> id, hash |-> HashOfSecret(HashLen(s)),
                 len |-> KeyLenOfSecret(HashLen(s))]
           a == AfterCallback(c, id, HashLen(s))
<1>1. k \in Derived /\ SuiteOfSecret(HashLen(s)) \in AllSuites
  BY DEF Derived, HashLen, HashOfSecret, KeyLenOfSecret, SuiteOfSecret, AllSuites, KEY_SIZE,
         SecretIds
<1>2. c.key \in Derived /\ c.read_seq_num \in Nat /\ c.ready \in BOOLEAN
  BY DEF Context
<1> HIDE DEF k
<1>3. a = [key |-> IF id = CLIENT_TRAFFIC_SECRET THEN k ELSE c.key,
           cipher |-> SuiteOfSecret(HashLen(s)), read_seq_num |-> c.read_seq_num,
           ready |-> c.ready \/ id = SERVER_TRAFFIC_SECRET]
  BY DEF AfterCallback, k
<1>4. (c.ready \/ id = SERVER_TRAFFIC_SECRET) \in BOOLEAN
  OBVIOUS
<1> HIDE DEF a
<1>5. a \in Context
  BY <1>1, <1>2, <1>3, <1>4 DEF Context
<1>6. a.key = (IF id = CLIENT_TRAFFIC_SECRET THEN k ELSE c.key)
      /\ a.read_seq_num = c.read_seq_num
  BY <1>3
<1>7. a.ready = (c.ready \/ id = SERVER_TRAFFIC_SECRET)
  BY <1>3
<1> QED BY <1>5, <1>6, <1>7 DEF a, k

LEMMA ClientKeyTyped ==
  ASSUME NEW s \in AllSuites
  PROVE  ClientKey(s) \in Derived
  BY DEF ClientKey, Derived, Hash, KeyLen, AllSuites, KEY_SIZE, SecretIds,
         CLIENT_TRAFFIC_SECRET

(* Every step of the library and of its callers preserves the invariant. *)
LEMMA PeekStep == PeekInv /\ [Next]_vars => PeekInv'
<1> SUFFICES ASSUME PeekInv, [Next]_vars PROVE PeekInv'
  OBVIOUS
<1> USE DEF PeekInv
<1>1. ASSUME NEW id \in SecretIds, KeylogCb(id) PROVE PeekInv'
  <2>1. TypeOK'
    BY <1>1, CallbackTypes DEF KeylogCb, TypeOK
  <2>2. SerialMatches'
    BY <1>1 DEF KeylogCb, SerialMatches
  <2>3. HandshakeMatches'
    <3>1. ctx' = AfterCallback(ctx, id, HashLen(suite)) /\ fired' = fired \cup {id}
          /\ stage = "handshake" /\ stage' = "handshake" /\ seq' = seq /\ suite' = suite
      BY <1>1 DEF KeylogCb
    <3>2. suite = "AES_256_GCM" =>
            [secret |-> CLIENT_TRAFFIC_SECRET, hash |-> HashOfSecret(HashLen(suite)),
             len |-> KeyLenOfSecret(HashLen(suite))] = ClientKey(suite)
      BY DEF HashOfSecret, HashLen, KeyLenOfSecret, ClientKey, Hash, KeyLen
    <3>3. /\ ctx'.read_seq_num = ctx.read_seq_num
          /\ ctx'.ready <=> ctx.ready \/ id = SERVER_TRAFFIC_SECRET
          /\ id # CLIENT_TRAFFIC_SECRET => ctx'.key = ctx.key
          /\ id = CLIENT_TRAFFIC_SECRET /\ suite = "AES_256_GCM" =>
               ctx'.key = ClientKey(suite)
      BY <3>1, <3>2, <1>1, CallbackTypes DEF TypeOK
    <3>4. seq' = 0 /\ ctx'.read_seq_num = 0
      BY <3>1, <3>3 DEF HandshakeMatches
    <3>5. ctx'.ready <=> SERVER_TRAFFIC_SECRET \in fired'
      BY <3>1, <3>3 DEF HandshakeMatches
    <3>6. CLIENT_TRAFFIC_SECRET \in fired' /\ suite' = "AES_256_GCM" =>
            ctx'.key = ClientKey(suite')
      BY <3>1, <3>3 DEF HandshakeMatches
    <3> QED BY <3>1, <3>4, <3>5, <3>6 DEF HandshakeMatches
  <2> QED BY <2>1, <2>2, <2>3
<1>2. ASSUME AcceptReturns PROVE PeekInv'
  <2>1. CipherFromName(suite) \in AllSuites
    BY DEF CipherFromName, AllSuites, TypeOK
  <2>2. TypeOK'
    BY <1>2, <2>1 DEF AcceptReturns, TypeOK, Context
  <2>3. SerialMatches'
    BY <1>2 DEF AcceptReturns, SerialMatches
  <2>4. HandshakeMatches'
    <3>1. CASE ctx.ready
      <4>1. stage' = "gateway" /\ ctx' = [ctx EXCEPT !.cipher = CipherFromName(suite)]
            /\ suite' = suite /\ fired' = fired /\ seq' = seq /\ stage = "handshake"
        BY <3>1, <1>2 DEF AcceptReturns
      <4>2. SERVER_TRAFFIC_SECRET \in fired
        BY <3>1, <4>1 DEF HandshakeMatches
      <4>3. fired = SecretIds
        BY <4>2, <1>2 DEF AcceptReturns
      <4>4. /\ ctx'.key = ctx.key /\ ctx'.read_seq_num = ctx.read_seq_num
            /\ ctx'.cipher = CipherFromName(suite) /\ ctx'.ready = ctx.ready
        BY <4>1 DEF TypeOK, Context
      <4>5. seq = 0 /\ ctx.read_seq_num = 0
        BY <4>1 DEF HandshakeMatches
      <4>6. suite = "AES_256_GCM" => ctx.key = ClientKey(suite)
        BY <4>1, <4>3 DEF HandshakeMatches, SecretIds
      <4>7. ctx'.ready
        BY <3>1, <4>4
      <4> QED BY <4>1, <4>2, <4>3, <4>4, <4>5, <4>6, <4>7 DEF HandshakeMatches
    <3>2. CASE ~ctx.ready
      BY <3>2, <1>2 DEF AcceptReturns, HandshakeMatches
    <3> QED BY <3>1, <3>2
  <2> QED BY <2>2, <2>3, <2>4
<1>3. ASSUME NEW n \in Arrivals, Arrive(n) PROVE PeekInv'
  BY <1>3, PeekConstants DEF Arrive, TypeOK, SerialMatches, HandshakeMatches
<1>4. ASSUME NEW sz \in BufSizes, GatewayPeek(sz) PROVE PeekInv'
  <2>1. TypeOK'
    <3>1. Zeroed \in Derived
      BY DEF Zeroed, Derived, KEY_SIZE
    <3>2. ctx' \in Context
      BY <1>4, <3>1 DEF GatewayPeek, TypeOK, Context
    <3>3. serial' \in Serials
      BY <1>4 DEF GatewayPeek, TypeOK, Context, Serials
    <3> QED BY <1>4, <3>2, <3>3 DEF GatewayPeek, TypeOK
  <2>2. SerialMatches'
    BY <1>4 DEF GatewayPeek, TypeOK, SerialMatches, HandshakeMatches, CipherFromName, SecretIds
  <2>3. HandshakeMatches'
    BY <1>4 DEF GatewayPeek, HandshakeMatches
  <2> QED BY <2>1, <2>2, <2>3
<1>5. ASSUME NEW sz \in BufSizes, GatewayPeekFails(sz) \/ WorkerPeekFails(sz) PROVE PeekInv'
  BY <1>5 DEF GatewayPeekFails, WorkerPeekFails, TypeOK, SerialMatches, HandshakeMatches
<1>6. ASSUME Restore PROVE PeekInv'
  BY <1>6 DEF Restore, TypeOK, SerialMatches, HandshakeMatches
<1>7. ASSUME NEW sz \in BufSizes, NEW mine \in BOOLEAN, WorkerPeek(sz, mine) PROVE PeekInv'
  BY <1>7 DEF WorkerPeek, TypeOK, SerialMatches, HandshakeMatches
<1>8. ASSUME NEW r \in Records, ReadRecord(r) PROVE PeekInv'
  <2>1. r \in Record
    BY PeekConstants DEF Records, Record
  <2>2. TypeOK'
    BY <1>8, <2>1, RecordFields DEF ReadRecord, TypeOK, HEADER_SIZE
  <2>3. SerialMatches' /\ HandshakeMatches'
    BY <1>8 DEF ReadRecord, SerialMatches, HandshakeMatches
  <2> QED BY <2>2, <2>3
<1>9. ASSUME ExportLiveSerial PROVE PeekInv'
  <2>1. TypeOK'
    BY <1>9, ClientKeyTyped DEF ExportLiveSerial, TypeOK, Serials
  <2>2. SerialMatches' /\ HandshakeMatches'
    BY <1>9, ClientKeyTyped DEF ExportLiveSerial, TypeOK, Serials, SerialMatches, HandshakeMatches
  <2> QED BY <2>1, <2>2
<1>10. ASSUME Close PROVE PeekInv'
  BY <1>10 DEF Close, TypeOK, SerialMatches, HandshakeMatches
<1>11. ASSUME UNCHANGED vars PROVE PeekInv'
  BY <1>11 DEF vars, TypeOK, SerialMatches, HandshakeMatches
<1> QED
  BY <1>1, <1>2, <1>3, <1>4, <1>5, <1>6, <1>7, <1>8, <1>9, <1>10, <1>11 DEF Next

(* The invariant's parts hold in every reachable state. *)
THEOREM PeekInvariant == Spec => []PeekInv
  BY PeekInit, PeekStep, PTL DEF Spec

(***************************************************************************)
(* tls_read_peek reads and writes inside raw and plaintext, whatever the   *)
(* header says and whatever has arrived.                                   *)
(***************************************************************************)
THEOREM PeekStaysInBounds == Spec => []PeekInBounds
<1>1. PeekInv => PeekInBounds
  BY AcceptedFits DEF PeekInv, TypeOK, PeekInBounds
<1> QED BY <1>1, PeekInvariant, PTL

(***************************************************************************)
(* With AES-256-GCM a peek by the gateway or by any later worker shows the *)
(* content that wolfSSL_read will return.                                  *)
(***************************************************************************)
THEOREM PeekSeesRecord == Spec => []PeekShowsContent
<1>1. PeekInv => PeekShowsContent
  <2> SUFFICES ASSUME PeekInv, suite = "AES_256_GCM", stage \in {"gateway", "peek"},
                      Peekable, NEW sz \in BufSizes
               PROVE  Shows(sz)
    BY DEF PeekShowsContent
  <2>1. /\ CurrentCtx.ready
        /\ CurrentCtx.key = ClientKey(suite)
        /\ CurrentCtx.cipher # "CHACHA20_POLY"
        /\ CurrentCtx.read_seq_num = seq
    <3>1. CASE stage = "gateway"
      BY <3>1 DEF PeekInv, HandshakeMatches, CurrentCtx, CipherFromName, SecretIds
    <3>2. CASE stage = "peek"
      BY <3>2 DEF PeekInv, SerialMatches, CurrentCtx, RestorePeekCtx
    <3> QED BY <3>1, <3>2
  <2>2. HeaderAccepted(rec, avail)
    BY DEF Peekable, HeaderAccepted, RawLen, RAW_SIZE, Min2, Sealed, ContentLen, PeekInv,
           TypeOK, Record, HEADER_SIZE, TAG_SIZE, MAX_RECORD
  <2>3. Opens(CurrentCtx)
    BY <2>1 DEF Opens, Peekable, KeyLen, KEY_SIZE
  <2>4. TlsReadPeek(CurrentCtx, sz) = Min2(CtLen(rec) - 1, sz)
    BY <2>1, <2>2, <2>3 DEF TlsReadPeek
  <2>5. rec.len \in Nat /\ rec.pad \in Nat /\ sz \in Nat
    BY RecordFields, PeekConstants DEF PeekInv, TypeOK
  <2> QED BY <2>4, <2>5 DEF Shows, Min2, CtLen, ContentLen, TAG_SIZE
<1> QED BY <1>1, PeekInvariant, PTL
=============================================================================
