------------------------------ MODULE TlsPeek ------------------------------
(***************************************************************************)
(* The stateless read of libtlspeek on one TLS 1.3 connection              *)
(* (libtlspeek/lib), as the keep-alive gateway and workers drive it: the   *)
(* secret callback derives the client's key during the handshake, the      *)
(* gateway peeks at the first record and exports, workers restore, peek,   *)
(* and either pass the connection on or read the request and export the    *)
(* live session's key and record number for the next peek.                 *)
(*                                                                         *)
(* Key material is what it is derived from; a record is its header fields  *)
(* and its padding.  Sizes are those of the code.                          *)
(***************************************************************************)
EXTENDS Integers, FiniteSets

CONSTANTS
  Suites,      \* cipher suites a handshake may agree on
  RecordLens,  \* values of the record header's length field
  RecordTypes, \* values of its content type
  Pads,        \* bytes of padding inside a record
  Arrivals,    \* how many bytes of the stream may have arrived
  BufSizes,    \* sizes of the caller's buffer
  MaxSeq       \* bound: records read from the connection

AllSuites == {"AES_128_GCM", "AES_256_GCM", "CHACHA20_POLY"}

UINT8  == 0..255
UINT16 == 0..65535

ASSUME PeekConstants ==
  /\ Suites \subseteq AllSuites
  /\ RecordLens \subseteq UINT16 /\ RecordTypes \subseteq UINT8
  /\ Pads \subseteq Nat /\ Arrivals \subseteq Nat \ {0}
  /\ BufSizes \subseteq Nat \ {0} /\ MaxSeq \in Nat

KEY_SIZE    == 32
TAG_SIZE    == 16
MAX_RECORD  == 16640
HEADER_SIZE == 5
ApplicationData == 23

(* The two application secrets, and the others the callback is called with. *)
CLIENT_TRAFFIC_SECRET == "client"
SERVER_TRAFFIC_SECRET == "server"
SecretIds == {CLIENT_TRAFFIC_SECRET, SERVER_TRAFFIC_SECRET, "handshake"}

VARIABLES
  suite,   \* what the handshake agreed on
  stage,   \* handshake, gateway, flight, peek, serve, served, closed
  fired,   \* secrets the callback has been called with
  ctx,     \* the gateway's tlspeek_ctx_t
  serial,  \* the tlspeek_serial_t that travels with the descriptor
  seq,     \* number of the first record in the kernel's receive buffer
  rec,     \* that record
  avail    \* bytes in the buffer, counted from the start of rec

vars == <<suite, stage, fired, ctx, serial, seq, rec, avail>>

Min2(a, b) == IF a < b THEN a ELSE b

-----------------------------------------------------------------------------
(* Keys *)

Hash(s)   == IF s = "AES_256_GCM" THEN "SHA384" ELSE "SHA256"
HashLen(s) == IF s = "AES_256_GCM" THEN 48 ELSE 32
KeyLen(s) == IF s = "AES_128_GCM" THEN 16 ELSE 32

(* HKDF-Expand-Label: the output depends on the secret, the hash and, since *)
(* it is part of the label, on the output length.                          *)
Derived == [secret: SecretIds \cup {"none"}, hash: {"SHA256", "SHA384", "none"},
            len: 0..KEY_SIZE]
Zeroed == [secret |-> "none", hash |-> "none", len |-> 0]

ClientKey(s) == [secret |-> CLIENT_TRAFFIC_SECRET, hash |-> Hash(s), len |-> KeyLen(s)]

Context == [key: Derived, cipher: AllSuites \cup {"none"}, read_seq_num: Nat,
            ready: BOOLEAN]
NoContext == [key |-> Zeroed, cipher |-> "none", read_seq_num |-> 0, ready |-> FALSE]

(* tlspeek_keylog_cb: hash, key length and suite follow from the size of   *)
(* the secret.                                                             *)
SuiteOfSecret(n) == IF n = 48 THEN "AES_256_GCM" ELSE "AES_128_GCM"
HashOfSecret(n)  == IF n = 48 THEN "SHA384" ELSE "SHA256"
KeyLenOfSecret(n) == IF n = 48 THEN 32 ELSE 16

AfterCallback(c, id, n) ==
  [key |-> IF id = CLIENT_TRAFFIC_SECRET
           THEN [secret |-> id, hash |-> HashOfSecret(n), len |-> KeyLenOfSecret(n)]
           ELSE c.key,
   cipher |-> SuiteOfSecret(n),
   read_seq_num |-> c.read_seq_num,
   ready |-> c.ready \/ id = SERVER_TRAFFIC_SECRET]

(* set_cipher_suite_from_name: no wolfSSL name of a suite contains the text *)
(* "AES-128", so every AES suite counts as AES-256.                         *)
CipherFromName(s) == IF s = "CHACHA20_POLY" THEN s ELSE "AES_256_GCM"

-----------------------------------------------------------------------------
(* tls_read_peek *)

Record == [type: UINT8, len: UINT16, pad: Nat]

(* The record a client's TLS stack can have sealed: content, one type byte, *)
(* padding and tag fit its length, and its length the protocol's maximum.   *)
Sealed(r) == r.len \in (TAG_SIZE + 1 + r.pad)..MAX_RECORD
ContentLen(r) == r.len - TAG_SIZE - 1 - r.pad

(* recv(MSG_PEEK) fills at most the stack buffer raw.                       *)
RAW_SIZE == HEADER_SIZE + MAX_RECORD + TAG_SIZE
RawLen(n) == Min2(n, RAW_SIZE)

(* Mutant: the completeness check forgets the header. *)
MutHeaderAccepted(r, n) ==
  /\ RawLen(n) >= HEADER_SIZE /\ r.type = ApplicationData
  /\ RawLen(n) >= r.len /\ r.len > TAG_SIZE

(* The checks on the five header bytes, in the code's order.                *)
HeaderAccepted(r, n) ==
  /\ RawLen(n) >= HEADER_SIZE /\ r.type = ApplicationData
  /\ RawLen(n) >= HEADER_SIZE + r.len /\ r.len > TAG_SIZE

CtLen(r) == r.len - TAG_SIZE

(* The AEAD call of the context's suite.  Both functions read a key of      *)
(* KEY_SIZE bytes; the tag verifies if cipher, key, IV and number are those *)
(* the client sealed the record with.                                       *)
Opens(c) ==
  /\ Sealed(rec)
  /\ (c.cipher = "CHACHA20_POLY") = (suite = "CHACHA20_POLY")
  /\ c.key = ClientKey(suite) /\ KeyLen(suite) = KEY_SIZE
  /\ c.read_seq_num = seq

(* What tls_read_peek returns for a buffer of sz bytes.  Only the last byte *)
(* of the plaintext is stripped.                                            *)
TlsReadPeek(c, sz) ==
  IF c.ready /\ HeaderAccepted(rec, avail) /\ Opens(c)
  THEN Min2(CtLen(rec) - 1, sz) ELSE -1

(* tlspeek_restore_peek_ctx. *)
RestorePeekCtx(s) == [key |-> s.key, cipher |-> s.cipher,
                      read_seq_num |-> s.read_seq_num, ready |-> TRUE]

-----------------------------------------------------------------------------

Serials == [key: Derived, cipher: AllSuites \cup {"none"}, read_seq_num: Nat]
NoSerial == [key |-> Zeroed, cipher |-> "none", read_seq_num |-> 0]

TypeOK ==
  /\ suite \in AllSuites
  /\ stage \in {"handshake", "gateway", "flight", "peek", "serve", "served", "closed"}
  /\ fired \subseteq SecretIds
  /\ ctx \in Context
  /\ serial \in Serials
  /\ seq \in Nat
  /\ rec \in Record
  /\ avail \in Nat

Records == [type: RecordTypes, len: RecordLens, pad: Pads]

Init ==
  /\ suite \in Suites
  /\ stage = "handshake"
  /\ fired = {}
  /\ ctx = NoContext
  /\ serial = NoSerial
  /\ seq = 0
  /\ rec \in Records
  /\ avail = 0

(* wolfSSL derives a secret and calls the callback. *)
KeylogCb(id) ==
  /\ stage = "handshake" /\ id \notin fired
  /\ fired' = fired \cup {id}
  /\ ctx' = AfterCallback(ctx, id, HashLen(suite))
  /\ UNCHANGED <<suite, stage, serial, seq, rec, avail>>

(* wolfSSL_accept succeeds; a library built without the callback never      *)
(* called it, and the gateway closes the connection.                        *)
AcceptReturns ==
  /\ stage = "handshake" /\ fired \in {{}, SecretIds}
  /\ IF ctx.ready
     THEN /\ stage' = "gateway"
          /\ ctx' = [ctx EXCEPT !.cipher = CipherFromName(suite)]
     ELSE stage' = "closed" /\ UNCHANGED ctx
  /\ UNCHANGED <<suite, fired, serial, seq, rec, avail>>

(* More bytes of the stream arrive. *)
Arrive(n) ==
  /\ n > avail /\ stage # "closed"
  /\ avail' = n
  /\ UNCHANGED <<suite, stage, fired, ctx, serial, seq, rec>>

(* The gateway peeks and, if that succeeds, exports, frees the context and  *)
(* sends.                                                                   *)
GatewayPeek(sz) ==
  /\ stage = "gateway" /\ avail > 0
  /\ TlsReadPeek(ctx, sz) > 0
  /\ stage' = "flight"
  /\ serial' = [key |-> ctx.key, cipher |-> ctx.cipher,
                read_seq_num |-> ctx.read_seq_num]
  /\ ctx' = [ctx EXCEPT !.key = Zeroed, !.ready = FALSE]
  /\ UNCHANGED <<suite, fired, seq, rec, avail>>

GatewayPeekFails(sz) ==
  /\ stage = "gateway" /\ avail > 0
  /\ TlsReadPeek(ctx, sz) <= 0
  /\ stage' = "closed"
  /\ UNCHANGED <<suite, fired, ctx, serial, seq, rec, avail>>

(* A worker receives descriptor and state and restores the session.         *)
Restore ==
  /\ stage = "flight"
  /\ stage' = "peek"
  /\ UNCHANGED <<suite, fired, ctx, serial, seq, rec, avail>>

(* peek_owner_from_kernel; the request is this worker's, and it is read, or *)
(* another's, and descriptor and state travel on as they came.              *)
WorkerPeek(sz, mine) ==
  /\ stage = "peek" /\ avail > 0
  /\ TlsReadPeek(RestorePeekCtx(serial), sz) > 0
  /\ stage' = IF mine THEN "serve" ELSE "flight"
  /\ UNCHANGED <<suite, fired, ctx, serial, seq, rec, avail>>

WorkerPeekFails(sz) ==
  /\ stage = "peek" /\ avail > 0
  /\ TlsReadPeek(RestorePeekCtx(serial), sz) <= 0
  /\ stage' = "closed"
  /\ UNCHANGED <<suite, fired, ctx, serial, seq, rec, avail>>

(* wolfSSL_read takes a whole record out of the kernel; r is the one behind *)
(* it.  A request may need several.                                         *)
ReadRecord(r) ==
  /\ stage \in {"serve", "served"} /\ seq < MaxSeq
  /\ Sealed(rec) /\ rec.type = ApplicationData
  /\ avail >= HEADER_SIZE + rec.len
  /\ stage' = "served"
  /\ seq' = seq + 1
  /\ rec' = r
  /\ avail' = avail - (HEADER_SIZE + rec.len)
  /\ UNCHANGED <<suite, fired, ctx, serial>>

(* Mutant: export_live_serial keeps the number that came with the           *)
(* descriptor.                                                              *)
MutExportLiveSerial ==
  /\ stage = "served"
  /\ stage' = "peek"
  /\ serial' = [serial EXCEPT !.key = ClientKey(suite)]
  /\ UNCHANGED <<suite, fired, ctx, seq, rec, avail>>

(* export_live_serial after the response: key and record number of the live *)
(* session; the cipher_suite that came with the descriptor stays.           *)
ExportLiveSerial ==
  /\ stage = "served"
  /\ stage' = "peek"
  /\ serial' = [serial EXCEPT !.key = ClientKey(suite), !.read_seq_num = seq]
  /\ UNCHANGED <<suite, fired, ctx, seq, rec, avail>>

(* The holder closes: end of file, a failing call, Connection: close.       *)
Close ==
  /\ stage # "closed"
  /\ stage' = "closed"
  /\ UNCHANGED <<suite, fired, ctx, serial, seq, rec, avail>>

Next ==
  \/ \E id \in SecretIds : KeylogCb(id)
  \/ AcceptReturns
  \/ \E n \in Arrivals : Arrive(n)
  \/ \E sz \in BufSizes : GatewayPeek(sz) \/ GatewayPeekFails(sz) \/ WorkerPeekFails(sz)
  \/ Restore
  \/ \E sz \in BufSizes, mine \in BOOLEAN : WorkerPeek(sz, mine)
  \/ \E r \in Records : ReadRecord(r)
  \/ ExportLiveSerial
  \/ Close

Spec == Init /\ [][Next]_vars

-----------------------------------------------------------------------------
(* Properties *)

(***************************************************************************)
(* Whatever length a header claims and however much has arrived, an        *)
(* accepted record lies, tag included, within the bytes peeked, and its    *)
(* plaintext fits the stack buffer plaintext[TLSPEEK_MAX_RECORD].          *)
(***************************************************************************)
PeekInBounds ==
  HeaderAccepted(rec, avail) =>
    /\ HEADER_SIZE + CtLen(rec) + TAG_SIZE <= RawLen(avail)
    /\ CtLen(rec) \in 1..MAX_RECORD

(* A whole application record with some content is at the head of the       *)
(* kernel's buffer.                                                         *)
Peekable ==
  /\ Sealed(rec) /\ rec.type = ApplicationData
  /\ ContentLen(rec) > 0 /\ avail >= HEADER_SIZE + rec.len

(* The context of the process about to peek. *)
CurrentCtx == IF stage = "gateway" THEN ctx ELSE RestorePeekCtx(serial)

Shows(sz) == TlsReadPeek(CurrentCtx, sz) >= Min2(ContentLen(rec), sz)

(***************************************************************************)
(* With AES-256-GCM a peek shows at least the content that the next        *)
(* wolfSSL_read will return, in the gateway and in each worker the         *)
(* connection reaches, however many requests were read and however often   *)
(* it was passed on in between.                                            *)
(***************************************************************************)
PeekShowsContent ==
  suite = "AES_256_GCM" /\ stage \in {"gateway", "peek"} /\ Peekable =>
    \A sz \in BufSizes : Shows(sz)

(***************************************************************************)
(* tlspeek.h: "Stateless AES-GCM or ChaCha20-Poly1305 decryption".  The    *)
(* same for every suite the callback and the gateway tell apart.           *)
(***************************************************************************)
PeekShowsEverySuite ==
  stage \in {"gateway", "peek"} /\ Peekable => \A sz \in BufSizes : Shows(sz)

-----------------------------------------------------------------------------
(* The inductive invariant behind PeekShowsContent *)

(* With AES-256-GCM the exported state holds the client's key and, except   *)
(* while a request is being read, the number of the first record in the     *)
(* kernel.                                                                  *)
SerialMatches ==
  suite = "AES_256_GCM" /\ stage \in {"flight", "peek", "serve", "served"} =>
    /\ serial.key = ClientKey(suite)
    /\ serial.cipher # "CHACHA20_POLY"
    /\ stage # "served" => serial.read_seq_num = seq

(* During the handshake the callback's order does not matter. *)
HandshakeMatches ==
  stage \in {"handshake", "gateway"} =>
    /\ seq = 0 /\ ctx.read_seq_num = 0
    /\ ctx.ready <=> SERVER_TRAFFIC_SECRET \in fired
    /\ CLIENT_TRAFFIC_SECRET \in fired /\ suite = "AES_256_GCM" =>
         ctx.key = ClientKey(suite)
    /\ stage = "gateway" =>
         /\ fired = SecretIds
         /\ ctx.cipher = CipherFromName(suite)

PeekInv == TypeOK /\ SerialMatches /\ HandshakeMatches
=============================================================================
