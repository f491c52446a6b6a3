---------------------------- MODULE SsrProtocol ----------------------------
(* ssr/protocol: a stream in records.  Encode cuts what is written into    *)
(* records with random padding; Decode takes the server's records, which   *)
(* have the same form, out of whatever pieces the connection delivers.     *)
(*                                                                         *)
(* Data is its place in the stream: a record carries n bytes from `from'.  *)
(* A record is described by what was written (at, n, bytes) and by what    *)
(* the reader will take from its fields (len, pos).                        *)
EXTENDS Integers, Sequences

CONSTANTS WriteSizes,   \* lengths of the client's Writes
          ReplySizes,   \* lengths of the server's records
          HeadSizes,    \* lengths that are tried for the head of the first Write
          PadLengths,   \* lengths that are tried for a padding, besides the longest
          MaxWrites,    \* bound on Writes and on records of the server
          MaxReads      \* bound on Reads from the connection

\* A head is an address of at most 259 bytes and up to 31 bytes behind it.
ASSUME SsrAssumption ==
  /\ WriteSizes \subseteq Nat /\ ReplySizes \subseteq Nat /\ PadLengths \subseteq Nat
  /\ HeadSizes \subseteq Nat /\ \A h \in HeadSizes : h <= 4 + 255 + 31
  /\ MaxWrites \in Nat /\ MaxReads \in Nat

VARIABLES proto,        \* the protocol
          sentHeader,   \* hasSentHeader
          packID,       \* packID
          up,           \* records the client has sent
          written,      \* bytes the client has written
          writes,       \* Writes so far
          down,         \* records the server has sent and Decode has not consumed
          replied,      \* bytes of the server's stream that were sent
          under,        \* underDecoded: bytes of down that have arrived
          recvID,       \* recvID
          out,          \* bytes decoded, in order; -1 once they are wrong
          err,          \* the error of Decode
          reads         \* Reads from the connection so far

ssrVars == <<proto, sentHeader, packID, up, written, writes, down, replied, under, recvID, out, err, reads>>

Chain == {"auth_chain_a", "auth_chain_b"}
Protocols == Chain \cup {"auth_aes128", "auth_sha1_v4"}
Overhead == CASE proto = "auth_aes128" -> 9 [] proto = "auth_sha1_v4" -> 7 [] OTHER -> 4

SsrInit(P) ==
  /\ proto \in P /\ sentHeader = FALSE /\ packID = 1 /\ up = <<>> /\ written = 0 /\ writes = 0
  /\ down = <<>> /\ replied = 0 /\ under = 0 /\ recvID = 1 /\ out = 0 /\ err = "none" /\ reads = 0

-----------------------------------------------------------------------------
(* The length of the padding: a random number.                             *)
Below(max) == {r \in PadLengths \cup {max - 1} : r >= 0 /\ r < max}

\* getRandDataLengthForPackData
AESPadding(n, full) ==
  LET rev == 1460 - n - 9 IN
  IF full >= 32 * 1024 - Overhead \/ rev = 0 THEN {0}
  ELSE IF rev > 0 THEN Below(rev) ELSE IF rev > -1460 THEN Below(rev + 1460) ELSE Below(32)

\* getRandDataLength
SHA1Padding(n) == IF n > 1200 THEN {0} ELSE IF n > 400 THEN Below(256) ELSE Below(512)

\* getRandLength of auth_chain_a, and of auth_chain_b, which prefers sizes below 1440
\* from two lists and falls back on the same steps.
ChainAPadding(n) ==
  IF n > 1440 THEN {0} ELSE IF n > 1300 THEN Below(31) ELSE IF n > 900 THEN Below(127)
  ELSE IF n > 400 THEN Below(521) ELSE Below(1021)
ChainBPadding(n) == IF n >= 1440 THEN {0} ELSE {0} \cup Below(1440 - n - Overhead) \cup ChainAPadding(n)

Padding(n, full) ==
  CASE proto = "auth_aes128" -> AESPadding(n, full) [] proto = "auth_sha1_v4" -> SHA1Padding(n)
    [] proto = "auth_chain_a" -> ChainAPadding(n) [] proto = "auth_chain_b" -> ChainBPadding(n)

-----------------------------------------------------------------------------
(* Records.                                                                *)

\* packRandData: a byte, or 255 and two bytes, before the padding.
RandPrefix(r) == IF r < 128 THEN 1 ELSE 3
RandPos(r) == IF r < 128 THEN (r + 1) + 4 ELSE (r + 3) + 4

\* A mutant: the prefix of the padding is counted with three bytes always.
PackedDataLengthLong(r, n) == 2 + 2 + 3 + r + n + 4

\* packData of auth_aes128 and auth_sha1_v4: packedDataLength.
PackedDataLength(r, n) == IF r < 128 THEN (2 + 2 + 3 + r + n + 4) - 2 ELSE 2 + 2 + 3 + r + n + 4

\* `hurt' is the part of the record that was damaged on its way, if any.
PackPadded(id, from, n, r) ==
  [id |-> id, hurt |-> "none", from |-> from, n |-> n, at |-> 4 + RandPrefix(r) + r, pos |-> RandPos(r),
   len |-> PackedDataLength(r, n) % 65536, bytes |-> 2 + 2 + RandPrefix(r) + r + n + 4]

\* In a chain the length of the data is sent, and the padding follows from it and
\* the hash of the record before, which both sides have.
PackChain(id, from, n, r) ==
  [id |-> id, hurt |-> "none", from |-> from, n |-> n, at |-> 2, pos |-> 2, len |-> n + r, bytes |-> 2 + n + r + 2]

PackData(id, from, n, r) == IF proto \in Chain THEN PackChain(id, from, n, r) ELSE PackPadded(id, from, n, r)

\* What Decode does with a record of which `left' bytes have come.  The length has a
\* code of its own, the whole record another.
JudgeSHA1(rec, left) ==
  IF left <= 4 THEN "wait"
  ELSE IF rec.hurt = "head" \/ rec.len >= 8192 \/ rec.len < 7 THEN "error"
  ELSE IF rec.len > left THEN "wait"
  ELSE IF rec.hurt = "body" \/ rec.len # rec.bytes THEN "error"
  ELSE "take"

\* The number of the record is in the key of both codes.
JudgeAES(rec, id, left) == IF left > 4 /\ rec.id # id THEN "error" ELSE JudgeSHA1(rec, left)

JudgeChain(rec, id, left) ==
  IF left <= 4 THEN "wait"
  ELSE IF rec.len >= 4096 THEN "error"
  ELSE IF 4 + rec.len > left THEN "wait"
  ELSE IF rec.hurt # "none" \/ rec.id # id \/ 4 + rec.len # rec.bytes THEN "error"
  ELSE "take"

Judge(rec, id, left) ==
  CASE proto = "auth_sha1_v4" -> JudgeSHA1(rec, left) [] proto = "auth_aes128" -> JudgeAES(rec, id, left)
    [] OTHER -> JudgeChain(rec, id, left)

\* Encode: what is left after the header, in chunks.
Chunk == IF proto \in Chain THEN 2800 ELSE 8100
ChunkCount(n) == (n + Chunk - 1) \div Chunk
ChunkLength(n, i) == IF i < ChunkCount(n) THEN Chunk ELSE n - (ChunkCount(n) - 1) * Chunk

\* getDataLength: the head of the first Write, by its type, and up to 31 bytes more.
HeadLengths(n) == {IF n < h THEN n ELSE h : h \in HeadSizes}

\* packAuthData: auth_aes128 and auth_sha1_v4 have a form of their own, with the head
\* of the data, and auth_aes128 sends none of it when that is empty; a chain puts its
\* first record behind the head.
AuthHead(h) == <<[id |-> 0, hurt |-> "none", from |-> 0, n |-> h, at |-> 0, pos |-> 0, len |-> 0, bytes |-> 0]>>
AESAuthData(h) == IF h = 0 THEN <<>> ELSE AuthHead(h)
ChainAuthData(h, r) == <<PackChain(packID, 0, h, r)>>
PackAuthData(h, r) ==
  CASE proto = "auth_aes128" -> AESAuthData(h) [] proto = "auth_sha1_v4" -> AuthHead(h) [] OTHER -> ChainAuthData(h, r)

Encode(n) ==
  /\ writes < MaxWrites
  /\ \E h \in IF sentHeader THEN {0} ELSE HeadLengths(n) : \E hr \in IF sentHeader THEN {0} ELSE Padding(h, n) :
       LET k == ChunkCount(n - h)
           head == IF sentHeader THEN <<>> ELSE PackAuthData(h, hr)
           first == packID + (IF proto \in Chain /\ ~sentHeader THEN 1 ELSE 0)
       IN \E pad \in [1 .. k -> UNION {Padding(ChunkLength(n - h, i), n) : i \in 1 .. k}] :
            /\ \A i \in 1 .. k : pad[i] \in Padding(ChunkLength(n - h, i), n)
            /\ up' = up \o head \o
                 [i \in 1 .. k |-> PackData(first + i - 1, written + h + (i - 1) * Chunk, ChunkLength(n - h, i), pad[i])]
            /\ packID' = first + k
  /\ sentHeader' = TRUE /\ written' = written + n /\ writes' = writes + 1
  /\ UNCHANGED <<proto, down, replied, under, recvID, out, err, reads>>

-----------------------------------------------------------------------------
(* The server's records, and Read.                                         *)

\* The server speaks the same records (the first of a chain begins with two bytes of its
\* own); one may arrive damaged.  (In a chain a damaged length reads as another one; that
\* is left out.)
Lead(id) == IF proto \in Chain /\ id = 1 THEN 2 ELSE 0

ServerSends(n) ==
  LET id == recvID + Len(down) IN
  /\ id <= MaxWrites
  /\ \E r \in Padding(n + Lead(id), n), hurt \in {"none", "body"} \cup (IF proto \in Chain THEN {} ELSE {"head"}) :
       down' = Append(down, [PackData(id, replied, n + Lead(id), r) EXCEPT !.hurt = hurt])
  /\ replied' = replied + n
  /\ UNCHANGED <<proto, sentHeader, packID, up, written, writes, under, recvID, out, err, reads>>

Total(q) == LET sum[i \in 0 .. Len(q)] == IF i = 0 THEN 0 ELSE sum[i - 1] + q[i].bytes IN sum[Len(q)]

\* Decode: records are taken as long as they are whole.
Decode(q, bytes) ==
  LET run[i \in 0 .. Len(q)] ==
        IF i = 0 THEN [n |-> 0, left |-> bytes, verdict |-> "take"]
        ELSE IF run[i - 1].verdict # "take" THEN run[i - 1]
        ELSE LET v == Judge(q[i], recvID + i - 1, run[i - 1].left)
             IN [n |-> run[i - 1].n + (IF v = "take" THEN 1 ELSE 0),
                 left |-> run[i - 1].left - (IF v = "take" THEN q[i].bytes ELSE 0), verdict |-> v]
  IN run[Len(q)]

\* The bytes that records 1 to k add to the output, which ends at o.
Output(o, k) ==
  LET at[i \in 0 .. k] ==
        IF i = 0 THEN o
        ELSE IF down[i].pos = down[i].at /\ down[i].from = at[i - 1]
             THEN at[i - 1] + down[i].n - Lead(recvID + i - 1) ELSE -1
  IN at[k]

\* Conn.Read: a piece arrives and is decoded as far as it goes.  After an error nobody
\* reads on (rawTrans would pass everything through undecoded).
Read(piece) ==
  /\ err = "none" /\ reads < MaxReads /\ under + piece <= Total(down)
  /\ LET d == Decode(down, under + piece) IN
     /\ out' = Output(out, d.n)
     /\ down' = SubSeq(down, d.n + 1, Len(down)) /\ recvID' = recvID + d.n
     /\ under' = IF d.verdict = "error" THEN 0 ELSE d.left
     /\ err' = IF d.verdict = "error" THEN "error" ELSE "none"
  /\ reads' = reads + 1
  /\ UNCHANGED <<proto, sentHeader, packID, up, written, writes, replied>>

\* Pieces end where it could matter: inside and at the end of a record's fields.
Pieces == LET rest == Total(down) - under IN
          {p \in {1, 4, 5, 7, rest - 1, rest} \cup {IF down = <<>> THEN 0 ELSE down[1].bytes - under} : p > 0 /\ p <= rest}

\* The two directions share no state, so they are checked one at a time.
Encodes == \E n \in WriteSizes : Encode(n)
Decodes == (\E n \in ReplySizes : ServerSends(n)) \/ (\E p \in Pieces : Read(p))

SsrSpec == SsrInit(Protocols) /\ [][Encodes \/ Decodes]_ssrVars

-----------------------------------------------------------------------------
(* Property.                                                               *)

\* What one side writes the other can take, however it is padded and cut: the records
\* of Encode carry the written bytes once and in order, under consecutive numbers, in
\* lengths that Decode accepts; and Decode of the server's records gives the server's
\* stream, all of it when all of it has arrived, and an error only at a damaged record.
\* (auth_aes128 sends no head for an empty first Write.)
RecordsAreUnderstood ==
  /\ \A i \in DOMAIN up :
       /\ up[i].from = (IF i = 1 THEN 0 ELSE up[i - 1].from + up[i - 1].n)
       /\ up[i].id > 0 => Judge(up[i], up[i].id, up[i].bytes + 1) = "take" /\ up[i].pos = up[i].at
       /\ i > 1 => up[i].id = up[i - 1].id + 1
  /\ up # <<>> => up[Len(up)].from + up[Len(up)].n = written
  /\ err = "error" => down[1].hurt # "none"
  /\ out >= 0 /\ out = (IF down = <<>> THEN replied ELSE down[1].from)
  /\ (err = "none" /\ down # <<>> /\ under = Total(down)) => under = 0
=============================================================================
