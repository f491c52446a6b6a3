------------------------------- MODULE Shadow -------------------------------
(* shadowaead and shadowstream: a connection as a salt (an IV) and sealed  *)
(* blocks.  Both ends count: a block sealed with number k can be opened    *)
(* only by a reader that has counted to k (shadowstream counts the bytes   *)
(* of its key stream, and every byte is a block).                          *)
(*                                                                         *)
(* Data is its place in the stream.  The longest payload is MaxPayload     *)
(* units, in the code 0x3FFF bytes, and 2048 for shadowstream.             *)
EXTENDS Integers, Sequences

CONSTANTS MaxPayload,   \* payloadSizeMask; bufSize of shadowstream
          MaxUnits,     \* bound on the units written
          MaxSeals      \* bound on the blocks sealed

ASSUME ShadowAssumption == MaxPayload \in Nat \ {0} /\ MaxUnits \in Nat /\ MaxSeals \in Nat

VARIABLES cipher,       \* the kind
          salted,       \* c.w # nil: the salt is sent
          nonceW,       \* the writer's count
          put,          \* units written so far
          feeding,      \* a ReadFrom is under way
          wire,         \* blocks on their way
          stopped,      \* the connection has failed, for the writer
          keyed,        \* c.r # nil: the salt is read
          nonceR,       \* the reader's count
          left,         \* buf[off:] of the Reader, a pair of places
          copying,      \* a WriteTo is under way
          taken,        \* units handed out, in order; -1 once they are wrong
          failed,       \* what the last Read failed with
          marks         \* end marks of ReadFrom that the reader has met

shadowVars == <<cipher, salted, nonceW, put, feeding, wire, stopped, keyed, nonceR, left, copying, taken, failed, marks>>
writerVars == <<salted, nonceW, put, feeding, stopped>>
readerVars == <<keyed, nonceR, left, copying, taken, failed, marks>>

ShadowInit(K) ==
  /\ cipher \in K /\ salted = FALSE /\ nonceW = 0 /\ put = 0 /\ feeding = FALSE /\ wire = <<>> /\ stopped = FALSE
  /\ keyed = FALSE /\ nonceR = 0 /\ left = <<0, 0>> /\ copying = FALSE /\ taken = 0 /\ failed = "none" /\ marks = 0

-----------------------------------------------------------------------------
(* The writing end.                                                        *)

Salt == [is |-> "salt", seal |-> 0, from |-> 0, n |-> 0]
Size(k, from, n) == [is |-> "size", seal |-> k, from |-> from, n |-> n]
Payload(k, from, n) == [is |-> "payload", seal |-> k, from |-> from, n |-> n]

\* A mutant: the second increment of a chunk is forgotten.
CountsOnce(n) == IF cipher = "stream" THEN n ELSE 1

\* Seal, increment, Seal, increment.
Sealed(k, from, n) == IF cipher = "stream" THEN [i \in 1 .. n |-> Payload(k + i - 1, from + i - 1, 1)]
                      ELSE <<Size(k, from, n), Payload(k + 1, from, n)>>
Counts(n) == IF cipher = "stream" THEN n ELSE 2

\* Write cuts n units into c chunks, all but the last one of them full.  An empty Write
\* of the AEAD is a size alone.
Chunked(n, c) == (c - 1) * MaxPayload < n /\ n <= c * MaxPayload
Written(n, c) ==
  IF cipher = "stream" THEN Sealed(nonceW, put, n)
  ELSE IF n = 0 THEN <<Size(nonceW, put, 0)>>
  ELSE [j \in 1 .. 2 * c |->
          LET i == (j - 1) \div 2
              from == i * MaxPayload
              m == IF i < c - 1 THEN MaxPayload ELSE n - from
          IN IF j % 2 = 1 THEN Size(nonceW + i * Counts(m), put + from, m)
             ELSE Payload(nonceW + i * Counts(m) + 1, put + from, m)]
WrittenCount(n, c) == IF cipher = "stream" THEN n ELSE IF n = 0 THEN 1 ELSE c * Counts(n)

\* initWriter, and what goes out after it; nothing does on a failed connection.
Out(blocks) ==
  /\ salted' = (salted \/ ~stopped)
  /\ wire' = IF stopped THEN wire ELSE wire \o (IF salted THEN <<>> ELSE <<Salt>>) \o blocks
  /\ UNCHANGED <<cipher, stopped>> /\ UNCHANGED readerVars

Write(n) ==
  /\ ~feeding /\ put + n <= MaxUnits /\ nonceW < MaxSeals
  /\ \E c \in 0 .. n : /\ Chunked(n, c)
                       /\ Out(Written(n, c)) /\ nonceW' = nonceW + WrittenCount(n, c)
  /\ put' = put + n /\ UNCHANGED feeding

\* ReadFrom: every Read of the source is a chunk, the last one (at EOF) too, which
\* usually brings nothing: a size of 0 and an empty payload.
ReadFromChunk(n, eof) ==
  /\ n > 0 \/ eof
  /\ n <= MaxPayload /\ put + n <= MaxUnits /\ nonceW < MaxSeals
  /\ Out(Sealed(nonceW, put, n)) /\ put' = put + n /\ nonceW' = nonceW + Counts(n)
  /\ feeding' = (~eof /\ ~stopped)

Break == /\ ~stopped /\ stopped' = TRUE
         /\ UNCHANGED <<cipher, salted, nonceW, put, feeding, wire>> /\ UNCHANGED readerVars

-----------------------------------------------------------------------------
(* The reading end.  A Read that finds nothing waits, or fails when the    *)
(* connection has.                                                         *)

InitReader ==
  /\ ~keyed /\ wire # <<>> /\ wire[1].is = "salt"
  /\ keyed' = TRUE /\ wire' = Tail(wire)
  /\ UNCHANGED <<cipher, nonceR, left, copying, taken, failed, marks>> /\ UNCHANGED writerVars

Asking == keyed /\ failed \in {"none", "zero"} /\ left[1] = left[2]
Fails(why) == failed' = why /\ copying' = FALSE /\ UNCHANGED <<cipher, keyed, left, taken>> /\ UNCHANGED writerVars

\* Reader.read: a size that opens, and not 0, then a payload that opens.  With room
\* for all of it (large) the payload goes out at once, otherwise to buf.
ReadChunk(large) ==
  /\ Asking /\ cipher = "aead" /\ Len(wire) >= 2 /\ wire[1].seal = nonceR /\ wire[1].is = "size" /\ wire[1].n > 0
  /\ wire[2].seal = nonceR + 1
  /\ nonceR' = nonceR + 2 /\ wire' = SubSeq(wire, 3, Len(wire))
  /\ LET from == wire[2].from
         to == from + wire[2].n
     IN IF large THEN taken' = (IF taken = from THEN to ELSE -1) /\ UNCHANGED left
                 ELSE left' = <<from, to>> /\ UNCHANGED taken
  /\ failed' = "none" /\ UNCHANGED <<cipher, keyed, copying, marks>> /\ UNCHANGED writerVars

\* ErrZeroChunk: only the size is counted and taken.
ReadZero ==
  /\ Asking /\ cipher = "aead" /\ wire # <<>> /\ wire[1].seal = nonceR /\ wire[1].is = "size" /\ wire[1].n = 0
  /\ nonceR' = nonceR + 1 /\ wire' = Tail(wire)
  /\ marks' = marks + (IF Len(wire) > 1 /\ wire[2].is = "payload" THEN 1 ELSE 0)
  /\ Fails("zero")

\* A block that does not open: wrong number, or a payload where a size was expected.
ReadUnsealed ==
  /\ Asking /\ cipher = "aead" /\ wire # <<>>
  /\ \/ wire[1].seal # nonceR \/ wire[1].is # "size"
     \/ wire[1].n > 0 /\ Len(wire) >= 2 /\ wire[2].seal # nonceR + 1
  /\ Fails("unsealed") /\ UNCHANGED <<nonceR, wire, marks>>

\* shadowstream's Read: as much as there is and fits.
ReadStream(n) ==
  /\ Asking /\ cipher = "stream" /\ n > 0 /\ n <= Len(wire)
  /\ nonceR' = nonceR + n /\ wire' = SubSeq(wire, n + 1, Len(wire))
  /\ taken' = IF \A i \in 1 .. n : wire[i].seal = nonceR + i - 1 /\ wire[i].from = taken + i - 1 THEN taken + n ELSE -1
  /\ failed' = "none" /\ UNCHANGED <<cipher, keyed, left, copying, marks>> /\ UNCHANGED writerVars

\* The rest of a chunk, into a small buffer, or all of it in WriteTo.
ReadLeft(n) ==
  /\ keyed /\ left[1] < left[2] /\ n \in 1 .. left[2] - left[1] /\ (copying => n = left[2] - left[1])
  /\ taken' = (IF taken = left[1] THEN taken + n ELSE -1) /\ left' = <<left[1] + n, left[2]>>
  /\ UNCHANGED <<cipher, keyed, nonceR, wire, copying, failed, marks>> /\ UNCHANGED writerVars

WriteToBegins ==
  /\ keyed /\ ~copying /\ failed \in {"none", "zero"} /\ copying' = TRUE
  /\ UNCHANGED <<cipher, keyed, nonceR, wire, left, taken, failed, marks>> /\ UNCHANGED writerVars

ReadEnds == /\ Asking /\ stopped /\ wire = <<>> /\ Fails("eof") /\ UNCHANGED <<nonceR, wire, marks>>

ShadowNext ==
  \/ \E n \in 0 .. MaxUnits : Write(n) \/ \E eof \in BOOLEAN : ReadFromChunk(n, eof)
  \/ Break \/ InitReader \/ ReadZero \/ ReadUnsealed \/ WriteToBegins \/ ReadEnds
  \/ \E large \in BOOLEAN : (copying => ~large) /\ ReadChunk(large)
  \/ \E n \in 1 .. MaxUnits : ReadStream(n) \/ ReadLeft(n)

ShadowSpec == ShadowInit({"aead", "stream"}) /\ [][ShadowNext]_shadowVars

-----------------------------------------------------------------------------
(* Property.                                                               *)

\* Reader and writer count alike whatever mixture of Write, empty Write, ReadFrom, Read
\* and WriteTo they use: what is handed out is what was written, in order, all of it
\* when nothing is on its way, and no block fails to open.  The one exception is what
\* follows the end of a ReadFrom: its empty chunk is sealed with two numbers, of which
\* a reader counts one.
SealsOpenInOrder ==
  /\ taken >= 0
  /\ failed = "unsealed" => marks > 0
  /\ marks = 0 /\ ~stopped /\ wire = <<>> => taken + (left[2] - left[1]) = put
=============================================================================
