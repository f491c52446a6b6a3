------------------------------ MODULE Padding -------------------------------
(* The padded writer of an anytls client session: writeConn of session.go, *)
(* the schemes of padding/padding.go that cut its first packets into       *)
(* records, and the preamble of a connection (anytls/client.go).           *)
(*                                                                         *)
(* The frames written, one after the other, are the payload; unsent is     *)
(* the interval of it that b holds in writeConn.  A record is what one     *)
(* Write gives to the TLS connection: payload, and a waste frame.          *)
EXTENDS Integers, Sequences, FiniteSets

CONSTANTS Schemes,      \* what the server may send for a scheme
          FrameSizes,   \* lengths of the data of a frame
          MaxFrames     \* bound on the frames written

ASSUME PaddingAssumption == MaxFrames \in Nat /\ FrameSizes \subseteq Nat

HeaderOverHeadSize == 1 + 4 + 2
CheckMark == -1
Uint16(n) == n % 65536

VARIABLES scheme,       \* the PaddingFactory stored in padding
          buffering,    \* s.buffering
          given,        \* the frames given to writeConn: the length of each one's data, and
                        \* where the frame ends in the payload
          pktCounter,   \* s.pktCounter
          sendPadding,  \* s.sendPadding
          unsent,       \* what is not sent, while a call of writeConn runs
          pktSizes,     \* what is left of pktSizes in that call
          locked,       \* connLock
          preamble,     \* what was sent before the session
          tlsRecords,   \* what was sent since
          snapped       \* a Write to the connection has failed

padVars == <<scheme, buffering, given, pktCounter, sendPadding, unsent, pktSizes, locked,
             preamble, tlsRecords, snapped>>

\* A scheme has a stop and, for some packets, a list of ranges and check marks.  A
\* range is read in either order, its greater end is excluded, and one that is not
\* positive is skipped.
Lesser(r) == IF r[1] < r[2] THEN r[1] ELSE r[2]
Greater(r) == IF r[1] < r[2] THEN r[2] ELSE r[1]
GenerateSize(r) ==
  IF r = <<CheckMark>> THEN {CheckMark}
  ELSE IF Lesser(r) = Greater(r) THEN {Lesser(r)} ELSE Lesser(r) .. (Greater(r) - 1)

GenerateRecordPayloadSizes(s, pkt) ==
  LET all == IF pkt \in DOMAIN s.ranges THEN s.ranges[pkt] ELSE <<>>
      used == {i \in DOMAIN all : all[i] = <<CheckMark>> \/ Lesser(all[i]) > 0}
      place(i) == Cardinality({j \in used : j <= i}) IN
  {q \in [1 .. Cardinality(used) -> UNION {GenerateSize(all[i]) : i \in used}] :
      \A i \in used : q[place(i)] \in GenerateSize(all[i])}

\* createOutboundTLSConnection: the length and the zeros after the password.
Preamble(sizes) ==
  LET n == IF sizes = <<>> THEN 0 ELSE sizes[1] IN
  [field |-> Uint16(n), zeros |-> IF n > 0 THEN n ELSE 0]

\* The end of the first i frames in the payload.
End(q, i) == IF i = 0 THEN 0 ELSE q[i].end
Given(q, n) == Append(q, [n |-> n, end |-> End(q, Len(q)) + HeaderOverHeadSize + n])

\* A session that has been started: its settings are in the buffer.
PadInit(S, n) ==
  /\ scheme \in S /\ buffering = TRUE /\ given = Given(<<>>, n) /\ pktCounter = 0 /\ sendPadding = TRUE
  /\ unsent = [lo |-> 0, hi |-> 0] /\ pktSizes = <<>> /\ locked = FALSE /\ snapped = FALSE
  /\ tlsRecords = <<>> /\ \E q \in GenerateRecordPayloadSizes(scheme, 0) : preamble = Preamble(q)

Remain == unsent.hi - unsent.lo

-----------------------------------------------------------------------------
(* writeConn.                                                              *)

NoWaste == [size |-> 0, field |-> 0]
Waste(n) == [size |-> HeaderOverHeadSize + n, field |-> Uint16(n)]
Record(hi, waste) == [lo |-> unsent.lo, hi |-> hi, waste |-> waste]

\* A frame comes in: it is buffered, or everything since the last packet is sent.  The
\* sizes are those of the scheme that is stored at this moment.
WriteBuffered(n) ==
  /\ ~locked /\ ~snapped /\ buffering /\ Len(given) < MaxFrames
  /\ given' = Given(given, n)
  /\ UNCHANGED <<scheme, buffering, pktCounter, sendPadding, unsent, pktSizes, locked, preamble,
                 tlsRecords, snapped>>

WriteConn(n) ==
  /\ ~locked /\ ~snapped /\ ~buffering /\ Len(given) < MaxFrames
  /\ given' = Given(given, n)
  /\ unsent' = [unsent EXCEPT !.hi = End(given', Len(given'))]
  /\ locked' = TRUE
  /\ pktCounter' = IF sendPadding THEN pktCounter + 1 ELSE pktCounter
  /\ sendPadding' = (sendPadding /\ pktCounter' < scheme.stop)
  /\ pktSizes' \in IF sendPadding' THEN GenerateRecordPayloadSizes(scheme, pktCounter') ELSE {<<>>}
  /\ UNCHANGED <<scheme, buffering, preamble, tlsRecords, snapped>>

\* OpenStream, after its SYN.
StopBuffering ==
  /\ buffering /\ Len(given) > 1 /\ buffering' = FALSE
  /\ UNCHANGED <<scheme, given, pktCounter, sendPadding, unsent, pktSizes, locked, preamble,
                 tlsRecords, snapped>>

\* One Write to the connection; the call goes on with the other sizes from lo on.
Send(record, lo) ==
  /\ tlsRecords' = Append(tlsRecords, record)
  /\ unsent' = [unsent EXCEPT !.lo = lo]
  /\ UNCHANGED <<scheme, buffering, given, pktCounter, sendPadding, preamble, snapped>>

PassCheckMark ==
  /\ locked /\ pktSizes # <<>> /\ Head(pktSizes) = CheckMark
  /\ pktSizes' = IF Remain = 0 THEN <<>> ELSE Tail(pktSizes)
  /\ UNCHANGED <<scheme, buffering, given, pktCounter, sendPadding, unsent, locked, preamble,
                 tlsRecords, snapped>>

NextSize(l) == locked /\ pktSizes # <<>> /\ l # CheckMark /\ pktSizes' = Tail(pktSizes) /\ UNCHANGED locked

AllPayload(l) == NextSize(l) /\ Remain > l /\ Send(Record(unsent.lo + l, NoWaste), unsent.lo + l)

PaddingLen(l) == l - Remain - HeaderOverHeadSize
AfterLastKept == unsent.lo  \* mutant: b = nil is missing
AfterLast == unsent.hi

LastPayload(l) ==
  /\ NextSize(l) /\ Remain \in 1 .. l
  /\ Send(Record(unsent.hi, IF PaddingLen(l) > 0 THEN Waste(PaddingLen(l)) ELSE NoWaste), AfterLast)

AllPadding(l) == NextSize(l) /\ Remain = 0 /\ Send(Record(unsent.hi, Waste(l)), unsent.hi)

\* No size is left: the rest of the payload, if any, and return.
WriteRest ==
  /\ locked /\ pktSizes = <<>> /\ locked' = FALSE /\ UNCHANGED pktSizes
  /\ IF Remain = 0 THEN UNCHANGED <<scheme, buffering, given, pktCounter, sendPadding, unsent,
                                    preamble, tlsRecords, snapped>>
     ELSE Send(Record(unsent.hi, NoWaste), unsent.hi)

\* A Write fails, and with TLS every later one: the call returns, what it had is lost.
WriteFails ==
  /\ locked /\ (IF pktSizes = <<>> THEN Remain > 0 ELSE Head(pktSizes) # CheckMark)
  /\ snapped' = TRUE /\ locked' = FALSE /\ pktSizes' = <<>>
  /\ UNCHANGED <<scheme, buffering, given, pktCounter, sendPadding, unsent, preamble, tlsRecords>>

\* recvLoop: cmdUpdatePaddingScheme.  A scheme without a stop is refused.
UpdatePaddingScheme(s) ==
  /\ "stop" \in DOMAIN s /\ scheme' = s
  /\ UNCHANGED <<buffering, given, pktCounter, sendPadding, unsent, pktSizes, locked, preamble,
                 tlsRecords, snapped>>

PadNext ==
  \/ \E n \in FrameSizes : WriteBuffered(n) \/ WriteConn(n)
  \/ StopBuffering \/ PassCheckMark \/ WriteRest \/ WriteFails
  \/ \E l \in {Head(pktSizes \o <<CheckMark>>)} : AllPayload(l) \/ LastPayload(l) \/ AllPadding(l)
  \/ \E s \in Schemes : UpdatePaddingScheme(s)

PadSpec == (\E n \in Nat : PadInit({s \in Schemes : "stop" \in DOMAIN s}, n)) /\ [][PadNext]_padVars

-----------------------------------------------------------------------------
(* Property.                                                               *)

\* recvLoop of the other side finds its frames again: the payload arrives once and
\* without a gap, a waste frame stands only between two frames and is as long as it
\* says, and nothing written is left behind, whenever the scheme is replaced and
\* wherever it cuts.  The exceptions are a Write of 64 KiB or more, whose length does
\* not fit, and two kinds of schemes that GenerateRecordPayloadSizes accepts
\* (padding.go:65-87): one with a size of 64 KiB or more, which does not fit into the
\* length of a waste frame or of the preamble either, and one with a check mark for
\* packet 0, which the preamble takes for a length.
FramesSurvivePadding ==
  (\A i \in 1 .. Len(given) : Uint16(given[i].n) = given[i].n) =>
    /\ preamble.field = preamble.zeros
    /\ \A i \in 1 .. Len(tlsRecords) :
         /\ tlsRecords[i].lo = IF i = 1 THEN 0 ELSE tlsRecords[i - 1].hi
         /\ tlsRecords[i].waste # NoWaste =>
              /\ \E k \in 0 .. Len(given) : tlsRecords[i].hi = End(given, k)
              /\ tlsRecords[i].waste.size = HeaderOverHeadSize + tlsRecords[i].waste.field
    /\ (~locked /\ ~snapped /\ tlsRecords # <<>>) => tlsRecords[Len(tlsRecords)].hi = End(given, Len(given))
=============================================================================
