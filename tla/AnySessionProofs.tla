-------------------------- MODULE AnySessionProofs --------------------------
(***************************************************************************)
(* Proofs about the anytls session, for any number of streams and payloads.*)
(* SettingsComeFirst: the server never has a reason to refuse a client of  *)
(* this program, because the settings are the first thing it reads, through*)
(* the buffering of the first frames.  FinIsLast: a FIN finds a stream open*)
(* only when its reader has got all the data written before it.            *)
(***************************************************************************)
EXTENDS AnySession, SequenceTheorems, TLAPS

\* What the proof needs of the types: frames are frames, counters in range.
FramesOK ==
  /\ wire \in [Sides -> Seq(Frame)] /\ buffer \in Seq(Frame)
  /\ streamId \in 0 .. MaxStream
  /\ sent \in [Sides -> [Sids -> 0 .. MaxData]]

\* The client's settings come before everything else it has sent, on the wire
\* or, while that is empty, in the buffer.
SettingsFirst ==
  \/ settled = TRUE
  \/ wire["client"] # <<>> /\ Head(wire["client"]).cmd = "Settings"
  \/ wire["client"] = <<>> /\ buffer # <<>> /\ Head(buffer).cmd = "Settings"

\* The inductive invariant.
AlertIInv == FramesOK /\ SettingsFirst /\ NoAlert

\* The frames a side puts on the wire come after the ones that are there and
\* after the buffered ones.
LEMMA TransmitKeeps ==
  ASSUME AlertIInv, NEW e \in Sides, NEW f \in Frame, Transmit(e, f), f.cmd # "Alert",
         settled' = settled
  PROVE  /\ wire' \in [Sides -> Seq(Frame)] /\ buffer' \in Seq(Frame)
         /\ SettingsFirst' /\ NoAlert'
<1>0. /\ wire["client"] \in Seq(Frame) /\ wire["server"] \in Seq(Frame) /\ buffer \in Seq(Frame)
      /\ wire \in [Sides -> Seq(Frame)] /\ "client" \in Sides /\ "server" \in Sides
      /\ \A s : s \in Sides => s = "client" \/ s = "server"
  BY DEF AlertIInv, FramesOK, Sides
<1>1. CASE e = "client" /\ buffering
  <2>1. buffer' = Append(buffer, f) /\ wire' = wire BY <1>1 DEF Transmit
  <2>2. buffer' \in Seq(Frame) /\ buffer' # <<>> /\ (buffer # <<>> => Head(buffer') = Head(buffer))
    <3>1. buffer' \in Seq(Frame) /\ Len(buffer') = Len(buffer) + 1 /\ Len(buffer) \in Nat
      BY <1>0, <2>1
    <3>2. buffer' # <<>> BY <3>1
    <3>3. buffer # <<>> => Len(buffer) > 0 /\ buffer'[1] = buffer[1] BY <1>0, <2>1
    <3> QED BY <1>0, <3>1, <3>2, <3>3
  <2>3. SettingsFirst' BY <2>1, <2>2 DEF AlertIInv, SettingsFirst
  <2> QED BY <1>0, <2>1, <2>2, <2>3 DEF AlertIInv, NoAlert
<1>2. CASE ~(e = "client" /\ buffering) /\ e = "client"
  <2>1. wire' = [wire EXCEPT !["client"] = wire["client"] \o buffer \o <<f>>] /\ buffer' = <<>>
    BY <1>2 DEF Transmit
  <2>2. wire'["client"] = wire["client"] \o buffer \o <<f>> /\ wire'["server"] = wire["server"]
    BY <1>0, <2>1
  <2>3. wire["client"] \o buffer \o <<f>> \in Seq(Frame) BY <1>0
  <2>4. wire' \in [Sides -> Seq(Frame)] BY <1>0, <2>1, <2>3
  <2>5. wire["client"] # <<>> => wire'["client"] # <<>> /\ Head(wire'["client"]) = Head(wire["client"])
    BY <1>0, <2>2
  <2>6. wire["client"] = <<>> /\ buffer # <<>> =>
          wire'["client"] # <<>> /\ Head(wire'["client"]) = Head(buffer)
    BY <1>0, <2>2
  <2>7. SettingsFirst' BY <2>5, <2>6 DEF AlertIInv, SettingsFirst
  <2> QED BY <2>1, <2>2, <2>4, <2>7 DEF AlertIInv, NoAlert
<1>3. CASE e = "server"
  <2>1. wire' = [wire EXCEPT !["server"] = wire["server"] \o <<>> \o <<f>>] /\ buffer' = buffer
    BY <1>3 DEF Transmit
  <2>2. wire'["server"] = wire["server"] \o <<>> \o <<f>> /\ wire'["client"] = wire["client"]
    BY <1>0, <2>1
  <2>3. wire["server"] \o <<>> \o <<f>> = Append(wire["server"], f) BY <1>0
  <2>4. wire' \in [Sides -> Seq(Frame)] BY <1>0, <2>1, <2>3
  <2>5. SettingsFirst' BY <2>1, <2>2 DEF AlertIInv, SettingsFirst
  <2>6. NoAlert' BY <1>0, <2>2, <2>3 DEF AlertIInv, NoAlert
  <2> QED BY <1>0, <2>1, <2>4, <2>5, <2>6
<1> QED BY <1>0, <1>1, <1>2, <1>3

\* There are two sides, each the peer of the other.
LEMMA SideFacts ==
  /\ "client" \in Sides /\ "server" \in Sides /\ \A e \in Sides : e = "client" \/ e = "server"
  /\ Peer("client") = "server" /\ Peer("server") = "client"
BY DEF Sides, Peer

\* Whatever the server reads but the settings, it reads after them.
LEMMA ServerSettled ==
  ASSUME AlertIInv, NEW cmd, Receives("server", cmd), cmd # "Settings"
  PROVE  settled = TRUE
BY SideFacts DEF AlertIInv, SettingsFirst, Receives

\* A frame is read, by the server only once it has the settings.
LEMMA TakenKeeps ==
  ASSUME AlertIInv, NEW e \in Sides, wire[Peer(e)] # <<>>, wire' = Taken(e), buffer' = buffer,
         settled' = settled, e = "server" => settled = TRUE
  PROVE  /\ wire' \in [Sides -> Seq(Frame)]
         /\ SettingsFirst' /\ NoAlert'
<1>0. /\ wire["client"] \in Seq(Frame) /\ wire["server"] \in Seq(Frame)
      /\ wire \in [Sides -> Seq(Frame)]
  BY SideFacts DEF AlertIInv, FramesOK
<1>1. CASE e = "server"
  <2>1. wire' = [wire EXCEPT !["client"] = Tail(wire["client"])] /\ wire["client"] # <<>>
    BY <1>1, SideFacts DEF Taken
  <2>2. Tail(wire["client"]) \in Seq(Frame) BY <1>0, <2>1
  <2>3. wire' \in [Sides -> Seq(Frame)] /\ wire'["server"] = wire["server"]
    BY <1>0, <2>1, <2>2, SideFacts
  <2> QED BY <1>1, <2>3 DEF AlertIInv, SettingsFirst, NoAlert
<1>2. CASE e = "client"
  <2>1. wire' = [wire EXCEPT !["server"] = Tail(wire["server"])] /\ wire["server"] # <<>>
    BY <1>2, SideFacts DEF Taken
  <2>2. Tail(wire["server"]) \in Seq(Frame) BY <1>0, <2>1
  <2>3. /\ wire' \in [Sides -> Seq(Frame)] /\ wire'["client"] = wire["client"]
        /\ wire'["server"] = Tail(wire["server"])
    BY <1>0, <2>1, <2>2, SideFacts
  <2>4. SettingsFirst' BY <2>3 DEF AlertIInv, SettingsFirst
  <2>5. NoAlert'
    <3> DEFINE q == wire["server"]
    <3>1. q \in Seq(Frame) /\ q # <<>> /\ \A i \in 1 .. Len(q) : q[i].cmd # "Alert"
      BY <1>0, <2>1 DEF AlertIInv, NoAlert
    <3> HIDE DEF q
    <3>2. \A i \in 1 .. Len(Tail(q)) : i + 1 \in 1 .. Len(q) /\ Tail(q)[i] = q[i + 1]
      BY <3>1
    <3>3. \A i \in 1 .. Len(Tail(q)) : Tail(q)[i].cmd # "Alert" BY <3>1, <3>2
    <3> QED BY <2>3, <3>3 DEF NoAlert, q
  <2> QED BY <2>3, <2>4, <2>5
<1> QED BY <1>1, <1>2, SideFacts

\* newFrame gives a frame of its command.
LEMMA FrameIn ==
  ASSUME NEW cmd \in Commands, NEW s \in 0 .. MaxStream, NEW n \in 0 .. MaxData
  PROVE  frame(cmd, s, n) \in Frame /\ frame(cmd, s, n).cmd = cmd
BY DEF frame, Frame

\* NewClientSession has the settings in the buffer and nothing on the wire.
LEMMA AlertInit == Init => AlertIInv
<1> SUFFICES ASSUME Init PROVE AlertIInv OBVIOUS
<1>1. frame("Settings", 0, 0) \in Frame /\ frame("Settings", 0, 0).cmd = "Settings"
  BY FrameIn, BoundAssumption DEF Commands
<1>2. FramesOK
  <2>1. buffer \in Seq(Frame) BY <1>1 DEF Init
  <2>2. wire \in [Sides -> Seq(Frame)] BY DEF Init
  <2>3. sent \in [Sides -> [Sids -> 0 .. MaxData]] BY BoundAssumption DEF Init
  <2> QED BY <2>1, <2>2, <2>3, BoundAssumption DEF Init, FramesOK
<1>3. SettingsFirst BY <1>1, SideFacts DEF Init, SettingsFirst
<1>4. NoAlert BY SideFacts DEF Init, NoAlert
<1> QED BY <1>2, <1>3, <1>4 DEF AlertIInv

\* Every step keeps the invariant.
LEMMA AlertNext ==
  ASSUME AlertIInv, Next
  PROVE  AlertIInv'
<1> USE SideFacts
<1>0. FramesOK /\ SettingsFirst /\ NoAlert BY DEF AlertIInv
<1>1. CASE UNCHANGED <<wire, buffer, streamId, sent, settled>>
  BY <1>0, <1>1 DEF AlertIInv, FramesOK, SettingsFirst, NoAlert
<1>2. CASE OpenSyn
  <2>1. streamId' = streamId + 1 /\ streamId + 1 \in 0 .. MaxStream /\ sent' = sent /\ settled' = settled
    BY <1>0, <1>2, BoundAssumption DEF OpenSyn, FramesOK, serverVars, dataVars
  <2>2. CASE Transmit("client", frame("SYN", streamId + 1, 0))
    <3>1. frame("SYN", streamId + 1, 0) \in Frame /\ frame("SYN", streamId + 1, 0).cmd = "SYN"
      BY <2>1, FrameIn, BoundAssumption DEF Commands
    <3> QED BY <1>0, <2>1, <2>2, <3>1, TransmitKeeps DEF AlertIInv, FramesOK
  <2>3. CASE UNCHANGED <<wire, buffer>>
    BY <1>0, <2>1, <2>3 DEF AlertIInv, FramesOK, SettingsFirst, NoAlert
  <2> QED BY <1>2, <2>2, <2>3 DEF OpenSyn, ControlWritten, ControlFailed
<1>3. ASSUME NEW e \in Sides, NEW s \in Sids, Write(e, s) PROVE AlertIInv'
  <2>1. /\ sent[e][s] \in 0 .. MaxData /\ sent[e][s] + 1 \in 0 .. MaxData
        /\ sent' = [sent EXCEPT ![e] = [sent[e] EXCEPT ![s] = sent[e][s] + 1]]
        /\ streamId' = streamId /\ settled' = settled
    BY <1>0, <1>3, BoundAssumption DEF Write, FramesOK, serverVars, openVars
  <2>2. sent' \in [Sides -> [Sids -> 0 .. MaxData]]
    <3>1. [sent[e] EXCEPT ![s] = sent[e][s] + 1] \in [Sids -> 0 .. MaxData] BY <1>0, <2>1 DEF FramesOK
    <3> QED BY <1>0, <2>1, <3>1 DEF FramesOK
  <2> DEFINE f == frame("PSH", s, sent[e][s] + 1)
  <2>3. f \in Frame /\ f.cmd # "Alert" /\ Transmit(e, f)
    <3>1. s \in 0 .. MaxStream BY BoundAssumption DEF Sids
    <3> QED BY <1>3, <2>1, <3>1, FrameIn DEF Write, Commands
  <2> HIDE DEF f
  <2> QED BY <1>0, <2>1, <2>2, <2>3, TransmitKeeps DEF AlertIInv, FramesOK
<1>4. ASSUME NEW e \in Sides, NEW s \in Sids, StreamClosed(e, s) PROVE AlertIInv'
  <2>1. UNCHANGED <<streamId, sent, settled>>
    BY <1>4 DEF StreamClosed, serverVars, openVars, dataVars
  <2> DEFINE f == frame("FIN", s, sent[e][s])
  <2>2. f \in Frame /\ f.cmd # "Alert"
    <3>1. s \in 0 .. MaxStream BY BoundAssumption DEF Sids
    <3>2. sent[e][s] \in 0 .. MaxData BY <1>0 DEF FramesOK
    <3> QED BY <3>1, <3>2, FrameIn DEF Commands
  <2>3. UNCHANGED <<wire, buffer>> \/ Transmit(e, f)
    BY <1>4 DEF StreamClosed, ControlFailed
  <2> HIDE DEF f
  <2> QED BY <1>0, <1>1, <2>1, <2>2, <2>3, TransmitKeeps DEF AlertIInv, FramesOK
<1>5. ASSUME NEW s \in Sids, NEW cmd \in {"SYNACK", "SYNERR"}, HandshakeReport(s, cmd) PROVE AlertIInv'
  <2>1. UNCHANGED <<streamId, sent, settled>>
    BY <1>5 DEF HandshakeReport, serverVars, openVars, dataVars
  <2> DEFINE f == frame(cmd, s, 0)
  <2>2. f \in Frame /\ f.cmd # "Alert"
    <3>1. s \in 0 .. MaxStream BY BoundAssumption DEF Sids
    <3> QED BY <3>1, FrameIn, BoundAssumption DEF Commands
  <2>3. UNCHANGED <<wire, buffer>> \/ Transmit("server", f)
    BY <1>5 DEF HandshakeReport, ControlWritten, ControlFailed
  <2> HIDE DEF f
  <2> QED BY <1>0, <1>1, <2>1, <2>2, <2>3, TransmitKeeps DEF AlertIInv, FramesOK
<1>6. ASSUME NEW e \in Sides, NEW cmd, Receives(e, cmd), cmd # "Settings", wire' = Taken(e),
             UNCHANGED <<buffer, streamId, sent, settled>>
      PROVE  AlertIInv'
  <2>1. wire[Peer(e)] # <<>> BY <1>6 DEF Receives
  <2>2. e = "server" => settled = TRUE BY <1>6, ServerSettled
  <2> QED BY <1>0, <1>6, <2>1, <2>2, TakenKeeps DEF AlertIInv, FramesOK
<1>7. ASSUME NEW e \in Sides, RecvStep(e) PROVE AlertIInv'
  <2>1. CASE RecvPSH(e) BY <1>6, <2>1 DEF RecvPSH, ioVars, openVars, serverVars, dataVars
  <2>2. CASE RecvFIN(e) BY <1>6, <2>2 DEF RecvFIN, ioVars, openVars, serverVars, dataVars
  <2>3. CASE HandoverFails(e) \/ LoopEnd(e)
    BY <1>1, <2>3 DEF HandoverFails, LoopEnd, ioVars, openVars, serverVars, dataVars
  <2> QED BY <1>7, <2>1, <2>2, <2>3 DEF RecvStep
<1>8. CASE ClientRecv
  <2>1. ASSUME NEW cmd \in {"SYNACK", "SYNERR"}, RecvSYNACK(cmd) PROVE AlertIInv'
    BY <1>6, <2>1 DEF RecvSYNACK, serverVars, dataVars
  <2>2. CASE RecvServerSettings
    BY <1>6, <2>2 DEF RecvServerSettings, ioVars, openVars, dataVars
  <2> QED BY <1>8, <2>1, <2>2 DEF ClientRecv
<1>9. CASE RecvSYN
  <2>1. settled = TRUE /\ Receives("server", "SYN") BY <1>9, ServerSettled DEF RecvSYN
  <2>2. wire' = Taken("server") /\ UNCHANGED <<buffer, streamId, sent, settled>>
    BY <1>9, <2>1 DEF RecvSYN, openVars, serverVars, dataVars
  <2> QED BY <1>6, <2>1, <2>2
<1>10. CASE RecvSettings
  <2>1. /\ settled' = TRUE /\ UNCHANGED <<buffer, streamId, sent>> /\ wire["client"] # <<>>
    BY <1>10 DEF RecvSettings, Receives, openVars, dataVars
  <2>2. /\ wire \in [Sides -> Seq(Frame)] /\ wire["client"] \in Seq(Frame)
        /\ wire["server"] \in Seq(Frame) /\ Tail(wire["client"]) \in Seq(Frame)
    BY <1>0, <2>1 DEF FramesOK
  <2> DEFINE f == frame("ServerSettings", 0, 0)
  <2>3. f \in Frame /\ f.cmd # "Alert" BY FrameIn, BoundAssumption DEF Commands
  <2>4. Append(wire["server"], f) \in Seq(Frame) BY <2>2, <2>3
  <2>5. Taken("server") = [wire EXCEPT !["client"] = Tail(wire["client"])] BY DEF Taken
  <2>6. wire' \in [Sides -> Seq(Frame)]
        /\ (wire'["server"] = wire["server"] \/ wire'["server"] = Append(wire["server"], f))
    <3>1. CASE wire' = [Taken("server") EXCEPT !["server"] = Append(@, f)]
      BY <2>2, <2>4, <2>5, <3>1
    <3>2. CASE wire' = Taken("server") BY <2>2, <2>5, <3>2
    <3> QED BY <1>10, <3>1, <3>2 DEF RecvSettings
  <2> HIDE DEF f
  <2>7. NoAlert'
    <3>1. CASE wire'["server"] = wire["server"] BY <1>0, <3>1 DEF NoAlert
    <3>2. CASE wire'["server"] = Append(wire["server"], f)
      <4>1. /\ Len(Append(wire["server"], f)) = Len(wire["server"]) + 1
            /\ Append(wire["server"], f)[Len(wire["server"]) + 1] = f
            /\ \A i \in 1 .. Len(wire["server"]) : Append(wire["server"], f)[i] = wire["server"][i]
        BY <2>2, <2>3
      <4> QED BY <1>0, <2>2, <2>3, <3>2, <4>1 DEF NoAlert
    <3> QED BY <2>6, <3>1, <3>2
  <2> QED BY <1>0, <2>1, <2>6, <2>7 DEF AlertIInv, FramesOK, SettingsFirst
<1>11. CASE Break \/ OpenRegister \/ WatcherFires
  BY <1>1, <1>11 DEF Break, OpenRegister, WatcherFires, ioVars, openVars, serverVars, dataVars
<1>12. ASSUME NEW e \in Sides, NEW s \in Sids, Read(e, s) \/ StreamClose(e, s) PROVE AlertIInv'
  BY <1>1, <1>12 DEF Read, StreamClose, ioVars, openVars, serverVars, dataVars
<1> QED
  BY <1>2, <1>3, <1>4, <1>5, <1>7, <1>8, <1>9, <1>10, <1>11, <1>12 DEF Next, ServerRecv

\* The server of an anytls session never meets a SYN before the settings: the
\* client's writeConn puts the buffered settings before everything it sends.
THEOREM SettingsComeFirst == Spec => []NoAlert
<1>1. AlertIInv /\ [Next]_vars => AlertIInv'
  <2> SUFFICES ASSUME AlertIInv, [Next]_vars PROVE AlertIInv' OBVIOUS
  <2>1. CASE UNCHANGED vars
    BY <2>1 DEF vars, AlertIInv, FramesOK, SettingsFirst, NoAlert
  <2> QED BY <2>1, AlertNext
<1>2. AlertIInv => NoAlert BY DEF AlertIInv
<1> QED BY <1>1, <1>2, AlertInit, PTL DEF Spec
-----------------------------------------------------------------------------

(* A FIN comes after the data that was written before it, and after all of *)
(* it (FinComesAfterData).                                                 *)

\* What a side has sent and the other has not read: on the wire, and behind it in the
\* client's buffer.
Line(e) == IF e = "client" THEN wire["client"] \o buffer ELSE wire["server"]

\* The frames that matter to stream s.
IsPSH(f, s) == f.cmd = "PSH" /\ f.sid = s
IsFIN(f, s) == f.cmd = "FIN" /\ f.sid = s
IsSYN(f, s) == f.cmd = "SYN" /\ f.sid = s
\* recvLoop of e is handing over data of s.
HeldOf(e, s) == IsPSH(held[e], s)

\* Of m data frames those that are in q are in order, a FIN stands behind the data that it
\* counts and before other data, and a SYN before all of them.
Numbered(q, s, m) ==
  /\ \A j \in 1 .. Len(q) : IsPSH(q[j], s) => q[j].n \in 1 .. m
  /\ \A j \in 1 .. Len(q) : IsFIN(q[j], s) => q[j].n \in 0 .. m
  /\ \A j, k \in 1 .. Len(q) : j < k =>
       /\ IsPSH(q[j], s) /\ IsPSH(q[k], s) => q[j].n < q[k].n
       /\ IsPSH(q[j], s) /\ IsFIN(q[k], s) => q[j].n <= q[k].n
       /\ IsFIN(q[j], s) /\ IsPSH(q[k], s) => q[j].n < q[k].n
       /\ IsSYN(q[k], s) => ~IsPSH(q[j], s) /\ ~IsFIN(q[j], s) /\ ~IsSYN(q[j], s)

\* The data frames in q are those after the t-th of m.
Rest(q, s, m, t) ==
  /\ t \in 0 .. m
  /\ \A j \in 1 .. Len(q) : (IsPSH(q[j], s) => q[j].n > t) /\ (IsFIN(q[j], s) => q[j].n >= t)
  /\ \A k \in t + 1 .. m : \E j \in 1 .. Len(q) : IsPSH(q[j], s) /\ q[j].n = k

\* No frame of q is about s.
Absent(q, s) == \A j \in 1 .. Len(q) : ~IsPSH(q[j], s) /\ ~IsFIN(q[j], s) /\ ~IsSYN(q[j], s)

\* The numbers that a frame can name.
Ids == 0 .. MaxStream

\* What the proof needs of the types.
FinTypes ==
  /\ held \in [Sides -> Frame \cup {NoFrame}]
  /\ got \in [Sides -> [Sids -> Nat]]
  /\ opening \in 0 .. streamId
  /\ alive \in [Sides -> SUBSET Ids] /\ streams \in [Sides -> SUBSET Ids]
  /\ closing \in [Sides -> SUBSET Ids]
  /\ \A s \in alive["client"] \cup closing["client"] : s <= streamId

\* The order in both directions.
InOrder(s) == \A e \in Sides : Numbered(Line(e), s, sent[e][s])

\* Nothing is read that was not written; the server answers what it has read, and the
\* client writes on streams it has opened.
Causes(s) ==
  /\ \A e \in Sides : sent[Peer(e)][s] = 0 => got[e][s] = 0 /\ ~HeldOf(e, s)
  /\ got["server"][s] = 0 => sent["server"][s] = 0
  /\ s > streamId \/ s = opening => sent["client"][s] = 0
  /\ s > streamId => Absent(Line("client"), s)

\* Before its SYN is read nothing of a stream has been.
Announced(s) ==
  (\E j \in 1 .. Len(Line("client")) : IsSYN(Line("client")[j], s)) =>
    /\ got["server"][s] = 0 /\ ~HeldOf("server", s)
    /\ Rest(Line("client"), s, sent["client"][s], 0)

\* As long as a stream is open, what has been written to it is read, held or on its way.
Complete(e, s) ==
  s \in streams[e] /\ s \in alive[e] =>
    Rest(Line(Peer(e)), s, sent[Peer(e)][s], got[e][s] + (IF HeldOf(e, s) THEN 1 ELSE 0))

\* What the invariant says of a stream.
FinParts(s) == InOrder(s) /\ Causes(s) /\ Announced(s) /\ \A e \in Sides : Complete(e, s)

\* The inductive invariant.
FinIInv == AlertIInv /\ FinTypes /\ \A s \in Sids : FinParts(s)

-----------------------------------------------------------------------------
(* Lines that grow and shrink.                                             *)

\* A line that is one frame longer.
LEMMA Longer ==
  ASSUME NEW q \in Seq(Frame), NEW f \in Frame, NEW r, r = Append(q, f)
  PROVE  /\ r \in Seq(Frame) /\ Len(q) \in Nat /\ Len(r) = Len(q) + 1 /\ r[Len(q) + 1] = f
         /\ \A j \in 1 .. Len(q) : r[j] = q[j]
         /\ \A j \in 1 .. Len(r) : j \in 1 .. Len(q) \/ j = Len(q) + 1
OBVIOUS

\* A line without its first frame.
LEMMA Shorter ==
  ASSUME NEW q \in Seq(Frame), q # <<>>, NEW r, r = Tail(q)
  PROVE  /\ r \in Seq(Frame) /\ Len(q) \in Nat /\ 1 \in 1 .. Len(q) /\ Head(q) = q[1] /\ Len(r) = Len(q) - 1
         /\ \A j \in 1 .. Len(r) : j + 1 \in 1 .. Len(q) /\ r[j] = q[j + 1]
         /\ \A j \in 1 .. Len(q) : j = 1 \/ (j - 1 \in 1 .. Len(r) /\ r[j - 1] = q[j])
OBVIOUS

\* A frame that is not about s is sent.
LEMMA OtherSent ==
  ASSUME NEW q \in Seq(Frame), NEW f \in Frame, NEW r, r = Append(q, f), NEW s \in Sids, NEW m \in Nat,
         ~IsPSH(f, s), ~IsFIN(f, s), ~IsSYN(f, s)
  PROVE  /\ Numbered(q, s, m) => Numbered(r, s, m)
         /\ \A t \in Nat : Rest(q, s, m, t) => Rest(r, s, m, t)
         /\ Absent(q, s) => Absent(r, s)
         /\ (\E j \in 1 .. Len(r) : IsSYN(r[j], s)) => \E j \in 1 .. Len(q) : IsSYN(q[j], s)
<1>1. /\ r \in Seq(Frame) /\ Len(q) \in Nat /\ Len(r) = Len(q) + 1 /\ r[Len(q) + 1] = f
      /\ \A j \in 1 .. Len(q) : r[j] = q[j]
      /\ \A j \in 1 .. Len(r) : j \in 1 .. Len(q) \/ j = Len(q) + 1
  BY Longer
<1>2. \A j \in 1 .. Len(r) : IsPSH(r[j], s) \/ IsFIN(r[j], s) \/ IsSYN(r[j], s) => j \in 1 .. Len(q) /\ r[j] = q[j]
  BY <1>1
<1>3. \A j \in 1 .. Len(q) : j \in 1 .. Len(r) /\ r[j] = q[j]
  BY <1>1
<1>4. Numbered(q, s, m) => Numbered(r, s, m)
  BY <1>2 DEF Numbered
<1>5. ASSUME NEW t \in Nat, Rest(q, s, m, t) PROVE Rest(r, s, m, t)
  BY <1>2, <1>3, <1>5 DEF Rest
<1> QED
  BY <1>2, <1>4, <1>5 DEF Absent

\* The next data frame of s is sent.
LEMMA DataSent ==
  ASSUME NEW q \in Seq(Frame), NEW f \in Frame, NEW r, r = Append(q, f), NEW s \in Sids, NEW m \in Nat,
         IsPSH(f, s), f.n = m + 1, Numbered(q, s, m)
  PROVE  /\ Numbered(r, s, m + 1)
         /\ \A t \in Nat : Rest(q, s, m, t) => Rest(r, s, m + 1, t)
         /\ (\E j \in 1 .. Len(r) : IsSYN(r[j], s)) => \E j \in 1 .. Len(q) : IsSYN(q[j], s)
<1>1. /\ r \in Seq(Frame) /\ Len(q) \in Nat /\ Len(r) = Len(q) + 1 /\ r[Len(q) + 1] = f
      /\ \A j \in 1 .. Len(q) : r[j] = q[j]
      /\ \A j \in 1 .. Len(r) : j \in 1 .. Len(q) \/ j = Len(q) + 1
  BY Longer
<1>2. ~IsFIN(f, s) /\ ~IsSYN(f, s)
  BY DEF IsPSH, IsFIN, IsSYN
<1>3. Numbered(r, s, m + 1)
  BY <1>1, <1>2 DEF Numbered
<1>4. ASSUME NEW t \in Nat, Rest(q, s, m, t) PROVE Rest(r, s, m + 1, t)
  <2>1. t \in 0 .. m + 1
    BY <1>4 DEF Rest
  <2>2. \A j \in 1 .. Len(r) : (IsPSH(r[j], s) => r[j].n > t) /\ (IsFIN(r[j], s) => r[j].n >= t)
    BY <1>1, <1>2, <1>4 DEF Rest
  <2>3. ASSUME NEW k \in t + 1 .. m + 1 PROVE \E j \in 1 .. Len(r) : IsPSH(r[j], s) /\ r[j].n = k
    <3>1. CASE k = m + 1
      BY <1>1, <3>1
    <3>2. CASE k \in t + 1 .. m
      BY <1>1, <1>4, <3>2 DEF Rest
    <3> QED
      BY <3>1, <3>2
  <2> QED
    BY <2>1, <2>2, <2>3 DEF Rest
<1> QED
  BY <1>1, <1>2, <1>3, <1>4

\* A FIN of s, which counts the data, is sent.
LEMMA FinSent ==
  ASSUME NEW q \in Seq(Frame), NEW f \in Frame, NEW r, r = Append(q, f), NEW s \in Sids, NEW m \in Nat,
         IsFIN(f, s), f.n = m, Numbered(q, s, m)
  PROVE  /\ Numbered(r, s, m)
         /\ \A t \in Nat : Rest(q, s, m, t) => Rest(r, s, m, t)
         /\ (\E j \in 1 .. Len(r) : IsSYN(r[j], s)) => \E j \in 1 .. Len(q) : IsSYN(q[j], s)
<1>1. /\ r \in Seq(Frame) /\ Len(q) \in Nat /\ Len(r) = Len(q) + 1 /\ r[Len(q) + 1] = f
      /\ \A j \in 1 .. Len(q) : r[j] = q[j]
      /\ \A j \in 1 .. Len(r) : j \in 1 .. Len(q) \/ j = Len(q) + 1
  BY Longer
<1>2. ~IsPSH(f, s) /\ ~IsSYN(f, s)
  BY DEF IsPSH, IsFIN, IsSYN
<1>3. Numbered(r, s, m)
  BY <1>1, <1>2 DEF Numbered
<1>4. ASSUME NEW t \in Nat, Rest(q, s, m, t) PROVE Rest(r, s, m, t)
  <2>1. \A j \in 1 .. Len(r) : (IsPSH(r[j], s) => r[j].n > t) /\ (IsFIN(r[j], s) => r[j].n >= t)
    BY <1>1, <1>2, <1>4 DEF Rest
  <2>2. \A j \in 1 .. Len(q) : j \in 1 .. Len(r) /\ r[j] = q[j]
    BY <1>1
  <2> QED
    BY <1>4, <2>1, <2>2 DEF Rest
<1> QED
  BY <1>1, <1>2, <1>3, <1>4

\* The SYN of a new stream is sent.
LEMMA SynSent ==
  ASSUME NEW q \in Seq(Frame), NEW f \in Frame, NEW r, r = Append(q, f), NEW s \in Sids,
         IsSYN(f, s), Absent(q, s)
  PROVE  Numbered(r, s, 0) /\ Rest(r, s, 0, 0)
<1>1. /\ r \in Seq(Frame) /\ Len(q) \in Nat /\ Len(r) = Len(q) + 1 /\ r[Len(q) + 1] = f
      /\ \A j \in 1 .. Len(q) : r[j] = q[j]
      /\ \A j \in 1 .. Len(r) : j \in 1 .. Len(q) \/ j = Len(q) + 1
  BY Longer
<1>2. ~IsPSH(f, s) /\ ~IsFIN(f, s)
  BY DEF IsPSH, IsFIN, IsSYN
<1>3. \A j \in 1 .. Len(r) : ~IsPSH(r[j], s) /\ ~IsFIN(r[j], s)
  BY <1>1, <1>2 DEF Absent
<1>4. \A j \in 1 .. Len(r) : IsSYN(r[j], s) => j = Len(q) + 1
  BY <1>1 DEF Absent
<1>5. \A j, k \in 1 .. Len(r) : IsSYN(r[j], s) /\ IsSYN(r[k], s) => ~(j < k)
  BY <1>1, <1>4
<1> QED
  BY <1>3, <1>5 DEF Numbered, Rest

\* The first frame is read.
LEMMA FrameRead ==
  ASSUME NEW q \in Seq(Frame), q # <<>>, NEW r, r = Tail(q), NEW s \in Sids, NEW m \in Nat, Numbered(q, s, m)
  PROVE  /\ Numbered(r, s, m)
         /\ \A t \in Nat : Rest(q, s, m, t) => Rest(r, s, m, IF IsPSH(Head(q), s) THEN t + 1 ELSE t)
         /\ \A t \in Nat : Rest(q, s, m, t) /\ IsFIN(Head(q), s) => Head(q).n = t
         /\ Absent(q, s) => Absent(r, s)
         /\ (\E j \in 1 .. Len(r) : IsSYN(r[j], s)) =>
              /\ \E j \in 1 .. Len(q) : IsSYN(q[j], s)
              /\ ~IsPSH(Head(q), s) /\ ~IsFIN(Head(q), s) /\ ~IsSYN(Head(q), s)
<1>1. /\ r \in Seq(Frame) /\ Len(q) \in Nat /\ 1 \in 1 .. Len(q) /\ Head(q) = q[1] /\ Len(r) = Len(q) - 1
      /\ \A j \in 1 .. Len(r) : j + 1 \in 1 .. Len(q) /\ r[j] = q[j + 1]
      /\ \A j \in 1 .. Len(q) : j = 1 \/ (j - 1 \in 1 .. Len(r) /\ r[j - 1] = q[j])
  BY Shorter
<1>2. Numbered(r, s, m)
  BY <1>1 DEF Numbered
<1>3. ASSUME NEW j \in 1 .. Len(r), IsSYN(r[j], s)
      PROVE  /\ \E k \in 1 .. Len(q) : IsSYN(q[k], s)
             /\ ~IsPSH(Head(q), s) /\ ~IsFIN(Head(q), s) /\ ~IsSYN(Head(q), s)
  BY <1>1, <1>3 DEF Numbered
<1>4. ASSUME NEW t \in Nat, Rest(q, s, m, t), ~IsPSH(Head(q), s) PROVE Rest(r, s, m, t)
  <2>1. \A j \in 1 .. Len(r) : (IsPSH(r[j], s) => r[j].n > t) /\ (IsFIN(r[j], s) => r[j].n >= t)
    BY <1>1, <1>4 DEF Rest
  <2>2. ASSUME NEW k \in t + 1 .. m PROVE \E j \in 1 .. Len(r) : IsPSH(r[j], s) /\ r[j].n = k
    <3>1. PICK j \in 1 .. Len(q) : IsPSH(q[j], s) /\ q[j].n = k
      BY <1>4 DEF Rest
    <3>2. j # 1
      BY <1>1, <1>4, <3>1
    <3> QED
      BY <1>1, <3>1, <3>2
  <2> QED
    BY <1>4, <2>1, <2>2 DEF Rest
<1>5. ASSUME NEW t \in Nat, Rest(q, s, m, t), IsPSH(Head(q), s) PROVE Rest(r, s, m, t + 1)
  <2>1. q[1].n \in 1 .. m /\ q[1].n > t /\ t + 1 \in t + 1 .. m
    BY <1>1, <1>5 DEF Numbered, Rest
  <2>2. PICK i \in 1 .. Len(q) : IsPSH(q[i], s) /\ q[i].n = t + 1
    BY <1>5, <2>1 DEF Rest
  <2>3. ~(1 < i)
    BY <1>1, <1>5, <2>1, <2>2 DEF Numbered
  <2>4. q[1].n = t + 1
    <3>1. i = 1
      BY <2>3
    <3> QED
      BY <2>2, <3>1
  <2>5. \A j \in 1 .. Len(r) : (IsPSH(r[j], s) => r[j].n > t + 1) /\ (IsFIN(r[j], s) => r[j].n >= t + 1)
    <3>1. \A j \in 1 .. Len(r) : 1 < j + 1
      BY <1>1
    <3> QED
      BY <1>1, <1>5, <2>4, <3>1 DEF Numbered
  <2>6. ASSUME NEW k \in t + 2 .. m PROVE \E j \in 1 .. Len(r) : IsPSH(r[j], s) /\ r[j].n = k
    <3>1. k \in t + 1 .. m /\ k # t + 1
      OBVIOUS
    <3>2. PICK j \in 1 .. Len(q) : IsPSH(q[j], s) /\ q[j].n = k
      BY <1>5, <3>1 DEF Rest
    <3>3. j # 1
      BY <2>4, <3>1, <3>2
    <3> QED
      BY <1>1, <3>2, <3>3
  <2>7. t + 1 \in 0 .. m /\ (t + 1) + 1 = t + 2
    BY <2>1
  <2> QED
    BY <2>5, <2>6, <2>7 DEF Rest
<1>6. ASSUME NEW t \in Nat, Rest(q, s, m, t), IsFIN(Head(q), s) PROVE Head(q).n = t
  <2>1. q[1].n \in 0 .. m /\ q[1].n >= t
    BY <1>1, <1>6 DEF Numbered, Rest
  <2>2. ~(q[1].n > t)
    <3> SUFFICES ASSUME q[1].n > t PROVE FALSE
      OBVIOUS
    <3>1. q[1].n \in t + 1 .. m
      BY <2>1
    <3>2. PICK j \in 1 .. Len(q) : IsPSH(q[j], s) /\ q[j].n = q[1].n
      BY <1>6, <3>1 DEF Rest
    <3>3. j # 1
      BY <1>1, <1>6, <3>2 DEF IsPSH, IsFIN
    <3>4. 1 < j
      BY <3>3
    <3> QED
      BY <1>1, <1>6, <2>1, <3>2, <3>4 DEF Numbered
  <2> QED
    BY <1>1, <2>1, <2>2
<1>7. Absent(q, s) => Absent(r, s)
  BY <1>1 DEF Absent
<1> QED
  BY <1>2, <1>3, <1>4, <1>5, <1>6, <1>7

-----------------------------------------------------------------------------
(* Steps.                                                                  *)

\* What side p sends on s stays in order, and k data frames of it are read.
Moved(p, s, k) ==
  /\ Numbered(Line(p), s, sent[p][s])'
  /\ \A t \in Nat : Rest(Line(p), s, sent[p][s], t) => Rest(Line(p), s, sent[p][s], t + k)'

\* The SYN of s is on its way.
SynComing(s) == \E j \in 1 .. Len(Line("client")) : IsSYN(Line("client")[j], s)

\* The frame that recvLoop of e holds, as a number.
Holds(e, s) == IF HeldOf(e, s) THEN 1 ELSE 0

\* The lines are sequences of frames.
LEMMA LineType == ASSUME FramesOK, NEW e \in Sides PROVE Line(e) \in Seq(Frame)
<1>1. wire["client"] \in Seq(Frame) /\ wire["server"] \in Seq(Frame) /\ buffer \in Seq(Frame)
  BY SideFacts DEF FramesOK
<1>2. wire["client"] \o buffer \in Seq(Frame)
  BY <1>1
<1> QED
  BY <1>1, <1>2 DEF Line

\* What a step must show for a stream.
LEMMA Combine ==
  ASSUME FinTypes, FramesOK, NEW s \in Sids, FinParts(s), NEW took \in [Sides -> {0, 1}],
         \A p \in Sides : Moved(p, s, took[Peer(p)]),
         SynComing(s)' => SynComing(s) /\ took["server"] = 0,
         s > streamId' => Absent(Line("client"), s)',
         \A p \in Sides : sent'[p][s] \in Nat /\ sent'[p][s] >= sent[p][s],
         \A e \in Sides : got'[e][s] \in Nat /\ got'[e][s] >= got[e][s],
         sent'["client"][s] # sent["client"][s] => ~(s > streamId' \/ s = opening'),
         sent'["server"][s] # sent["server"][s] => got["server"][s] # 0,
         s > streamId' \/ s = opening' => s > streamId \/ s = opening,
         \A e \in Sides : got'[e][s] # got[e][s] => HeldOf(e, s),
         \A e \in Sides : HeldOf(e, s)' => HeldOf(e, s) \/ took[e] = 1,
         \A e \in Sides : took[e] = 1 => sent[Peer(e)][s] # 0
  PROVE  /\ InOrder(s)' /\ Causes(s)' /\ Announced(s)'
         /\ \A e \in Sides :
              (s \in streams'[e] /\ s \in alive'[e] =>
                 s \in streams[e] /\ s \in alive[e] /\ got'[e][s] + Holds(e, s)' = got[e][s] + Holds(e, s) + took[e])
              => Complete(e, s)'
<1>0. \A e \in Sides : Peer(e) \in Sides /\ Peer(Peer(e)) = e
  BY DEF Sides, Peer
<1>1. \A e \in Sides : sent[e][s] \in Nat /\ got[e][s] \in Nat
  BY BoundAssumption DEF FramesOK, FinTypes
<1>2. InOrder(s)'
  BY DEF Moved, InOrder
<1>3. Causes(s)'
  <2>1. ASSUME NEW e \in Sides, sent'[Peer(e)][s] = 0 PROVE got'[e][s] = 0 /\ ~HeldOf(e, s)'
    <3>1. sent[Peer(e)][s] = 0
      BY <1>0, <1>1, <2>1
    <3>2. got[e][s] = 0 /\ ~HeldOf(e, s)
      BY <3>1 DEF FinParts, Causes
    <3> QED
      BY <3>1, <3>2
  <2>2. got'["server"][s] = 0 => sent'["server"][s] = 0
    BY <1>1, SideFacts DEF FinParts, Causes
  <2>3. s > streamId' \/ s = opening' => sent'["client"][s] = 0
    BY DEF FinParts, Causes
  <2> QED
    BY <2>1, <2>2, <2>3 DEF Causes
<1>4. Announced(s)'
  <2> SUFFICES ASSUME SynComing(s)'
               PROVE  got'["server"][s] = 0 /\ ~HeldOf("server", s)' /\ Rest(Line("client"), s, sent["client"][s], 0)'
    BY DEF Announced, SynComing
  <2>1. SynComing(s) /\ took["server"] = 0
    OBVIOUS
  <2>2. got["server"][s] = 0 /\ ~HeldOf("server", s) /\ Rest(Line("client"), s, sent["client"][s], 0)
    BY <2>1 DEF FinParts, Announced, SynComing
  <2>3. Rest(Line("client"), s, sent["client"][s], 0 + 0)'
    BY <2>1, <2>2, SideFacts DEF Moved
  <2>4. got'["server"][s] = 0 /\ ~HeldOf("server", s)'
    BY <2>1, <2>2, SideFacts
  <2> QED
    BY <2>3, <2>4
<1>5. ASSUME NEW e \in Sides, s \in streams'[e], s \in alive'[e],
             s \in streams[e] /\ s \in alive[e] /\ got'[e][s] + Holds(e, s)' = got[e][s] + Holds(e, s) + took[e]
      PROVE  Rest(Line(Peer(e)), s, sent[Peer(e)][s], got[e][s] + (IF HeldOf(e, s) THEN 1 ELSE 0))'
  <2>1. PICK t \in Nat : t = got[e][s] + Holds(e, s)
    BY <1>1 DEF Holds
  <2>2. Rest(Line(Peer(e)), s, sent[Peer(e)][s], t)
    BY <1>5, <2>1 DEF FinParts, Complete, Holds
  <2>3. Rest(Line(Peer(e)), s, sent[Peer(e)][s], t + took[e])'
    BY <1>0, <2>2 DEF Moved
  <2>4. t + took[e] = got'[e][s] + Holds(e, s)'
    BY <1>5, <2>1
  <2> QED
    BY <2>3, <2>4 DEF Holds
<1> QED
  BY <1>2, <1>3, <1>4, <1>5 DEF Complete

\* A frame that is sent comes last on its side's line.
LEMMA LineSent ==
  ASSUME FramesOK, NEW e \in Sides, NEW f \in Frame, Transmit(e, f)
  PROVE  Line(e)' = Append(Line(e), f) /\ Line(Peer(e))' = Line(Peer(e))
<1>1. /\ wire \in [Sides -> Seq(Frame)] /\ wire["client"] \in Seq(Frame) /\ wire["server"] \in Seq(Frame)
      /\ buffer \in Seq(Frame)
  BY SideFacts DEF FramesOK
<1>2. CASE e = "client" /\ buffering
  <2>1. buffer' = Append(buffer, f) /\ wire' = wire
    BY <1>2 DEF Transmit
  <2>2. wire["client"] \o Append(buffer, f) = Append(wire["client"] \o buffer, f)
    <3>1. \A x, y \in Seq(Frame) : x \o y \in Seq(Frame) /\ Append(x, f) = x \o <<f>> /\ <<f>> \in Seq(Frame)
      BY AppendIsConcat
    <3>2. \A x, y, z \in Seq(Frame) : (x \o y) \o z = x \o (y \o z)
      BY ConcatAssociative
    <3>3. PICK w \in Seq(Frame), b \in Seq(Frame) : w = wire["client"] /\ b = buffer
      BY <1>1, Zenon
    <3>4. Append(b, f) = b \o <<f>> /\ w \o b \in Seq(Frame) /\ <<f>> \in Seq(Frame)
      BY <3>1, Zenon
    <3>5. Append(w \o b, f) = (w \o b) \o <<f>>
      BY <3>1, <3>4, Zenon
    <3>6. (w \o b) \o <<f>> = w \o (b \o <<f>>)
      BY <3>2, <3>4, Zenon
    <3>7. w \o Append(b, f) = Append(w \o b, f)
      BY <3>4, <3>5, <3>6, Zenon
    <3> QED
      BY <3>3, <3>7, Zenon
  <2> QED
    BY <1>2, <2>1, <2>2, SideFacts DEF Line
<1>3. CASE e = "client" /\ ~buffering
  <2>1. wire' = [wire EXCEPT !["client"] = wire["client"] \o buffer \o <<f>>] /\ buffer' = <<>>
    BY <1>3 DEF Transmit
  <2>2. wire'["client"] = wire["client"] \o buffer \o <<f>> /\ wire'["server"] = wire["server"]
    BY <1>1, <2>1, SideFacts
  <2>3. (wire["client"] \o buffer \o <<f>>) \o <<>> = Append(wire["client"] \o buffer, f)
    BY <1>1
  <2> QED
    BY <1>3, <2>1, <2>2, <2>3, SideFacts DEF Line
<1>4. CASE e = "server"
  <2>1. wire' = [wire EXCEPT !["server"] = wire["server"] \o <<>> \o <<f>>] /\ buffer' = buffer
    BY <1>4 DEF Transmit
  <2>2. wire'["server"] = wire["server"] \o <<>> \o <<f>> /\ wire'["client"] = wire["client"]
    BY <1>1, <2>1, SideFacts
  <2>3. wire["server"] \o <<>> \o <<f>> = Append(wire["server"], f)
    BY <1>1
  <2> QED
    BY <1>4, <2>1, <2>2, <2>3, SideFacts DEF Line
<1> QED
  BY <1>2, <1>3, <1>4, SideFacts

\* A frame that is read was the first on the line.
LEMMA LineRead ==
  ASSUME FramesOK, NEW e \in Sides, wire[Peer(e)] # <<>>
  PROVE  /\ Line(Peer(e)) # <<>> /\ Head(Line(Peer(e))) = Received(e)
         /\ wire' = Taken(e) /\ buffer' = buffer => Line(Peer(e))' = Tail(Line(Peer(e))) /\ Line(e)' = Line(e)
<1>1. /\ wire \in [Sides -> Seq(Frame)] /\ wire["client"] \in Seq(Frame) /\ wire["server"] \in Seq(Frame)
      /\ buffer \in Seq(Frame)
  BY SideFacts DEF FramesOK
<1>2. CASE e = "client"
  <2>1. wire' = Taken(e) => wire'["server"] = Tail(wire["server"]) /\ wire'["client"] = wire["client"]
    BY <1>1, <1>2, SideFacts DEF Taken
  <2> QED
    BY <1>2, <2>1, SideFacts DEF Line, Received
<1>3. CASE e = "server"
  <2>1. wire' = Taken(e) => wire'["client"] = Tail(wire["client"]) /\ wire'["server"] = wire["server"]
    BY <1>1, <1>3, SideFacts DEF Taken
  <2>2. wire["client"] # <<>>
    BY <1>3, SideFacts
  <2>3. /\ wire["client"] \o buffer # <<>> /\ Head(wire["client"] \o buffer) = Head(wire["client"])
        /\ Tail(wire["client"]) \o buffer = Tail(wire["client"] \o buffer)
    BY <1>1, <2>2
  <2> QED
    BY <1>3, <2>1, <2>3, SideFacts DEF Line, Received
<1> QED
  BY <1>2, <1>3, SideFacts

\* A side on whose line nothing happens.
LEMMA MovedNot ==
  ASSUME NEW s \in Sids, FinParts(s), NEW p \in Sides, Line(p)' = Line(p), sent'[p][s] = sent[p][s]
  PROVE  Moved(p, s, 0)
<1>1. Numbered(Line(p), s, sent[p][s])
  BY DEF FinParts, InOrder
<1>2. Numbered(Line(p), s, sent[p][s])' /\ \A t : Rest(Line(p), s, sent[p][s], t)' <=> Rest(Line(p), s, sent[p][s], t)
  BY <1>1 DEF Numbered, Rest
<1>3. \A t \in Nat : t + 0 = t
  OBVIOUS
<1> QED
  BY <1>2, <1>3 DEF Moved

\* Nothing is sent or read from a connection.
LEMMA StillKeeps ==
  ASSUME FinTypes, FramesOK, NEW s \in Sids, FinParts(s), UNCHANGED <<wire, buffer, sent, streamId>>,
         opening' = opening \/ opening' = 0,
         \A e \in Sides : /\ got'[e][s] \in Nat /\ got'[e][s] >= got[e][s]
                          /\ got'[e][s] # got[e][s] => HeldOf(e, s)
                          /\ HeldOf(e, s)' => HeldOf(e, s)
  PROVE  /\ InOrder(s)' /\ Causes(s)' /\ Announced(s)'
         /\ \A e \in Sides :
              (s \in streams'[e] /\ s \in alive'[e] =>
                 s \in streams[e] /\ s \in alive[e] /\ got'[e][s] + Holds(e, s)' = got[e][s] + Holds(e, s))
              => Complete(e, s)'
<1>1. PICK took \in [Sides -> {0, 1}] : \A e \in Sides : took[e] = 0
  <2>1. [e \in Sides |-> 0] \in [Sides -> {0, 1}] /\ \A e \in Sides : [x \in Sides |-> 0][e] = 0
    OBVIOUS
  <2> QED
    BY <2>1
<1>2. \A e \in Sides : Peer(e) \in Sides /\ sent[e][s] \in Nat /\ got[e][s] \in Nat
  BY BoundAssumption DEF FramesOK, FinTypes, Sides, Peer
<1>3. \A p \in Sides : Line(p)' = Line(p)
  BY DEF Line
<1>4. \A p \in Sides : Moved(p, s, took[Peer(p)])
  BY <1>1, <1>2, <1>3, MovedNot
<1>5. SynComing(s)' => SynComing(s)
  BY <1>3, SideFacts DEF SynComing
<1>6. s > streamId' => Absent(Line("client"), s)'
  BY <1>3, SideFacts DEF FinParts, Causes, Absent
<1>7. s # 0
  BY DEF Sids
<1>8. s > streamId' \/ s = opening' => s > streamId \/ s = opening
  BY <1>7
<1>9. \A e \in Sides : got[e][s] + Holds(e, s) + took[e] = got[e][s] + Holds(e, s)
  BY <1>1, <1>2 DEF Holds
<1> QED
  BY <1>1, <1>2, <1>4, <1>5, <1>6, <1>8, <1>9, SideFacts, Combine

\* Side p sends a frame f that is no SYN of s.
LEMMA SendKeeps ==
  ASSUME FinTypes, FramesOK, NEW s \in Sids, FinParts(s), NEW p \in Sides, NEW f \in Frame,
         Line(p)' = Append(Line(p), f), Line(Peer(p))' = Line(Peer(p)), UNCHANGED got, s = opening' => s = opening,
         streamId' \in Nat, streamId' >= streamId, ~IsSYN(f, s),
         \A e \in Sides : HeldOf(e, s)' <=> HeldOf(e, s),
         sent'[Peer(p)][s] = sent[Peer(p)][s],
         sent'[p][s] = IF IsPSH(f, s) THEN sent[p][s] + 1 ELSE sent[p][s],
         IsPSH(f, s) \/ IsFIN(f, s) => f.n = sent'[p][s] /\ (p = "client" => s <= streamId),
         IsPSH(f, s) => IF p = "client" THEN s # opening ELSE got["server"][s] # 0,
         \A e \in Sides : s \in streams'[e] /\ s \in alive'[e] => s \in streams[e] /\ s \in alive[e]
  PROVE  FinParts(s)'
<1>1. PICK took \in [Sides -> {0, 1}] : \A e \in Sides : took[e] = 0
  <2>1. [e \in Sides |-> 0] \in [Sides -> {0, 1}] /\ \A e \in Sides : [x \in Sides |-> 0][e] = 0
    OBVIOUS
  <2> QED
    BY <2>1
<1>2. \A e \in Sides : Peer(e) \in Sides /\ sent[e][s] \in Nat /\ got[e][s] \in Nat
  BY BoundAssumption DEF FramesOK, FinTypes, Sides, Peer
<1>3. \A e \in Sides : e = p \/ e = Peer(p)
  BY DEF Sides, Peer
<1>4. PICK q \in Seq(Frame) : q = Line(p)
  BY LineType
<1>5. PICK r : r = Line(p)' /\ r = Append(q, f)
  BY <1>4
<1>6. PICK m \in Nat : m = sent[p][s]
  BY <1>2
<1>7. Numbered(q, s, m)
  BY <1>4, <1>6 DEF FinParts, InOrder
<1>8. ~IsPSH(f, s) \/ (~IsFIN(f, s) /\ f.n = m + 1)
  BY <1>6 DEF IsPSH, IsFIN
<1>9. /\ Numbered(r, s, sent'[p][s])
      /\ \A t \in Nat : Rest(q, s, m, t) => Rest(r, s, sent'[p][s], t)
      /\ (\E j \in 1 .. Len(r) : IsSYN(r[j], s)) => \E j \in 1 .. Len(q) : IsSYN(q[j], s)
  <2>1. CASE IsPSH(f, s)
    <3>1. f.n = m + 1 /\ sent'[p][s] = m + 1
      BY <1>6, <2>1
    <3> QED
      BY <1>5, <1>7, <2>1, <3>1, DataSent
  <2>2. CASE IsFIN(f, s) /\ ~IsPSH(f, s)
    <3>1. f.n = m /\ sent'[p][s] = m
      BY <1>6, <2>2
    <3>2. /\ Numbered(r, s, m) /\ \A t \in Nat : Rest(q, s, m, t) => Rest(r, s, m, t)
          /\ (\E j \in 1 .. Len(r) : IsSYN(r[j], s)) => \E j \in 1 .. Len(q) : IsSYN(q[j], s)
      BY <1>5, <1>7, <2>2, <3>1, FinSent, Zenon
    <3> QED
      BY <3>1, <3>2
  <2>3. CASE ~IsFIN(f, s) /\ ~IsPSH(f, s)
    <3>1. sent'[p][s] = m
      BY <1>6, <2>3
    <3> QED
      BY <1>5, <1>7, <2>3, <3>1, OtherSent
  <2> QED
    BY <2>1, <2>2, <2>3
<1>10. \A t \in Nat : t + 0 = t
  OBVIOUS
<1>11. Moved(p, s, 0)
  BY <1>4, <1>5, <1>6, <1>9, <1>10 DEF Moved
<1>12. Moved(Peer(p), s, 0)
  BY <1>2, MovedNot
<1>13. \A x \in Sides : Moved(x, s, took[Peer(x)])
  BY <1>1, <1>2, <1>3, <1>11, <1>12
<1>14. SynComing(s)' => SynComing(s)
  <2>1. CASE p = "client"
    BY <1>4, <1>5, <1>9, <2>1 DEF SynComing
  <2>2. CASE p = "server"
    BY <2>2, SideFacts DEF SynComing
  <2> QED
    BY <2>1, <2>2, SideFacts
<1>15. streamId \in Nat /\ s \in Nat
  BY BoundAssumption DEF FramesOK, Sids
<1>16. s > streamId' => Absent(Line("client"), s)'
  <2> SUFFICES ASSUME s > streamId' PROVE Absent(Line("client"), s)'
    OBVIOUS
  <2>1. Absent(Line("client"), s)
    BY <1>15 DEF FinParts, Causes
  <2>2. CASE p = "client"
    <3>1. ~IsPSH(f, s) /\ ~IsFIN(f, s)
      BY <1>15, <2>2
    <3>2. Absent(r, s)
      BY <1>4, <1>5, <1>6, <2>1, <2>2, <3>1, OtherSent
    <3> QED
      BY <1>5, <2>2, <3>2 DEF Absent
  <2>3. CASE p = "server"
    BY <2>1, <2>3, SideFacts DEF Absent
  <2> QED
    BY <2>2, <2>3, SideFacts
<1>17. s > streamId' \/ s = opening' => s > streamId \/ s = opening
  BY <1>15
<1>18. \A x \in Sides : sent'[x][s] \in Nat /\ sent'[x][s] >= sent[x][s]
  BY <1>2, <1>3
<1>19. sent'["client"][s] # sent["client"][s] => ~(s > streamId' \/ s = opening')
  <2>1. CASE p = "client"
    BY <1>15, <2>1
  <2>2. CASE p = "server"
    BY <2>2, SideFacts
  <2> QED
    BY <2>1, <2>2, SideFacts
<1>20. sent'["server"][s] # sent["server"][s] => got["server"][s] # 0
  <2>1. CASE p = "client"
    BY <2>1, SideFacts
  <2>2. CASE p = "server"
    BY <2>2
  <2> QED
    BY <2>1, <2>2, SideFacts
<1>21. \A e \in Sides : got'[e][s] + Holds(e, s)' = got[e][s] + Holds(e, s) + took[e]
  BY <1>1, <1>2 DEF Holds
<1>22. /\ InOrder(s)' /\ Causes(s)' /\ Announced(s)'
       /\ \A e \in Sides :
            (s \in streams'[e] /\ s \in alive'[e] =>
               s \in streams[e] /\ s \in alive[e] /\ got'[e][s] + Holds(e, s)' = got[e][s] + Holds(e, s) + took[e])
            => Complete(e, s)'
  <2>1. \A e \in Sides : got'[e][s] \in Nat /\ got'[e][s] >= got[e][s] /\ got'[e][s] = got[e][s]
    BY <1>2
  <2>2. took["server"] = 0 /\ \A e \in Sides : took[e] # 1
    BY <1>1, SideFacts
  <2> QED
    BY <1>13, <1>14, <1>16, <1>17, <1>18, <1>19, <1>20, <2>1, <2>2, Combine, Zenon
<1> QED
  BY <1>21, <1>22 DEF FinParts

\* recvLoop of e reads a frame.
LEMMA TakeKeeps ==
  ASSUME FinTypes, FramesOK, NEW s \in Sids, FinParts(s), NEW e \in Sides, Line(Peer(e)) # <<>>,
         Line(Peer(e))' = Tail(Line(Peer(e))), Line(e)' = Line(e),
         UNCHANGED <<sent, got, streamId, opening>>,
         HeldOf(Peer(e), s)' <=> HeldOf(Peer(e), s),
         HeldOf(e, s)' => HeldOf(e, s) \/ IsPSH(Head(Line(Peer(e))), s),
         s \in streams'[Peer(e)] /\ s \in alive'[Peer(e)] => s \in streams[Peer(e)] /\ s \in alive[Peer(e)]
  PROVE  /\ InOrder(s)' /\ Causes(s)' /\ Announced(s)' /\ Complete(Peer(e), s)'
         /\ (s \in streams'[e] /\ s \in alive'[e] =>
               /\ s \in streams[e] /\ s \in alive[e]
               /\ Holds(e, s)' = Holds(e, s) + (IF IsPSH(Head(Line(Peer(e))), s) THEN 1 ELSE 0))
            => Complete(e, s)'
<1>1. PICK k \in {0, 1} : k = IF IsPSH(Head(Line(Peer(e))), s) THEN 1 ELSE 0
  OBVIOUS
<1>2. /\ Peer(e) \in Sides /\ Peer(Peer(e)) = e /\ Peer(e) # e
      /\ \A x \in Sides : Peer(x) \in Sides /\ (x = e \/ x = Peer(e))
  BY DEF Sides, Peer
<1>3. PICK took \in [Sides -> {0, 1}] : took[e] = k /\ took[Peer(e)] = 0
  <2>1. [x \in Sides |-> IF x = e THEN k ELSE 0] \in [Sides -> {0, 1}]
    BY <1>1
  <2> QED
    BY <1>2, <2>1
<1>4. \A x \in Sides : sent[x][s] \in Nat /\ got[x][s] \in Nat
  BY BoundAssumption DEF FramesOK, FinTypes
<1>5. PICK q \in Seq(Frame) : q = Line(Peer(e)) /\ q # <<>>
  BY <1>2, LineType
<1>6. PICK r : r = Line(Peer(e))' /\ r = Tail(q)
  BY <1>5
<1>7. PICK m \in Nat : m = sent[Peer(e)][s] /\ Numbered(q, s, m)
  BY <1>2, <1>4, <1>5 DEF FinParts, InOrder
<1>8. /\ Numbered(r, s, m)
      /\ \A t \in Nat : Rest(q, s, m, t) => Rest(r, s, m, IF IsPSH(Head(q), s) THEN t + 1 ELSE t)
      /\ Absent(q, s) => Absent(r, s)
      /\ (\E j \in 1 .. Len(r) : IsSYN(r[j], s)) =>
           /\ \E j \in 1 .. Len(q) : IsSYN(q[j], s)
           /\ ~IsPSH(Head(q), s) /\ ~IsFIN(Head(q), s) /\ ~IsSYN(Head(q), s)
  BY <1>5, <1>6, <1>7, FrameRead
<1>9. Moved(Peer(e), s, k)
  <2>1. \A t \in Nat : t + k = IF IsPSH(Head(q), s) THEN t + 1 ELSE t
    BY <1>1, <1>5
  <2>2. \A t \in Nat : Rest(q, s, m, t) => Rest(r, s, m, t + k)
    BY <1>8, <2>1
  <2> QED
    BY <1>5, <1>6, <1>7, <1>8, <2>2 DEF Moved
<1>10. Moved(e, s, 0)
  BY MovedNot
<1>11. \A p \in Sides : Moved(p, s, took[Peer(p)])
  BY <1>2, <1>3, <1>9, <1>10
<1>12. SynComing(s)' => SynComing(s) /\ took["server"] = 0
  <2>1. CASE e = "server"
    BY <1>1, <1>3, <1>5, <1>6, <1>8, <2>1, SideFacts DEF SynComing
  <2>2. CASE e = "client"
    BY <1>3, <2>2, SideFacts DEF SynComing
  <2> QED
    BY <2>1, <2>2, SideFacts
<1>13. s > streamId' => Absent(Line("client"), s)'
  <2> SUFFICES ASSUME s > streamId' PROVE Absent(Line("client"), s)'
    OBVIOUS
  <2>1. Absent(Line("client"), s)
    BY DEF FinParts, Causes
  <2>2. CASE e = "server"
    BY <1>5, <1>6, <1>8, <2>1, <2>2, SideFacts DEF Absent
  <2>3. CASE e = "client"
    BY <2>1, <2>3, SideFacts DEF Absent
  <2> QED
    BY <2>2, <2>3, SideFacts
<1>14. \A x \in Sides : took[x] = 1 => sent[Peer(x)][s] # 0
  <2>1. IsPSH(Head(q), s) => m # 0
    <3>1. 1 \in 1 .. Len(q) /\ Head(q) = q[1]
      BY <1>5
    <3> QED
      BY <1>7, <3>1 DEF Numbered
  <2> QED
    BY <1>1, <1>2, <1>3, <1>5, <1>7, <2>1
<1>15. \A x \in Sides : HeldOf(x, s)' => HeldOf(x, s) \/ took[x] = 1
  BY <1>1, <1>2, <1>3
<1>16. /\ InOrder(s)' /\ Causes(s)' /\ Announced(s)'
       /\ \A x \in Sides :
            (s \in streams'[x] /\ s \in alive'[x] =>
               s \in streams[x] /\ s \in alive[x] /\ got'[x][s] + Holds(x, s)' = got[x][s] + Holds(x, s) + took[x])
            => Complete(x, s)'
  BY <1>4, <1>11, <1>12, <1>13, <1>14, <1>15, Combine
<1>17. got'[Peer(e)][s] + Holds(Peer(e), s)' = got[Peer(e)][s] + Holds(Peer(e), s) + took[Peer(e)]
  BY <1>2, <1>3, <1>4 DEF Holds
<1>18. Complete(Peer(e), s)'
  BY <1>2, <1>16, <1>17
<1>19. Holds(e, s)' = Holds(e, s) + (IF IsPSH(Head(Line(Peer(e))), s) THEN 1 ELSE 0) =>
         got'[e][s] + Holds(e, s)' = got[e][s] + Holds(e, s) + took[e]
  BY <1>1, <1>3, <1>4 DEF Holds
<1> QED
  BY <1>16, <1>18, <1>19

\* Streams are forgotten and die.
Shrinks ==
  /\ alive' \in [Sides -> SUBSET Ids] /\ streams' \in [Sides -> SUBSET Ids]
  /\ \A e \in Sides : streams'[e] \subseteq streams[e] /\ alive'[e] \subseteq alive[e]

\* Close does no more than that to the streams of both sides.
LEMMA CloseShrinks ==
  ASSUME FinTypes, NEW e \in Sides, Close(e) \/ UNCHANGED closeVars
  PROVE  Shrinks
<1>0. /\ alive \in [Sides -> SUBSET Ids] /\ streams \in [Sides -> SUBSET Ids]
      /\ [alive EXCEPT ![e] = @ \ streams[e]] \in [Sides -> SUBSET Ids]
      /\ [streams EXCEPT ![e] = {}] \in [Sides -> SUBSET Ids]
  BY DEF FinTypes
<1>1. CASE UNCHANGED closeVars
  BY <1>0, <1>1 DEF closeVars, Shrinks
<1>2. CASE ~(UNCHANGED closeVars)
  <2>1. alive' = [alive EXCEPT ![e] = @ \ streams[e]] /\ streams' = [streams EXCEPT ![e] = {}]
    BY <1>2 DEF Close
  <2>2. \A x \in Sides : streams'[x] \subseteq streams[x] /\ alive'[x] \subseteq alive[x]
    BY <1>0, <2>1
  <2> QED
    BY <1>0, <2>1, <2>2 DEF Shrinks
<1> QED
  BY <1>1, <1>2

\* Nor does a control frame, written or not.
LEMMA ControlShrinks ==
  ASSUME FinTypes, NEW e \in Sides, NEW f, ControlWritten(e, f) \/ ControlFailed(e)
  PROVE  Shrinks
BY CloseShrinks DEF ControlWritten, ControlFailed

\* The types stay right when no stream is opened.
LEMMA TypesKept ==
  ASSUME FinTypes, FramesOK, Shrinks,
         held' \in [Sides -> Frame \cup {NoFrame}], got' \in [Sides -> [Sids -> Nat]],
         closing' \in [Sides -> SUBSET Ids],
         closing'["client"] \subseteq closing["client"] \cup alive["client"],
         streamId' \in 0 .. MaxStream, streamId' >= streamId, opening' \in 0 .. streamId'
  PROVE  FinTypes'
<1>1. streamId \in Nat /\ streamId' \in Nat /\ Ids \subseteq Nat
  BY BoundAssumption DEF FramesOK, Ids
<1>2. \A s \in alive'["client"] \cup closing'["client"] : s \in alive["client"] \cup closing["client"] /\ s \in Nat
  BY <1>1, SideFacts DEF Shrinks, FinTypes
<1>3. \A s \in alive'["client"] \cup closing'["client"] : s <= streamId'
  <2> TAKE s \in alive'["client"] \cup closing'["client"]
  <2>1. s <= streamId /\ s \in Nat
    BY <1>2 DEF FinTypes
  <2> QED
    BY <1>1, <2>1
<1> QED
  BY <1>3 DEF FinTypes, Shrinks

\* Steps beside the connection, in which no stream is opened.
LEMMA FinStill ==
  ASSUME FinIInv, FinTypes', Shrinks, UNCHANGED <<wire, buffer, sent, streamId, opening>>,
         \A e \in Sides, s \in Sids :
           \/ got'[e][s] = got[e][s] /\ (HeldOf(e, s)' <=> HeldOf(e, s))
           \/ got'[e][s] = got[e][s] /\ ~HeldOf(e, s)' /\ s \notin alive[e]
           \/ got'[e][s] = got[e][s] + 1 /\ HeldOf(e, s) /\ ~HeldOf(e, s)'
  PROVE  \A s \in Sids : FinParts(s)'
<1> TAKE s \in Sids
<1>1. FinTypes /\ FramesOK /\ FinParts(s)
  BY DEF FinIInv, AlertIInv, FinParts
<1>2. \A e \in Sides : got[e][s] \in Nat
  BY <1>1 DEF FinTypes
<1>3. \A e \in Sides : /\ got'[e][s] \in Nat /\ got'[e][s] >= got[e][s]
                       /\ got'[e][s] # got[e][s] => HeldOf(e, s)
                       /\ HeldOf(e, s)' => HeldOf(e, s)
  BY <1>2
<1>4. \A e \in Sides : s \in streams'[e] /\ s \in alive'[e] =>
        s \in streams[e] /\ s \in alive[e] /\ got'[e][s] + Holds(e, s)' = got[e][s] + Holds(e, s)
  BY <1>2 DEF Shrinks, Holds
<1>5. /\ InOrder(s)' /\ Causes(s)' /\ Announced(s)'
      /\ \A e \in Sides :
           (s \in streams'[e] /\ s \in alive'[e] =>
              s \in streams[e] /\ s \in alive[e] /\ got'[e][s] + Holds(e, s)' = got[e][s] + Holds(e, s))
           => Complete(e, s)'
  BY <1>1, <1>3, StillKeeps
<1> QED
  BY <1>4, <1>5 DEF FinParts

\* OpenStream registers its stream: nothing of it has been written yet by either side.
LEMMA FinRegister ==
  ASSUME FinIInv, OpenRegister
  PROVE  FinTypes' /\ \A s \in Sids : FinParts(s)'
<1>1. FinTypes /\ FramesOK
  BY DEF FinIInv, AlertIInv
<1>2. /\ UNCHANGED <<wire, buffer, sent, streamId, held, got, closing>> /\ opening' = 0
      /\ opening \in Sids /\ opening <= streamId
  BY <1>1, BoundAssumption DEF OpenRegister, serverVars, dataVars, FinTypes, Sids, FramesOK
<1>3. /\ alive' \in [Sides -> SUBSET Ids] /\ streams' \in [Sides -> SUBSET Ids]
      /\ alive'["server"] = alive["server"] /\ streams'["server"] = streams["server"]
      /\ alive'["client"] \subseteq alive["client"] \cup {opening}
      /\ streams'["client"] \subseteq streams["client"] \cup {opening}
  <2>1. opening \in Ids
    BY <1>2, BoundAssumption DEF Ids, Sids
  <2>2. /\ alive \in [Sides -> SUBSET Ids] /\ streams \in [Sides -> SUBSET Ids]
        /\ [streams EXCEPT !["client"] = @ \cup {opening}] \in [Sides -> SUBSET Ids]
        /\ [alive EXCEPT !["client"] = @ \cup {opening}] \in [Sides -> SUBSET Ids]
    BY <1>1, <2>1, SideFacts DEF FinTypes
  <2>3. \/ alive' = alive /\ streams' = streams
        \/ /\ streams' = [streams EXCEPT !["client"] = @ \cup {opening}]
           /\ alive' = [alive EXCEPT !["client"] = @ \cup {opening}]
    BY DEF OpenRegister
  <2> QED
    BY <2>2, <2>3, SideFacts
<1>4. FinTypes'
  <2>1. \A s \in alive'["client"] \cup closing'["client"] : s <= streamId'
    BY <1>1, <1>2, <1>3 DEF FinTypes
  <2> QED
    BY <1>1, <1>2, <1>3, <2>1, BoundAssumption DEF FinTypes, FramesOK
<1>5. ASSUME NEW s \in Sids PROVE FinParts(s)'
  <2>1. FinParts(s) /\ \A e \in Sides : got[e][s] \in Nat
    BY <1>1 DEF FinIInv, FinParts, FinTypes
  <2>2. /\ InOrder(s)' /\ Causes(s)' /\ Announced(s)'
        /\ \A e \in Sides :
             (s \in streams'[e] /\ s \in alive'[e] =>
                s \in streams[e] /\ s \in alive[e] /\ got'[e][s] + Holds(e, s)' = got[e][s] + Holds(e, s))
             => Complete(e, s)'
    BY <1>1, <1>2, <2>1, StillKeeps DEF HeldOf
  <2>3. \A e \in Sides : got'[e][s] + Holds(e, s)' = got[e][s] + Holds(e, s)
    BY <1>2 DEF Holds, HeldOf
  <2>4. Complete("server", s)'
    BY <1>3, <2>2, <2>3, SideFacts
  <2>5. CASE s # opening
    <3>1. Complete("client", s)'
      BY <1>3, <2>2, <2>3, <2>5, SideFacts
    <3> QED
      BY <2>2, <2>4, <3>1, SideFacts DEF FinParts
  <2>6. CASE s = opening
    <3>1. sent["client"][s] = 0
      BY <2>1, <2>6 DEF FinParts, Causes
    <3>2. got["server"][s] = 0
      BY <2>1, <3>1, SideFacts DEF FinParts, Causes
    <3>3. sent["server"][s] = 0
      BY <2>1, <3>2 DEF FinParts, Causes
    <3>4. got["client"][s] = 0 /\ ~HeldOf("client", s)
      BY <2>1, <3>3, SideFacts DEF FinParts, Causes
    <3>5. Numbered(Line("server"), s, 0)
      BY <2>1, <3>3, SideFacts DEF FinParts, InOrder
    <3>6. Rest(Line("server"), s, 0, 0)
      BY <3>5 DEF Numbered, Rest
    <3>7. Line("server")' = Line("server")
      BY <1>2 DEF Line
    <3>8. Complete("client", s)'
      BY <1>2, <3>3, <3>4, <3>6, <3>7, SideFacts DEF Complete, HeldOf
    <3> QED
      BY <2>2, <2>4, <3>8, SideFacts DEF FinParts
  <2> QED
    BY <2>5, <2>6
<1> QED
  BY <1>4, <1>5

\* A frame is sent on a stream that is open; OpenSyn is apart.
LEMMA FinSends ==
  ASSUME FinIInv, NEW p \in Sides, NEW s \in Sids, NEW f \in Frame, Transmit(p, f), Shrinks,
         f.cmd \in {"PSH", "FIN", "SYNACK", "SYNERR"}, f.sid = s,
         UNCHANGED <<got, opening, streamId>>,
         \A e \in Sides, x \in Sids : HeldOf(e, x)' <=> HeldOf(e, x),
         sent' = IF f.cmd = "PSH" THEN [sent EXCEPT ![p] = [sent[p] EXCEPT ![s] = sent[p][s] + 1]] ELSE sent,
         f.cmd = "PSH" => f.n = sent[p][s] + 1, f.cmd = "FIN" => f.n = sent[p][s],
         f.cmd \in {"PSH", "FIN"} /\ p = "client" => s <= streamId,
         f.cmd = "PSH" => IF p = "client" THEN s # opening ELSE got["server"][s] # 0
  PROVE  \A x \in Sids : FinParts(x)'
<1> TAKE x \in Sids
<1>1. FinTypes /\ FramesOK /\ FinParts(x)
  BY DEF FinIInv, AlertIInv, FinParts
<1>2. Line(p)' = Append(Line(p), f) /\ Line(Peer(p))' = Line(Peer(p))
  BY <1>1, LineSent
<1>3. streamId' \in Nat /\ streamId' >= streamId
  BY <1>1, BoundAssumption DEF FramesOK
<1>4. /\ sent \in [Sides -> [Sids -> 0 .. MaxData]] /\ Peer(p) # p /\ Peer(p) \in Sides
  BY <1>1 DEF FramesOK, Sides, Peer
<1>5. ~IsSYN(f, x) /\ (IsPSH(f, x) <=> f.cmd = "PSH" /\ x = s) /\ (IsFIN(f, x) <=> f.cmd = "FIN" /\ x = s)
  BY DEF IsPSH, IsFIN, IsSYN
<1>6. sent'[Peer(p)][x] = sent[Peer(p)][x] /\ sent'[p][x] = IF IsPSH(f, x) THEN sent[p][x] + 1 ELSE sent[p][x]
  BY <1>4, <1>5
<1>7. /\ IsPSH(f, x) \/ IsFIN(f, x) => f.n = sent'[p][x] /\ (p = "client" => x <= streamId)
      /\ IsPSH(f, x) => IF p = "client" THEN x # opening ELSE got["server"][x] # 0
  BY <1>5, <1>6
<1>8. \A e \in Sides : x \in streams'[e] /\ x \in alive'[e] => x \in streams[e] /\ x \in alive[e]
  BY DEF Shrinks
<1> QED
  BY <1>1, <1>2, <1>3, <1>5, <1>6, <1>7, <1>8, SendKeeps

\* OpenSyn: the SYN is the first frame of its stream.
LEMMA FinOpens ==
  ASSUME FinIInv, OpenSyn
  PROVE  FinTypes' /\ \A s \in Sids : FinParts(s)'
<1>1. FinTypes /\ FramesOK
  BY DEF FinIInv, AlertIInv
<1>2. /\ UNCHANGED <<sent, held, got, closing>> /\ streamId' = streamId + 1 /\ streamId + 1 \in Sids
      /\ opening = 0 /\ streamId \in Nat
  BY <1>1, BoundAssumption DEF OpenSyn, serverVars, dataVars, FramesOK, Sids
<1>3. Shrinks
  BY <1>1, SideFacts, ControlShrinks DEF OpenSyn
<1>4. FinTypes'
  <2>1. opening' \in 0 .. streamId' /\ streamId' \in 0 .. MaxStream /\ streamId' >= streamId
    BY <1>1, <1>2, BoundAssumption DEF OpenSyn, FramesOK, Sids
  <2>2. /\ held' \in [Sides -> Frame \cup {NoFrame}] /\ got' \in [Sides -> [Sids -> Nat]]
        /\ closing' \in [Sides -> SUBSET Ids] /\ closing'["client"] \subseteq closing["client"] \cup alive["client"]
    BY <1>1, <1>2 DEF FinTypes
  <2> QED
    BY <1>1, <1>3, <2>1, <2>2, TypesKept
<1>5. \A e \in Sides, x \in Sids : HeldOf(e, x)' <=> HeldOf(e, x)
  BY <1>2 DEF HeldOf
<1>6. CASE ControlWritten("client", frame("SYN", streamId + 1, 0)) /\ opening' = streamId + 1
  <2>1. PICK f \in Frame : f = frame("SYN", streamId + 1, 0) /\ f.cmd = "SYN" /\ f.sid = streamId + 1
    <3>1. streamId + 1 \in 0 .. MaxStream /\ 0 \in 0 .. MaxData /\ "SYN" \in Commands
      BY <1>2, BoundAssumption DEF Sids, Commands
    <3>2. frame("SYN", streamId + 1, 0) \in Frame
      BY <3>1, FrameIn
    <3>3. frame("SYN", streamId + 1, 0).cmd = "SYN" /\ frame("SYN", streamId + 1, 0).sid = streamId + 1
      BY DEF frame
    <3> QED
      BY <3>2, <3>3
  <2>2. Line("client")' = Append(Line("client"), f) /\ Line("server")' = Line("server")
    BY <1>1, <1>6, <2>1, LineSent, SideFacts DEF ControlWritten
  <2>3. ASSUME NEW s \in Sids PROVE FinParts(s)'
    <3>1. FinParts(s) /\ \A e \in Sides : sent[e][s] \in Nat /\ got[e][s] \in Nat
      BY <1>1, BoundAssumption DEF FinIInv, FinParts, FinTypes, FramesOK
    <3>2. CASE s # streamId + 1
      <4>1. opening' # s /\ streamId' \in Nat /\ streamId' >= streamId
        BY <1>2, <1>6, <3>2
      <4>2. ~IsSYN(f, s) /\ ~IsPSH(f, s) /\ ~IsFIN(f, s)
        BY <2>1, <3>2 DEF IsSYN, IsPSH, IsFIN
      <4>3. \A e \in Sides : s \in streams'[e] /\ s \in alive'[e] => s \in streams[e] /\ s \in alive[e]
        BY <1>3 DEF Shrinks
      <4> QED
        BY <1>1, <1>2, <1>5, <2>2, <3>1, <4>1, <4>2, <4>3, SendKeeps, SideFacts
    <3>3. CASE s = streamId + 1
      <4>1. Absent(Line("client"), s) /\ sent["client"][s] = 0
        BY <1>2, <3>1, <3>3 DEF FinParts, Causes
      <4>2. got["server"][s] = 0 /\ ~HeldOf("server", s)
        BY <3>1, <4>1, SideFacts DEF FinParts, Causes
      <4>3. IsSYN(f, s)
        BY <2>1, <3>3 DEF IsSYN
      <4>4. PICK q \in Seq(Frame) : q = Line("client")
        BY <1>1, LineType, SideFacts
      <4>5. Numbered(Append(q, f), s, 0) /\ Rest(Append(q, f), s, 0, 0)
        BY <4>1, <4>3, <4>4, SynSent
      <4>6. Numbered(Line("client"), s, sent["client"][s])' /\ Rest(Line("client"), s, sent["client"][s], 0)'
        BY <1>2, <2>2, <4>1, <4>4, <4>5
      <4>7. Numbered(Line("server"), s, sent["server"][s])' /\ InOrder(s)'
        <5>1. Numbered(Line("server"), s, sent["server"][s])
          BY <3>1, SideFacts DEF FinParts, InOrder
        <5>2. Numbered(Line("server"), s, sent["server"][s])'
          BY <1>2, <2>2, <5>1
        <5> QED
          BY <4>6, <5>2, SideFacts DEF InOrder
      <4>8. Causes(s)'
        <5>1. \A e \in Sides : sent'[Peer(e)][s] = 0 => got'[e][s] = 0 /\ ~HeldOf(e, s)'
          BY <1>2, <1>5, <3>1 DEF FinParts, Causes
        <5>2. sent'["client"][s] = 0 /\ (got'["server"][s] = 0 => sent'["server"][s] = 0) /\ ~(s > streamId')
          BY <1>2, <3>1, <3>3, <4>1 DEF FinParts, Causes
        <5> QED
          BY <5>1, <5>2 DEF Causes
      <4>9. Announced(s)'
        BY <1>2, <1>5, <4>2, <4>6, SideFacts DEF Announced
      <4>10. Complete("server", s)'
        BY <1>2, <1>5, <4>2, <4>6, SideFacts DEF Complete
      <4>11. Complete("client", s)'
        <5>1. s \in streams'["client"] /\ s \in alive'["client"] => s \in streams["client"] /\ s \in alive["client"]
          BY <1>3, SideFacts DEF Shrinks
        <5> QED
          BY <1>2, <1>5, <2>2, <3>1, <5>1, SideFacts DEF FinParts, Complete
      <4> QED
        BY <4>7, <4>8, <4>9, <4>10, <4>11, SideFacts DEF FinParts
    <3> QED
      BY <3>2, <3>3
  <2> QED
    BY <1>4, <2>3
<1>7. CASE ControlFailed("client") /\ opening' = 0
  <2> SUFFICES ASSUME NEW s \in Sids PROVE FinParts(s)'
    BY <1>4
  <2>1. FinParts(s) /\ s \in Nat /\ \A e \in Sides : Peer(e) \in Sides /\ sent[e][s] \in Nat /\ got[e][s] \in Nat
    BY <1>1, BoundAssumption DEF FinIInv, FinParts, FinTypes, FramesOK, Sids, Sides, Peer
  <2>2. PICK took \in [Sides -> {0, 1}] : \A e \in Sides : took[e] = 0
    <3>1. [e \in Sides |-> 0] \in [Sides -> {0, 1}] /\ \A e \in Sides : [x \in Sides |-> 0][e] = 0
      OBVIOUS
    <3> QED
      BY <3>1
  <2>3. \A p \in Sides : Line(p)' = Line(p) /\ sent'[p][s] = sent[p][s]
    BY <1>2, <1>7 DEF ControlFailed, Line
  <2>4. \A p \in Sides : Moved(p, s, took[Peer(p)])
    BY <2>1, <2>2, <2>3, MovedNot
  <2>5. SynComing(s)' => SynComing(s) /\ took["server"] = 0
    BY <2>2, <2>3, SideFacts DEF SynComing
  <2>6. s > streamId' \/ s = opening' => s > streamId
    BY <1>2, <1>7, <2>1 DEF Sids
  <2>7. s > streamId' => Absent(Line("client"), s)'
    BY <2>1, <2>3, <2>6, SideFacts DEF FinParts, Causes, Absent
  <2>8. \A e \in Sides : /\ got'[e][s] = got[e][s] /\ sent'[e][s] = sent[e][s] /\ took[e] # 1
                         /\ got'[e][s] \in Nat /\ got'[e][s] >= got[e][s]
                         /\ sent'[e][s] \in Nat /\ sent'[e][s] >= sent[e][s]
                         /\ HeldOf(e, s)' => HeldOf(e, s)
    BY <1>2, <1>5, <2>1, <2>2
  <2>9. /\ InOrder(s)' /\ Causes(s)' /\ Announced(s)'
        /\ \A e \in Sides :
             (s \in streams'[e] /\ s \in alive'[e] =>
                s \in streams[e] /\ s \in alive[e] /\ got'[e][s] + Holds(e, s)' = got[e][s] + Holds(e, s) + took[e])
             => Complete(e, s)'
    <3>1. sent'["client"][s] = sent["client"][s] /\ sent'["server"][s] = sent["server"][s]
      BY <2>8, SideFacts
    <3> QED
      BY <1>1, <2>1, <2>4, <2>5, <2>6, <2>7, <2>8, <3>1, Combine
  <2>10. \A e \in Sides : s \in streams'[e] /\ s \in alive'[e] =>
           s \in streams[e] /\ s \in alive[e] /\ got'[e][s] + Holds(e, s)' = got[e][s] + Holds(e, s) + took[e]
    BY <1>3, <1>5, <2>1, <2>2, <2>8 DEF Shrinks, Holds
  <2> QED
    BY <2>9, <2>10 DEF FinParts
<1> QED
  BY <1>6, <1>7 DEF OpenSyn

\* A data frame, a FIN or an answer is written, and nothing else happens on the connection.
LEMMA FinWrites ==
  ASSUME FinIInv, NEW e \in Sides, NEW s \in Sids, Write(e, s)
  PROVE  FinTypes' /\ \A x \in Sids : FinParts(x)'
<1>1. FinTypes /\ FramesOK
  BY DEF FinIInv, AlertIInv
<1>2. /\ sent[e][s] \in 0 .. MaxData /\ sent[e][s] + 1 \in 0 .. MaxData /\ s \in 0 .. MaxStream
      /\ sent' = [sent EXCEPT ![e] = [sent[e] EXCEPT ![s] = sent[e][s] + 1]]
      /\ UNCHANGED <<got, held, opening, streamId, closing>> /\ UNCHANGED closeVars
      /\ Transmit(e, frame("PSH", s, sent[e][s] + 1)) /\ Opened(e, s)
  BY <1>1, BoundAssumption DEF Write, FramesOK, openVars, Sids
<1>3. PICK f \in Frame : f = frame("PSH", s, sent[e][s] + 1) /\ f.cmd = "PSH" /\ f.sid = s /\ f.n = sent[e][s] + 1
  <2>1. frame("PSH", s, sent[e][s] + 1) \in Frame
    BY <1>2, FrameIn DEF Commands
  <2>2. /\ frame("PSH", s, sent[e][s] + 1).cmd = "PSH" /\ frame("PSH", s, sent[e][s] + 1).sid = s
        /\ frame("PSH", s, sent[e][s] + 1).n = sent[e][s] + 1
    BY DEF frame
  <2> QED
    BY <2>1, <2>2
<1>4. Shrinks
  BY <1>1, <1>2, CloseShrinks
<1>5. FinTypes'
  BY <1>1, <1>2 DEF FinTypes, closeVars
<1>6. \A x \in Sides, y \in Sids : HeldOf(x, y)' <=> HeldOf(x, y)
  BY <1>2 DEF HeldOf
<1>7. /\ e = "client" => s <= streamId /\ s # opening
      /\ e # "client" => got["server"][s] # 0
  <2>1. \A x \in Sides : got[x][s] \in Nat
    BY <1>1 DEF FinTypes
  <2> QED
    BY <1>2, <2>1, SideFacts DEF Opened
<1>8. Transmit(e, f)
  BY <1>2, <1>3
<1> QED
  BY <1>2, <1>3, <1>4, <1>5, <1>6, <1>7, <1>8, FinSends

\* streamClosed: a FIN goes out or the session is closed.
LEMMA FinCloses ==
  ASSUME FinIInv, NEW e \in Sides, NEW s \in Sids, StreamClosed(e, s)
  PROVE  FinTypes' /\ \A x \in Sids : FinParts(x)'
<1>1. FinTypes /\ FramesOK
  BY DEF FinIInv, AlertIInv
<1>2. /\ UNCHANGED <<sent, got, opening, streamId>> /\ s \in closing[e]
      /\ closing' = [closing EXCEPT ![e] = @ \ {s}]
  BY DEF StreamClosed, openVars, dataVars
<1>3. held' \in [Sides -> Frame \cup {NoFrame}] /\ \A x \in Sides, y \in Sids : HeldOf(x, y)' <=> HeldOf(x, y)
  <2>1. CASE held[e].cmd = "SYNERR" /\ held[e].sid = s
    <3>1. held' = [held EXCEPT ![e] = NoFrame]
      BY <2>1 DEF StreamClosed
    <3>2. NoFrame.cmd # "PSH"
      BY DEF NoFrame
    <3> QED
      BY <1>1, <2>1, <3>1, <3>2 DEF FinTypes, HeldOf, IsPSH
  <2>2. CASE ~(held[e].cmd = "SYNERR" /\ held[e].sid = s)
    BY <1>1, <2>2 DEF StreamClosed, FinTypes, HeldOf
  <2> QED
    BY <2>1, <2>2
<1>4. Shrinks
  <2>1. CASE UNCHANGED closeVars \/ ControlFailed(e)
    BY <1>1, <2>1, CloseShrinks DEF ControlFailed
  <2>2. CASE streams' = [streams EXCEPT ![e] = @ \ {s}] /\ alive' = alive
    <3>1. /\ streams \in [Sides -> SUBSET Ids] /\ alive \in [Sides -> SUBSET Ids]
          /\ [streams EXCEPT ![e] = @ \ {s}] \in [Sides -> SUBSET Ids]
      BY <1>1 DEF FinTypes
    <3>2. \A x \in Sides : streams'[x] \subseteq streams[x] /\ alive'[x] \subseteq alive[x]
      BY <2>2, <3>1
    <3> QED
      BY <2>2, <3>1, <3>2 DEF Shrinks
  <2> QED
    BY <2>1, <2>2 DEF StreamClosed
<1>5. FinTypes'
  <2>1. got' \in [Sides -> [Sids -> Nat]] /\ closing' \in [Sides -> SUBSET Ids]
    BY <1>1, <1>2 DEF FinTypes
  <2>2. closing'["client"] \subseteq closing["client"] \cup alive["client"]
    BY <1>1, <1>2, SideFacts DEF FinTypes
  <2>3. streamId' \in 0 .. MaxStream /\ streamId' >= streamId /\ opening' \in 0 .. streamId'
    BY <1>1, <1>2, BoundAssumption DEF FinTypes, FramesOK
  <2> QED
    BY <1>1, <1>3, <1>4, <2>1, <2>2, <2>3, TypesKept
<1>6. CASE UNCHANGED <<wire, buffer>>
  BY <1>2, <1>3, <1>4, <1>5, <1>6, FinStill
<1>7. CASE Transmit(e, frame("FIN", s, sent[e][s]))
  <2>1. PICK f \in Frame : f = frame("FIN", s, sent[e][s]) /\ f.cmd = "FIN" /\ f.sid = s /\ f.n = sent[e][s]
    <3>1. sent[e][s] \in 0 .. MaxData /\ s \in 0 .. MaxStream
      BY <1>1, BoundAssumption DEF FramesOK, Sids
    <3>2. frame("FIN", s, sent[e][s]) \in Frame
      BY <3>1, FrameIn DEF Commands
    <3>3. /\ frame("FIN", s, sent[e][s]).cmd = "FIN" /\ frame("FIN", s, sent[e][s]).sid = s
          /\ frame("FIN", s, sent[e][s]).n = sent[e][s]
      BY DEF frame
    <3> QED
      BY <3>2, <3>3
  <2>2. e = "client" => s <= streamId
    BY <1>1, <1>2 DEF FinTypes
  <2>3. \A x \in Sids : FinParts(x)'
    BY <1>2, <1>3, <1>4, <1>7, <2>1, <2>2, FinSends
  <2> QED
    BY <1>5, <2>3
<1> QED
  BY <1>6, <1>7 DEF StreamClosed, ControlFailed

\* The server reports on a stream.
LEMMA FinReports ==
  ASSUME FinIInv, NEW s \in Sids, NEW cmd \in {"SYNACK", "SYNERR"}, HandshakeReport(s, cmd)
  PROVE  FinTypes' /\ \A x \in Sids : FinParts(x)'
<1>1. FinTypes /\ FramesOK
  BY DEF FinIInv, AlertIInv
<1>2. UNCHANGED <<sent, got, opening, streamId, held, closing>>
  BY DEF HandshakeReport, openVars, dataVars
<1>3. \A x \in Sides, y \in Sids : HeldOf(x, y)' <=> HeldOf(x, y)
  BY <1>2 DEF HeldOf
<1>4. Shrinks
  BY <1>1, CloseShrinks, SideFacts DEF HandshakeReport, ControlWritten, ControlFailed
<1>5. FinTypes'
  <2>1. /\ held' \in [Sides -> Frame \cup {NoFrame}] /\ got' \in [Sides -> [Sids -> Nat]]
        /\ closing' \in [Sides -> SUBSET Ids] /\ closing'["client"] \subseteq closing["client"] \cup alive["client"]
    BY <1>1, <1>2 DEF FinTypes
  <2>2. streamId' \in 0 .. MaxStream /\ streamId' >= streamId /\ opening' \in 0 .. streamId'
    BY <1>1, <1>2, BoundAssumption DEF FinTypes, FramesOK
  <2> QED
    BY <1>1, <1>4, <2>1, <2>2, TypesKept
<1>6. CASE UNCHANGED <<wire, buffer>>
  BY <1>2, <1>3, <1>4, <1>5, <1>6, FinStill
<1>7. CASE Transmit("server", frame(cmd, s, 0))
  <2>1. PICK f \in Frame : f = frame(cmd, s, 0) /\ f.cmd = cmd /\ f.sid = s
    <3>1. 0 \in 0 .. MaxData /\ s \in 0 .. MaxStream /\ cmd \in Commands
      BY BoundAssumption DEF Sids, Commands
    <3>2. frame(cmd, s, 0) \in Frame
      BY <3>1, FrameIn
    <3>3. frame(cmd, s, 0).cmd = cmd /\ frame(cmd, s, 0).sid = s
      BY DEF frame
    <3> QED
      BY <3>2, <3>3
  <2>2. \A x \in Sids : FinParts(x)'
    BY <1>2, <1>3, <1>4, <1>7, <2>1, FinSends, SideFacts
  <2> QED
    BY <1>5, <2>2
<1> QED
  BY <1>6, <1>7 DEF HandshakeReport, ControlWritten, ControlFailed

\* Steps of a stream's users and of the receive loops that leave the connection alone.
LEMMA FinQuiet ==
  ASSUME FinIInv,
         \/ Break \/ WatcherFires
         \/ \E e \in Sides : HandoverFails(e) \/ LoopEnd(e)
         \/ \E e \in Sides, s \in Sids : Read(e, s) \/ StreamClose(e, s)
  PROVE  FinTypes' /\ \A x \in Sids : FinParts(x)'
<1>1. FinTypes /\ FramesOK
  BY DEF FinIInv, AlertIInv
<1>2. /\ UNCHANGED <<wire, buffer, sent, streamId, opening>>
      /\ streamId' \in 0 .. MaxStream /\ streamId' >= streamId /\ opening' \in 0 .. streamId'
  <2>1. UNCHANGED <<wire, buffer, sent, streamId, opening>>
    BY DEF Break, WatcherFires, HandoverFails, LoopEnd, Read, StreamClose, ioVars, openVars, dataVars
  <2> QED
    BY <1>1, <2>1, BoundAssumption DEF FinTypes, FramesOK
<1>3. NoFrame.cmd # "PSH"
  BY DEF NoFrame
<1>4. CASE Break \/ WatcherFires \/ \E e \in Sides : LoopEnd(e)
  <2>1. UNCHANGED <<held, got, closing>>
    BY <1>4 DEF Break, WatcherFires, LoopEnd, ioVars, dataVars
  <2>2. Shrinks
    <3>1. CASE Break
      BY <1>1, <3>1 DEF Break, Shrinks, FinTypes
    <3>2. CASE ~Break
      BY <1>1, <1>4, <3>2, CloseShrinks, SideFacts DEF WatcherFires, LoopEnd
    <3> QED
      BY <3>1, <3>2
  <2>3. FinTypes'
    <3>1. /\ held' \in [Sides -> Frame \cup {NoFrame}] /\ got' \in [Sides -> [Sids -> Nat]]
          /\ closing' \in [Sides -> SUBSET Ids] /\ closing'["client"] \subseteq closing["client"] \cup alive["client"]
      BY <1>1, <2>1 DEF FinTypes
    <3> QED
      BY <1>1, <1>2, <2>2, <3>1, TypesKept
  <2> QED
    BY <1>2, <2>1, <2>2, <2>3, FinStill DEF HeldOf
<1>5. ASSUME NEW e \in Sides, NEW s \in Sids, StreamClose(e, s)
      PROVE  FinTypes' /\ \A x \in Sids : FinParts(x)'
  <2>1. /\ UNCHANGED <<held, got, streams>> /\ s \in alive[e] /\ s \in Ids
        /\ alive' = [alive EXCEPT ![e] = @ \ {s}] /\ closing' = [closing EXCEPT ![e] = @ \cup {s}]
    BY <1>5, BoundAssumption DEF StreamClose, dataVars, Sids, Ids
  <2>2. /\ alive' \in [Sides -> SUBSET Ids] /\ closing' \in [Sides -> SUBSET Ids]
        /\ streams' \in [Sides -> SUBSET Ids]
    BY <1>1, <2>1 DEF FinTypes
  <2>3. Shrinks
    BY <1>1, <2>1, <2>2 DEF Shrinks, FinTypes
  <2>4. FinTypes'
    <3>1. /\ held' \in [Sides -> Frame \cup {NoFrame}] /\ got' \in [Sides -> [Sids -> Nat]]
          /\ closing'["client"] \subseteq closing["client"] \cup alive["client"]
      BY <1>1, <2>1, SideFacts DEF FinTypes
    <3> QED
      BY <1>1, <1>2, <2>2, <2>3, <3>1, TypesKept
  <2> QED
    BY <1>2, <2>1, <2>3, <2>4, FinStill DEF HeldOf
<1>6. ASSUME NEW e \in Sides, NEW s \in Sids, Read(e, s)
      PROVE  FinTypes' /\ \A x \in Sids : FinParts(x)'
  <2>1. /\ UNCHANGED closeVars /\ closing' = closing /\ held[e].cmd = "PSH" /\ held[e].sid = s
        /\ got' = [got EXCEPT ![e] = [got[e] EXCEPT ![s] = got[e][s] + 1]]
        /\ held' = [held EXCEPT ![e] = NoFrame]
    BY <1>6 DEF Read, ioVars
  <2>2. Shrinks
    BY <1>1, <2>1, CloseShrinks
  <2>3. got[e] \in [Sids -> Nat] /\ [got[e] EXCEPT ![s] = got[e][s] + 1] \in [Sids -> Nat]
    BY <1>1 DEF FinTypes
  <2>4. FinTypes'
    <3>1. /\ held' \in [Sides -> Frame \cup {NoFrame}] /\ got' \in [Sides -> [Sids -> Nat]]
          /\ closing' \in [Sides -> SUBSET Ids] /\ closing'["client"] \subseteq closing["client"] \cup alive["client"]
      BY <1>1, <2>1, <2>3 DEF FinTypes
    <3> QED
      BY <1>1, <1>2, <2>2, <3>1, TypesKept
  <2>5. ASSUME NEW y \in Sides, NEW x \in Sids
        PROVE  \/ got'[y][x] = got[y][x] /\ (HeldOf(y, x)' <=> HeldOf(y, x))
               \/ got'[y][x] = got[y][x] + 1 /\ HeldOf(y, x) /\ ~HeldOf(y, x)'
    <3>1. CASE y # e
      BY <1>1, <2>1, <3>1 DEF HeldOf, FinTypes
    <3>2. CASE y = e /\ x # s
      BY <1>1, <1>3, <2>1, <2>3, <3>2 DEF HeldOf, IsPSH, FinTypes
    <3>3. CASE y = e /\ x = s
      BY <1>1, <1>3, <2>1, <2>3, <3>3 DEF HeldOf, IsPSH, FinTypes
    <3> QED
      BY <3>1, <3>2, <3>3
  <2> QED
    BY <1>2, <2>2, <2>4, <2>5, FinStill
<1>7. ASSUME NEW e \in Sides, HandoverFails(e)
      PROVE  FinTypes' /\ \A x \in Sids : FinParts(x)'
  <2>1. /\ UNCHANGED closeVars /\ closing' = closing /\ got' = got /\ held[e].cmd = "PSH"
        /\ held[e].sid \notin alive[e] /\ held' = [held EXCEPT ![e] = NoFrame]
    BY <1>7 DEF HandoverFails, GivesUp, ioVars, dataVars
  <2>2. Shrinks
    BY <1>1, <2>1, CloseShrinks
  <2>3. FinTypes'
    <3>1. /\ held' \in [Sides -> Frame \cup {NoFrame}] /\ got' \in [Sides -> [Sids -> Nat]]
          /\ closing' \in [Sides -> SUBSET Ids] /\ closing'["client"] \subseteq closing["client"] \cup alive["client"]
      BY <1>1, <2>1 DEF FinTypes
    <3> QED
      BY <1>1, <1>2, <2>2, <3>1, TypesKept
  <2>4. ASSUME NEW y \in Sides, NEW x \in Sids
        PROVE  \/ got'[y][x] = got[y][x] /\ (HeldOf(y, x)' <=> HeldOf(y, x))
               \/ got'[y][x] = got[y][x] /\ ~HeldOf(y, x)' /\ x \notin alive[y]
    <3>1. CASE y # e
      BY <1>1, <2>1, <3>1 DEF HeldOf, FinTypes
    <3>2. CASE y = e
      BY <1>1, <1>3, <2>1, <3>2 DEF HeldOf, IsPSH, FinTypes
    <3> QED
      BY <3>1, <3>2
  <2> QED
    BY <1>2, <2>2, <2>3, <2>4, FinStill
<1> QED
  BY <1>4, <1>5, <1>6, <1>7

\* recvLoop of e reads a frame, and sends nothing.
LEMMA FinReads ==
  ASSUME FinIInv, NEW e \in Sides, wire[Peer(e)] # <<>>, wire' = Taken(e), buffer' = buffer,
         UNCHANGED <<sent, got, streamId, opening>>, held'[Peer(e)] = held[Peer(e)],
         \A s \in Sids : HeldOf(e, s)' => HeldOf(e, s) \/ IsPSH(Received(e), s),
         streams'[Peer(e)] \subseteq streams[Peer(e)], alive'[Peer(e)] \subseteq alive[Peer(e)],
         \A s \in Sids : s \in streams'[e] /\ s \in alive'[e] =>
            \/ /\ s \in streams[e] /\ s \in alive[e]
               /\ Holds(e, s)' = Holds(e, s) + (IF IsPSH(Received(e), s) THEN 1 ELSE 0)
            \/ Complete(e, s)'
  PROVE  \A s \in Sids : FinParts(s)'
<1> TAKE s \in Sids
<1>1. FinTypes /\ FramesOK /\ FinParts(s)
  BY DEF FinIInv, AlertIInv, FinParts
<1>2. /\ Line(Peer(e)) # <<>> /\ Head(Line(Peer(e))) = Received(e)
      /\ Line(Peer(e))' = Tail(Line(Peer(e))) /\ Line(e)' = Line(e)
  BY <1>1, LineRead
<1>3. HeldOf(Peer(e), s)' <=> HeldOf(Peer(e), s)
  BY DEF HeldOf
<1>4. s \in streams'[Peer(e)] /\ s \in alive'[Peer(e)] => s \in streams[Peer(e)] /\ s \in alive[Peer(e)]
  OBVIOUS
<1>5. /\ InOrder(s)' /\ Causes(s)' /\ Announced(s)' /\ Complete(Peer(e), s)'
      /\ (s \in streams'[e] /\ s \in alive'[e] =>
            /\ s \in streams[e] /\ s \in alive[e]
            /\ Holds(e, s)' = Holds(e, s) + (IF IsPSH(Head(Line(Peer(e))), s) THEN 1 ELSE 0))
         => Complete(e, s)'
  BY <1>1, <1>2, <1>3, <1>4, TakeKeeps
<1>6. Complete(e, s)'
  BY <1>2, <1>5 DEF Complete
<1>7. \A x \in Sides : x = e \/ x = Peer(e)
  BY DEF Sides, Peer
<1> QED
  BY <1>5, <1>6, <1>7 DEF FinParts

\* recvLoop hands data to its stream, or drops it.
LEMMA FinRecvPSH ==
  ASSUME FinIInv, NEW e \in Sides, RecvPSH(e)
  PROVE  FinTypes' /\ \A s \in Sids : FinParts(s)'
<1>1. FinTypes /\ FramesOK
  BY DEF FinIInv, AlertIInv
<1>2. /\ held[e] = NoFrame /\ wire[Peer(e)] # <<>> /\ Received(e).cmd = "PSH" /\ wire' = Taken(e)
      /\ UNCHANGED closeVars /\ UNCHANGED <<buffer, closing, sent, got, streamId, opening>>
  BY DEF RecvPSH, Receives, Received, ioVars, openVars, dataVars
<1>3. Received(e) \in Frame
  <2>1. wire[Peer(e)] \in Seq(Frame)
    BY <1>1, SideFacts DEF FramesOK
  <2> QED
    BY <1>2, <2>1 DEF Received
<1>4. /\ held' \in [Sides -> Frame \cup {NoFrame}] /\ \A x \in Sides \ {e} : held'[x] = held[x]
      /\ held'[e] = IF Received(e).sid \in streams[e] THEN Received(e) ELSE NoFrame
  BY <1>1, <1>2, <1>3 DEF RecvPSH, FinTypes
<1>5. Shrinks
  BY <1>1, <1>2, CloseShrinks
<1>6. FinTypes'
  <2>1. /\ got' \in [Sides -> [Sids -> Nat]]
        /\ closing' \in [Sides -> SUBSET Ids] /\ closing'["client"] \subseteq closing["client"] \cup alive["client"]
    BY <1>1, <1>2 DEF FinTypes
  <2>2. streamId' \in 0 .. MaxStream /\ streamId' >= streamId /\ opening' \in 0 .. streamId'
    BY <1>1, <1>2, BoundAssumption DEF FinTypes, FramesOK
  <2> QED
    BY <1>1, <1>4, <1>5, <2>1, <2>2, TypesKept
<1>7. NoFrame.cmd # "PSH" /\ Peer(e) \in Sides \ {e} /\ \A s \in Sids : ~HeldOf(e, s)
  <2>1. NoFrame.cmd # "PSH" /\ Peer(e) \in Sides \ {e}
    BY DEF NoFrame, Sides, Peer
  <2> QED
    BY <1>2, <2>1 DEF HeldOf, IsPSH
<1>8. \A s \in Sids : HeldOf(e, s)' => IsPSH(Received(e), s)
  BY <1>4, <1>7 DEF HeldOf, IsPSH
<1>9. \A s \in Sids : s \in streams'[e] /\ s \in alive'[e] =>
        /\ s \in streams[e] /\ s \in alive[e]
        /\ Holds(e, s)' = Holds(e, s) + (IF IsPSH(Received(e), s) THEN 1 ELSE 0)
  <2>1. \A s \in Sids : s \in streams[e] => (HeldOf(e, s)' <=> IsPSH(Received(e), s))
    BY <1>4, <1>7 DEF HeldOf, IsPSH
  <2>2. 0 + 1 = 1 /\ 0 + 0 = 0
    OBVIOUS
  <2> QED
    BY <1>2, <1>7, <2>1, <2>2 DEF Holds, closeVars
<1>10. \A s \in Sids : FinParts(s)'
  BY <1>2, <1>4, <1>5, <1>7, <1>8, <1>9, FinReads DEF Shrinks
<1> QED
  BY <1>6, <1>10

\* Other frames that are read when the loop stands on nothing, and that hand over nothing.
LEMMA FinRecvOther ==
  ASSUME FinIInv, NEW e \in Sides, Receives(e, Received(e).cmd), Received(e).cmd # "PSH", wire' = Taken(e),
         Shrinks, UNCHANGED <<buffer, sent, got, streamId, opening>>,
         closing' \in [Sides -> SUBSET Ids], closing'["client"] \subseteq closing["client"] \cup alive["client"],
         held' = held \/ held' = [held EXCEPT ![e] = Received(e)]
  PROVE  FinTypes' /\ \A s \in Sids : FinParts(s)'
<1>1. FinTypes /\ FramesOK
  BY DEF FinIInv, AlertIInv
<1>2. held[e] = NoFrame /\ wire[Peer(e)] # <<>> /\ Peer(e) \in Sides \ {e} /\ NoFrame.cmd # "PSH"
  BY DEF Receives, NoFrame, Sides, Peer
<1>3. Received(e) \in Frame
  <2>1. wire[Peer(e)] \in Seq(Frame)
    BY <1>1, SideFacts DEF FramesOK
  <2> QED
    BY <1>2, <2>1 DEF Received
<1>4. /\ held' \in [Sides -> Frame \cup {NoFrame}] /\ held'[Peer(e)] = held[Peer(e)]
      /\ held'[e] = NoFrame \/ held'[e] = Received(e)
  BY <1>1, <1>2, <1>3 DEF FinTypes
<1>5. FinTypes'
  <2>1. got' \in [Sides -> [Sids -> Nat]]
    BY <1>1 DEF FinTypes
  <2>2. streamId' \in 0 .. MaxStream /\ streamId' >= streamId /\ opening' \in 0 .. streamId'
    BY <1>1, BoundAssumption DEF FinTypes, FramesOK
  <2> QED
    BY <1>1, <1>4, <2>1, <2>2, TypesKept
<1>6. \A s \in Sids : ~HeldOf(e, s) /\ ~HeldOf(e, s)' /\ ~IsPSH(Received(e), s)
  BY <1>2, <1>4 DEF HeldOf, IsPSH
<1>7. \A s \in Sids : s \in streams'[e] /\ s \in alive'[e] =>
        /\ s \in streams[e] /\ s \in alive[e]
        /\ Holds(e, s)' = Holds(e, s) + (IF IsPSH(Received(e), s) THEN 1 ELSE 0)
  <2>1. 0 + 0 = 0
    OBVIOUS
  <2> QED
    BY <1>6, <2>1 DEF Holds, Shrinks
<1>8. \A s \in Sids : FinParts(s)'
  BY <1>2, <1>4, <1>6, <1>7, FinReads DEF Shrinks
<1> QED
  BY <1>5, <1>8

\* The frames that close, refuse or answer.
LEMMA FinRecvs ==
  ASSUME FinIInv,
         \/ \E e \in Sides : RecvFIN(e)
         \/ RecvSYNACK("SYNACK") \/ RecvSYNACK("SYNERR") \/ RecvServerSettings
  PROVE  FinTypes' /\ \A s \in Sids : FinParts(s)'
<1>1. FinTypes /\ FramesOK
  BY DEF FinIInv, AlertIInv
<1>2. ASSUME NEW e \in Sides, RecvFIN(e) PROVE FinTypes' /\ \A s \in Sids : FinParts(s)'
  <2>1. /\ Receives(e, "FIN") /\ Received(e).cmd = "FIN" /\ wire' = Taken(e) /\ held' = held
        /\ UNCHANGED <<buffer, closing, sent, got, streamId, opening>>
        /\ alive' = [alive EXCEPT ![e] = @ \ ({Received(e).sid} \cap streams[e])]
        /\ streams' = [streams EXCEPT ![e] = @ \ {Received(e).sid}]
    BY <1>2 DEF RecvFIN, Receives, Received, ioVars, dataVars
  <2>2. Shrinks
    <3>1. /\ alive \in [Sides -> SUBSET Ids] /\ streams \in [Sides -> SUBSET Ids]
          /\ alive' \in [Sides -> SUBSET Ids] /\ streams' \in [Sides -> SUBSET Ids]
      BY <1>1, <2>1 DEF FinTypes
    <3> QED
      BY <2>1, <3>1 DEF Shrinks
  <2>3. closing' \in [Sides -> SUBSET Ids]
    BY <1>1, <2>1 DEF FinTypes
  <2> QED
    BY <2>1, <2>2, <2>3, FinRecvOther
<1>3. ASSUME NEW cmd \in {"SYNACK", "SYNERR"}, RecvSYNACK(cmd) PROVE FinTypes' /\ \A s \in Sids : FinParts(s)'
  <2>1. /\ Receives("client", cmd) /\ Received("client").cmd = cmd /\ wire' = Taken("client")
        /\ UNCHANGED <<buffer, sent, got, streamId, opening, streams>>
    BY <1>3, SideFacts DEF RecvSYNACK, Receives, Received, dataVars
  <2>2. \/ UNCHANGED <<alive, closing, held>>
        \/ /\ Received("client").sid \in alive["client"]
           /\ alive' = [alive EXCEPT !["client"] = @ \ {Received("client").sid}]
           /\ closing' = [closing EXCEPT !["client"] = @ \cup {Received("client").sid}]
           /\ held' = [held EXCEPT !["client"] = Received("client")]
    BY <1>3 DEF RecvSYNACK
  <2>3. Shrinks
    <3>1. /\ alive \in [Sides -> SUBSET Ids] /\ streams \in [Sides -> SUBSET Ids]
          /\ alive' \in [Sides -> SUBSET Ids] /\ streams' \in [Sides -> SUBSET Ids]
      BY <1>1, <2>1, <2>2 DEF FinTypes
    <3> QED
      BY <2>1, <2>2, <3>1 DEF Shrinks
  <2>4. closing' \in [Sides -> SUBSET Ids] /\ closing'["client"] \subseteq closing["client"] \cup alive["client"]
    BY <1>1, <2>2, SideFacts DEF FinTypes
  <2> QED
    BY <2>1, <2>2, <2>3, <2>4, FinRecvOther, SideFacts
<1>4. CASE RecvServerSettings
  <2>1. /\ Receives("client", "ServerSettings") /\ Received("client").cmd = "ServerSettings"
        /\ wire' = Taken("client") /\ held' = held
        /\ UNCHANGED closeVars /\ UNCHANGED <<buffer, closing, sent, got, streamId, opening>>
    BY <1>4, SideFacts DEF RecvServerSettings, Receives, Received, ioVars, openVars, dataVars
  <2>2. Shrinks
    BY <1>1, <2>1, CloseShrinks, SideFacts
  <2>3. closing' \in [Sides -> SUBSET Ids]
    BY <1>1, <2>1 DEF FinTypes
  <2> QED
    BY <2>1, <2>2, <2>3, FinRecvOther, SideFacts
<1> QED
  BY <1>2, <1>3, <1>4

\* The server reads the SYN of a stream: nothing of it has been read, and all that the
\* client has written to it stands behind the SYN.
LEMMA FinRecvSYN ==
  ASSUME FinIInv, RecvSYN
  PROVE  FinTypes' /\ \A s \in Sids : FinParts(s)'
<1>1. FinTypes /\ FramesOK /\ settled = TRUE
  BY ServerSettled DEF FinIInv, AlertIInv, RecvSYN
<1>2. PICK f : f = Received("server") /\ f.cmd = "SYN"
  BY SideFacts DEF RecvSYN, Receives, Received
<1>3. /\ held["server"] = NoFrame /\ wire["client"] # <<>> /\ wire' = Taken("server")
      /\ UNCHANGED <<buffer, closing, sent, got, streamId, opening, held>>
      /\ streams' = [streams EXCEPT !["server"] = @ \cup {f.sid}]
      /\ alive' = [alive EXCEPT !["server"] = IF f.sid \in streams["server"] THEN @ ELSE @ \cup {f.sid}]
  BY <1>1, <1>2, SideFacts DEF RecvSYN, Receives, openVars, dataVars
<1>4. f \in Frame /\ f.sid \in Ids
  <2>1. wire["client"] \in Seq(Frame)
    BY <1>1, SideFacts DEF FramesOK
  <2>2. f \in Frame
    BY <1>2, <1>3, <2>1, SideFacts DEF Received
  <2> QED
    BY <2>2 DEF Frame, Ids
<1>5. /\ streams' \in [Sides -> SUBSET Ids] /\ alive' \in [Sides -> SUBSET Ids]
      /\ streams'["client"] = streams["client"] /\ alive'["client"] = alive["client"]
      /\ streams'["server"] \subseteq streams["server"] \cup {f.sid}
      /\ alive'["server"] \subseteq alive["server"] \cup {f.sid}
  <2>1. alive \in [Sides -> SUBSET Ids] /\ streams \in [Sides -> SUBSET Ids]
    BY <1>1 DEF FinTypes
  <2>2. /\ [streams EXCEPT !["server"] = @ \cup {f.sid}] \in [Sides -> SUBSET Ids]
        /\ [alive EXCEPT !["server"] = IF f.sid \in streams["server"] THEN @ ELSE @ \cup {f.sid}]
             \in [Sides -> SUBSET Ids]
    BY <1>4, <2>1, SideFacts
  <2> QED
    BY <1>3, <2>1, <2>2, SideFacts
<1>6. FinTypes'
  BY <1>1, <1>3, <1>5 DEF FinTypes
<1>7. /\ wire[Peer("server")] # <<>> /\ held'[Peer("server")] = held[Peer("server")]
      /\ streams'[Peer("server")] \subseteq streams[Peer("server")]
      /\ alive'[Peer("server")] \subseteq alive[Peer("server")]
  BY <1>3, <1>5, SideFacts
<1>8. \A s \in Sids : ~HeldOf("server", s) /\ ~HeldOf("server", s)' /\ ~IsPSH(f, s)
  <2>1. NoFrame.cmd # "PSH"
    BY DEF NoFrame
  <2> QED
    BY <1>2, <1>3, <2>1 DEF HeldOf, IsPSH
<1>9. ASSUME NEW s \in Sids, s = f.sid PROVE Complete("server", s)'
  <2>1. FinParts(s)
    BY DEF FinIInv, FinParts
  <2>2. PICK q \in Seq(Frame) : q = Line("client") /\ q # <<>> /\ Head(q) = f
    BY <1>1, <1>2, <1>3, LineType, LineRead, SideFacts
  <2>3. PICK r : r = Line("client")' /\ r = Tail(q)
    BY <1>1, <1>3, <2>2, LineRead, SideFacts
  <2>4. IsSYN(f, s)
    BY <1>2, <1>9 DEF IsSYN
  <2>5. 1 \in 1 .. Len(q) /\ q[1] = f
    BY <2>2
  <2>6. got["server"][s] = 0 /\ Rest(q, s, sent["client"][s], 0)
    BY <2>1, <2>2, <2>4, <2>5 DEF FinParts, Announced
  <2>7. PICK m \in Nat : m = sent["client"][s]
    BY <1>1, BoundAssumption, SideFacts DEF FramesOK
  <2>8. Numbered(q, s, m)
    BY <2>1, <2>2, <2>7, SideFacts DEF FinParts, InOrder
  <2>9. Rest(r, s, m, IF IsPSH(Head(q), s) THEN 0 + 1 ELSE 0)
    BY <2>2, <2>3, <2>6, <2>7, <2>8, FrameRead
  <2>10. Rest(r, s, m, 0)
    BY <1>8, <2>2, <2>9
  <2>11. Rest(Line("client"), s, sent["client"][s], 0)'
    BY <1>3, <2>3, <2>7, <2>10
  <2> QED
    BY <1>3, <1>8, <2>6, <2>11, SideFacts DEF Complete
<1>10. \A s \in Sids : s \in streams'["server"] /\ s \in alive'["server"] =>
         \/ /\ s \in streams["server"] /\ s \in alive["server"]
            /\ Holds("server", s)' = Holds("server", s) + (IF IsPSH(Received("server"), s) THEN 1 ELSE 0)
         \/ Complete("server", s)'
  <2>1. 0 + 0 = 0
    OBVIOUS
  <2> QED
    BY <1>2, <1>5, <1>8, <1>9, <2>1 DEF Holds
<1>11. \A s \in Sids : FinParts(s)'
  BY <1>3, <1>7, <1>8, <1>10, FinReads, SideFacts
<1> QED
  BY <1>6, <1>11

\* The server reads the client's settings and answers them.
LEMMA FinRecvSettings ==
  ASSUME FinIInv, RecvSettings
  PROVE  FinTypes' /\ \A s \in Sids : FinParts(s)'
<1>1. FinTypes /\ FramesOK
  BY DEF FinIInv, AlertIInv
<1>2. /\ Receives("server", "Settings") /\ Received("server").cmd = "Settings" /\ wire["client"] # <<>>
      /\ UNCHANGED <<buffer, closing, sent, got, streamId, opening, held>>
  BY SideFacts DEF RecvSettings, Receives, Received, openVars, dataVars
<1>3. Shrinks
  BY <1>1, CloseShrinks, SideFacts DEF RecvSettings
<1>4. closing' \in [Sides -> SUBSET Ids]
  BY <1>1, <1>2 DEF FinTypes
<1>5. CASE wire' = Taken("server")
  BY <1>2, <1>3, <1>4, <1>5, FinRecvOther, SideFacts
<1>6. CASE wire' = [Taken("server") EXCEPT !["server"] = Append(@, frame("ServerSettings", 0, 0))]
  <2>1. PICK f \in Frame : f = frame("ServerSettings", 0, 0) /\ f.cmd = "ServerSettings"
    <3>1. 0 \in 0 .. MaxStream /\ 0 \in 0 .. MaxData
      BY BoundAssumption
    <3> QED
      BY <3>1, FrameIn DEF Commands
  <2>2. /\ wire["client"] \in Seq(Frame) /\ wire["server"] \in Seq(Frame) /\ buffer \in Seq(Frame)
        /\ wire \in [Sides -> Seq(Frame)]
    BY <1>1, SideFacts DEF FramesOK
  <2>3. wire'["client"] = Tail(wire["client"]) /\ wire'["server"] = Append(wire["server"], f)
    BY <1>6, <2>1, <2>2, SideFacts DEF Taken
  <2>4. /\ wire["client"] \o buffer # <<>> /\ Head(wire["client"] \o buffer) = Head(wire["client"])
        /\ Tail(wire["client"]) \o buffer = Tail(wire["client"] \o buffer)
    BY <1>2, <2>2
  <2>5. PICK q \in Seq(Frame) : q = Line("client") /\ q # <<>> /\ Head(q).cmd = "Settings"
    BY <1>1, <1>2, <2>4, LineType, SideFacts DEF Line, Received
  <2>6. PICK r : r = Line("client")' /\ r = Tail(q)
    BY <1>2, <2>3, <2>4, <2>5 DEF Line
  <2>7. Line("server") = wire["server"] /\ Line("server")' = Append(wire["server"], f)
    BY <2>3, SideFacts DEF Line
  <2>8. FinTypes'
    <3>1. /\ held' \in [Sides -> Frame \cup {NoFrame}] /\ got' \in [Sides -> [Sids -> Nat]]
          /\ closing'["client"] \subseteq closing["client"] \cup alive["client"]
      BY <1>1, <1>2 DEF FinTypes
    <3>2. streamId' \in 0 .. MaxStream /\ streamId' >= streamId /\ opening' \in 0 .. streamId'
      BY <1>1, <1>2, BoundAssumption DEF FinTypes, FramesOK
    <3> QED
      BY <1>1, <1>3, <1>4, <3>1, <3>2, TypesKept
  <2>9. ASSUME NEW s \in Sids PROVE FinParts(s)'
    <3>1. FinParts(s) /\ \A e \in Sides : Peer(e) \in Sides /\ sent[e][s] \in Nat /\ got[e][s] \in Nat
      BY <1>1, BoundAssumption DEF FinIInv, FinParts, FinTypes, FramesOK, Sides, Peer
    <3>2. PICK took \in [Sides -> {0, 1}] : \A e \in Sides : took[e] = 0
      <4>1. [e \in Sides |-> 0] \in [Sides -> {0, 1}] /\ \A e \in Sides : [x \in Sides |-> 0][e] = 0
        OBVIOUS
      <4> QED
        BY <4>1
    <3>3. PICK mc \in Nat, ms \in Nat : mc = sent["client"][s] /\ ms = sent["server"][s]
      BY <3>1, SideFacts
    <3>4. Numbered(q, s, mc) /\ Numbered(wire["server"], s, ms)
      BY <2>5, <2>7, <3>1, <3>3, SideFacts DEF FinParts, InOrder
    <3>5. ~IsPSH(Head(q), s) /\ ~IsPSH(f, s) /\ ~IsFIN(f, s) /\ ~IsSYN(f, s)
      BY <2>1, <2>5 DEF IsPSH, IsFIN, IsSYN
    <3>6. /\ Numbered(r, s, mc) /\ \A t \in Nat : Rest(q, s, mc, t) => Rest(r, s, mc, t)
          /\ Absent(q, s) => Absent(r, s)
          /\ (\E j \in 1 .. Len(r) : IsSYN(r[j], s)) => \E j \in 1 .. Len(q) : IsSYN(q[j], s)
      BY <2>5, <2>6, <3>4, <3>5, FrameRead
    <3>7. PICK u : u = Line("server")' /\ u = Append(wire["server"], f)
      BY <2>7
    <3>8. Numbered(u, s, ms) /\ \A t \in Nat : Rest(wire["server"], s, ms, t) => Rest(u, s, ms, t)
      BY <2>2, <3>4, <3>5, <3>7, OtherSent
    <3>9. \A t \in Nat : t + 0 = t
      OBVIOUS
    <3>10. Moved("client", s, 0)
      BY <1>2, <2>5, <2>6, <3>3, <3>6, <3>9 DEF Moved
    <3>11. Moved("server", s, 0)
      BY <1>2, <2>7, <3>3, <3>7, <3>8, <3>9 DEF Moved
    <3>12. \A p \in Sides : Moved(p, s, took[Peer(p)])
      BY <3>1, <3>2, <3>10, <3>11, SideFacts
    <3>13. SynComing(s)' => SynComing(s) /\ took["server"] = 0
      BY <2>5, <2>6, <3>2, <3>6, SideFacts DEF SynComing
    <3>14. s > streamId' => Absent(Line("client"), s)'
      <4>1. s > streamId' => Absent(q, s)
        BY <1>2, <2>5, <3>1 DEF FinParts, Causes
      <4> QED
        BY <2>6, <3>6, <4>1 DEF Absent
    <3>15. \A e \in Sides : /\ got'[e][s] = got[e][s] /\ sent'[e][s] = sent[e][s] /\ took[e] # 1
                            /\ got'[e][s] \in Nat /\ got'[e][s] >= got[e][s]
                            /\ sent'[e][s] \in Nat /\ sent'[e][s] >= sent[e][s]
                            /\ HeldOf(e, s)' => HeldOf(e, s)
      BY <1>2, <3>1, <3>2 DEF HeldOf
    <3>16. /\ InOrder(s)' /\ Causes(s)' /\ Announced(s)'
           /\ \A e \in Sides :
                (s \in streams'[e] /\ s \in alive'[e] =>
                   s \in streams[e] /\ s \in alive[e] /\ got'[e][s] + Holds(e, s)' = got[e][s] + Holds(e, s) + took[e])
                => Complete(e, s)'
      <4>1. s > streamId' \/ s = opening' => s > streamId \/ s = opening
        BY <1>2
      <4>2. sent'["client"][s] = sent["client"][s] /\ sent'["server"][s] = sent["server"][s]
        BY <3>15, SideFacts
      <4> QED
        BY <1>1, <3>1, <3>12, <3>13, <3>14, <3>15, <4>1, <4>2, Combine
    <3>17. \A e \in Sides : s \in streams'[e] /\ s \in alive'[e] =>
             s \in streams[e] /\ s \in alive[e] /\ got'[e][s] + Holds(e, s)' = got[e][s] + Holds(e, s) + took[e]
      BY <1>2, <1>3, <3>1, <3>2, <3>15 DEF Shrinks, Holds, HeldOf
    <3> QED
      BY <3>16, <3>17 DEF FinParts
  <2> QED
    BY <2>8, <2>9
<1> QED
  BY <1>5, <1>6 DEF RecvSettings

\* Nothing has been sent at first but the settings.
LEMMA FinInit == Init => FinIInv
<1> SUFFICES ASSUME Init PROVE FinIInv
  OBVIOUS
<1>1. PICK f \in Frame : f = frame("Settings", 0, 0) /\ f.cmd = "Settings" /\ buffer = <<f>>
  <2>1. 0 \in 0 .. MaxStream /\ 0 \in 0 .. MaxData
    BY BoundAssumption
  <2> QED
    BY <2>1, FrameIn DEF Commands, Init
<1>2. Line("client") = <<f>> /\ Line("server") = <<>>
  <2>1. wire["client"] = <<>> /\ wire["server"] = <<>>
    BY SideFacts DEF Init
  <2>2. <<>> \o <<f>> = <<f>>
    OBVIOUS
  <2> QED
    BY <1>1, <2>1, <2>2, SideFacts DEF Line
<1>3. /\ streamId = 0 /\ opening = 0
      /\ \A e \in Sides : streams[e] = {} /\ alive[e] = {} /\ closing[e] = {} /\ held[e] = NoFrame
      /\ \A e \in Sides, s \in Sids : sent[e][s] = 0 /\ got[e][s] = 0
  BY DEF Init
<1>4. FinTypes
  BY <1>3, SideFacts, BoundAssumption DEF Init, FinTypes
<1>5. ASSUME NEW s \in Sids PROVE FinParts(s)
  <2>1. \A e \in Sides : \A j \in 1 .. Len(Line(e)) : Line(e)[j] = f
    <3>1. Len(<<f>>) = 1 /\ <<f>>[1] = f /\ Len(<<>>) = 0
      OBVIOUS
    <3>2. \A j \in 1 .. Len(<<f>>) : <<f>>[j] = f
      BY <3>1
    <3>3. \A j : j \notin 1 .. 0
      OBVIOUS
    <3> QED
      BY <1>2, <3>1, <3>2, <3>3, SideFacts, Zenon
  <2>2. ~IsPSH(f, s) /\ ~IsFIN(f, s) /\ ~IsSYN(f, s)
    BY <1>1 DEF IsPSH, IsFIN, IsSYN
  <2>3. \A e \in Sides : \A j \in 1 .. Len(Line(e)) :
          ~IsPSH(Line(e)[j], s) /\ ~IsFIN(Line(e)[j], s) /\ ~IsSYN(Line(e)[j], s)
    BY <2>1, <2>2
  <2>4. InOrder(s)
    BY <2>3 DEF InOrder, Numbered
  <2>5. Absent(Line("client"), s)
    BY <2>3, SideFacts DEF Absent
  <2>6. Causes(s)
    <3>1. \A e \in Sides : Peer(e) \in Sides /\ ~HeldOf(e, s)
      BY <1>3 DEF HeldOf, IsPSH, NoFrame, Sides, Peer
    <3> QED
      BY <1>3, <2>5, <3>1, SideFacts DEF Causes
  <2>7. Announced(s)
    BY <2>3, SideFacts DEF Announced
  <2>8. \A e \in Sides : Complete(e, s)
    BY <1>3 DEF Complete
  <2> QED
    BY <2>4, <2>6, <2>7, <2>8 DEF FinParts
<1> QED
  BY <1>4, <1>5, AlertInit DEF FinIInv, FinParts

\* Every step keeps the invariant.
LEMMA FinNext == FinIInv /\ [Next]_vars => FinIInv'
<1> SUFFICES ASSUME FinIInv, [Next]_vars PROVE FinIInv'
  OBVIOUS
<1>1. AlertIInv
  BY DEF FinIInv
<1>2. CASE UNCHANGED vars
  <2>1. AlertIInv'
    BY <1>1, <1>2 DEF vars, AlertIInv, FramesOK, SettingsFirst, NoAlert
  <2>2. FinTypes' /\ Shrinks
    BY <1>2 DEF vars, FinIInv, FinTypes, Shrinks
  <2>3. \A s \in Sids : FinParts(s)'
    BY <1>2, <2>2, FinStill DEF vars, HeldOf
  <2> QED
    BY <2>1, <2>2, <2>3 DEF FinIInv, FinParts
<1>3. CASE Next
  <2>1. FinTypes' /\ \A s \in Sids : FinParts(s)'
    BY <1>3, FinQuiet, FinRegister, FinOpens, FinWrites, FinCloses, FinReports, FinRecvPSH, FinRecvs, FinRecvSYN,
       FinRecvSettings DEF Next, RecvStep, ClientRecv, ServerRecv
  <2> QED
    BY <1>1, <1>3, <2>1, AlertNext DEF FinIInv, FinParts
<1> QED
  BY <1>2, <1>3

\* A FIN that reaches an open stream counts the data that its reader has got.
LEMMA FinCounts ==
  ASSUME FinIInv, NEW e \in Sides, NEW s \in Sids, RecvFIN(e), Received(e).sid = s, s \in alive[e], s \in streams[e]
  PROVE  got[e][s] = Received(e).n
<1>1. FinTypes /\ FramesOK /\ FinParts(s) /\ Peer(e) \in Sides
  BY DEF FinIInv, AlertIInv, FinParts, Sides, Peer
<1>2. held[e] = NoFrame /\ wire[Peer(e)] # <<>> /\ Received(e).cmd = "FIN"
  BY DEF RecvFIN, Receives, Received
<1>3. ~HeldOf(e, s) /\ IsFIN(Received(e), s)
  BY <1>2 DEF HeldOf, IsPSH, IsFIN, NoFrame
<1>4. PICK q \in Seq(Frame) : q = Line(Peer(e)) /\ q # <<>> /\ Head(q) = Received(e)
  BY <1>1, <1>2, LineType, LineRead
<1>5. PICK m \in Nat, t \in Nat : m = sent[Peer(e)][s] /\ t = got[e][s]
  BY <1>1, BoundAssumption DEF FramesOK, FinTypes
<1>6. Numbered(q, s, m)
  BY <1>1, <1>4, <1>5 DEF FinParts, InOrder
<1>7. Rest(q, s, m, t)
  <2>1. Rest(q, s, m, t + 0)
    BY <1>1, <1>3, <1>4, <1>5 DEF FinParts, Complete
  <2>2. t + 0 = t
    OBVIOUS
  <2> QED
    BY <2>1, <2>2
<1>8. PICK r : r = Tail(q)
  OBVIOUS
<1>9. Head(q).n = t
  BY <1>3, <1>4, <1>6, <1>7, <1>8, FrameRead
<1> QED
  BY <1>4, <1>5, <1>9

\* Nothing overtakes data on the way through a session, and none is lost on a slow reader:
\* a FIN closes a stream that is open only when its reader has got all that was written
\* before it.
THEOREM FinIsLast == Spec => FinComesAfterData
<1>1. FinIInv =>
        [\A e \in Sides, s \in Sids :
           (RecvFIN(e) /\ Received(e).sid = s /\ s \in alive[e] /\ s \in streams[e])
              => got[e][s] = Received(e).n]_vars
  BY FinCounts
<1> QED
  BY <1>1, FinInit, FinNext, PTL DEF Spec, FinComesAfterData
=============================================================================
