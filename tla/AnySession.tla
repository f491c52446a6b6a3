----------------------------- MODULE AnySession -----------------------------
(***************************************************************************)
(* The anytls session protocol (session/session.go, session/stream.go):    *)
(* two Sessions, the client's and the server's, over one connection that   *)
(* delivers in order until it breaks.  Both run the same recvLoop; it      *)
(* hands data to a stream through the synchronous pipe of module Pipe, so  *)
(* it stands still until the stream's reader has taken the data.           *)
(*                                                                         *)
(* Frames carry no payload: the n-th data frame of a stream is numbered n, *)
(* and a FIN carries the number of data frames sent before it.             *)
(* Session.Close is one step here; module SessionPool takes it apart.      *)
(* What a server does with a new stream (onNewStream) lies outside the     *)
(* package: it reads a destination first, then reports success or failure, *)
(* reads, writes and closes in any order.                                  *)
(***************************************************************************)
EXTENDS Naturals, Sequences

CONSTANTS MaxStream,   \* bound on the streams opened
          MaxData,     \* bound on the data frames per stream and direction
          Window       \* frames the connection buffers in each direction

ASSUME BoundAssumption == MaxStream \in Nat /\ MaxData \in Nat /\ Window \in Nat \ {0}

Sides == {"client", "server"}
Peer(e) == IF e = "client" THEN "server" ELSE "client"
Sids == 1..MaxStream

Commands == {"Settings", "ServerSettings", "Alert", "SYN", "SYNACK", "SYNERR", "PSH", "FIN"}
Frame == [cmd: Commands, sid: 0..MaxStream, n: 0..MaxData]
frame(cmd, sid, n) == [cmd |-> cmd, sid |-> sid, n |-> n]
NoFrame == [cmd |-> "none", sid |-> 0, n |-> 0]

VARIABLES
  wire,       \* frames each side has sent and the other has not read
  down,       \* the connection is closed or broken
  buffer,     \* the client's Session.buffer
  buffering,  \* the client's Session.buffering
  die,        \* Session.die of each side
  loop,       \* recvLoop of each side: "run" or "end"
  held,       \* the data frame recvLoop is handing to a stream's reader
  streams,    \* Session.streams of each side
  alive,      \* streams of each side whose dieOnce is not done
  closing,    \* streams of each side whose Close has not reached streamClosed yet
  streamId,   \* the client's Session.streamId
  opening,    \* the stream OpenStream has sent a SYN for and not registered, or 0
  settled,    \* the server's receivedSettingsFromClient
  version,    \* Session.peerVersion of each side
  synDone,    \* the stream whose SYNACK the client's watcher waits for, or 0
  reported,   \* streams whose reportOnce is done (server)
  sent, got,  \* data frames each side wrote, and data frames its readers got
  deaf        \* streams whose FIN reached the client before they were registered

vars == <<wire, down, buffer, buffering, die, loop, held, streams, alive, closing, streamId,
          opening, settled, version, synDone, reported, sent, got, deaf>>
ioVars == <<buffer, buffering, closing>>
openVars == <<streamId, opening, synDone, deaf>>
dataVars == <<sent, got>>
serverVars == <<settled, version, reported>>
closeVars == <<down, die, streams, alive>>

TypeOK ==
  /\ wire \in [Sides -> Seq(Frame)]
  /\ down \in BOOLEAN
  /\ buffer \in Seq(Frame)
  /\ buffering \in BOOLEAN
  /\ die \in [Sides -> BOOLEAN]
  /\ loop \in [Sides -> {"run", "end"}]
  /\ held \in [Sides -> Frame \cup {NoFrame}]
  /\ streams \in [Sides -> SUBSET Sids]
  /\ alive \in [Sides -> SUBSET Sids]
  /\ closing \in [Sides -> SUBSET Sids]
  /\ streamId \in 0..MaxStream
  /\ opening \in 0..MaxStream
  /\ settled \in BOOLEAN
  /\ version \in [Sides -> {0, 2}]
  /\ synDone \in 0..MaxStream
  /\ reported \in SUBSET Sids
  /\ sent \in [Sides -> [Sids -> 0..MaxData]]
  /\ got \in [Sides -> [Sids -> 0..MaxData]]
  /\ deaf \in SUBSET Sids

\* NewClientSession, NewServerSession and Run: the client's settings are buffered.
Init ==
  /\ wire = [e \in Sides |-> <<>>]
  /\ down = FALSE
  /\ buffer = <<frame("Settings", 0, 0)>>
  /\ buffering = TRUE
  /\ die = [e \in Sides |-> FALSE]
  /\ loop = [e \in Sides |-> "run"]
  /\ held = [e \in Sides |-> NoFrame]
  /\ streams = [e \in Sides |-> {}]
  /\ alive = [e \in Sides |-> {}]
  /\ closing = [e \in Sides |-> {}]
  /\ streamId = 0 /\ opening = 0
  /\ settled = FALSE
  /\ version = [e \in Sides |-> 0]
  /\ synDone = 0 /\ reported = {}
  /\ sent = [e \in Sides |-> [s \in Sids |-> 0]]
  /\ got = [e \in Sides |-> [s \in Sids |-> 0]]
  /\ deaf = {}

-----------------------------------------------------------------------------
(* Writing and closing.                                                    *)

\* The version both ends put into their settings.
settingsVersion == 2

\* Session.Close: once, streams are closed locally and the connection is closed.
Close(e) ==
  IF die[e] THEN UNCHANGED closeVars
  ELSE /\ die' = [die EXCEPT ![e] = TRUE]
       /\ alive' = [alive EXCEPT ![e] = @ \ streams[e]]
       /\ streams' = [streams EXCEPT ![e] = {}]
       /\ down' = TRUE

\* Mutant of Transmit: the new frame goes out before the buffered ones.
TransmitFirst(e, f) ==
  IF e = "client" /\ buffering
    THEN buffer' = <<f>> \o buffer /\ UNCHANGED wire
    ELSE /\ wire' = [wire EXCEPT ![e] = @ \o <<f>> \o (IF e = "client" THEN buffer ELSE <<>>)]
         /\ buffer' = IF e = "client" THEN <<>> ELSE buffer

\* writeConn: while buffering, frames pile up; the first one after that takes the
\* buffer with it.
Transmit(e, f) ==
  IF e = "client" /\ buffering
    THEN buffer' = Append(buffer, f) /\ UNCHANGED wire
    ELSE /\ wire' = [wire EXCEPT ![e] = @ \o (IF e = "client" THEN buffer ELSE <<>>) \o <<f>>]
         /\ buffer' = IF e = "client" THEN <<>> ELSE buffer

HasRoom(e) == Len(wire[e]) < Window

\* writeControlFrame waits for room for five seconds; if that fails, or the
\* connection is gone, it closes the session.
ControlWritten(e, f) == ~down /\ HasRoom(e) /\ Transmit(e, f) /\ UNCHANGED closeVars
ControlFailed(e) ==
  /\ down \/ ~HasRoom(e)
  /\ Close(e)
  /\ UNCHANGED <<wire, buffer>>

\* The connection breaks.
Break ==
  /\ ~down
  /\ down' = TRUE
  /\ UNCHANGED <<wire, ioVars, loop, die, held, streams, alive, openVars, serverVars, dataVars>>

-----------------------------------------------------------------------------
(* The client opens streams, one at a time (CreateStream takes the session *)
(* out of the pool).                                                       *)

\* OpenStream up to the SYN.  From the second stream on, and with a peer that
\* acknowledges, a watcher is started first; it replaces the previous one.
OpenSyn ==
  /\ ~die["client"]
  /\ opening = 0
  /\ streamId < MaxStream
  /\ \A s \in Sids : s \notin alive["client"]
  /\ streamId' = streamId + 1
  /\ synDone' = IF streamId + 1 >= 2 /\ version["client"] >= 2 THEN streamId + 1 ELSE synDone
  /\ \/ /\ ControlWritten("client", frame("SYN", streamId + 1, 0))
        /\ opening' = streamId + 1
     \/ ControlFailed("client") /\ opening' = 0
  /\ UNCHANGED <<buffering, loop, held, closing, deaf, serverVars, dataVars>>

\* OpenStream: buffering ends, and the stream is registered unless the session has
\* died meanwhile.
OpenRegister ==
  /\ opening # 0
  /\ buffering' = FALSE
  /\ opening' = 0
  /\ IF die["client"]
       THEN UNCHANGED <<streams, alive>>
       ELSE /\ streams' = [streams EXCEPT !["client"] = @ \cup {opening}]
            /\ alive' = [alive EXCEPT !["client"] = @ \cup {opening}]
  /\ UNCHANGED <<wire, down, buffer, die, loop, held, closing, streamId, synDone, deaf,
                 serverVars, dataVars>>

\* The watcher's three seconds are over: it closes the session.
WatcherFires ==
  /\ synDone # 0
  /\ ~die["client"]
  /\ Close("client")
  /\ synDone' = 0
  /\ UNCHANGED <<wire, ioVars, loop, held, streamId, opening, deaf, serverVars, dataVars>>

-----------------------------------------------------------------------------
(* Users of streams, on either side.                                       *)

\* A stream exists once OpenStream has returned it, or, to a server's handler, which
\* says nothing before it has read the destination, once it has read that.
Opened(e, s) == IF e = "client" THEN s <= streamId /\ s # opening ELSE got[e][s] > 0

\* Stream.Write; an error of the connection is returned, the session stays.  The
\* stream was alive when Write looked at dieErr, it need not be when the frame goes.
Write(e, s) ==
  /\ Opened(e, s)
  /\ sent[e][s] < MaxData
  /\ ~down /\ HasRoom(e)
  /\ Transmit(e, frame("PSH", s, sent[e][s] + 1))
  /\ sent' = [sent EXCEPT ![e][s] = @ + 1]
  /\ UNCHANGED <<closeVars, buffering, loop, held, closing, openVars, serverVars, got>>

\* recvLoop is done with a frame: it goes on unless the session is closed by now.
NextFrame(e) == loop' = [loop EXCEPT ![e] = IF die[e] THEN "end" ELSE @]

\* Stream.Read takes what recvLoop is handing over.
Read(e, s) ==
  /\ s \in alive[e]
  /\ held[e].cmd = "PSH" /\ held[e].sid = s
  /\ got' = [got EXCEPT ![e][s] = @ + 1]
  /\ held' = [held EXCEPT ![e] = NoFrame]
  /\ NextFrame(e)
  /\ UNCHANGED <<wire, closeVars, ioVars, openVars, serverVars, sent>>

\* Stream.Close: dieOnce and the dieHook, which makes the session available to the
\* next OpenStream ...
StreamClose(e, s) ==
  /\ s \in alive[e]
  /\ alive' = [alive EXCEPT ![e] = @ \ {s}]
  /\ closing' = [closing EXCEPT ![e] = @ \cup {s}]
  /\ UNCHANGED <<wire, down, die, streams, buffer, buffering, loop, held, openVars, serverVars,
                 dataVars>>

\* ... then streamClosed: unless the session is closed, send a FIN and forget the
\* stream.
StreamClosed(e, s) ==
  /\ s \in closing[e]
  /\ closing' = [closing EXCEPT ![e] = @ \ {s}]
  /\ IF held[e].cmd = "SYNERR" /\ held[e].sid = s
       THEN held' = [held EXCEPT ![e] = NoFrame] /\ NextFrame(e)
       ELSE UNCHANGED <<held, loop>>
  /\ \/ die[e] /\ UNCHANGED <<wire, buffer, closeVars>>
     \/ /\ ~die[e] /\ ~down /\ HasRoom(e)
        /\ Transmit(e, frame("FIN", s, sent[e][s]))
        /\ streams' = [streams EXCEPT ![e] = @ \ {s}]
        /\ UNCHANGED <<down, die, alive>>
     \/ ~die[e] /\ ControlFailed(e)
  /\ UNCHANGED <<buffering, openVars, serverVars, dataVars>>

\* Stream.HandshakeSuccess and HandshakeFailure, whichever comes first.
HandshakeReport(s, cmd) ==
  /\ s \in alive["server"]
  /\ Opened("server", s)
  /\ s \notin reported
  /\ reported' = reported \cup {s}
  /\ IF version["server"] >= 2
       THEN ControlWritten("server", frame(cmd, s, 0)) \/ ControlFailed("server")
       ELSE UNCHANGED <<wire, buffer, closeVars>>
  /\ UNCHANGED <<buffering, loop, held, closing, openVars, settled, version, dataVars>>

-----------------------------------------------------------------------------
(* recvLoop.                                                               *)

\* The session was open when the loop was at the top, and the next frame is a cmd.
\* If the session has been closed since, the frame was read before that.
Receives(e, cmd) ==
  /\ loop[e] = "run" /\ held[e] = NoFrame
  /\ wire[Peer(e)] # <<>>
  /\ Head(wire[Peer(e)]).cmd = cmd

Taken(e) == [wire EXCEPT ![Peer(e)] = Tail(@)]
Received(e) == Head(wire[Peer(e)])

\* A data frame goes to its stream's pipe, or nowhere.
RecvPSH(e) ==
  /\ Receives(e, "PSH")
  /\ IF Received(e).sid \in streams[e]
       THEN held' = [held EXCEPT ![e] = Received(e)] /\ UNCHANGED loop
       ELSE NextFrame(e) /\ UNCHANGED held
  /\ wire' = Taken(e)
  /\ UNCHANGED <<closeVars, ioVars, openVars, serverVars, dataVars>>

\* pipeW.Write gives up only when the stream's pipe is closed.
GivesUpEarly(e) == TRUE  \* mutant: a slow reader loses the data
GivesUpNever(e) == FALSE  \* mutant: closing a stream leaves its pipe open
GivesUp(e) == held[e].sid \notin alive[e]

\* The pipe's Write returns with an error because the stream has been closed.
HandoverFails(e) ==
  /\ held[e].cmd = "PSH"
  /\ GivesUp(e)
  /\ held' = [held EXCEPT ![e] = NoFrame]
  /\ NextFrame(e)
  /\ UNCHANGED <<wire, closeVars, ioVars, openVars, serverVars, dataVars>>

\* Server: a SYN before the settings is answered with an Alert and ends the loop,
\* which closes the session; otherwise a new stream is made, without another look at
\* die.
RecvSYN ==
  LET s == Received("server").sid IN
  /\ Receives("server", "SYN")
  /\ IF ~settled
       THEN /\ wire' = [Taken("server") EXCEPT !["server"] = Append(@, frame("Alert", 0, 0))]
            /\ Close("server")
            /\ loop' = [loop EXCEPT !["server"] = "end"]
       ELSE /\ wire' = Taken("server")
            /\ streams' = [streams EXCEPT !["server"] = @ \cup {s}]
            /\ alive' = [alive EXCEPT !["server"] = IF s \in streams["server"] THEN @ ELSE @ \cup {s}]
            /\ NextFrame("server")
            /\ UNCHANGED <<down, die>>
  /\ UNCHANGED <<buffer, buffering, held, closing, openVars, serverVars, dataVars>>

\* synDone() and synDone = nil
WatcherStopped == 0

\* Client: any SYNACK stops the watcher; one that carries an error also closes its
\* stream, and recvLoop waits until that stream's streamClosed is done.
RecvSYNACK(cmd) ==
  LET s == Received("client").sid
      refuse == cmd = "SYNERR" /\ s \in streams["client"] /\ s \in alive["client"] IN
  /\ Receives("client", cmd)
  /\ wire' = Taken("client")
  /\ synDone' = WatcherStopped
  /\ IF refuse
       THEN /\ alive' = [alive EXCEPT !["client"] = @ \ {s}]
            /\ closing' = [closing EXCEPT !["client"] = @ \cup {s}]
            /\ held' = [held EXCEPT !["client"] = Received("client")]
            /\ UNCHANGED loop
       ELSE NextFrame("client") /\ UNCHANGED <<alive, closing, held>>
  /\ UNCHANGED <<down, die, streams, buffer, buffering, streamId, opening, deaf, serverVars,
                 dataVars>>

\* Mutant of RecvFIN: the stream is forgotten but its pipe is left open.
RecvFINForgets(e) ==
  /\ Receives(e, "FIN")
  /\ wire' = Taken(e)
  /\ streams' = [streams EXCEPT ![e] = @ \ {Received(e).sid}]
  /\ NextFrame(e)
  /\ UNCHANGED <<down, die, alive, ioVars, held, openVars, serverVars, dataVars>>

\* A FIN closes the stream locally; for a stream that is not there it is ignored.
RecvFIN(e) ==
  LET s == Received(e).sid IN
  /\ Receives(e, "FIN")
  /\ wire' = Taken(e)
  /\ alive' = [alive EXCEPT ![e] = @ \ ({s} \cap streams[e])]
  /\ streams' = [streams EXCEPT ![e] = @ \ {s}]
  /\ NextFrame(e)
  /\ deaf' = IF e = "client" /\ opening = s THEN deaf \cup {s} ELSE deaf
  /\ UNCHANGED <<down, die, ioVars, held, streamId, opening, synDone, serverVars,
                 dataVars>>

\* Server: the client's settings.  A version of 2 is remembered and answered.
RecvSettings ==
  /\ Receives("server", "Settings")
  /\ settled' = TRUE
  /\ version' = [version EXCEPT !["server"] = settingsVersion]
  /\ \/ /\ ~down /\ HasRoom("server")
        /\ wire' = [Taken("server") EXCEPT !["server"] = Append(@, frame("ServerSettings", 0, 0))]
        /\ UNCHANGED <<closeVars, loop>>
     \/ /\ down \/ ~HasRoom("server")
        /\ wire' = Taken("server")
        /\ Close("server")
        /\ loop' = [loop EXCEPT !["server"] = "end"]
  /\ UNCHANGED <<buffer, buffering, held, closing, openVars, reported, dataVars>>

\* Client: the server's version.
RecvServerSettings ==
  /\ Receives("client", "ServerSettings")
  /\ wire' = Taken("client")
  /\ version' = [version EXCEPT !["client"] = settingsVersion]
  /\ NextFrame("client")
  /\ UNCHANGED <<closeVars, ioVars, held, openVars, settled, reported, dataVars>>

\* The read fails, because the connection is broken or closed, or the loop finds the
\* session closed; the deferred Close closes the session.
LoopEnd(e) ==
  /\ loop[e] = "run"
  /\ held[e] = NoFrame
  /\ die[e] \/ down
  /\ loop' = [loop EXCEPT ![e] = "end"]
  /\ Close(e)
  /\ UNCHANGED <<wire, buffer, buffering, held, closing, openVars, serverVars, dataVars>>

-----------------------------------------------------------------------------
RecvStep(e) == RecvPSH(e) \/ RecvFIN(e) \/ HandoverFails(e) \/ LoopEnd(e)
ClientRecv == RecvSYNACK("SYNACK") \/ RecvSYNACK("SYNERR") \/ RecvServerSettings
ServerRecv == RecvSYN \/ RecvSettings

Next ==
  \/ Break \/ OpenSyn \/ OpenRegister \/ WatcherFires \/ ClientRecv \/ ServerRecv
  \/ \E s \in Sids, cmd \in {"SYNACK", "SYNERR"} : HandshakeReport(s, cmd)
  \/ \E e \in Sides : RecvStep(e)
  \/ \E e \in Sides, s \in Sids : Write(e, s) \/ Read(e, s) \/ StreamClose(e, s)
                                   \/ StreamClosed(e, s)

Spec == Init /\ [][Next]_vars

\* The receive loops, OpenStream and a Close that has begun go on: a control frame
\* waits five seconds at most.  Users may stop reading for ever.
Fairness ==
  /\ WF_vars(OpenRegister)
  /\ WF_vars(ClientRecv \/ RecvStep("client")) /\ WF_vars(ServerRecv \/ RecvStep("server"))
  /\ \A e \in Sides, s \in Sids : WF_vars(StreamClosed(e, s))

FairSpec == Spec /\ Fairness

-----------------------------------------------------------------------------
(* Properties.                                                             *)

\* A stream is closed by the peer's FIN only after its reader has got every data
\* frame the peer wrote before it, once: recvLoop loses nothing on a slow reader, and
\* nothing overtakes data.
FinComesAfterData ==
  [][\A e \in Sides, s \in Sids :
       (RecvFIN(e) /\ Received(e).sid = s /\ s \in alive[e] /\ s \in streams[e])
          => got[e][s] = Received(e).n]_vars

\* The client's frames reach the server settings first: recvLoop never has to
\* answer a SYN with an Alert, although both wait in Session.buffer.
NoAlert == \A i \in 1..Len(wire["server"]) : wire["server"][i].cmd # "Alert"

\* The SYN of stream s is still on its way to the server.
SynPending(s) ==
  \/ opening = s \/ \E i \in 1..Len(buffer) : buffer[i] = frame("SYN", s, 0)
  \/ \E i \in 1..Len(wire["client"]) : wire["client"][i] = frame("SYN", s, 0)

\* If the users of the client's streams keep reading, as a relay does: when the server
\* has no such stream any more, the client's stream dies too, unless the FIN outran
\* the registration of the stream in OpenStream.
ServerCloseReachesClient ==
  (\A s \in Sids : WF_vars(Read("client", s))) =>
     \A s \in Sids :
        (s \in alive["client"] /\ s \notin alive["server"] /\ ~SynPending(s)) ~>
           (s \notin alive["client"] \/ s \in deaf)

\* When a session is closed, its recvLoop ends, even if it was standing on data
\* that nobody reads.
Lingers(e) == die[e] /\ loop[e] = "run"
ClosedSessionStops == (\E e \in Sides : Lingers(e)) ~> (\A e \in Sides : ~Lingers(e))

\* What the comment on Session.Close says, "close the session and all streams": when
\* a session is closed and its recvLoop is over, none of its streams is left open.
CloseClosesAllStreams == \A e \in Sides : die[e] /\ loop[e] = "end" => alive[e] = {}
=============================================================================
