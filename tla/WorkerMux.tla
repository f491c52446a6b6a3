---------------------------- MODULE WorkerMux ----------------------------
(* MuxSocketStream of the two worker servers (server/cloud.js and          *)
(* server/deno.ts): one websocket that carries the smux frames of a Go     *)
(* mux client, one TCP connection per stream.  JavaScript runs one handler *)
(* at a time up to its next await: every await is a state of its own.      *)
(* The message handler of a WritableStream is serial (busy); a reader per  *)
(* connection runs beside it.                                              *)
(* A frame is [cmd, id, of, body, odd]: id is what the server reads, of the*)
(* stream for which the client wrote it.  body is a sequence of items      *)
(* <<s, k>>: <<s, 0>> is the address of stream s and <<s, k>> its k-th     *)
(* piece of data.  odd marks the frame that shares its message with the    *)
(* two bytes of the mux version.                                           *)
EXTENDS Integers, Sequences, FiniteSets, SequencesExt

CONSTANTS Streams,      \* stream ids, in the order the client opens them
          Short,        \* the streams whose address is short
          MaxData,      \* bound: data pieces a client writes per stream
          MaxSpoken,    \* bound: frames of data a remote sends per stream
          SynLimit,     \* body weight up to which a SYN goes on waiting
          None

ASSUME WorkerMuxAssumption == /\ Streams \subseteq Nat \ {0} /\ Short \subseteq Streams
                              /\ MaxData \in Nat /\ MaxSpoken \in Nat /\ SynLimit \in Nat
                              /\ None \notin [op : {"dial", "early", "write"}, id : Nat,
                                            to : Nat \cup {None}, data : Seq(Nat \X Nat)]

VARIABLES plat,         \* "cloud" or "deno": the file that serves
          sent,         \* stream -> data pieces the client has written, -1 before its SYN
          fin,          \* streams the client has closed
          inq,          \* websocket messages not yet handled
          ready,        \* ~readRequest: the vless request has been read
          remain,       \* remainChunk: a SYN waiting for the rest, or None
          busy,         \* what the message handler awaits, or None
          pipe,         \* "run", or "dead" once write() has thrown and the websocket is closed
          sessions,     \* ids registered in the sessions table
          target,       \* id -> stream whose address it was dialled with
          got,          \* id -> items written to its connection
          remote,       \* id -> "none", "open", "ended", "broken" or "closed"
          reader,       \* id -> "off", "run" or "done": handleRemoteToLocal
          left,         \* id -> frames of the chunk being sent that are left
          spoken,       \* id -> frames of data read from the connection
          out,          \* id -> frames given to the websocket: FinFrame or [k, status]
          parked,       \* ids whose FIN waits in sendFrame
          swallowed     \* history: a waiting SYN has eaten another stream's frame

muxVars == <<plat, sent, fin, inq, ready, remain, busy, pipe, sessions, target,
             got, remote, reader, left, spoken, out, parked, swallowed>>
clientVars == <<sent, fin>>
connVars == <<target, got, remote, reader, left, spoken>>

\* Ids in use: the streams, and 0 for the id that a misread first frame yields.
Ids == Streams \cup {0}
FinFrame == [k |-> 0, status |-> FALSE]
Stray == <<0, 1>>       \* the two bytes a misread header leaves before the body

MuxInit(p) ==
  /\ plat = p /\ sent = [s \in Streams |-> -1] /\ fin = {}
  /\ inq = <<>> /\ ready = FALSE /\ remain = None /\ busy = None /\ pipe = "run"
  /\ sessions = {} /\ target = [i \in Ids |-> None] /\ got = [i \in Ids |-> <<>>]
  /\ remote = [i \in Ids |-> "none"] /\ reader = [i \in Ids |-> "off"]
  /\ left = [i \in Ids |-> 0] /\ spoken = [i \in Ids |-> 0]
  /\ out = [i \in Ids |-> <<>>] /\ parked = {} /\ swallowed = FALSE

-----------------------------------------------------------------------------
(* The Go client: vless.Conn sends its request as a message of its own,    *)
(* protocolConn puts the mux version before the first frame, clientConn    *)
(* the address before the first data of a stream.                          *)

Frame(cmd, s, body) == [cmd |-> cmd, id |-> s, of |-> s, body |-> body, odd |-> FALSE]

ClientOpen(s) ==
  /\ sent[s] = -1 /\ \A t \in Streams : t < s => sent[t] # -1
  /\ sent' = [sent EXCEPT ![s] = 0]
  /\ inq' = IF \A t \in Streams : sent[t] = -1
            THEN << Frame("HDR", s, <<>>), [Frame("SYN", s, <<>>) EXCEPT !.odd = TRUE] >>
            ELSE Append(inq, Frame("SYN", s, <<>>))
  /\ UNCHANGED <<plat, fin, ready, remain, busy, pipe, sessions, connVars, out, parked, swallowed>>

ClientWrite(s) ==
  /\ s \notin fin /\ sent[s] \in 0 .. MaxData - 1
  /\ sent' = [sent EXCEPT ![s] = @ + 1]
  /\ inq' = Append(inq, Frame("PSH", s,
              (IF sent[s] = 0 THEN << <<s, 0>> >> ELSE <<>>) \o << <<s, sent[s] + 1>> >>))
  /\ UNCHANGED <<plat, fin, ready, remain, busy, pipe, sessions, connVars, out, parked, swallowed>>

ClientFin(s) ==
  /\ s \notin fin /\ sent[s] > 0
  /\ fin' = fin \cup {s}
  /\ inq' = Append(inq, Frame("FIN", s, <<>>))
  /\ UNCHANGED <<plat, sent, ready, remain, busy, pipe, sessions, connVars, out, parked, swallowed>>

\* The keepalive of smux.
ClientPing(s) ==
  /\ sent[s] # -1 /\ inq = <<>>
  /\ inq' = << Frame("NOP", s, <<>>) >>
  /\ UNCHANGED <<plat, clientVars, ready, remain, busy, pipe, sessions, connVars, out, parked, swallowed>>

-----------------------------------------------------------------------------
(* closeSession: in deno.ts the FIN goes out at once and the connection is *)
(* left open; in cloud.js the FIN may wait in sendFrame and the connection *)
(* is closed.  On a websocket that is closed send() throws: deno.ts does   *)
(* not get to the delete, in cloud.js the frame is lost.                   *)
CloudCloseSession(i) ==
  /\ parked' = IF i \in sessions THEN parked \cup {i} ELSE parked
  /\ remote' = IF i \in sessions THEN [remote EXCEPT ![i] = "closed"] ELSE remote
  /\ out' = out

DenoCloseSession(i) ==
  /\ out' = IF i \in sessions /\ pipe = "run" THEN [out EXCEPT ![i] = Append(@, FinFrame)] ELSE out
  /\ UNCHANGED <<parked, remote>>

\* A mutant: the table entry outlives the session.
CloseSessionKept(i) ==
  /\ IF plat = "cloud" THEN CloudCloseSession(i) ELSE DenoCloseSession(i)
  /\ sessions' = sessions

CloseSession(i) ==
  /\ IF plat = "cloud" THEN CloudCloseSession(i) ELSE DenoCloseSession(i)
  /\ sessions' = IF plat = "cloud" \/ pipe = "run" THEN sessions \ {i} ELSE sessions

\* sendFrame: a frame waits while the websocket has too much buffered.
SendParkedFin(i) ==
  /\ i \in parked
  /\ parked' = parked \ {i}
  /\ out' = IF pipe = "run" THEN [out EXCEPT ![i] = Append(@, FinFrame)] ELSE out
  /\ UNCHANGED <<plat, clientVars, inq, ready, remain, busy, pipe, sessions, connVars, swallowed>>

-----------------------------------------------------------------------------
(* The message handler.                                                    *)

\* Body weight in place of byteLength: a long address alone passes the limit.
Weight(body) == Cardinality({j \in DOMAIN body : body[j] # Stray})
                + (IF \E j \in DOMAIN body : body[j][2] = 0 /\ body[j][1] \notin Short
                   THEN SynLimit ELSE 0)

\* merge: the next message joins the waiting SYN without its own header.
Merge(c) == IF remain = None THEN c ELSE [remain EXCEPT !.body = @ \o c.body]
Swallows(c) == remain # None /\ c.of # remain.of /\ c.cmd # "NOP"

\* parseMuxAddress: what stands where the address should, if it is one.
ParseMuxAddress(body) == IF Head(body)[2] = 0 THEN Head(body)[1] ELSE None

\* Buffer: its length after n messages.  In cloud.js the constructor gives size no
\* value and write() adds to it: the length is NaN and every comparison with it is
\* false.
NaN == -1
CloudLength(n) == NaN
DenoLength(n) == n
LessThan(a, b) == a # NaN /\ a < b

\* Request and version take two messages; the rest of the second is the
\* first frame.  Until then the handler returns.
DenoFirst(c) ==
  IF LessThan(DenoLength(IF c.cmd = "HDR" THEN 1 ELSE 2), 2) THEN [ready |-> FALSE, chunk |-> None]
  ELSE [ready |-> TRUE, chunk |-> [c EXCEPT !.odd = FALSE]]

\* The same tests in cloud.js: none of them holds the first message back, and what is
\* left of it, subarray(realLen, NaN), is empty.  So the version is not waited for and
\* is read as the head of the frame behind it (Misread): the first stream the client
\* opens has no address that can be read and is never dialled.
CloudFirst(c) ==
  IF LessThan(CloudLength(IF c.cmd = "HDR" THEN 1 ELSE 2), 2) THEN [ready |-> FALSE, chunk |-> None]
  ELSE [ready |-> TRUE, chunk |-> None]

\* A frame read two bytes early: its command is the protocol byte (0, a SYN)
\* and its id is not the stream's.
Misread(c) == IF c.odd THEN [c EXCEPT !.cmd = "SYN", !.id = 0, !.body = <<Stray>> \o c.body, !.odd = FALSE]
              ELSE c

\* A mutant: the data that came with the address is dropped.
HandleSynBare(c) ==
  /\ IF Weight(c.body) <= SynLimit
     THEN remain' = c /\ busy' = None
     ELSE /\ remain' = None
          /\ busy' = [op |-> "dial", id |-> c.id, to |-> ParseMuxAddress(c.body), data |-> <<>>]
  /\ UNCHANGED <<sessions, out, parked, remote>>

HandleSyn(c) ==
  /\ IF Weight(c.body) <= SynLimit
     THEN remain' = c /\ busy' = None
     ELSE /\ remain' = None
          /\ busy' = [op |-> "dial", id |-> c.id, to |-> ParseMuxAddress(c.body), data |-> Tail(c.body)]
  /\ UNCHANGED <<sessions, out, parked, remote>>

HandleFrame(c) ==
  LET d == Merge(c) IN
  /\ swallowed' = (swallowed \/ Swallows(c))
  /\ \/ d.cmd = "SYN" /\ HandleSyn(d)
     \/ d.cmd = "NOP" /\ UNCHANGED <<remain, busy, sessions, out, parked, remote>>
     \/ d.cmd = "FIN" /\ CloseSession(d.id) /\ UNCHANGED <<remain, busy>>
     \/ d.cmd = "PSH" /\ busy' = (IF d.id \in sessions
                                  THEN [op |-> "write", id |-> d.id, to |-> None, data |-> d.body]
                                  ELSE None)
                      /\ UNCHANGED <<remain, sessions, out, parked, remote>>

HandleMessage ==
  /\ pipe = "run" /\ busy = None /\ ready /\ inq # <<>>
  /\ inq' = Tail(inq)
  /\ HandleFrame(Misread(Head(inq)))
  /\ UNCHANGED <<plat, clientVars, ready, pipe, target, got, reader, left, spoken>>

HandleFirst ==
  /\ pipe = "run" /\ busy = None /\ ~ready /\ inq # <<>>
  /\ inq' = Tail(inq)
  /\ LET f == IF plat = "cloud" THEN CloudFirst(Head(inq)) ELSE DenoFirst(Head(inq)) IN
     /\ ready' = f.ready
     /\ IF f.chunk = None
        THEN UNCHANGED <<remain, busy, sessions, out, parked, remote, swallowed>>
        ELSE HandleFrame(f.chunk)
  /\ UNCHANGED <<plat, clientVars, pipe, target, got, reader, left, spoken>>

\* write() throws: pipeTo, called without preventCancel, cancels its source, whose
\* cancel() closes the websocket; run's catch only logs.
Throw == pipe' = "dead" /\ busy' = None

\* await Deno.connect: an address that is none, or a dial that fails, throws.
DenoDial ==
  /\ plat = "deno" /\ busy # None /\ busy.op = "dial"
  /\ \/ /\ busy.to # None
        /\ busy' = [busy EXCEPT !.op = "early"] /\ pipe' = pipe
        /\ remote' = [remote EXCEPT ![busy.id] = "open"]
        /\ target' = [target EXCEPT ![busy.id] = busy.to]
     \/ Throw /\ UNCHANGED <<remote, target>>
  /\ UNCHANGED <<plat, clientVars, inq, ready, remain, sessions, got, reader, left, spoken,
                 out, parked, swallowed>>

\* connect() of cloudflare:sockets returns at once; only an address that is
\* none throws, and closeSession finds no session to tell the client about.
CloudDial ==
  /\ plat = "cloud" /\ busy # None /\ busy.op = "dial"
  /\ IF busy.to # None
     THEN /\ busy' = [busy EXCEPT !.op = "early"]
          /\ remote' = [remote EXCEPT ![busy.id] = "open"]
          /\ target' = [target EXCEPT ![busy.id] = busy.to]
     ELSE busy' = None /\ UNCHANGED <<remote, target>>
  /\ UNCHANGED <<plat, clientVars, inq, ready, remain, pipe, sessions, got, reader, left, spoken,
                 out, parked, swallowed>>

\* The data that came with the address is written, then the session is
\* registered and its reader started.
EarlyWritten ==
  /\ busy # None /\ busy.op = "early" /\ remote[busy.id] \in {"open", "ended"}
  /\ got' = [got EXCEPT ![busy.id] = @ \o busy.data]
  /\ sessions' = sessions \cup {busy.id}
  /\ reader' = [reader EXCEPT ![busy.id] = "run"]
  /\ busy' = None
  /\ UNCHANGED <<plat, clientVars, inq, ready, remain, pipe, target, remote, left, spoken,
                 out, parked, swallowed>>

\* The write of the early data fails: cloud.js catches it and closes a
\* session that is not registered yet, deno.ts lets it end the pipe.
EarlyFails ==
  /\ busy # None /\ busy.op = "early" /\ remote[busy.id] = "broken"
  /\ IF plat = "cloud" THEN busy' = None /\ pipe' = pipe ELSE Throw
  /\ UNCHANGED <<plat, clientVars, inq, ready, remain, sessions, connVars, out, parked, swallowed>>

DataWritten ==
  /\ busy # None /\ busy.op = "write" /\ remote[busy.id] \in {"open", "ended"}
  /\ got' = [got EXCEPT ![busy.id] = @ \o busy.data]
  /\ busy' = None
  /\ UNCHANGED <<plat, clientVars, inq, ready, remain, pipe, sessions, target, remote, reader,
                 left, spoken, out, parked, swallowed>>

DataFails ==
  /\ busy # None /\ busy.op = "write" /\ remote[busy.id] \in {"broken", "closed"}
  /\ Throw
  /\ UNCHANGED <<plat, clientVars, inq, ready, remain, sessions, connVars, out, parked, swallowed>>

-----------------------------------------------------------------------------
(* handleRemoteToLocal, one reader per connection.                         *)

\* The frame with number k; the very first carries the status byte.
Sent(i, k) == [k |-> k, status |-> k = 1]

\* deno.ts sends all frames of a chunk without an await.
DenoRead(i) == \E n \in 1 .. 2 :
  /\ plat = "deno" /\ pipe = "run"
  /\ reader[i] = "run" /\ remote[i] = "open" /\ spoken[i] + n <= MaxSpoken
  /\ spoken' = [spoken EXCEPT ![i] = @ + n]
  /\ out' = [out EXCEPT ![i] = @ \o [j \in 1 .. n |-> Sent(i, spoken[i] + j)]]
  /\ UNCHANGED <<plat, clientVars, inq, ready, remain, busy, pipe, sessions, target, got, remote,
                 reader, left, parked, swallowed>>

\* Once the websocket is closed the first send() throws, and so does the one of
\* closeSession: the reader is over and the entry stays.  (Nobody handles the promise
\* that is rejected then; if that ends the program, this is the last step.)
DenoSendFails(i) == \E n \in 1 .. 2 :
  /\ plat = "deno" /\ pipe = "dead"
  /\ reader[i] = "run" /\ remote[i] = "open" /\ spoken[i] + n <= MaxSpoken
  /\ spoken' = [spoken EXCEPT ![i] = @ + n]
  /\ left' = [left EXCEPT ![i] = @ + n]
  /\ reader' = [reader EXCEPT ![i] = "done"]
  /\ UNCHANGED <<plat, clientVars, inq, ready, remain, busy, pipe, sessions, target, got, remote,
                 out, parked, swallowed>>

\* cloud.js awaits sendFrame before each frame of the chunk.
CloudRead(i) == \E n \in 1 .. 2 :
  /\ plat = "cloud" /\ reader[i] = "run" /\ remote[i] = "open" /\ left[i] = 0
  /\ spoken[i] + n <= MaxSpoken
  /\ spoken' = [spoken EXCEPT ![i] = @ + n]
  /\ left' = [left EXCEPT ![i] = n]
  /\ UNCHANGED <<plat, clientVars, inq, ready, remain, busy, pipe, sessions, target, got, remote,
                 reader, out, parked, swallowed>>

CloudSendPiece(i) ==
  /\ plat = "cloud" /\ pipe = "run" /\ left[i] > 0
  /\ left' = [left EXCEPT ![i] = @ - 1]
  /\ out' = [out EXCEPT ![i] = Append(@, Sent(i, spoken[i] - left[i] + 1))]
  /\ UNCHANGED <<plat, clientVars, inq, ready, remain, busy, pipe, sessions, target, got, remote,
                 reader, spoken, parked, swallowed>>

\* Once the websocket is closed sendFrame throws: finally closes the connection,
\* closeSession removes the entry, and its own frame will be lost.
CloudSendFails(i) ==
  /\ plat = "cloud" /\ pipe = "dead" /\ left[i] > 0 /\ reader[i] = "run"
  /\ reader' = [reader EXCEPT ![i] = "done"]
  /\ remote' = [remote EXCEPT ![i] = "closed"]
  /\ parked' = IF i \in sessions THEN parked \cup {i} ELSE parked
  /\ sessions' = sessions \ {i}
  /\ UNCHANGED <<plat, clientVars, inq, ready, remain, busy, pipe, target, got, left, spoken, out,
                 swallowed>>

\* A mutant: the end of the connection is not followed by closeSession.
ReaderEndsSilently(i) ==
  /\ reader[i] = "run" /\ left[i] = 0 /\ remote[i] \in {"ended", "broken", "closed"}
  /\ reader' = [reader EXCEPT ![i] = "done"]
  /\ UNCHANGED <<plat, clientVars, inq, ready, remain, busy, pipe, sessions, target, got, remote,
                 left, spoken, out, parked, swallowed>>

\* The connection ends or fails; catch and then both call closeSession, the
\* second finds nothing.
ReaderEnds(i) ==
  /\ reader[i] = "run" /\ left[i] = 0 /\ remote[i] \in {"ended", "broken", "closed"}
  /\ reader' = [reader EXCEPT ![i] = "done"]
  /\ CloseSession(i)
  /\ UNCHANGED <<plat, clientVars, inq, ready, remain, busy, pipe, target, got, left, spoken, swallowed>>

\* The remote host ends or breaks the connection.
RemoteEnds(i) == \E how \in {"ended", "broken"} :
  /\ remote[i] = "open"
  /\ remote' = [remote EXCEPT ![i] = how]
  /\ UNCHANGED <<plat, clientVars, inq, ready, remain, busy, pipe, sessions, target, got, reader,
                 left, spoken, out, parked, swallowed>>

-----------------------------------------------------------------------------
MuxServer == \/ HandleFirst \/ HandleMessage \/ DenoDial \/ CloudDial
             \/ EarlyWritten \/ EarlyFails \/ DataWritten \/ DataFails
MuxReader(i) == \/ DenoRead(i) \/ DenoSendFails(i) \/ CloudRead(i) \/ CloudSendPiece(i) \/ CloudSendFails(i)
                \/ ReaderEnds(i) \/ SendParkedFin(i)
MuxClient(s) == ClientOpen(s) \/ ClientWrite(s) \/ ClientFin(s) \/ ClientPing(s)
MuxNext == \/ MuxServer
           \/ \E i \in Ids : MuxReader(i) \/ RemoteEnds(i)
           \/ \E s \in Streams : MuxClient(s)

\* The event loop runs every ready continuation: the handler's, each
\* reader's and each waiting sendFrame's.
MuxFairness == /\ WF_muxVars(MuxServer)
               /\ \A i \in Ids : WF_muxVars(CloudSendPiece(i) \/ CloudSendFails(i)) /\ WF_muxVars(ReaderEnds(i))
                                 /\ WF_muxVars(SendParkedFin(i))

-----------------------------------------------------------------------------
(* Properties.                                                             *)

\* What the client wrote on stream s, in order.
Written(s) == [k \in 1 .. sent[s] |-> <<s, k>>]

\* The connection of a stream is dialled with that stream's own address and
\* receives a prefix of that stream's own data, in order, as long as no frame
\* of another stream came in while a SYN was waiting for its address
\* (the merge in write() appends whatever message comes next).  Of cloud.js this says
\* something about the second stream and later ones: the first is never dialled
\* (CloudFirst), and its misread SYN takes its own next message with it.
StreamsStayApart ==
  ~swallowed => \A s \in Streams : target[s] # None =>
                   target[s] = s /\ IsPrefix(got[s], Written(s))

\* What a client hears on a stream is what the connection sent, in order, with
\* the status byte on the first frame and nowhere else, and at most one FIN
\* (handleRemoteToLocal beside closeSession, which is called from three places);
\* of the chunk at which the websocket turns out to be closed it misses the rest.
ClientHearsRemote ==
  \A i \in Ids :
    LET data == [k \in 1 .. spoken[i] - left[i] |-> Sent(i, k)] IN
    \/ out[i] = data
    \/ \E p \in 1 .. Len(data) + 1 : out[i] = InsertAt(data, p, FinFrame)

\* A connection that ends is reported: the client gets a FIN for its stream, even
\* while the message handler waits (the then() after handleRemoteToLocal), or the
\* whole websocket is closed.
RemoteEndIsTold ==
  \A i \in Ids : (i \in sessions /\ remote[i] \in {"ended", "broken"})
                   ~> (\/ \E j \in DOMAIN out[i] : out[i][j] = FinFrame
                       \/ pipe = "dead")
=============================================================================
