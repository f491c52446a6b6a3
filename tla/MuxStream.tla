----------------------------- MODULE MuxStream -----------------------------
(***************************************************************************)
(* The streams of one smux session: the client's end of each (clientConn   *)
(* of mux/conn.go), the server's accept loop (Service.NewConnection of     *)
(* mux/server.go) and its end of each stream (serverConn).                 *)
(*                                                                         *)
(* The client puts the request in front of its first Write, the server the *)
(* status in front of its first Write.  The server reads the requests one  *)
(* after the other in the accept loop, then dials and starts a Relay.      *)
(*                                                                         *)
(* smux delivers a stream's bytes in order; its end is seen after them.    *)
(* In a stream 0 stands for the request or the status, k for the k-th      *)
(* payload written on that side.                                           *)
(***************************************************************************)
EXTENDS Naturals, Sequences, SequencesExt

CONSTANTS StreamBound,  \* bound on the streams opened
          MaxMsg        \* for each stream, bound on the payloads written on each side

Streams == 1..StreamBound

ASSUME StreamAssumption == StreamBound \in Nat /\ MaxMsg \in [Streams -> Nat]

VARIABLES
  opened,           \* streams the client has opened, numbered in order
  wrote,            \* payloads the client has written on each
  requestWritten,   \* clientConn.requestWritten
  responseRead,     \* clientConn.responseRead
  closed,           \* streams the client has closed
  seen,             \* what the client's Reads returned
  up, down,         \* what is under way in each stream
  loop,             \* the accept loop: "accept", "request", "dial" or "over"
  taken,            \* streams accepted; the last one is being handled
  relaying,         \* streams that have a Relay
  relayed,          \* streams whose Relay has ended, and closed both ends
  responseWritten,  \* serverConn.responseWritten
  sent,             \* payloads each target has sent
  got,              \* what each target has received
  left,             \* targets that have closed their connection
  muxDead           \* the session is closed

clientVars == <<opened, wrote, requestWritten, responseRead, closed, seen>>
loopVars == <<loop, taken>>
relayVars == <<relaying, relayed, responseWritten, sent, got, left>>
muxVars == <<clientVars, loopVars, relayVars, up, down, muxDead>>

MuxTypeOK ==
  /\ opened \in 0..StreamBound /\ taken \in 0..opened
  /\ \A s \in Streams : {wrote[s], sent[s]} \subseteq 0..MaxMsg[s]
  /\ {requestWritten, responseRead, closed, relaying, relayed, responseWritten, left}
        \subseteq SUBSET (1..opened)
  /\ \A q \in {up, down, seen, got} : q \in [Streams -> Seq(Nat)]
  /\ loop \in {"accept", "request", "dial", "over"}
  /\ muxDead \in BOOLEAN
  /\ relaying \cap relayed = {}

MuxInit ==
  /\ opened = 0 /\ taken = 0 /\ loop = "accept" /\ muxDead = FALSE
  /\ wrote = [s \in Streams |-> 0] /\ sent = wrote
  /\ requestWritten = {} /\ responseRead = {} /\ closed = {}
  /\ relaying = {} /\ relayed = {} /\ responseWritten = {} /\ left = {}
  /\ up = [s \in Streams |-> <<>>] /\ down = up /\ seen = up /\ got = up

-----------------------------------------------------------------------------
(* The client.                                                             *)

\* DialContext: nothing is sent but smux's SYN.
DialContext ==
  /\ ~muxDead /\ opened < StreamBound
  /\ opened' = opened + 1
  /\ UNCHANGED <<wrote, requestWritten, responseRead, closed, seen,
                 loopVars, relayVars, up, down, muxDead>>

\* clientConn.Write.
RequestAlways(s, k) == <<0, k>>  \* mutant: requestWritten is never set
WithRequest(s, k) == IF s \in requestWritten THEN <<k>> ELSE <<0, k>>

ClientWrite(s) ==
  /\ ~muxDead /\ s <= opened /\ s \notin closed /\ wrote[s] < MaxMsg[s]
  /\ wrote' = [wrote EXCEPT ![s] = @ + 1]
  /\ up' = [up EXCEPT ![s] = @ \o WithRequest(s, wrote[s] + 1)]
  /\ requestWritten' = requestWritten \cup {s}
  /\ UNCHANGED <<opened, responseRead, closed, seen, loopVars, relayVars, down, muxDead>>

\* clientConn.Read: readResponse takes the status off once, then Reads return what
\* follows.
ReadResponse(s) ==
  /\ s \notin responseRead /\ s \notin closed
  /\ down[s] # <<>>
  /\ down' = [down EXCEPT ![s] = Tail(@)]
  /\ responseRead' = responseRead \cup {s}
  /\ UNCHANGED <<opened, wrote, requestWritten, closed, seen, loopVars, relayVars, up, muxDead>>

ClientRead(s) ==
  /\ s \in responseRead \ closed
  /\ down[s] # <<>>
  /\ down' = [down EXCEPT ![s] = Tail(@)]
  /\ seen' = [seen EXCEPT ![s] = Append(@, Head(down[s]))]
  /\ UNCHANGED <<opened, wrote, requestWritten, responseRead, closed, loopVars,
                 relayVars, up, muxDead>>

ClientClose(s) ==
  /\ s <= opened /\ s \notin closed
  /\ closed' = closed \cup {s}
  /\ UNCHANGED <<opened, wrote, requestWritten, responseRead, seen, loopVars,
                 relayVars, up, down, muxDead>>

-----------------------------------------------------------------------------
(* The server's accept loop.                                               *)

\* AcceptStream returns a stream, or the error that ends NewConnection.
Accept ==
  /\ loop = "accept" /\ ~muxDead /\ taken < opened
  /\ taken' = taken + 1
  /\ loop' = "request"
  /\ UNCHANGED <<clientVars, relayVars, up, down, muxDead>>

AcceptFails ==
  /\ loop = "accept" /\ muxDead
  /\ loop' = "over"
  /\ UNCHANGED <<clientVars, taken, relayVars, up, down, muxDead>>

\* ReadStreamRequest takes the request off the stream and leaves what follows it.
AfterRequest(s) == Tail(up[s])

ReadStreamRequest ==
  /\ loop = "request" /\ up[taken] # <<>>
  /\ up' = [up EXCEPT ![taken] = AfterRequest(taken)]
  /\ loop' = "dial"
  /\ UNCHANGED <<clientVars, taken, relayVars, down, muxDead>>

\* It fails at the end of the stream: the loop goes on, the stream stays open.
ReadFailsOnDeath(s) == up[s] = <<>> /\ muxDead  \* mutant: the end of a stream is not seen
ReadFails(s) == up[s] = <<>> /\ (s \in closed \/ muxDead)

ReadStreamRequestFails ==
  /\ loop = "request" /\ ReadFails(taken)
  /\ loop' = "accept"
  /\ UNCHANGED <<clientVars, taken, relayVars, up, down, muxDead>>

\* net.Dial fails: the loop goes on, the stream stays open.
DialFails ==
  /\ loop = "dial"
  /\ loop' = "accept"
  /\ UNCHANGED <<clientVars, taken, relayVars, up, down, muxDead>>

\* net.Dial succeeds, and a Relay is started.
DialTarget ==
  /\ loop = "dial"
  /\ relaying' = relaying \cup {taken}
  /\ loop' = "accept"
  /\ UNCHANGED <<clientVars, taken, relayed, responseWritten, sent, got, left,
                 up, down, muxDead>>

-----------------------------------------------------------------------------
(* The Relays; each ends, and closes both ends, when one of them has ended. *)

RelayUp(s) ==
  /\ s \in relaying \ left /\ up[s] # <<>>
  /\ got' = [got EXCEPT ![s] = Append(@, Head(up[s]))]
  /\ up' = [up EXCEPT ![s] = Tail(@)]
  /\ UNCHANGED <<clientVars, loopVars, relaying, relayed, responseWritten, sent, left,
                 down, muxDead>>

\* serverConn.Write.
WithStatus(s, k) == IF s \in responseWritten THEN <<k>> ELSE <<0, k>>

RelayDown(s) ==
  /\ ~muxDead /\ s \in relaying \ left /\ sent[s] < MaxMsg[s]
  /\ sent' = [sent EXCEPT ![s] = @ + 1]
  /\ down' = [down EXCEPT ![s] = @ \o WithStatus(s, sent[s] + 1)]
  /\ responseWritten' = responseWritten \cup {s}
  /\ UNCHANGED <<clientVars, loopVars, relaying, relayed, got, left, up, muxDead>>

RelayEnds(s) ==
  /\ s \in relaying
  /\ s \in left \/ ReadFails(s)
  /\ relaying' = relaying \ {s}
  /\ relayed' = relayed \cup {s}
  /\ UNCHANGED <<clientVars, loopVars, responseWritten, sent, got, left, up, down, muxDead>>

\* The target closes its connection; the session dies.
TargetCloses(s) ==
  /\ s \in relaying \ left
  /\ left' = left \cup {s}
  /\ UNCHANGED <<clientVars, loopVars, relaying, relayed, responseWritten, sent, got,
                 up, down, muxDead>>

MuxSessionDies ==
  /\ ~muxDead /\ muxDead' = TRUE
  /\ UNCHANGED <<clientVars, loopVars, relayVars, up, down>>

LoopStep ==
  \/ Accept \/ AcceptFails
  \/ ReadStreamRequest \/ ReadStreamRequestFails \/ DialFails \/ DialTarget

RelayStep(s) == RelayUp(s) \/ RelayEnds(s)

MuxNext ==
  \/ DialContext \/ MuxSessionDies \/ LoopStep
  \/ \E s \in Streams :
       \/ ClientWrite(s) \/ ReadResponse(s) \/ ClientRead(s) \/ ClientClose(s)
       \/ RelayStep(s) \/ RelayDown(s) \/ TargetCloses(s)

\* The accept loop and the Relays keep running; a target reads what it is sent.
MuxFairness == WF_muxVars(LoopStep) /\ \A s \in Streams : WF_muxVars(RelayStep(s))

-----------------------------------------------------------------------------
(* Properties.                                                             *)

\* The k-th item is the k-th payload of the other side.
Payloads(q, n) == IsPrefix(q, [k \in 1..n |-> k])

\* The request and the status are taken off exactly once, at the other end of the
\* stream: target and client receive the payloads of the other side, in order and
\* nothing else, however the two directions and the accept loop are interleaved.
OnlyPayloads ==
  \A s \in Streams : Payloads(got[s], wrote[s]) /\ Payloads(seen[s], sent[s])

\* A stream is accepted, and its request waited for, before any later one: one that
\* says nothing holds up all that follow.  When no earlier stream is open and silent,
\* a stream that has spoken is heard by its target, unless it could not be dialled or
\* the target or the session is gone.
Silent(s) == wrote[s] = 0 /\ s \notin closed
PassedOver(s) == s \notin relaying /\ (s < taken \/ (s = taken /\ loop = "accept"))
SpokenIsHeard ==
  \A s \in Streams :
     (wrote[s] > 0 /\ \A e \in 1..(s - 1) : ~Silent(e))
        ~> (got[s] # <<>> \/ PassedOver(s) \/ s \in left \/ muxDead)
=============================================================================
