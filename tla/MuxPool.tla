------------------------------ MODULE MuxPool ------------------------------
(***************************************************************************)
(* The client's pool of smux sessions (mux/client.go).  A call looks for a *)
(* session that is open and not full, opens a stream on it, and dials a    *)
(* new session when there is none.  Nothing is locked across these steps,  *)
(* and nothing ever takes a session out of the pool.                       *)
(*                                                                         *)
(* smux itself is outside the repository: a session may close at any time, *)
(* and refuses streams with ErrGoAway once its stream ids are used up.     *)
(***************************************************************************)
EXTENDS Naturals, FiniteSets

CONSTANTS Callers,      \* goroutines that call openStream, again and again
          MaxSession,   \* bound on the sessions dialled
          MaxStream,    \* bound on the streams open at a time
          Limit         \* the 8 of openMuxConnectConn

ASSUME CallersAssumption == IsFiniteSet(Callers)
ASSUME BoundAssumption == MaxSession \in Nat /\ MaxStream \in Nat /\ Limit \in Nat

Sessions == 1..MaxSession

VARIABLES
  pool,      \* Client.pool
  made,      \* sessions made so far
  dead,      \* sessions that are closed
  spent,     \* sessions that answer ErrGoAway
  streams,   \* NumStreams() of each session
  pc,        \* each call: "idle", "range", "open", "dial", "store"
  todo,      \* sessions pool.Range has still to visit
  pick       \* the session a call has chosen or made, 0 for none

vars == <<pool, made, dead, spent, streams, pc, todo, pick>>
callVars == <<pc, todo, pick>>

TypeOK ==
  /\ made \in 0..MaxSession
  /\ pool \in SUBSET (1..made) /\ dead \in SUBSET (1..made) /\ spent \in SUBSET (1..made)
  /\ streams \in [Sessions -> 0..MaxStream]
  /\ pc \in [Callers -> {"idle", "range", "open", "dial", "store"}]
  /\ todo \in [Callers -> SUBSET (1..made)]
  /\ pick \in [Callers -> 0..MaxSession]
  /\ \A c \in Callers : pc[c] \in {"open", "store"} => pick[c] \in 1..made

\* NewClient.
Init ==
  /\ pool = {} /\ made = 0 /\ dead = {} /\ spent = {}
  /\ streams = [s \in Sessions |-> 0]
  /\ pc = [c \in Callers |-> "idle"]
  /\ todo = [c \in Callers |-> {}]
  /\ pick = [c \in Callers |-> 0]

\* pool.Range begins: it will visit what is in the pool now.
StartRange(c) ==
  /\ pc' = [pc EXCEPT ![c] = "range"]
  /\ pick' = [pick EXCEPT ![c] = 0]

\* openStream is called.
OpenStream(c) ==
  /\ pc[c] = "idle"
  /\ todo' = [todo EXCEPT ![c] = pool]
  /\ StartRange(c)
  /\ UNCHANGED <<pool, made, dead, spent, streams>>

\* session.IsClosed() || session.NumStreams() > 8
UnusableDead(s) == s \in dead  \* mutant: a full session is taken
Unusable(s) == s \in dead \/ streams[s] > Limit

\* Range visits a session and goes on, or ends with it.
Visit(c, s) ==
  /\ pc[c] = "range"
  /\ s \in todo[c]
  /\ IF Unusable(s)
       THEN todo' = [todo EXCEPT ![c] = @ \ {s}] /\ UNCHANGED <<pc, pick>>
       ELSE /\ todo' = [todo EXCEPT ![c] = {}]
            /\ pick' = [pick EXCEPT ![c] = s]
            /\ pc' = [pc EXCEPT ![c] = "open"]
  /\ UNCHANGED <<pool, made, dead, spent, streams>>

\* No session was found: dial.
NoneFound(c) ==
  /\ pc[c] = "range"
  /\ todo[c] = {}
  /\ pc' = [pc EXCEPT ![c] = "dial"]
  /\ UNCHANGED <<pool, made, dead, spent, streams, todo, pick>>

\* mux.OpenStream succeeds, the stream is returned; on a closed session its error
\* is returned; after ErrGoAway a session is dialled.
Open(c) ==
  LET s == pick[c] IN
  /\ pc[c] = "open"
  /\ \/ /\ s \notin dead \cup spent /\ streams[s] < MaxStream
        /\ streams' = [streams EXCEPT ![s] = @ + 1]
        /\ pc' = [pc EXCEPT ![c] = "idle"]
     \/ s \in dead /\ pc' = [pc EXCEPT ![c] = "idle"] /\ UNCHANGED streams
     \/ s \in spent \ dead /\ pc' = [pc EXCEPT ![c] = "dial"] /\ UNCHANGED streams
  /\ pick' = [pick EXCEPT ![c] = 0]
  /\ UNCHANGED <<pool, made, dead, spent, todo>>

\* c.dialer fails, or a session is made on the new connection.
DialFail(c) ==
  /\ pc[c] = "dial"
  /\ pc' = [pc EXCEPT ![c] = "idle"]
  /\ UNCHANGED <<pool, made, dead, spent, streams, todo, pick>>

Dial(c) ==
  /\ pc[c] = "dial"
  /\ made < MaxSession
  /\ made' = made + 1
  /\ pick' = [pick EXCEPT ![c] = made + 1]
  /\ pc' = [pc EXCEPT ![c] = "store"]
  /\ UNCHANGED <<pool, dead, spent, streams, todo>>

\* c.pool.Store, and openStream is tried again from the start: the session just
\* stored is everybody's.  A Range that is under way may or may not come to see it.
Stored(c) == pool \cup {pick[c]}

Store(c) ==
  /\ pc[c] = "store"
  /\ pool' = Stored(c)
  /\ \E seers \in SUBSET {d \in Callers \ {c} : pc[d] = "range"} :
        todo' = [d \in Callers |-> IF d = c THEN pool'
                                  ELSE IF d \in seers THEN todo[d] \cup {pick[c]}
                                  ELSE todo[d]]
  /\ StartRange(c)
  /\ UNCHANGED <<made, dead, spent, streams>>

\* smux: a stream is closed, a session dies with its streams or runs out of ids.
StreamEnds(s) ==
  /\ streams[s] > 0
  /\ streams' = [streams EXCEPT ![s] = @ - 1]
  /\ UNCHANGED <<pool, made, dead, spent, callVars>>

SessionDies(s) ==
  /\ s \in 1..made \ dead
  /\ dead' = dead \cup {s}
  /\ streams' = [streams EXCEPT ![s] = 0]
  /\ UNCHANGED <<pool, made, spent, callVars>>

GoAway(s) ==
  /\ s \in 1..made \ spent
  /\ spent' = spent \cup {s}
  /\ UNCHANGED <<pool, made, dead, streams, callVars>>

CallStep(c) ==
  \/ NoneFound(c) \/ Open(c) \/ DialFail(c) \/ Dial(c) \/ Store(c)
  \/ \E s \in Sessions : Visit(c, s)

Next ==
  \/ \E c \in Callers : OpenStream(c) \/ CallStep(c)
  \/ \E s \in Sessions : StreamEnds(s) \/ SessionDies(s) \/ GoAway(s)

Spec == Init /\ [][Next]_vars

-----------------------------------------------------------------------------
(* Properties.                                                             *)

\* Calls that have chosen s and not opened their stream yet.
Pending(s) == {c \in Callers : pc[c] = "open" /\ pick[c] = s}

\* The limit is checked before the stream is opened, and by every call for itself:
\* a session may get more streams than Limit + 1, but never more than one per call
\* beyond the limit, whatever the calls do in between.
LimitOvershootIsBounded ==
  \A s \in Sessions : streams[s] + Cardinality(Pending(s)) <= Limit + Cardinality(Callers)
=============================================================================
