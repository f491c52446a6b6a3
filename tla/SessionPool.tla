---------------------------- MODULE SessionPool ----------------------------
(***************************************************************************)
(* The client side of the anytls session pool: session/client.go with the  *)
(* parts of session.go (Close, OpenStream, streamClosed) and stream.go     *)
(* (closeLocally, closeWithError) that decide who owns a session.          *)
(*                                                                         *)
(* A session carries one stream at a time.  CreateStream takes an idle     *)
(* session or dials one, opens a stream on it and only then installs the   *)
(* stream's dieHook, which puts the session back.  Streams die by the      *)
(* user's Close, by a FIN from the peer or with their session; sessions    *)
(* die at any time.  Each goroutine's step between two locks or atomic     *)
(* operations is an action.  Sessions are their sequence numbers; a stream *)
(* is identified with the CreateStream call that opened it.                *)
(***************************************************************************)
EXTENDS Naturals, FiniteSets

CONSTANTS Callers,      \* CreateStream calls, one stream each
          MaxSession,   \* bound on the sessions dialled
          MinIdle       \* Client.minIdleSession

ASSUME SessionAssumption == MaxSession \in Nat /\ MinIdle \in Nat

Sessions == 1..MaxSession

VARIABLES
  die,        \* Client.die is cancelled
  swept,      \* Client.Close has emptied Client.sessions
  counter,    \* Client.sessionCounter
  idle,       \* Client.idleSession; the skip list is ordered newest first
  stale,      \* sessions whose idleSince is before the expiry time
  listed,     \* Client.sessions
  phase,      \* Session.Close: "free", "open", "die", "unpooled", "unlisted", "closed"
  doomed,     \* sessions Client.Close is about to close
  expired,    \* sessions idleCleanup is about to close
  pc,         \* where each CreateStream call, then its user, is
  sess,       \* its session, 0 for none
  streams,    \* streams registered in their Session.streams
  dead,       \* streams whose dieOnce is done
  hook,       \* streams whose dieHook is installed
  hpc,        \* where the goroutine that closes a stream is
  byUser,     \* streams closed by closeWithError (the others by closeLocally)
  taken,      \* streams recvLoop has deleted from Session.streams and is about to close
  ended       \* sessions whose recvLoop has seen, at the top of its loop, that they are closed

vars == <<die, swept, counter, idle, stale, listed, phase, doomed, expired, pc, sess,
          streams, dead, hook, hpc, byUser, taken, ended>>

TypeOK ==
  /\ die \in BOOLEAN /\ swept \in BOOLEAN
  /\ counter \in 0..MaxSession
  /\ idle \in SUBSET Sessions
  /\ stale \in SUBSET Sessions
  /\ listed \in SUBSET Sessions
  /\ phase \in [Sessions -> {"free", "open", "die", "unpooled", "unlisted", "closed"}]
  /\ doomed \in SUBSET Sessions
  /\ expired \in SUBSET Sessions
  /\ pc \in [Callers -> {"start", "lookup", "dial", "open", "syn", "register", "hook",
                         "abandon", "ready", "failed"}]
  /\ sess \in [Callers -> Sessions \cup {0}]
  /\ streams \in SUBSET Callers
  /\ dead \in SUBSET Callers
  /\ hook \in SUBSET Callers
  /\ hpc \in [Callers -> {"none", "read", "check", "select", "insert", "fin", "over"}]
  /\ byUser \in SUBSET Callers
  /\ taken \in SUBSET Callers
  /\ ended \in SUBSET Sessions
  /\ \A c \in Callers : pc[c] \notin {"start", "lookup", "dial", "failed"} => sess[c] # 0

\* NewClient.
Init ==
  /\ die = FALSE /\ swept = FALSE
  /\ counter = 0
  /\ idle = {} /\ stale = {} /\ listed = {}
  /\ phase = [s \in Sessions |-> "free"]
  /\ doomed = {} /\ expired = {}
  /\ pc = [c \in Callers |-> "start"]
  /\ sess = [c \in Callers |-> 0]
  /\ streams = {} /\ dead = {} /\ hook = {}
  /\ hpc = [c \in Callers |-> "none"]
  /\ byUser = {}
  /\ taken = {} /\ ended = {}

poolVars == <<die, swept, counter, idle, stale, listed, doomed, expired>>
callVars == <<pc, sess>>
loopVars == <<taken, ended>>
streamVars == <<streams, dead, hook, hpc, byUser, loopVars>>

-----------------------------------------------------------------------------
(* Session.Close.                                                          *)

IsClosed(s) == phase[s] # "open"

\* dieOnce: the first caller closes the die channel, the others return.
StartClose(s) == phase' = [phase EXCEPT ![s] = IF @ = "open" THEN "die" ELSE @]

\* The session's dieHook: out of the idle list, then out of Client.sessions.
CloseUnpool(s) ==
  /\ phase[s] = "die"
  /\ idle' = idle \ {s}
  /\ phase' = [phase EXCEPT ![s] = "unpooled"]
  /\ UNCHANGED <<die, swept, counter, stale, listed, doomed, expired, callVars, streamVars>>

CloseUnlist(s) ==
  /\ phase[s] = "unpooled"
  /\ listed' = listed \ {s}
  /\ phase' = [phase EXCEPT ![s] = "unlisted"]
  /\ UNCHANGED <<die, swept, counter, idle, stale, doomed, expired, callVars, streamVars>>

\* Under streamLock: closeLocally on every registered stream, and forget them;
\* then conn.Close.
CloseStreams(s) ==
  LET mine == {c \in streams : sess[c] = s}
      killed == mine \ dead IN
  /\ phase[s] = "unlisted"
  /\ phase' = [phase EXCEPT ![s] = "closed"]
  /\ streams' = streams \ mine
  /\ dead' = dead \cup killed
  /\ hpc' = [c \in Callers |-> IF c \in killed THEN "read" ELSE hpc[c]]
  /\ UNCHANGED <<poolVars, callVars, hook, byUser, loopVars>>

\* recvLoop ends, or the SYN watcher fires.
SessionDies(s) ==
  /\ phase[s] = "open"
  /\ StartClose(s)
  /\ UNCHANGED <<poolVars, callVars, streamVars>>

-----------------------------------------------------------------------------
(* Client.CreateStream.                                                    *)

CheckDie(c) ==
  /\ pc[c] = "start"
  /\ pc' = [pc EXCEPT ![c] = IF die THEN "failed" ELSE "lookup"]
  /\ UNCHANGED <<poolVars, phase, sess, streamVars>>

Newest == CHOOSE s \in idle : \A t \in idle : t <= s

\* c.idleSession.Remove(it.Key())
RemainingAll == idle  \* mutant: the session stays in the list
Remaining == idle \ {Newest}

\* getIdleSession, under idleSessionLock.
getIdleSession(c) ==
  /\ pc[c] = "lookup"
  /\ idle # {}
  /\ sess' = [sess EXCEPT ![c] = Newest]
  /\ idle' = Remaining
  /\ pc' = [pc EXCEPT ![c] = "open"]
  /\ UNCHANGED <<die, swept, counter, stale, listed, doomed, expired, phase, streamVars>>

\* No idle session: createSession dials, holding no lock.
DialStart(c) ==
  /\ pc[c] = "lookup"
  /\ idle = {}
  /\ pc' = [pc EXCEPT ![c] = "dial"]
  /\ UNCHANGED <<poolVars, phase, sess, streamVars>>

\* dialOut fails.
DialFail(c) ==
  /\ pc[c] = "dial"
  /\ pc' = [pc EXCEPT ![c] = "failed"]
  /\ UNCHANGED <<poolVars, phase, sess, streamVars>>

\* The rest of createSession: a sequence number, Client.sessions, Run.
createSession(c) ==
  /\ pc[c] = "dial"
  /\ counter < MaxSession
  /\ counter' = counter + 1
  /\ sess' = [sess EXCEPT ![c] = counter + 1]
  /\ phase' = [phase EXCEPT ![counter + 1] = "open"]
  /\ listed' = listed \cup {counter + 1}
  /\ pc' = [pc EXCEPT ![c] = "open"]
  /\ UNCHANGED <<die, swept, idle, stale, doomed, expired, streamVars>>

\* OpenStream, IsClosed check.
OpenCheck(c) ==
  /\ pc[c] = "open"
  /\ pc' = [pc EXCEPT ![c] = IF IsClosed(sess[c]) THEN "abandon" ELSE "syn"]
  /\ UNCHANGED <<poolVars, phase, sess, streamVars>>

\* OpenStream writes the SYN; a failed write closes the session.
OpenSyn(c) ==
  /\ pc[c] = "syn"
  /\ \/ /\ phase[sess[c]] # "closed"
        /\ pc' = [pc EXCEPT ![c] = "register"]
        /\ UNCHANGED phase
     \/ /\ pc' = [pc EXCEPT ![c] = "abandon"]
        /\ StartClose(sess[c])
  /\ UNCHANGED <<poolVars, sess, streamVars>>

\* The select on die under streamLock.
DiedMeanwhileUnchecked(c) == FALSE  \* mutant: no second look at die
DiedMeanwhile(c) == IsClosed(sess[c])

\* OpenStream registers the stream under streamLock unless the session is dying.
OpenRegister(c) ==
  /\ pc[c] = "register"
  /\ IF DiedMeanwhile(c)
       THEN pc' = [pc EXCEPT ![c] = "abandon"] /\ UNCHANGED streams
       ELSE pc' = [pc EXCEPT ![c] = "hook"] /\ streams' = streams \cup {c}
  /\ UNCHANGED <<poolVars, phase, sess, dead, hook, hpc, byUser, loopVars>>

\* CreateStream installs stream.dieHook and returns the stream.
SetHook(c) ==
  /\ pc[c] = "hook"
  /\ hook' = hook \cup {c}
  /\ pc' = [pc EXCEPT ![c] = "ready"]
  /\ UNCHANGED <<poolVars, phase, sess, streams, dead, hpc, byUser, loopVars>>

\* OpenStream failed: session.Close().
Abandon(c) ==
  /\ pc[c] = "abandon"
  /\ StartClose(sess[c])
  /\ pc' = [pc EXCEPT ![c] = "failed"]
  /\ UNCHANGED <<poolVars, sess, streamVars>>

-----------------------------------------------------------------------------
(* The death of a stream.                                                  *)

\* Stream.Close (closeWithError): dieOnce.
UserClose(c) ==
  /\ pc[c] = "ready"
  /\ c \notin dead
  /\ dead' = dead \cup {c}
  /\ byUser' = byUser \cup {c}
  /\ hpc' = [hpc EXCEPT ![c] = "read"]
  /\ UNCHANGED <<poolVars, phase, callVars, streams, hook, loopVars>>

\* recvLoop has read a FIN and deletes the stream under streamLock.  It looked at
\* the session's die channel before it read, at the top of its loop, and not since:
\* the session may be closing.  (A FIN for a stream that is not registered, or no
\* longer, changes nothing.)  The SYN of a session's first stream stays in
\* Session.buffer until the user writes; later ones leave at once.
PeerFin(c) ==
  /\ c \in streams
  /\ pc[c] = "ready" \/ \E d \in Callers \ {c} : sess[d] = sess[c]
  /\ sess[c] \notin ended /\ \A d \in taken : sess[d] # sess[c]
  /\ streams' = streams \ {c}
  /\ taken' = taken \cup {c}
  /\ UNCHANGED <<poolVars, phase, callVars, dead, hook, hpc, byUser, ended>>

\* recvLoop is through with the FIN of c and back at the top of its loop.
LoopOn(c) ==
  /\ taken' = taken \ {c}
  /\ ended' = IF IsClosed(sess[c]) THEN ended \cup {sess[c]} ELSE ended

\* After the unlock recvLoop calls closeLocally.  If dieOnce is done there is
\* nothing left to do; otherwise recvLoop runs the dieHook and then goes on.
PeerFinClose(c) ==
  /\ c \in taken
  /\ \/ c \in dead /\ c \in byUser /\ LoopOn(c) /\ UNCHANGED <<dead, hpc>>
     \/ /\ c \notin dead
        /\ dead' = dead \cup {c}
        /\ hpc' = [hpc EXCEPT ![c] = "read"]
        /\ UNCHANGED loopVars
  /\ UNCHANGED <<poolVars, phase, callVars, streams, hook, byUser>>

\* if s.dieHook != nil, after dieOnce and without a lock.
HookRead(c) ==
  /\ hpc[c] = "read"
  /\ hpc' = [hpc EXCEPT ![c] = IF c \in hook THEN "check" ELSE "fin"]
  /\ UNCHANGED <<poolVars, phase, callVars, streams, dead, hook, byUser, loopVars>>

\* The dieHook: if !session.IsClosed()
HookCheck(c) ==
  /\ hpc[c] = "check"
  /\ hpc' = [hpc EXCEPT ![c] = IF IsClosed(sess[c]) THEN "fin" ELSE "select"]
  /\ UNCHANGED <<poolVars, phase, callVars, streams, dead, hook, byUser, loopVars>>

\* <-c.die.Done() in the dieHook
ClientClosedUnchecked == FALSE  \* mutant: the dieHook does not look
ClientClosed == die

\* The dieHook: the client has been closed, or go on to insert.
HookSelect(c) ==
  /\ hpc[c] = "select"
  /\ IF ClientClosed THEN StartClose(sess[c]) /\ hpc' = [hpc EXCEPT ![c] = "fin"]
                     ELSE hpc' = [hpc EXCEPT ![c] = "insert"] /\ UNCHANGED phase
  /\ UNCHANGED <<poolVars, callVars, streams, dead, hook, byUser, loopVars>>

\* The dieHook puts the session into the idle list, under idleSessionLock.
HookInsert(c) ==
  /\ hpc[c] = "insert"
  /\ idle' = idle \cup {sess[c]}
  /\ stale' = stale \ {sess[c]}
  /\ hpc' = [hpc EXCEPT ![c] = "fin"]
  /\ UNCHANGED <<die, swept, counter, listed, doomed, expired, phase, callVars, streams,
                 dead, hook, byUser, loopVars>>

\* closeWithError goes on to streamClosed: unless the session is closed, write a
\* FIN (a failed write closes the session) and forget the stream.  closeLocally
\* is over, and recvLoop, if it was the one that closed the stream, reads on.
StreamClosed(c) ==
  /\ hpc[c] = "fin"
  /\ hpc' = [hpc EXCEPT ![c] = "over"]
  /\ IF c \in byUser /\ ~IsClosed(sess[c])
       THEN streams' = streams \ {c} /\ (UNCHANGED phase \/ StartClose(sess[c]))
       ELSE UNCHANGED <<streams, phase>>
  /\ IF c \in taken \ byUser THEN LoopOn(c) ELSE UNCHANGED loopVars
  /\ UNCHANGED <<poolVars, callVars, dead, hook, byUser>>

-----------------------------------------------------------------------------
(* idleCleanup and Client.Close.                                           *)

\* Time passes: an idle session's idleSince falls behind the expiry time.
Age(s) ==
  /\ s \in idle \ stale
  /\ stale' = stale \cup {s}
  /\ UNCHANGED <<die, swept, counter, idle, listed, doomed, expired, phase, callVars,
                 streamVars>>

\* The loop of idleCleanupExpTime counts the sessions it keeps, newest first, and
\* keeps a stale one while the count is below minIdleSession.  The first
\* minIdleSession ones are all kept, so the count when it gets to s is below the
\* minimum exactly if fewer than that many are newer than s.
Excess == {s \in idle \cap stale : Cardinality({t \in idle : t > s}) >= MinIdle}

\* idleCleanupExpTime, under idleSessionLock; kept stale sessions are renewed.
idleCleanup ==
  /\ idle \cap stale # {}
  /\ idle' = idle \ Excess
  /\ expired' = expired \cup Excess
  /\ stale' = stale \ idle
  /\ UNCHANGED <<die, swept, counter, listed, doomed, phase, callVars, streamVars>>

\* ... and after the unlock, session.Close() on each.
CloseExpired(s) ==
  /\ s \in expired
  /\ expired' = expired \ {s}
  /\ StartClose(s)
  /\ UNCHANGED <<die, swept, counter, idle, stale, listed, doomed, callVars, streamVars>>

\* Client.Close: dieCancel(), ...
ClientDie ==
  /\ ~die
  /\ die' = TRUE
  /\ UNCHANGED <<swept, counter, idle, stale, listed, doomed, expired, phase, callVars,
                 streamVars>>

\* ... Client.sessions is copied and emptied under sessionsLock, ...
ClientSweep ==
  /\ die /\ ~swept
  /\ swept' = TRUE
  /\ doomed' = listed
  /\ listed' = {}
  /\ UNCHANGED <<die, counter, idle, stale, expired, phase, callVars, streamVars>>

\* ... and each session of the copy is closed.
CloseDoomed(s) ==
  /\ s \in doomed
  /\ doomed' = doomed \ {s}
  /\ StartClose(s)
  /\ UNCHANGED <<die, swept, counter, idle, stale, listed, expired, callVars, streamVars>>

-----------------------------------------------------------------------------
CallerStep(c) ==
  \/ CheckDie(c) \/ getIdleSession(c) \/ DialStart(c) \/ DialFail(c) \/ createSession(c)
  \/ OpenCheck(c) \/ OpenSyn(c) \/ OpenRegister(c) \/ SetHook(c) \/ Abandon(c)

HookStep(c) ==
  \/ HookRead(c) \/ HookCheck(c) \/ HookSelect(c) \/ HookInsert(c) \/ StreamClosed(c)
  \/ PeerFinClose(c)

CloseStep(s) == CloseUnpool(s) \/ CloseUnlist(s) \/ CloseStreams(s)

Next ==
  \/ \E c \in Callers : \/ CallerStep(c) \/ HookStep(c)
                        \/ UserClose(c) \/ PeerFin(c)
  \/ \E s \in Sessions : \/ CloseStep(s) \/ SessionDies(s) \/ Age(s)
                         \/ CloseExpired(s) \/ CloseDoomed(s)
  \/ idleCleanup \/ ClientDie \/ ClientSweep

Spec == Init /\ [][Next]_vars

\* Running goroutines go on: CreateStream, the closing of streams (by recvLoop too,
\* once it has deleted one) and of sessions, Client.Close once called.  No behaviour
\* has infinitely many of these steps, so to be fair to all of them together is to be
\* fair to each.
GoesOn ==
  \/ \E c \in Callers : CallerStep(c) \/ HookStep(c)
  \/ \E s \in Sessions : CloseStep(s) \/ CloseExpired(s) \/ CloseDoomed(s)
  \/ ClientSweep

Fairness == WF_vars(GoesOn)

FairSpec == Spec /\ Fairness

-----------------------------------------------------------------------------
(* Properties.                                                             *)

\* The call c owns its session: it is opening a stream on it, or the stream lives,
\* or it is dead and its dieHook has not handed the session back yet.
Owns(c) ==
  \/ pc[c] \in {"open", "syn", "register", "abandon"}
  \/ pc[c] \in {"hook", "ready"} /\ (c \notin dead \/ hpc[c] \in {"read", "check", "select", "insert"})

\* A session is used by one call at a time, and a session that is idle or that
\* idleCleanup is about to close is used by nobody: whatever the order of hooks,
\* FINs, cleanups and closes, no stream shares its session or loses it to the reaper.
ExclusiveSession ==
  /\ \A c, d \in Callers : Owns(c) /\ Owns(d) /\ c # d => sess[c] # sess[d]
  /\ \A c \in Callers : Owns(c) => sess[c] \notin idle \cup expired

\* When Session.Close has returned, every stream of the session is dead, a reader
\* blocked on one released, except for one that a recvLoop which has not ended yet
\* has taken out of Session.streams, where Close cannot find it: that recvLoop is
\* about to close it (session.go lines 246 to 251).  Also one that OpenStream was
\* about to register is dead or was never registered.
StreamsDieWithTheirSession ==
  \A c \in Callers :
    (c \in streams \/ pc[c] \in {"hook", "ready"}) /\ phase[sess[c]] = "closed" =>
      c \in dead \/ (c \in taken /\ sess[c] \notin ended)

\* The session of a stream that the peer closed before its dieHook was installed.
Leaked(s) == \E c \in Callers : sess[c] = s /\ c \in dead \ byUser

\* After Client.Close every session is closed in the end, and stays so, except those
\* whose stream the user has not closed and those whose stream died before its
\* dieHook was installed.
CloseReachesEverySession ==
  <>[](die => \A s \in Sessions :
                \/ phase[s] \in {"free", "closed"}
                \/ \E c \in Callers : sess[c] = s /\ pc[c] = "ready" /\ c \notin dead
                \/ Leaked(s))
=============================================================================
