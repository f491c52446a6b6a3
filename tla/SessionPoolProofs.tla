------------------------- MODULE SessionPoolProofs -------------------------
(***************************************************************************)
(* Proofs about the pool of anytls sessions and its ordered list of idle   *)
(* ones.  SessionPool, for any number of CreateStream calls and of sessions*)
(* and any minimum of idle ones: its types, that no two calls share a      *)
(* session, and that Session.Close leaves no stream behind.  SkipList, for *)
(* any keys, levels and values: that it is a map and its walks agree.      *)
(***************************************************************************)
EXTENDS SessionPool, SkipList, FiniteSetTheorems, WellFoundedInduction, TLAPS

USE DEF Sessions

-----------------------------------------------------------------------------
(* The inductive invariant.                                                *)

\* Only sessions that have been dialled are in anybody's hands, so that
\* createSession's number is new to all.
NumbersAreFresh ==
  /\ \A s \in idle \cup expired \cup listed \cup doomed : s <= counter
  /\ \A c \in Callers : sess[c] <= counter

\* A session that idleCleanup takes leaves the idle list.
IdleOrExpired == idle \cap expired = {}

\* Where the stream of a call is, given how far the call and the stream's death are:
\* a stream is registered before its hook is installed, and a living one stays so
\* unless recvLoop has deleted it to close it.
StreamOfCall(c) ==
  /\ c \in streams \cup dead \cup hook \cup taken => pc[c] \in {"hook", "ready"}
  /\ pc[c] \in {"hook", "ready"} /\ c \notin dead => c \in streams \/ c \in taken
  /\ hpc[c] # "none" <=> c \in dead

\* A recvLoop has one stream in hand at a time, and ends with none.
OneInHand ==
  \A c \in taken : sess[c] \notin ended /\ \A d \in taken : sess[d] = sess[c] => d = c

\* The inductive invariant: two of the properties, and what they rest on.
IInv ==
  /\ TypeOK /\ NumbersAreFresh /\ IdleOrExpired
  /\ \A c \in Callers : StreamOfCall(c)
  /\ OneInHand
  /\ ExclusiveSession
  /\ StreamsDieWithTheirSession

-----------------------------------------------------------------------------
\* A nonempty set of sessions has a greatest number, which is what getIdleSession
\* takes (the skip list is ordered newest first).
LEMMA NewestIsIdle ==
  ASSUME TypeOK, idle # {}
  PROVE  Newest \in idle
<1> DEFINE T == {MaxSession - s : s \in idle}
           Less == OpToRel(<, Nat)
<1>1. T \subseteq Nat /\ T # {}
  <2>1. \A s \in idle : s \in 1..MaxSession
    BY DEF TypeOK
  <2>2. \A s \in idle : MaxSession - s \in Nat
    BY <2>1, SessionAssumption
  <2> QED
    BY <2>2
<1>2. PICK x \in T : \A y \in T : ~ (<<y, x>> \in Less)
  <2>1. IsWellFoundedOn(Less, Nat)
    BY NatLessThanWellFounded
  <2> HIDE DEF T, Less
  <2> QED
    BY <1>1, <2>1, WFMin
<1>3. \A y \in T : ~(y < x)
  BY <1>1, <1>2 DEF OpToRel
<1>4. PICK s \in idle : x = MaxSession - s
  OBVIOUS
<1>5. \A t \in idle : t <= s
  <2> SUFFICES ASSUME NEW t \in idle PROVE t <= s
    OBVIOUS
  <2>1. ~(MaxSession - t < MaxSession - s)
    BY <1>3, <1>4
  <2>2. s \in Nat /\ t \in Nat
    BY SessionAssumption DEF TypeOK
  <2> QED
    BY <2>1, <2>2, SessionAssumption
<1> QED
  BY <1>5 DEF Newest

\* A new client.
LEMMA InitIInv == Init => IInv
<1> SUFFICES ASSUME Init PROVE IInv
  OBVIOUS
<1>1. die \in BOOLEAN /\ swept \in BOOLEAN
  BY Zenon DEF Init
<1>2. TypeOK
  BY <1>1, SessionAssumption DEF Init, TypeOK
<1>3. NumbersAreFresh /\ IdleOrExpired /\ (\A c \in Callers : StreamOfCall(c)) /\ OneInHand
  BY DEF Init, NumbersAreFresh, IdleOrExpired, StreamOfCall, OneInHand
<1>4. ExclusiveSession /\ StreamsDieWithTheirSession
  BY DEF Init, ExclusiveSession, Owns, StreamsDieWithTheirSession
<1> QED
  BY <1>2, <1>3, <1>4 DEF IInv

-----------------------------------------------------------------------------
USE DEF poolVars, callVars, streamVars, loopVars, NumbersAreFresh, IdleOrExpired, StreamOfCall,
        OneInHand

\* CreateStream before it has a session.
Waits(c) ==
  /\ pc[c] \in {"start", "lookup", "dial"}
  /\ \E p \in {"lookup", "dial", "failed"} : pc' = [pc EXCEPT ![c] = p]
  /\ UNCHANGED <<poolVars, phase, sess, streamVars>>

\* The three steps of that kind.
LEMMA WaitsStep ==
  ASSUME NEW c \in Callers, CheckDie(c) \/ DialStart(c) \/ DialFail(c)
  PROVE  Waits(c)
<1>1. CASE CheckDie(c)
  <2>1. pc' = [pc EXCEPT ![c] = "failed"] \/ pc' = [pc EXCEPT ![c] = "lookup"]
    BY <1>1, Zenon DEF CheckDie
  <2> QED
    BY <1>1, <2>1 DEF CheckDie, Waits
<1>2. CASE DialStart(c) \/ DialFail(c)
  BY <1>2 DEF DialStart, DialFail, Waits
<1> QED
  BY <1>1, <1>2

\* The steps of CreateStream.
LEMMA CallerType ==
  ASSUME IInv, NEW c \in Callers, CallerStep(c)
  PROVE  TypeOK'
<1> USE SessionAssumption DEF IInv, TypeOK
<1>1. CASE Waits(c)
  BY <1>1 DEF Waits
<1>2. CASE getIdleSession(c)
  <2>1. Newest \in idle
    BY <1>2, NewestIsIdle DEF getIdleSession
  <2>2. Newest \in Sessions /\ Newest # 0 /\ Newest <= counter /\ Newest \notin expired
    BY <2>1
  <2> HIDE NewestIsIdle DEF Newest
  <2> QED
    BY <1>2, <2>1, <2>2 DEF getIdleSession, Remaining
<1>3. CASE createSession(c)
  BY <1>3 DEF createSession
<1>4. CASE OpenCheck(c)
  BY <1>4 DEF OpenCheck
<1>6. CASE OpenRegister(c)
  BY <1>6 DEF OpenRegister
<1>7. CASE SetHook(c)
  BY <1>7 DEF SetHook
<1>5. CASE OpenSyn(c)
  <2>1. /\ \E p \in {"register", "abandon"} : pc' = [pc EXCEPT ![c] = p]
        /\ phase' = phase \/ StartClose(sess[c])
        /\ pc[c] = "syn" /\ UNCHANGED <<poolVars, sess, streamVars>>
    BY <1>5 DEF OpenSyn
  <2>2. phase' \in [Sessions -> {"free", "open", "die", "unpooled", "unlisted", "closed"}]
    BY <2>1 DEF StartClose
  <2> QED
    BY <2>1, <2>2
<1>8. CASE Abandon(c)
  BY <1>8 DEF Abandon, StartClose
<1> QED
  BY <1>1, <1>2, <1>3, <1>4, <1>5, <1>6, <1>7, <1>8, WaitsStep DEF CallerStep

\* The steps of a call keep where the streams are.
LEMMA CallerStreams ==
  ASSUME IInv, NEW c \in Callers, CallerStep(c)
  PROVE  NumbersAreFresh' /\ IdleOrExpired' /\ OneInHand' /\ \A d \in Callers : StreamOfCall(d)'
<1> USE SessionAssumption DEF IInv, TypeOK
<1>1. CASE Waits(c)
  BY <1>1 DEF Waits
<1>2. CASE getIdleSession(c)
  <2>1. Newest \in idle
    BY <1>2, NewestIsIdle DEF getIdleSession
  <2>2. Newest \in Sessions /\ Newest # 0 /\ Newest <= counter /\ Newest \notin expired
    BY <2>1
  <2> HIDE NewestIsIdle DEF Newest
  <2> QED
    BY <1>2, <2>1, <2>2 DEF getIdleSession, Remaining
<1>3. CASE createSession(c)
  BY <1>3 DEF createSession
<1>4. CASE OpenCheck(c)
  BY <1>4 DEF OpenCheck
<1>6. CASE OpenRegister(c)
  BY <1>6 DEF OpenRegister
<1>7. CASE SetHook(c)
  BY <1>7 DEF SetHook
<1>5. CASE OpenSyn(c)
  BY <1>5 DEF OpenSyn
<1>8. CASE Abandon(c)
  BY <1>8 DEF Abandon
<1> QED
  BY <1>1, <1>2, <1>3, <1>4, <1>5, <1>6, <1>7, <1>8, WaitsStep DEF CallerStep

\* The steps of a call give no session to two calls.
LEMMA CallerExclusive ==
  ASSUME IInv, NEW c \in Callers, CallerStep(c)
  PROVE  ExclusiveSession'
<1> USE SessionAssumption DEF IInv, TypeOK, ExclusiveSession, Owns
<1>1. CASE Waits(c)
  BY <1>1 DEF Waits
<1>2. CASE getIdleSession(c)
  <2>1. Newest \in idle
    BY <1>2, NewestIsIdle DEF getIdleSession
  <2>2. Newest \in Sessions /\ Newest # 0 /\ Newest <= counter /\ Newest \notin expired
    BY <2>1
  <2> HIDE NewestIsIdle DEF Newest
  <2> QED
    BY <1>2, <2>1, <2>2 DEF getIdleSession, Remaining
<1>3. CASE createSession(c)
  BY <1>3 DEF createSession
<1>4. CASE OpenCheck(c)
  BY <1>4 DEF OpenCheck
<1>6. CASE OpenRegister(c)
  BY <1>6 DEF OpenRegister
<1>7. CASE SetHook(c)
  BY <1>7 DEF SetHook
<1>5. CASE OpenSyn(c)
  BY <1>5 DEF OpenSyn
<1>8. CASE Abandon(c)
  BY <1>8 DEF Abandon
<1> QED
  BY <1>1, <1>2, <1>3, <1>4, <1>5, <1>6, <1>7, <1>8, WaitsStep DEF CallerStep

\* The steps of a call put no living stream on a closed session.
LEMMA CallerClosed ==
  ASSUME IInv, NEW c \in Callers, CallerStep(c)
  PROVE  StreamsDieWithTheirSession'
<1> USE SessionAssumption DEF IInv, TypeOK, StreamsDieWithTheirSession
<1>1. CASE Waits(c)
  BY <1>1 DEF Waits
<1>2. CASE getIdleSession(c)
  <2>1. Newest \in idle
    BY <1>2, NewestIsIdle DEF getIdleSession
  <2>2. Newest \in Sessions /\ Newest # 0 /\ Newest <= counter /\ Newest \notin expired
    BY <2>1
  <2> HIDE NewestIsIdle DEF Newest
  <2> QED
    BY <1>2, <2>1, <2>2 DEF getIdleSession, Remaining
<1>3. CASE createSession(c)
  BY <1>3 DEF createSession
<1>4. CASE OpenCheck(c)
  BY <1>4 DEF OpenCheck
<1>6. CASE OpenRegister(c)
  BY <1>6 DEF OpenRegister, DiedMeanwhile, IsClosed
<1>7. CASE SetHook(c)
  BY <1>7 DEF SetHook
<1>5. CASE OpenSyn(c)
  BY <1>5 DEF OpenSyn, StartClose
<1>8. CASE Abandon(c)
  BY <1>8 DEF Abandon, StartClose
<1> QED
  BY <1>1, <1>2, <1>3, <1>4, <1>5, <1>6, <1>7, <1>8, WaitsStep DEF CallerStep

-----------------------------------------------------------------------------
\* recvLoop lets go of a stream: it holds no other one, so that it may end.
LetGo(c) ==
  /\ taken' = taken \ {c}
  /\ ended' \in SUBSET Sessions
  /\ OneInHand'
  /\ \A d \in taken \ {c} : sess[d] \notin ended'

LEMMA LoopGoesOn ==
  ASSUME IInv, NEW c \in Callers, c \in taken, LoopOn(c), UNCHANGED sess
  PROVE  LetGo(c)
<1>1. sess[c] \in Sessions /\ taken' = taken \ {c} /\ sess' = sess
  BY DEF IInv, TypeOK, LoopOn
<1>2. ended' = ended \/ ended' = ended \cup {sess[c]}
  BY Zenon DEF LoopOn
<1>3. ended' \in SUBSET Sessions
  <2>1. ended \in SUBSET Sessions
    BY DEF IInv, TypeOK
  <2> QED
    BY <1>1, <1>2, <2>1, Zenon
<1>4. \A d \in taken \ {c} : sess[d] \notin ended /\ sess[d] # sess[c]
  BY DEF IInv
<1>5. \A d \in taken \ {c} : sess[d] \notin ended'
  BY <1>2, <1>4
<1>6. OneInHand'
  BY <1>1, <1>5 DEF IInv
<1> QED
  BY <1>1, <1>3, <1>5, <1>6 DEF LetGo

\* The death of a stream and what its dieHook does.
LEMMA StreamDies ==
  ASSUME IInv, NEW c \in Callers, HookStep(c) \/ UserClose(c) \/ PeerFin(c)
  PROVE  IInv'
<1> USE SessionAssumption DEF IInv, TypeOK, ExclusiveSession, Owns, StreamsDieWithTheirSession
<1>1. CASE HookRead(c)
  BY <1>1 DEF HookRead
<1>2. CASE HookCheck(c)
  BY <1>2 DEF HookCheck
<1>3. CASE HookSelect(c)
  <2>1. /\ hpc[c] = "select" /\ c \in dead /\ sess[c] \in Sessions
        /\ hpc' = [hpc EXCEPT ![c] = "fin"] \/ hpc' = [hpc EXCEPT ![c] = "insert"]
        /\ phase' = phase \/ StartClose(sess[c])
        /\ UNCHANGED <<poolVars, callVars, streams, dead, hook, byUser, taken, ended>>
    BY <1>3 DEF HookSelect
  <2>2. TypeOK' /\ NumbersAreFresh' /\ IdleOrExpired'
    <3>1. phase' \in [Sessions -> {"free", "open", "die", "unpooled", "unlisted", "closed"}]
      BY <2>1 DEF StartClose
    <3>2. hpc' \in [Callers -> {"none", "read", "check", "select", "insert", "fin", "over"}]
      BY <2>1
    <3>3. TypeOK'
      BY <2>1, <3>1, <3>2
    <3>4. NumbersAreFresh'
      BY <2>1
    <3>5. IdleOrExpired'
      BY <2>1
    <3> QED
      BY <3>3, <3>4, <3>5
  <2>3. OneInHand' /\ \A d \in Callers : StreamOfCall(d)'
    BY <2>1
  <2>4. ExclusiveSession'
    BY <2>1
  <2>5. StreamsDieWithTheirSession'
    BY <2>1 DEF StartClose
  <2> QED
    BY <2>2, <2>3, <2>4, <2>5
<1>4. CASE HookInsert(c)
  <2>1. Owns(c) /\ sess[c] \in Sessions /\ sess[c] <= counter /\ sess[c] \notin idle \cup expired
    BY <1>4 DEF HookInsert
  <2>2. \A d \in Callers : Owns(d)' => Owns(d) /\ d # c
    BY <1>4 DEF HookInsert
  <2>3. TypeOK'
    BY <1>4, <2>1 DEF HookInsert
  <2>7. NumbersAreFresh' /\ IdleOrExpired'
    <3>1. /\ idle' = idle \cup {sess[c]} /\ UNCHANGED <<expired, listed, doomed, counter, sess>>
          /\ NumbersAreFresh /\ IdleOrExpired
      BY <1>4 DEF HookInsert
    <3> HIDE DEF IInv
    <3>2. NumbersAreFresh'
      BY <2>1, <3>1
    <3>3. IdleOrExpired'
      BY <2>1, <3>1
    <3> QED
      BY <3>2, <3>3
  <2>4. OneInHand' /\ \A d \in Callers : StreamOfCall(d)'
    BY <1>4 DEF HookInsert
  <2>5. ExclusiveSession'
    <3> HIDE DEF Owns
    <3> QED
      BY <1>4, <2>1, <2>2 DEF HookInsert
  <2>6. StreamsDieWithTheirSession'
    BY <1>4 DEF HookInsert
  <2> QED
    BY <2>3, <2>4, <2>5, <2>6, <2>7
<1>5. CASE StreamClosed(c)
  <2>1. /\ hpc[c] = "fin" /\ c \in dead /\ sess[c] \in Sessions
        /\ hpc' = [hpc EXCEPT ![c] = "over"]
        /\ streams' = streams \/ streams' = streams \ {c}
        /\ phase' = phase \/ StartClose(sess[c])
        /\ UNCHANGED <<poolVars, callVars, dead, hook, byUser>>
    BY <1>5 DEF StreamClosed
  <2>8. LetGo(c) \/ UNCHANGED <<taken, ended>>
    BY <1>5, LoopGoesOn DEF StreamClosed
  <2>2. TypeOK' /\ NumbersAreFresh' /\ IdleOrExpired'
    <3>1. taken' \in SUBSET Callers /\ ended' \in SUBSET Sessions
      BY <2>8 DEF LetGo
    <3>2. phase' \in [Sessions -> {"free", "open", "die", "unpooled", "unlisted", "closed"}]
      BY <2>1 DEF StartClose
    <3> QED
      BY <2>1, <3>1, <3>2
  <2>3. OneInHand'
    BY <2>1, <2>8 DEF LetGo
  <2>6. \A d \in Callers : StreamOfCall(d)'
    BY <2>1, <2>8 DEF LetGo
  <2>4. ExclusiveSession'
    BY <2>1
  <2>5. StreamsDieWithTheirSession'
    <3>1. \A d \in taken : d # c => d \in taken' /\ (sess[d] \notin ended => sess[d] \notin ended')
      BY <2>8 DEF LetGo
    <3>2. \A t \in Sessions : phase'[t] = "closed" => phase[t] = "closed"
      BY <2>1 DEF StartClose
    <3>3. ASSUME NEW d \in Callers, d \in streams' \/ pc[d] \in {"hook", "ready"},
                 phase'[sess[d]] = "closed", d \notin dead
          PROVE  d \in taken' /\ sess[d] \notin ended'
      <4>1. sess[d] \in Sessions
        BY <2>1, <3>3
      <4>2. d \in taken /\ sess[d] \notin ended /\ d # c
        BY <2>1, <3>2, <3>3, <4>1
      <4> QED
        BY <3>1, <4>2
    <3> QED
      BY <2>1, <3>3
  <2> QED
    BY <2>2, <2>3, <2>4, <2>5, <2>6
<1>6. CASE UserClose(c)
  BY <1>6 DEF UserClose
<1>7. CASE PeerFin(c)
  BY <1>7 DEF PeerFin
<1>8. CASE PeerFinClose(c)
  <2>1. CASE /\ LoopOn(c) /\ c \in taken \cap dead
             /\ UNCHANGED <<poolVars, phase, callVars, streams, dead, hook, hpc, byUser>>
    <3>1. LetGo(c)
      BY <2>1, LoopGoesOn
    <3>2. TypeOK'
      BY <2>1, <3>1 DEF LetGo
    <3>3. NumbersAreFresh' /\ IdleOrExpired' /\ OneInHand' /\ ExclusiveSession'
      BY <2>1, <3>1 DEF LetGo
    <3>4. \A d \in Callers : StreamOfCall(d)'
      BY <2>1, <3>1 DEF LetGo
    <3>5. StreamsDieWithTheirSession'
      BY <2>1, <3>1 DEF LetGo
    <3> QED
      BY <3>2, <3>3, <3>4, <3>5
  <2>2. CASE /\ c \in taken \ dead /\ dead' = dead \cup {c} /\ hpc' = [hpc EXCEPT ![c] = "read"]
             /\ UNCHANGED <<poolVars, phase, callVars, streams, hook, byUser, taken, ended>>
    BY <2>2
  <2> QED
    BY <1>8, <2>1, <2>2 DEF PeerFinClose
<1> QED
  BY <1>1, <1>2, <1>3, <1>4, <1>5, <1>6, <1>7, <1>8 DEF HookStep

\* The steps of Session.Close.
LEMMA SessionCloses ==
  ASSUME IInv, NEW s \in Sessions, CloseStep(s) \/ SessionDies(s)
  PROVE  IInv'
<1> USE SessionAssumption DEF IInv, TypeOK, ExclusiveSession, Owns, StreamsDieWithTheirSession
<1>1. CASE CloseUnpool(s)
  BY <1>1 DEF CloseUnpool
<1>2. CASE CloseUnlist(s)
  BY <1>2 DEF CloseUnlist
<1>3. CASE CloseStreams(s)
  BY <1>3 DEF CloseStreams
<1>4. CASE SessionDies(s)
  BY <1>4 DEF SessionDies, StartClose
<1> QED
  BY <1>1, <1>2, <1>3, <1>4 DEF CloseStep

\* The reaper and Client.Close.
LEMMA PoolShrinks ==
  ASSUME IInv, idleCleanup \/ ClientDie \/ ClientSweep
               \/ \E s \in Sessions : Age(s) \/ CloseExpired(s) \/ CloseDoomed(s)
  PROVE  IInv'
<1> USE SessionAssumption DEF IInv, TypeOK, ExclusiveSession, Owns, StreamsDieWithTheirSession
<1>1. CASE idleCleanup
  <2>1. Excess \subseteq idle
    BY DEF Excess
  <2> QED
    BY <1>1, <2>1 DEF idleCleanup
<1>2. CASE ClientDie
  BY <1>2 DEF ClientDie
<1>3. CASE ClientSweep
  BY <1>3 DEF ClientSweep
<1>4. ASSUME NEW s \in Sessions, Age(s) PROVE IInv'
  BY <1>4 DEF Age
<1>5. ASSUME NEW s \in Sessions, CloseExpired(s) PROVE IInv'
  BY <1>5 DEF CloseExpired, StartClose
<1>6. ASSUME NEW s \in Sessions, CloseDoomed(s) PROVE IInv'
  BY <1>6 DEF CloseDoomed, StartClose
<1> QED
  BY <1>1, <1>2, <1>3, <1>4, <1>5, <1>6

-----------------------------------------------------------------------------
\* IInv is an invariant of the pool.
THEOREM InvariantHolds == Spec => []IInv
<1>1. IInv /\ [Next]_vars => IInv'
  <2> SUFFICES ASSUME IInv, [Next]_vars PROVE IInv'
    OBVIOUS
  <2>1. ASSUME NEW c \in Callers, CallerStep(c) PROVE IInv'
    BY <2>1, CallerType, CallerStreams, CallerExclusive, CallerClosed DEF IInv
  <2>2. CASE UNCHANGED vars
    BY <2>2 DEF vars, IInv, TypeOK, ExclusiveSession, Owns, StreamsDieWithTheirSession
  <2> QED
    BY <2>1, <2>2, StreamDies, SessionCloses, PoolShrinks DEF Next
<1> QED
  BY InitIInv, <1>1, PTL DEF Spec

\* The types of the client's state, and that a call that uses a session has one.
THEOREM TypeCorrect == Spec => []TypeOK
<1>1. IInv => TypeOK
  BY DEF IInv
<1> QED
  BY InvariantHolds, <1>1, PTL

\* Whatever the order of lookups, dials, deaths, hooks and clean-ups, a session is
\* used by one CreateStream call at a time and an idle one by none: getIdleSession,
\* the dieHook and idleCleanup never hand the same session to two parties.
THEOREM SessionsAreExclusive == Spec => []ExclusiveSession
<1>1. IInv => ExclusiveSession
  BY DEF IInv
<1> QED
  BY InvariantHolds, <1>1, PTL

\* Once Session.Close has returned, every stream of the session is dead, also one
\* that OpenStream was about to register meanwhile, unless a FIN of the peer has put
\* it into the hands of a recvLoop that still runs and is about to close it.
THEOREM CloseKillsEveryStream == Spec => []StreamsDieWithTheirSession
<1>1. IInv => StreamsDieWithTheirSession
  BY DEF IInv
<1> QED
  BY InvariantHolds, <1>1, PTL

-----------------------------------------------------------------------------
(* The skip list.  A recursive function of the model is the CHOOSE of one  *)
(* that satisfies its equation: a closed form shows that there is one, and *)
(* the greatest node where it would differ that there is no other.         *)

\* A set of numbers has a least and, when bounded, a greatest member.
LEMMA LeastOne ==
  ASSUME NEW T \in SUBSET Nat, T # {}
  PROVE  \E m \in T : \A j \in T : m <= j
<1>1. PICK R : R = OpToRel(<, Nat) /\ IsWellFoundedOn(R, Nat)
  BY NatLessThanWellFounded
<1>2. PICK m \in T : \A j \in T : ~(<<j, m>> \in R)
  BY <1>1, WFMin
<1>3. \A j \in T : ~(j < m)
  BY <1>1, <1>2 DEF OpToRel
<1> QED
  BY <1>3

\* A node is on a level; what follows it there; the pointers say so.
OnLevel(h, n, i) == n \in Nodes /\ (n = HeadNode \/ i <= h[n])
Follows(h, n, i, x) ==
  /\ x \in Keys \cup {Nil} /\ n < x
  /\ x # Nil => i <= h[x]
  /\ \A m \in Keys : n < m /\ i <= h[m] => x <= m
Linked(nx, h) ==
  /\ nx \in [Nodes -> [Levels -> Keys \cup {Nil}]] /\ h \in [Keys -> Nat]
  /\ \A n \in Nodes, i \in Levels : OnLevel(h, n, i) => Follows(h, n, i, nx[n][i])
  /\ \A n \in Nodes, i \in Levels : ~OnLevel(h, n, i) => nx[n][i] = Nil

\* The last node before the key on a level.
LastBefore(nx, h, i, key, q) == OnLevel(h, q, i) /\ q < key /\ key <= nx[q][i]

LEMMA KeyFacts ==
  /\ MaxKey \in Nat /\ MaxLevel \in Nat /\ Nil \in Nat /\ HeadNode = 0 /\ HeadNode \in Nodes /\ Nil \notin Keys
  /\ \A k \in Keys : k \in Nat /\ 0 < k /\ k < Nil /\ k \in Nodes /\ k # HeadNode
  /\ \A n \in Nodes : n \in Nat /\ n < Nil /\ (n # HeadNode => n \in Keys)
  /\ \A i \in Levels : i \in Nat /\ 1 <= i /\ i <= MaxLevel
  /\ 1 \in Levels
  /\ \A i \in Nat : 1 <= i /\ i <= MaxLevel => i \in Levels
BY SkipListAssumption DEF Keys, Nil, Nodes, HeadNode, Levels

LEMMA GreatestOne ==
  ASSUME NEW T \in SUBSET Nat, T # {}, NEW b \in Nat, \A t \in T : t <= b
  PROVE  \E m \in T : \A j \in T : j <= m
<1>1. PICK U : U = {b - t : t \in T}
  OBVIOUS
<1>0. PICK t0 \in T : TRUE
  OBVIOUS
<1>2. \A t \in T : b - t \in Nat
  OBVIOUS
<1>2a. U \subseteq Nat
  BY <1>1, <1>2
<1>2b. b - t0 \in U
  BY <1>1
<1>3. PICK u \in U : \A j \in U : u <= j
  BY <1>2a, <1>2b, LeastOne
<1>4. PICK m \in T : u = b - m
  BY <1>1, <1>3
<1>5. \A j \in T : b - m <= b - j
  BY <1>1, <1>3, <1>4
<1>6. \A j \in T : j <= m
  BY <1>5
<1> QED
  BY <1>6

\* What the pointers say.
LEMMA LinkFacts ==
  ASSUME NEW nx, NEW h, Linked(nx, h), NEW n \in Nodes, NEW i \in Levels, OnLevel(h, n, i), NEW x, x = nx[n][i]
  PROVE  /\ x \in Nat /\ n < x /\ (x = Nil \/ (x \in Keys /\ i <= h[x] /\ OnLevel(h, x, i)))
         /\ \A m \in Keys : n < m /\ i <= h[m] => x <= m
<1>1. Follows(h, n, i, x)
  BY DEF Linked
<1>2. x \in Keys \cup {Nil} /\ n < x /\ (x # Nil => i <= h[x]) /\ \A m \in Keys : n < m /\ i <= h[m] => x <= m
  BY <1>1, Zenon DEF Follows
<1>3. x \in Nat
  BY <1>2, KeyFacts
<1>4. x \in Keys /\ i <= h[x] => OnLevel(h, x, i)
  BY KeyFacts DEF OnLevel
<1> QED
  BY <1>2, <1>3, <1>4

LEMMA LastIsOne ==
  ASSUME NEW nx, NEW h, Linked(nx, h), NEW i \in Levels, NEW key \in Keys, NEW q, NEW r,
         LastBefore(nx, h, i, key, q), LastBefore(nx, h, i, key, r)
  PROVE  q = r
<1>1. /\ OnLevel(h, q, i) /\ q < key /\ key <= nx[q][i] /\ q \in Nodes
      /\ OnLevel(h, r, i) /\ r < key /\ key <= nx[r][i] /\ r \in Nodes
  BY DEF LastBefore, OnLevel
<1>2. q \in Nat /\ r \in Nat /\ key \in Nat
  BY <1>1, KeyFacts
<1>3. ASSUME NEW a \in Nodes, NEW b \in Nodes, OnLevel(h, a, i), OnLevel(h, b, i), a < b, b < key, key <= nx[a][i]
      PROVE  FALSE
  <2>0. b \in Nat /\ a \in Nat /\ key \in Nat
    BY <1>3, KeyFacts
  <2>1. b # HeadNode /\ b \in Keys
    BY <1>3, <2>0, KeyFacts
  <2>1a. i <= h[b]
    BY <1>3, <2>1 DEF OnLevel
  <2>2. nx[a][i] <= b /\ nx[a][i] \in Nat
    BY <1>3, <2>0, <2>1, <2>1a, LinkFacts
  <2> QED
    BY <1>3, <2>0, <2>2
<1>4. ~(q < r) /\ ~(r < q)
  BY <1>1, <1>3
<1> QED
  BY <1>2, <1>4

LEMMA LastIsThere ==
  ASSUME NEW nx, NEW h, Linked(nx, h), NEW i \in Levels, NEW key \in Keys
  PROVE  \E q \in Nodes : LastBefore(nx, h, i, key, q)
<1>1. PICK T : T = {n \in Nodes : OnLevel(h, n, i) /\ n < key}
  OBVIOUS
<1>2. T \in SUBSET Nat /\ HeadNode \in T
  BY <1>1, KeyFacts DEF OnLevel
<1>3. key \in Nat /\ \A t \in T : t <= key
  BY <1>1, <1>2, KeyFacts
<1>4. PICK q \in T : \A j \in T : j <= q
  BY <1>2, <1>3, GreatestOne
<1>5. q \in Nodes /\ OnLevel(h, q, i) /\ q < key /\ q \in Nat
  BY <1>1, <1>2, <1>4
<1>6. PICK x : x = nx[q][i]
  OBVIOUS
<1>7. x \in Nat /\ q < x /\ (x = Nil \/ (x \in Keys /\ i <= h[x] /\ OnLevel(h, x, i)))
  BY <1>5, <1>6, LinkFacts
<1>8. key <= x
  <2> SUFFICES ASSUME x < key PROVE FALSE
    BY <1>3, <1>7
  <2>1. x # Nil /\ x \in Nodes
    BY <1>7, KeyFacts
  <2>2. x \in T
    BY <1>1, <1>7, <2>1
  <2> QED
    BY <1>4, <1>5, <1>7, <2>2
<1> QED
  BY <1>5, <1>6, <1>8 DEF LastBefore

\* A walk along a level ends on the last node before the key.
LEMMA AlongIsLast ==
  ASSUME Linked(next, height), NEW i \in Levels, NEW key \in Keys,
         NEW p \in Nodes, OnLevel(height, p, i), p < key
  PROVE  LastBefore(next, height, i, key, Along(p, i, key))
<1> DEFINE Steps(f) == [n \in Nodes |-> IF next[n][i] < key THEN f[next[n][i]] ELSE n]
<1>1. PICK q \in Nodes : LastBefore(next, height, i, key, q)
  BY LastIsThere
<1>2. key \in Nat /\ key < Nil
  BY KeyFacts
<1>3. ASSUME NEW n \in Nodes, next[n][i] < key
      PROVE  OnLevel(height, n, i) /\ next[n][i] \in Nodes /\ OnLevel(height, next[n][i], i) /\ n < next[n][i]
  <2>1. OnLevel(height, n, i)
    BY <1>2, <1>3, KeyFacts DEF Linked
  <2>2. PICK x : x = next[n][i]
    OBVIOUS
  <2>3. x \in Nat /\ n < x /\ (x = Nil \/ (x \in Keys /\ i <= height[x] /\ OnLevel(height, x, i)))
    BY <2>1, <2>2, LinkFacts
  <2>4. x \in Nodes /\ OnLevel(height, x, i)
    BY <1>2, <1>3, <2>2, <2>3, KeyFacts
  <2> QED
    BY <2>1, <2>2, <2>3, <2>4
<1>4. ASSUME NEW n \in Nodes, OnLevel(height, n, i), n < key, ~(next[n][i] < key)
      PROVE  n = q
  <2>1. PICK x : x = next[n][i]
    OBVIOUS
  <2>2. x \in Nat
    BY <1>4, <2>1, LinkFacts
  <2>3. key <= next[n][i]
    BY <1>2, <1>4, <2>1, <2>2
  <2>4. LastBefore(next, height, i, key, n)
    BY <1>4, <2>3 DEF LastBefore
  <2> QED
    BY <1>1, <2>4, LastIsOne
<1>5. PICK F : F = [n \in Nodes |-> IF next[n][i] < key THEN q ELSE n]
  OBVIOUS
<1>6. F = Steps(F)
  <2>1. ASSUME NEW n \in Nodes PROVE F[n] = Steps(F)[n]
    <3>1. CASE next[n][i] < key
      <4>1. F[n] = q /\ next[n][i] \in Nodes /\ Steps(F)[n] = F[next[n][i]]
        BY <1>3, <1>5, <3>1
      <4>2. F[next[n][i]] = q
        BY <1>3, <1>4, <1>5, <3>1, <4>1
      <4> QED
        BY <4>1, <4>2
    <3>2. CASE ~(next[n][i] < key)
      BY <1>5, <3>2
    <3> QED
      BY <3>1, <3>2
  <2> QED
    BY <1>5, <2>1
<1>7. PICK c : c = CHOOSE f : f = Steps(f)
  OBVIOUS
<1>8. c = Steps(c)
  BY <1>6, <1>7, Zenon
<1>9. Along(p, i, key) = c[p]
  BY <1>7, Zenon DEF Along
<1>10. c[p] = q
  <2> SUFFICES ASSUME c[p] # q PROVE FALSE
    OBVIOUS
  <2>1. PICK T : T = {n \in Nodes : OnLevel(height, n, i) /\ n < key /\ c[n] # q}
    OBVIOUS
  <2>0. T \subseteq Nat
    BY <2>1, KeyFacts
  <2>0a. p \in T
    BY <2>1
  <2>0b. \A t \in T : t < key
    BY <2>1
  <2>2. T \subseteq Nat /\ p \in T /\ \A t \in T : t <= key
    BY <1>2, <2>0, <2>0a, <2>0b
  <2>3. PICK m \in T : \A j \in T : j <= m
    BY <1>2, <2>2, GreatestOne
  <2>4. m \in Nodes /\ OnLevel(height, m, i) /\ m < key /\ c[m] # q /\ m \in Nat
    BY <2>1, <2>2, <2>3
  <2>5. c[m] = IF next[m][i] < key THEN c[next[m][i]] ELSE m
    BY <1>8, <2>4
  <2>6. next[m][i] < key
    BY <1>4, <2>4, <2>5
  <2>7. next[m][i] \in T /\ m < next[m][i]
    BY <1>3, <2>1, <2>4, <2>5, <2>6
  <2>8. next[m][i] \in Nat
    BY <2>2, <2>7
  <2> QED
    BY <2>3, <2>4, <2>7, <2>8
<1> QED
  BY <1>1, <1>9, <1>10

\* What is known of the levels, and of the last nodes before a key on each.
Capped == level \in Levels /\ \A k \in Keys : height[k] <= level
Prevs(c, key) == \A i \in 1 .. level : LastBefore(next, height, i, key, c[i])

\* The walk down the levels leaves the last node before the key on each.
LEMMA WalkDown ==
  ASSUME Linked(next, height), Capped, NEW key \in Keys,
         NEW c, c = CHOOSE f : f = [i \in 1 .. level |-> Along(IF i = level THEN HeadNode ELSE f[i + 1], i, key)]
  PROVE  Prevs(c, key)
<1> DEFINE Steps(f) == [i \in 1 .. level |-> Along(IF i = level THEN HeadNode ELSE f[i + 1], i, key)]
<1>1. /\ level \in Nat /\ 1 <= level /\ level <= MaxLevel /\ MaxLevel \in Nat /\ key \in Nat /\ 0 < key
      /\ \A i \in 1 .. level : i \in Nat /\ 1 <= i /\ i <= level /\ i \in Levels
  BY KeyFacts DEF Capped
<1>2. \A i \in 1 .. level : OnLevel(height, HeadNode, i) /\ HeadNode < key /\ HeadNode \in Nodes
  BY <1>1, KeyFacts DEF OnLevel
<1>3. ASSUME NEW i \in 1 .. level, NEW q, i < level, LastBefore(next, height, i + 1, key, q)
      PROVE  q \in Nodes /\ OnLevel(height, q, i) /\ q < key
  <2>1. q \in Nodes /\ q < key /\ (q = HeadNode \/ i + 1 <= height[q])
    BY <1>3 DEF LastBefore, OnLevel
  <2>2. q \in Keys => height[q] \in Nat
    BY DEF Linked
  <2>3. q = HeadNode \/ i <= height[q]
    BY <1>1, <2>1, <2>2, KeyFacts
  <2> QED
    BY <2>1, <2>3 DEF OnLevel
<1>4. PICK F : F = [i \in 1 .. level |-> CHOOSE q \in Nodes : LastBefore(next, height, i, key, q)]
  OBVIOUS
<1>5. ASSUME NEW i \in 1 .. level PROVE LastBefore(next, height, i, key, F[i])
  <2>1. PICK q \in Nodes : LastBefore(next, height, i, key, q)
    BY <1>1, LastIsThere
  <2>2. F[i] = CHOOSE r \in Nodes : LastBefore(next, height, i, key, r)
    BY <1>4
  <2> QED
    BY <2>1, <2>2, Zenon
<1>6. ASSUME NEW f, NEW i \in 1 .. level, i < level => LastBefore(next, height, i + 1, key, f[i + 1])
      PROVE  LastBefore(next, height, i, key, Along(IF i = level THEN HeadNode ELSE f[i + 1], i, key))
  <2>1. CASE i = level
    BY <1>1, <1>2, <2>1, AlongIsLast
  <2>2. CASE i # level
    <3>1. i < level
      BY <1>1, <2>2
    <3>2. PICK q : q = f[i + 1]
      OBVIOUS
    <3>3. q \in Nodes /\ OnLevel(height, q, i) /\ q < key
      BY <1>3, <1>6, <3>1, <3>2
    <3>4. LastBefore(next, height, i, key, Along(q, i, key))
      BY <1>1, <3>3, AlongIsLast
    <3> QED
      BY <2>2, <3>2, <3>4
  <2> QED
    BY <2>1, <2>2
<1>7. \A i \in 1 .. level : i < level => i + 1 \in 1 .. level
  BY <1>1
<1>8. F = Steps(F)
  <2>1. ASSUME NEW i \in 1 .. level PROVE F[i] = Along(IF i = level THEN HeadNode ELSE F[i + 1], i, key)
    <3>1. i < level => LastBefore(next, height, i + 1, key, F[i + 1])
      BY <1>5, <1>7
    <3>2. LastBefore(next, height, i, key, Along(IF i = level THEN HeadNode ELSE F[i + 1], i, key))
      BY <1>6, <3>1
    <3> QED
      BY <1>1, <1>5, <3>2, LastIsOne
  <2> QED
    BY <1>4, <2>1
<1>9. c = Steps(c)
  BY <1>8, Zenon
<1> SUFFICES ASSUME ~Prevs(c, key) PROVE FALSE
  OBVIOUS
<1>10. PICK T : T = {i \in 1 .. level : ~LastBefore(next, height, i, key, c[i])}
  OBVIOUS
<1>11. T # {} /\ T \subseteq Nat /\ \A t \in T : t <= level
  BY <1>1, <1>10 DEF Prevs
<1>12. PICK i \in T : \A j \in T : j <= i
  BY <1>1, <1>11, GreatestOne
<1>13. i \in 1 .. level /\ ~LastBefore(next, height, i, key, c[i])
  BY <1>10, <1>12
<1>14. i < level => LastBefore(next, height, i + 1, key, c[i + 1])
  <2> SUFFICES ASSUME i < level, ~LastBefore(next, height, i + 1, key, c[i + 1]) PROVE FALSE
    OBVIOUS
  <2>1. i + 1 \in T
    BY <1>7, <1>10, <1>13
  <2>2. i + 1 <= i
    BY <1>12, <2>1
  <2> QED
    BY <1>1, <1>13, <2>2
<1>15. c[i] = Along(IF i = level THEN HeadNode ELSE c[i + 1], i, key)
  BY <1>9, <1>13
<1> QED
  BY <1>6, <1>13, <1>14, <1>15

-----------------------------------------------------------------------------
(* What the walks of the list find.                                        *)

IsIn(k) == 1 <= height[k]

LEMMA LevelFacts ==
  ASSUME Capped
  PROVE  /\ level \in Nat /\ 1 <= level /\ level <= MaxLevel /\ 1 \in 1 .. level
         /\ \A i \in 1 .. level : i \in Nat /\ 1 <= i /\ i <= level /\ i \in Levels
BY KeyFacts DEF Capped

\* The key is met where it has a level, and only there.
LEMMA Met ==
  ASSUME Linked(next, height), NEW i \in Levels, NEW key \in Keys, NEW q, LastBefore(next, height, i, key, q)
  PROVE  next[q][i] = key <=> i <= height[key]
<1>1. q \in Nodes /\ OnLevel(height, q, i) /\ q < key /\ key <= next[q][i]
  BY DEF LastBefore, OnLevel
<1>2. PICK x : x = next[q][i]
  OBVIOUS
<1>3. x \in Nat /\ (x = Nil \/ (x \in Keys /\ i <= height[x])) /\ (i <= height[key] => x <= key)
  BY <1>1, <1>2, LinkFacts
<1>4. key \in Nat /\ key < Nil
  BY KeyFacts
<1> QED
  BY <1>1, <1>2, <1>3, <1>4

LEMMA MetSomewhere ==
  ASSUME Linked(next, height), Capped, NEW key \in Keys, NEW c, Prevs(c, key)
  PROVE  {i \in 1 .. level : next[c[i]][i] = key} # {} <=> IsIn(key)
<1>1. \A i \in 1 .. level : i \in Levels /\ i \in Nat /\ 1 <= i
  BY LevelFacts
<1>2. \A i \in 1 .. level : next[c[i]][i] = key <=> i <= height[key]
  BY <1>1, Met DEF Prevs
<1>3. 1 \in 1 .. level
  BY LevelFacts
<1>4. height[key] \in Nat
  BY DEF Linked
<1>5. ASSUME IsIn(key) PROVE {i \in 1 .. level : next[c[i]][i] = key} # {}
  BY <1>2, <1>3, <1>5 DEF IsIn
<1>6. ASSUME NEW i \in 1 .. level, next[c[i]][i] = key PROVE IsIn(key)
  BY <1>1, <1>2, <1>4, <1>6 DEF IsIn
<1> QED
  BY <1>5, <1>6

LEMMA InsertPoint ==
  ASSUME Linked(next, height), Capped, NEW key \in Keys
  PROVE  /\ IsIn(key) => FindInsertPoint(key).node = key
         /\ ~IsIn(key) => FindInsertPoint(key).node = Nil /\ Prevs(FindInsertPoint(key).prevs, key)
<1>1. PICK c : c = CHOOSE f : f = [i \in 1 .. level |-> Along(IF i = level THEN HeadNode ELSE f[i + 1], i, key)]
  OBVIOUS
<1>2. Prevs(c, key)
  BY <1>1, WalkDown
<1>3. FindPrevNodes(key) = c
  BY <1>1, Zenon DEF FindPrevNodes
<1>4. PICK hits : hits = {i \in 1 .. level : next[c[i]][i] = key}
  OBVIOUS
<1>5. hits # {} <=> IsIn(key)
  BY <1>2, <1>4, MetSomewhere
<1>6. FindInsertPoint(key) = IF hits # {} THEN [node |-> key, prevs |-> <<>>] ELSE [node |-> Nil, prevs |-> c]
  BY <1>3, <1>4, Zenon DEF FindInsertPoint
<1> QED
  BY <1>2, <1>5, <1>6

LEMMA RemovePoint ==
  ASSUME Linked(next, height), Capped, NEW key \in Keys, FindRemovePoint(key).node # Nil
  PROVE  IsIn(key) /\ Prevs(FindRemovePoint(key).prevs, key)
<1>1. PICK c : c = CHOOSE f : f = [i \in 1 .. level |-> Along(IF i = level THEN HeadNode ELSE f[i + 1], i, key)]
  OBVIOUS
<1>2. Prevs(c, key)
  BY <1>1, WalkDown
<1>3. FindPrevNodes(key) = c
  BY <1>1, Zenon DEF FindPrevNodes
<1>4. FindRemovePoint(key) = IF next[c[1]][1] # key THEN [node |-> Nil, prevs |-> <<>>]
                             ELSE [node |-> next[c[1]][1], prevs |-> c]
  BY <1>3, Zenon DEF FindRemovePoint
<1>5. next[c[1]][1] = key /\ FindRemovePoint(key).prevs = c
  BY <1>4
<1>6. 1 \in 1 .. level /\ 1 \in Levels
  BY LevelFacts, KeyFacts
<1>7. LastBefore(next, height, 1, key, c[1])
  BY <1>2, <1>6 DEF Prevs
<1>8. 1 <= height[key]
  BY <1>5, <1>6, <1>7, Met
<1> QED
  BY <1>2, <1>5, <1>8 DEF IsIn

\* The least key in the list at or after another, Nil if there is none.
AtOrAfter(x, key) == /\ x \in Keys \cup {Nil} /\ key <= x /\ (x # Nil => IsIn(x))
                     /\ \A m \in Keys : IsIn(m) /\ key <= m => x <= m

LEMMA AfterLast ==
  ASSUME Linked(next, height), NEW key \in Keys, NEW q, LastBefore(next, height, 1, key, q)
  PROVE  AtOrAfter(next[q][1], key)
<1>1. q \in Nodes /\ OnLevel(height, q, 1) /\ q < key /\ key <= next[q][1] /\ 1 \in Levels
  BY KeyFacts DEF LastBefore, OnLevel
<1>2. Follows(height, q, 1, next[q][1])
  BY <1>1 DEF Linked
<1>3. key \in Nat /\ q \in Nat /\ \A m \in Keys : m \in Nat
  BY <1>1, KeyFacts
<1>4. \A m \in Keys : key <= m => q < m
  BY <1>1, <1>3
<1> QED
  BY <1>1, <1>2, <1>4 DEF Follows, AtOrAfter, IsIn

\* What the walk of skipListFunc makes of the last nodes before the key.
FuncMet(c, key) == IF {i \in 1 .. level : next[c[i]][i] = key} # {} THEN key ELSE next[c[1]][1]

LEMMA FindsNode ==
  ASSUME Linked(next, height), Capped, NEW key \in Keys
  PROVE  /\ AtOrAfter(LowerBound(key), key) /\ FuncLowerBound(key) = LowerBound(key)
         /\ Has(key) <=> IsIn(key)
<1>1. PICK c : c = CHOOSE f : f = [i \in 1 .. level |-> Along(IF i = level THEN HeadNode ELSE f[i + 1], i, key)]
  OBVIOUS
<1>2. Prevs(c, key)
  BY <1>1, WalkDown
<1>3. FindPrevNodes(key) = c
  BY <1>1, Zenon DEF FindPrevNodes
<1>4. PICK hits : hits = {i \in 1 .. level : next[c[i]][i] = key}
  OBVIOUS
<1>5. hits # {} <=> IsIn(key)
  BY <1>2, <1>4, MetSomewhere
<1>6. FindInsertPoint(key) = IF hits # {} THEN [node |-> key, prevs |-> <<>>] ELSE [node |-> Nil, prevs |-> c]
  BY <1>3, <1>4, Zenon DEF FindInsertPoint
<1>7a. FuncLowerBound(key) =
         FuncMet(CHOOSE f : f = [i \in 1 .. level |-> Along(IF i = level THEN HeadNode ELSE f[i + 1], i, key)], key)
  BY Zenon DEF FuncLowerBound, FuncMet
<1>7b. FuncLowerBound(key) = FuncMet(c, key)
  BY <1>1, <1>7a, Zenon
<1>7. FuncLowerBound(key) = IF hits # {} THEN key ELSE next[c[1]][1]
  BY <1>4, <1>7b, Zenon DEF FuncMet
<1>8. key # Nil /\ key \in Nat
  BY KeyFacts
<1>9. LowerBound(key) = IF IsIn(key) THEN key ELSE next[c[1]][1]
  BY <1>5, <1>6, <1>8 DEF LowerBound, DoFindNode
<1>10. Has(key) <=> IsIn(key)
  BY <1>5, <1>6, <1>8 DEF Has, DoFindNode
<1>11. AtOrAfter(next[c[1]][1], key)
  BY <1>2, AfterLast, LevelFacts DEF Prevs
<1>12. ASSUME IsIn(key) PROVE AtOrAfter(key, key)
  BY <1>8, <1>12 DEF AtOrAfter
<1>13. AtOrAfter(LowerBound(key), key)
  BY <1>9, <1>11, <1>12
<1> QED
  BY <1>5, <1>7, <1>9, <1>10, <1>13

-----------------------------------------------------------------------------
(* A node is linked or unlinked.                                           *)

\* Height of every key but one, which gets g.
Raised(h2, key, g) == h2 = [height EXCEPT ![key] = g]

LEMMA OtherLevels ==
  ASSUME Linked(next, height), NEW key \in Keys, NEW g \in Nat, NEW h2, Raised(h2, key, g)
  PROVE  /\ h2 \in [Keys -> Nat] /\ h2[key] = g
         /\ \A m \in Keys : m # key => h2[m] = height[m]
         /\ \A n \in Nodes, i \in Levels : n # key => (OnLevel(h2, n, i) <=> OnLevel(height, n, i))
<1>1. height \in [Keys -> Nat]
  BY DEF Linked
<1>2. h2 \in [Keys -> Nat] /\ h2[key] = g /\ \A m \in Keys : m # key => h2[m] = height[m]
  BY <1>1 DEF Raised
<1> QED
  BY <1>2, KeyFacts DEF OnLevel

\* The last nodes before the key are the ones that change.
LEMMA LinkKeepsOrder ==
  ASSUME Linked(next, height), Capped, NEW key \in Keys, ~IsIn(key), NEW g \in Levels, NEW c, Prevs(c, key),
         NEW h2, Raised(h2, key, g)
  PROVE  Linked(Link(key, g, c), h2)
<1>1. g \in Nat /\ 1 <= g /\ \A i \in Levels : i \in Nat /\ 1 <= i /\ (i <= level => i \in 1 .. level)
  BY KeyFacts, LevelFacts
<1>2. /\ h2 \in [Keys -> Nat] /\ h2[key] = g
      /\ \A m \in Keys : m # key => h2[m] = height[m]
      /\ \A n \in Nodes, i \in Levels : n # key => (OnLevel(h2, n, i) <=> OnLevel(height, n, i))
  BY <1>1, OtherLevels
<1>3. key \in Nat /\ key < Nil /\ 0 < key /\ key \in Nodes /\ key # HeadNode /\ level \in Nat /\ 1 <= level
  BY KeyFacts, LevelFacts
<1>4. height[key] = 0 /\ \A m \in Keys : height[m] \in Nat /\ height[m] <= level
  BY DEF Linked, Capped, IsIn
<1>4a. next \in [Nodes -> [Levels -> Keys \cup {Nil}]] /\ Nil \in Nat /\ \A m \in Keys : m \in Nat
  BY KeyFacts DEF Linked
<1>5. PICK nx : nx = Link(key, g, c)
  OBVIOUS
<1>6. \A i \in Levels : nx[key][i] = IF i <= g /\ i <= level THEN next[c[i]][i] ELSE Nil
  BY <1>3, <1>5 DEF Link, NewNode
<1>7. \A n \in Nodes, i \in Levels : n # key =>
        nx[n][i] = IF i <= g /\ (IF i <= level THEN c[i] = n ELSE n = HeadNode) THEN key ELSE next[n][i]
  BY <1>5 DEF Link
<1>8. \A i \in Levels : i <= level =>
        /\ c[i] \in Nodes /\ OnLevel(height, c[i], i) /\ c[i] < key /\ key <= next[c[i]][i]
        /\ LastBefore(next, height, i, key, c[i])
  BY <1>1 DEF Prevs, LastBefore, OnLevel
<1>9. ASSUME NEW i \in Levels
      PROVE  IF i <= g THEN Follows(h2, key, i, nx[key][i]) ELSE nx[key][i] = Nil
  <2>1. CASE i <= g /\ i <= level
    <3>1. PICK x : x = next[c[i]][i]
      OBVIOUS
    <3>2. nx[key][i] = x
      BY <1>6, <2>1, <3>1
    <3>3. /\ x \in Nat /\ (x = Nil \/ (x \in Keys /\ i <= height[x])) /\ key <= x
          /\ \A m \in Keys : c[i] < m /\ i <= height[m] => x <= m
      BY <1>8, <2>1, <3>1, LinkFacts
    <3>4. c[i] < key /\ c[i] \in Nat
      BY <1>8, <2>1, KeyFacts
    <3>5. x # key
      BY <1>1, <1>3, <1>4, <3>3
    <3>6. x \in Keys \cup {Nil} /\ key < x /\ (x # Nil => i <= h2[x])
      BY <1>2, <1>3, <3>3, <3>5
    <3>7. ASSUME NEW m \in Keys, key < m, i <= h2[m] PROVE x <= m
      <4>1. m \in Nat /\ m # key
        BY <1>3, <1>4a, <3>7
      <4>2. c[i] < m
        BY <1>3, <3>4, <3>7, <4>1
      <4> QED
        BY <1>2, <3>3, <3>7, <4>1, <4>2
    <3>8. Follows(h2, key, i, x)
      BY <3>6, <3>7 DEF Follows
    <3> QED
      BY <2>1, <3>2, <3>8
  <2>2. CASE i <= g /\ ~(i <= level)
    <3>1. nx[key][i] = Nil
      BY <1>6, <2>2
    <3>2. ASSUME NEW m \in Keys, key < m, i <= h2[m] PROVE FALSE
      <4>1. m # key /\ height[m] <= level /\ height[m] \in Nat
        BY <1>3, <1>4, <3>2
      <4> QED
        BY <1>1, <1>2, <1>3, <2>2, <3>2, <4>1
    <3>3. Follows(h2, key, i, Nil)
      BY <1>3, <3>2 DEF Follows
    <3> QED
      BY <2>2, <3>1, <3>3
  <2>3. CASE ~(i <= g)
    BY <1>6, <2>3
  <2> QED
    BY <2>1, <2>2, <2>3
<1>10. ASSUME NEW n \in Nodes, NEW i \in Levels, n # key, OnLevel(height, n, i)
       PROVE  Follows(h2, n, i, nx[n][i])
  <2>1. PICK x : x = next[n][i]
    OBVIOUS
  <2>2. /\ x \in Nat /\ n < x /\ (x = Nil \/ (x \in Keys /\ i <= height[x]))
        /\ \A m \in Keys : n < m /\ i <= height[m] => x <= m
    BY <1>10, <2>1, LinkFacts
  <2>3. n \in Nat /\ i \in Nat /\ 1 <= i
    BY <1>1, KeyFacts
  <2>4. CASE i <= g /\ (IF i <= level THEN c[i] = n ELSE n = HeadNode)
    <3>1. nx[n][i] = key
      BY <1>7, <1>10, <2>4
    <3>2. n < key
      BY <1>3, <1>8, <2>4, KeyFacts
    <3>3. ASSUME NEW m \in Keys, n < m, i <= h2[m] PROVE key <= m
      <4>1. CASE m = key
        BY <1>3, <4>1
      <4>2. CASE m # key
        <5>1. i <= height[m] /\ height[m] <= level /\ height[m] \in Nat /\ m \in Nat
          BY <1>2, <1>4, <1>4a, <3>3, <4>2
        <5>2. i <= level
          BY <1>3, <2>3, <5>1
        <5>3. key <= x
          BY <1>8, <2>1, <2>4, <5>2
        <5>4. x <= m
          BY <2>2, <3>3, <5>1
        <5> QED
          BY <1>3, <2>2, <5>1, <5>3, <5>4
      <4> QED
        BY <4>1, <4>2
    <3>4. Follows(h2, n, i, key)
      BY <1>2, <2>4, <3>2, <3>3 DEF Follows
    <3> QED
      BY <3>1, <3>4
  <2>5. CASE ~(i <= g /\ (IF i <= level THEN c[i] = n ELSE n = HeadNode))
    <3>1. nx[n][i] = x
      BY <1>7, <1>10, <2>1, <2>5
    <3>2. x # key
      BY <1>4, <2>2, <2>3, <1>3
    <3>3. x \in Keys \cup {Nil} /\ (x # Nil => i <= h2[x])
      BY <1>2, <2>2, <3>2
    <3>4. ASSUME i <= g, n < key PROVE x <= key
      <4> SUFFICES ASSUME key < x PROVE FALSE
        BY <1>3, <2>2
      <4>1. CASE i <= level
        <5>1. LastBefore(next, height, i, key, n)
          BY <1>3, <1>10, <2>1, <2>2, <3>4 DEF LastBefore
        <5>2. c[i] = n
          BY <1>8, <4>1, <5>1, LastIsOne
        <5> QED
          BY <2>5, <3>4, <4>1, <5>2
      <4>2. CASE ~(i <= level)
        <5>1. n # HeadNode
          BY <2>5, <3>4, <4>2
        <5>2. n \in Keys /\ i <= height[n]
          BY <1>10, <5>1, KeyFacts DEF OnLevel
        <5>3. height[n] \in Nat /\ height[n] <= level
          BY <1>4, <5>2
        <5> QED
          BY <1>3, <2>3, <4>2, <5>2, <5>3
      <4> QED
        BY <4>1, <4>2
    <3>5. ASSUME NEW m \in Keys, n < m, i <= h2[m] PROVE x <= m
      <4>1. CASE m = key
        BY <1>2, <3>4, <3>5, <4>1
      <4>2. CASE m # key
        BY <1>2, <2>2, <3>5, <4>2
      <4> QED
        BY <4>1, <4>2
    <3>6. Follows(h2, n, i, x)
      BY <2>2, <3>3, <3>5 DEF Follows
    <3> QED
      BY <3>1, <3>6
  <2> QED
    BY <2>4, <2>5
<1>11. ASSUME NEW n \in Nodes, NEW i \in Levels, n # key, ~OnLevel(height, n, i)
       PROVE  nx[n][i] = Nil
  <2>1. next[n][i] = Nil
    BY <1>11 DEF Linked
  <2>2. n # HeadNode
    BY <1>11 DEF OnLevel
  <2>3. i <= level => c[i] # n
    BY <1>8, <1>11
  <2> QED
    BY <1>7, <1>11, <2>1, <2>2, <2>3
<1>12. \A i \in Levels : OnLevel(h2, key, i) <=> i <= g
  BY <1>2, <1>3 DEF OnLevel
<1>13. nx \in [Nodes -> [Levels -> Keys \cup {Nil}]]
  <2>1. ASSUME NEW i \in Levels, i <= level PROVE next[c[i]][i] \in Keys \cup {Nil}
    BY <1>4a, <1>8, <2>1
  <2>2. NewNode(key, g, c) \in [Levels -> Keys \cup {Nil}]
    BY <2>1 DEF NewNode
  <2>3. ASSUME NEW n \in Nodes
        PROVE  [i \in Levels |-> IF i <= g /\ (IF i <= level THEN c[i] = n ELSE n = HeadNode) THEN key ELSE next[n][i]]
                 \in [Levels -> Keys \cup {Nil}]
    BY <1>4a
  <2> QED
    BY <1>5, <2>2, <2>3, Zenon DEF Link
<1>14. \A n \in Nodes, i \in Levels : OnLevel(h2, n, i) => Follows(h2, n, i, nx[n][i])
  BY <1>2, <1>9, <1>10, <1>12
<1>15. \A n \in Nodes, i \in Levels : ~OnLevel(h2, n, i) => nx[n][i] = Nil
  BY <1>2, <1>9, <1>11, <1>12
<1>16. Linked(nx, h2)
  BY <1>2, <1>13, <1>14, <1>15, Zenon DEF Linked
<1> QED
  BY <1>5, <1>16

LEMMA UnlinkKeepsOrder ==
  ASSUME Linked(next, height), Capped, NEW key \in Keys, NEW c, Prevs(c, key),
         NEW h2, Raised(h2, key, 0)
  PROVE  Linked(Unlink(key, c), h2)
<1>1. \A i \in Levels : i \in Nat /\ 1 <= i /\ (i <= level => i \in 1 .. level)
  BY KeyFacts, LevelFacts
<1>2. /\ h2 \in [Keys -> Nat] /\ h2[key] = 0
      /\ \A m \in Keys : m # key => h2[m] = height[m]
      /\ \A n \in Nodes, i \in Levels : n # key => (OnLevel(h2, n, i) <=> OnLevel(height, n, i))
  BY OtherLevels
<1>3. key \in Nat /\ key < Nil /\ 0 < key /\ key \in Nodes /\ key # HeadNode /\ level \in Nat /\ 1 <= level
  BY KeyFacts, LevelFacts
<1>4. height[key] \in Nat /\ height[key] <= level
  BY DEF Linked, Capped
<1>4a. next \in [Nodes -> [Levels -> Keys \cup {Nil}]] /\ Nil \in Nat /\ \A m \in Keys : m \in Nat
  BY KeyFacts DEF Linked
<1>5. PICK nx : nx = Unlink(key, c)
  OBVIOUS
<1>6. \A i \in Levels : nx[key][i] = Nil
  BY <1>3, <1>5 DEF Unlink
<1>7. \A n \in Nodes, i \in Levels : n # key =>
        nx[n][i] = IF i <= height[key] /\ c[i] = n THEN next[key][i] ELSE next[n][i]
  BY <1>5 DEF Unlink
<1>8. \A i \in Levels : i <= level =>
        /\ c[i] \in Nodes /\ OnLevel(height, c[i], i) /\ c[i] < key /\ key <= next[c[i]][i]
        /\ LastBefore(next, height, i, key, c[i])
  BY <1>1 DEF Prevs, LastBefore, OnLevel
<1>9. \A i \in Levels : ~OnLevel(h2, key, i)
  BY <1>1, <1>2, <1>3 DEF OnLevel
<1>10. ASSUME NEW n \in Nodes, NEW i \in Levels, n # key, OnLevel(height, n, i)
       PROVE  Follows(h2, n, i, nx[n][i])
  <2>1. PICK x : x = next[n][i]
    OBVIOUS
  <2>2. /\ x \in Nat /\ n < x /\ (x = Nil \/ (x \in Keys /\ i <= height[x]))
        /\ \A m \in Keys : n < m /\ i <= height[m] => x <= m
    BY <1>10, <2>1, LinkFacts
  <2>3. n \in Nat /\ i \in Nat /\ 1 <= i
    BY <1>1, KeyFacts
  <2>4. CASE i <= height[key] /\ c[i] = n
    <3>1. PICK y : y = next[key][i]
      OBVIOUS
    <3>2. nx[n][i] = y
      BY <1>7, <1>10, <2>4, <3>1
    <3>3. OnLevel(height, key, i)
      BY <1>3, <2>4 DEF OnLevel
    <3>4. /\ y \in Nat /\ key < y /\ (y = Nil \/ (y \in Keys /\ i <= height[y]))
          /\ \A m \in Keys : key < m /\ i <= height[m] => y <= m
      BY <1>3, <3>1, <3>3, LinkFacts
    <3>5. i <= level
      BY <1>3, <1>4, <2>3, <2>4
    <3>6. n < key /\ key <= x
      BY <1>8, <2>1, <2>4, <3>5
    <3>7. y # key /\ n < y
      BY <1>3, <2>3, <3>4, <3>6
    <3>8. y \in Keys \cup {Nil} /\ (y # Nil => i <= h2[y])
      BY <1>2, <3>4, <3>7
    <3>9. ASSUME NEW m \in Keys, n < m, i <= h2[m] PROVE y <= m
      <4>1. m # key
        BY <1>2, <2>3, <3>9
      <4>2. i <= height[m] /\ m \in Nat
        BY <1>2, <1>4a, <3>9, <4>1
      <4>3. x <= m
        BY <2>2, <3>9, <4>2
      <4>4. key < m
        BY <1>3, <2>2, <3>6, <4>1, <4>2, <4>3
      <4> QED
        BY <3>4, <4>2, <4>4
    <3>10. Follows(h2, n, i, y)
      BY <3>7, <3>8, <3>9 DEF Follows
    <3> QED
      BY <3>2, <3>10
  <2>5. CASE ~(i <= height[key] /\ c[i] = n)
    <3>1. nx[n][i] = x
      BY <1>7, <1>10, <2>1, <2>5
    <3>2. x # key
      <4> SUFFICES ASSUME x = key PROVE FALSE
        OBVIOUS
      <4>1. i <= height[key]
        BY <1>3, <2>2
      <4>2. i <= level
        BY <1>3, <1>4, <2>3, <4>1
      <4>3. LastBefore(next, height, i, key, n)
        BY <1>3, <1>10, <2>1, <2>2 DEF LastBefore
      <4>4. c[i] = n
        BY <1>8, <4>2, <4>3, LastIsOne
      <4> QED
        BY <2>5, <4>1, <4>4
    <3>3. x \in Keys \cup {Nil} /\ (x # Nil => i <= h2[x])
      BY <1>2, <2>2, <3>2
    <3>4. ASSUME NEW m \in Keys, n < m, i <= h2[m] PROVE x <= m
      <4>1. m # key
        BY <1>2, <2>3, <3>4
      <4> QED
        BY <1>2, <2>2, <3>4, <4>1
    <3>5. Follows(h2, n, i, x)
      BY <2>2, <3>3, <3>4 DEF Follows
    <3> QED
      BY <3>1, <3>5
  <2> QED
    BY <2>4, <2>5
<1>11. ASSUME NEW n \in Nodes, NEW i \in Levels, n # key, ~OnLevel(height, n, i)
       PROVE  nx[n][i] = Nil
  <2>1. next[n][i] = Nil
    BY <1>11 DEF Linked
  <2>2. i <= height[key] => i <= level
    BY <1>1, <1>3, <1>4
  <2>3. i <= height[key] => c[i] # n
    BY <1>8, <1>11, <2>2
  <2> QED
    BY <1>7, <1>11, <2>1, <2>3
<1>13. nx \in [Nodes -> [Levels -> Keys \cup {Nil}]]
  <2>1. ASSUME NEW n \in Nodes
        PROVE  [i \in Levels |-> IF n = key THEN Nil ELSE IF i <= height[key] /\ c[i] = n THEN next[key][i] ELSE next[n][i]]
                 \in [Levels -> Keys \cup {Nil}]
    BY <1>3, <1>4a
  <2> QED
    BY <1>5, <2>1, Zenon DEF Unlink
<1>14. \A n \in Nodes, i \in Levels : OnLevel(h2, n, i) => Follows(h2, n, i, nx[n][i])
  BY <1>2, <1>9, <1>10
<1>15. \A n \in Nodes, i \in Levels : ~OnLevel(h2, n, i) => nx[n][i] = Nil
  BY <1>2, <1>6, <1>11
<1>16. Linked(nx, h2)
  BY <1>2, <1>13, <1>14, <1>15, Zenon DEF Linked
<1> QED
  BY <1>5, <1>16

\* The levels above the highest one in use are empty, so what is left is that
\* one.
LEMMA LoweredFits ==
  ASSUME NEW nx, NEW h, Linked(nx, h), level \in Levels, \A k \in Keys : h[k] <= level
  PROVE  Lowered(nx) \in Levels /\ \A k \in Keys : h[k] <= Lowered(nx)
<1>1. /\ level \in Nat /\ 1 <= level /\ level <= MaxLevel /\ MaxLevel \in Nat
      /\ \A i \in Levels : i \in Nat /\ 1 <= i
      /\ \A i \in Nat : 1 <= i /\ i <= level => i \in Levels
  BY KeyFacts
<1>2. PICK T : T = {1} \cup {j \in 2 .. level : nx[HeadNode][j] # Nil}
  OBVIOUS
<1>3. 1 \in T /\ T \subseteq Nat /\ \A t \in T : 1 <= t /\ t <= level
  BY <1>1, <1>2
<1>4. PICK top \in T : \A j \in T : j <= top
  BY <1>1, <1>3, GreatestOne
<1>5. top \in Nat /\ 1 <= top /\ top <= level
  BY <1>3, <1>4
<1>6. \A j \in 2 .. level : top < j => nx[HeadNode][j] = Nil
  <2> SUFFICES ASSUME NEW j \in 2 .. level, top < j, nx[HeadNode][j] # Nil PROVE FALSE
    OBVIOUS
  <2>1. j \in T /\ j \in Nat
    BY <1>1, <1>2
  <2> QED
    BY <1>4, <1>5, <2>1
<1>7. {i \in 2 .. level : \A j \in i .. level : nx[HeadNode][j] = Nil} = (top + 1) .. level
  <2>1. ASSUME NEW i \in 2 .. level, \A j \in i .. level : nx[HeadNode][j] = Nil PROVE i \in (top + 1) .. level
    <3>1. i \in Nat /\ 2 <= i /\ i <= level
      BY <1>1
    <3>2. top < i
      <4> SUFFICES ASSUME i <= top PROVE FALSE
        BY <1>5, <3>1
      <4>1. top \in i .. level /\ top # 1
        BY <1>1, <1>5, <3>1
      <4>2. nx[HeadNode][top] # Nil
        BY <1>2, <1>4, <4>1
      <4> QED
        BY <2>1, <4>1, <4>2
    <3> QED
      BY <1>1, <1>5, <3>1, <3>2
  <2>2. ASSUME NEW i \in (top + 1) .. level PROVE i \in 2 .. level /\ \A j \in i .. level : nx[HeadNode][j] = Nil
    <3>1. \A j \in i .. level : j \in 2 .. level /\ top < j
      BY <1>1, <1>5
    <3>2. i \in 2 .. level
      BY <1>1, <1>5
    <3> QED
      BY <1>6, <3>1, <3>2
  <2> QED
    BY <2>1, <2>2
<1>8. Cardinality((top + 1) .. level) = level - top
  <2>1. top + 1 \in Int /\ level \in Int
    BY <1>1, <1>5
  <2>2. Cardinality((top + 1) .. level) = IF top + 1 > level THEN 0 ELSE level - (top + 1) + 1
    BY <2>1, FS_Interval
  <2> QED
    BY <1>1, <1>5, <2>2
<1>9. Lowered(nx) = level - Cardinality((top + 1) .. level)
  BY <1>7, Zenon DEF Lowered
<1>10. Lowered(nx) = top
  BY <1>1, <1>5, <1>8, <1>9
<1>11. top \in Levels
  BY <1>1, <1>5
<1>12. ASSUME NEW k \in Keys PROVE h[k] <= top
  <2>1. PICK g : g = h[k]
    OBVIOUS
  <2>2. g \in Nat /\ g <= level
    BY <2>1 DEF Linked
  <2>3. SUFFICES ASSUME top < g PROVE FALSE
    BY <1>5, <2>1, <2>2
  <2>4. g \in Levels /\ g \in 2 .. level
    BY <1>1, <1>5, <2>2, <2>3
  <2>5. HeadNode \in Nodes /\ OnLevel(h, HeadNode, g) /\ HeadNode < k /\ k \in Nat /\ k < Nil /\ Nil \in Nat
    BY KeyFacts DEF OnLevel
  <2>6. PICK x : x = nx[HeadNode][g]
    OBVIOUS
  <2>7. x \in Nat /\ (HeadNode < k /\ g <= h[k] => x <= k)
    BY <2>4, <2>5, <2>6, LinkFacts
  <2>8. x <= k
    BY <2>1, <2>2, <2>5, <2>7
  <2>9. x = Nil
    BY <1>6, <2>3, <2>4, <2>6
  <2> QED
    BY <2>5, <2>7, <2>8, <2>9
<1> QED
  BY <1>10, <1>11, <1>12

-----------------------------------------------------------------------------
(* The inductive invariant.                                                *)

Present(h) == {k \in Keys : h[k] > 0}
Valued == /\ value \in [Keys -> Values \cup {NoValue}]
          /\ \A k \in Keys : value[k] = NoValue <=> height[k] = 0
ListIInv == Linked(next, height) /\ Capped /\ Valued /\ len = Cardinality(Present(height))

LEMMA FewKeys == IsFiniteSet(Keys) /\ \A S \in SUBSET Keys : IsFiniteSet(S)
<1>1. IsFiniteSet(Keys)
  BY SkipListAssumption, FS_Interval DEF Keys
<1> QED
  BY <1>1, FS_Subset

\* An empty list, in whatever way it came to be.
LEMMA EmptyList ==
  ASSUME NEW nx, nx = [n \in Nodes |-> [i \in Levels |-> Nil]],
         NEW h, h = [k \in Keys |-> 0]
  PROVE  Linked(nx, h) /\ Present(h) = {}
<1>1. \A n \in Nodes, i \in Levels : nx[n][i] = Nil
  OBVIOUS
<1>2. \A k \in Keys : h[k] = 0
  OBVIOUS
<1>3. \A i \in Levels : i \in Nat /\ 1 <= i
  BY KeyFacts
<1>4. \A n \in Nodes, i \in Levels : Follows(h, n, i, Nil)
  BY <1>2, <1>3, KeyFacts DEF Follows
<1>5. nx \in [Nodes -> [Levels -> Keys \cup {Nil}]] /\ h \in [Keys -> Nat]
  OBVIOUS
<1>6. Linked(nx, h)
  BY <1>1, <1>4, <1>5 DEF Linked
<1>7. Present(h) = {}
  BY <1>2 DEF Present
<1> QED
  BY <1>6, <1>7

LEMMA ListStart == ListInit => ListIInv
<1> SUFFICES ASSUME ListInit PROVE ListIInv
  OBVIOUS
<1>1. /\ next = [n \in Nodes |-> [i \in Levels |-> Nil]]
      /\ height = [k \in Keys |-> 0] /\ value = [k \in Keys |-> NoValue]
      /\ level = 1 /\ len = 0
  BY DEF ListInit
<1>2. Linked(next, height) /\ Present(height) = {}
  BY <1>1, EmptyList
<1>3. \A k \in Keys : height[k] = 0
  BY <1>1
<1>4. Capped
  BY <1>1, <1>3, KeyFacts DEF Capped
<1>5. Valued
  BY <1>1 DEF Valued
<1> QED
  BY <1>1, <1>2, <1>4, <1>5, FS_EmptySet DEF ListIInv

LEMMA ClearKeeps == ListIInv /\ Clear => ListIInv'
<1> SUFFICES ASSUME Clear PROVE ListIInv'
  OBVIOUS
<1>1. /\ next' = [n \in Nodes |-> [i \in Levels |-> Nil]]
      /\ height' = [k \in Keys |-> 0] /\ value' = [k \in Keys |-> NoValue]
      /\ level' = 1 /\ len' = 0
  BY DEF Clear
<1>2. Linked(next', height') /\ Present(height') = {}
  BY <1>1, EmptyList
<1>3. \A k \in Keys : height'[k] = 0
  BY <1>1
<1>4. Capped'
  BY <1>1, <1>3, KeyFacts DEF Capped
<1>5. Valued'
  BY <1>1 DEF Valued
<1>6. Cardinality(Present(height')) = 0
  BY <1>2, FS_EmptySet
<1> QED
  BY <1>1, <1>2, <1>4, <1>5, <1>6 DEF ListIInv

\* One key comes or goes.
LEMMA OneMore ==
  ASSUME Linked(next, height), NEW key \in Keys, NEW g \in Nat, 1 <= g, NEW h2, Raised(h2, key, g), height[key] = 0
  PROVE  Cardinality(Present(h2)) = Cardinality(Present(height)) + 1
<1>1. h2 \in [Keys -> Nat] /\ h2[key] = g /\ \A m \in Keys : m # key => h2[m] = height[m]
  BY OtherLevels
<1>2. Present(h2) = Present(height) \cup {key} /\ key \notin Present(height)
  BY <1>1 DEF Present
<1>3. IsFiniteSet(Present(height))
  BY FewKeys DEF Present
<1> QED
  BY <1>2, <1>3, FS_AddElement

LEMMA OneLess ==
  ASSUME Linked(next, height), NEW key \in Keys, NEW h2, Raised(h2, key, 0), height[key] # 0
  PROVE  Cardinality(Present(h2)) = Cardinality(Present(height)) - 1
<1>1. h2 \in [Keys -> Nat] /\ h2[key] = 0 /\ \A m \in Keys : m # key => h2[m] = height[m]
  BY OtherLevels
<1>2. height[key] \in Nat
  BY DEF Linked
<1>3. Present(h2) = Present(height) \ {key} /\ key \in Present(height)
  BY <1>1, <1>2 DEF Present
<1>4. IsFiniteSet(Present(height))
  BY FewKeys DEF Present
<1> QED
  BY <1>3, <1>4, FS_RemoveElement

LEMMA InsertKeeps ==
  ASSUME ListIInv, NEW key \in Keys, NEW v \in Values, Insert(key, v)
  PROVE  ListIInv' /\ value' = [value EXCEPT ![key] = v]
<1>1. Linked(next, height) /\ Capped /\ Valued /\ len = Cardinality(Present(height))
  BY DEF ListIInv
<1>2. value' = [value EXCEPT ![key] = v] /\ v # NoValue
  BY SkipListAssumption DEF Insert
<1>3. height \in [Keys -> Nat] /\ height[key] \in Nat
  BY <1>1 DEF Linked
<1>3a. value' \in [Keys -> Values \cup {NoValue}] /\ value'[key] = v /\ \A m \in Keys : m # key => value'[m] = value[m]
  BY <1>1, <1>2 DEF Valued
<1>4. CASE FindInsertPoint(key).node # Nil
  <2>1. UNCHANGED <<next, height, level, len>>
    BY <1>4, Zenon DEF Insert
  <2>2. IsIn(key)
    BY <1>1, <1>4, InsertPoint
  <2>3. height[key] # 0
    BY <1>3, <2>2 DEF IsIn
  <2>4. Valued'
    BY <1>1, <1>2, <1>3a, <2>1, <2>3 DEF Valued
  <2>5. Linked(next', height') /\ Capped' /\ len' = Cardinality(Present(height'))
    BY <1>1, <2>1 DEF Capped
  <2>6. ListIInv'
    BY <2>4, <2>5 DEF ListIInv
  <2> QED
    BY <1>2, <2>6
<1>5. CASE FindInsertPoint(key).node = Nil
  <2>1. PICK c : c = FindInsertPoint(key).prevs
    OBVIOUS
  <2>2. PICK g \in RandomLevels : /\ height' = [height EXCEPT ![key] = g]
                                  /\ next' = Link(key, g, c)
                                  /\ level' = IF g > level THEN g ELSE level
                                  /\ len' = len + 1
    BY <1>5, <2>1, Zenon DEF Insert
  <2>3. g \in Levels /\ g \in Nat /\ 1 <= g
    BY KeyFacts DEF RandomLevels
  <2>4. ~IsIn(key) /\ Prevs(c, key)
    BY <1>1, <1>5, <2>1, InsertPoint, KeyFacts
  <2>5. Raised(height', key, g)
    BY <2>2 DEF Raised
  <2>6. Linked(next', height')
    BY <1>1, <2>2, <2>3, <2>4, <2>5, LinkKeepsOrder
  <2>7. height'[key] = g /\ \A m \in Keys : m # key => height'[m] = height[m]
    BY <1>3, <2>2
  <2>8. height[key] = 0
    BY <1>3, <2>4 DEF IsIn
  <2>9. Capped'
    <3>1. level \in Levels /\ level \in Nat /\ \A m \in Keys : height[m] <= level /\ height[m] \in Nat
      BY <1>1, <1>3, KeyFacts DEF Capped
    <3>2. level' \in Levels /\ level <= level' /\ g <= level' /\ level' \in Nat
      BY <2>2, <2>3, <3>1
    <3>3. \A m \in Keys : height'[m] <= level'
      BY <2>3, <2>7, <3>1, <3>2
    <3> QED
      BY <3>2, <3>3 DEF Capped
  <2>10. Valued'
    BY <1>1, <1>2, <1>3a, <2>3, <2>7 DEF Valued
  <2>11. len' = Cardinality(Present(height'))
    BY <1>1, <2>2, <2>3, <2>5, <2>8, OneMore
  <2>12. ListIInv'
    BY <2>6, <2>9, <2>10, <2>11 DEF ListIInv
  <2> QED
    BY <1>2, <2>12
<1> QED
  BY <1>4, <1>5

LEMMA RemoveKeeps ==
  ASSUME ListIInv, NEW key \in Keys, Remove(key)
  PROVE  ListIInv' /\ value[key] # NoValue /\ value' = [value EXCEPT ![key] = NoValue]
<1>1. Linked(next, height) /\ Capped /\ Valued /\ len = Cardinality(Present(height))
  BY DEF ListIInv
<1>2. PICK c : c = FindRemovePoint(key).prevs
  OBVIOUS
<1>3. /\ FindRemovePoint(key).node # Nil
      /\ next' = Unlink(key, c) /\ level' = Lowered(next')
      /\ height' = [height EXCEPT ![key] = 0] /\ value' = [value EXCEPT ![key] = NoValue]
      /\ len' = len - 1
  BY <1>2, Zenon DEF Remove
<1>4. IsIn(key) /\ Prevs(c, key)
  BY <1>1, <1>2, <1>3, RemovePoint
<1>5. Raised(height', key, 0)
  BY <1>3 DEF Raised
<1>6. Linked(next', height')
  BY <1>1, <1>3, <1>4, <1>5, UnlinkKeepsOrder
<1>7. height \in [Keys -> Nat] /\ height[key] \in Nat /\ height'[key] = 0 /\ \A m \in Keys : m # key => height'[m] = height[m]
  BY <1>1, <1>3 DEF Linked
<1>8. height[key] # 0
  BY <1>4, <1>7 DEF IsIn
<1>9. value[key] # NoValue
  BY <1>1, <1>8 DEF Valued
<1>10. Capped'
  <2>1. level \in Levels /\ level \in Nat /\ \A m \in Keys : height[m] <= level /\ height[m] \in Nat
    BY <1>1, <1>7, KeyFacts DEF Capped
  <2>2. \A m \in Keys : height'[m] <= level
    BY <1>7, <2>1
  <2>3. PICK nx : nx = next'
    OBVIOUS
  <2>4. PICK h : h = height'
    OBVIOUS
  <2>5. Lowered(nx) \in Levels /\ \A k \in Keys : h[k] <= Lowered(nx)
    BY <1>6, <2>1, <2>2, <2>3, <2>4, LoweredFits
  <2> QED
    BY <1>3, <2>3, <2>4, <2>5 DEF Capped
<1>11. Valued'
  BY <1>1, <1>3, <1>7 DEF Valued
<1>12. len' = Cardinality(Present(height'))
  BY <1>1, <1>3, <1>5, <1>8, OneLess
<1>13. ListIInv'
  BY <1>6, <1>10, <1>11, <1>12 DEF ListIInv
<1> QED
  BY <1>3, <1>9, <1>13

LEMMA ListStays == ListIInv /\ [ListNext]_listVars => ListIInv'
<1> SUFFICES ASSUME ListIInv, [ListNext]_listVars PROVE ListIInv'
  OBVIOUS
<1>1. ASSUME NEW k \in Keys, Remove(k) PROVE ListIInv'
  BY <1>1, RemoveKeeps
<1>2. ASSUME NEW k \in Keys, NEW v \in Values, Insert(k, v) PROVE ListIInv'
  BY <1>2, InsertKeeps
<1>3. CASE Clear
  BY <1>3, ClearKeeps
<1>4. CASE UNCHANGED listVars
  BY <1>4 DEF listVars, ListIInv, Linked, Capped, Valued, Present, OnLevel, Follows
<1> QED
  BY <1>1, <1>2, <1>3, <1>4, Zenon DEF ListNext

LEMMA ListInv == ListSpec => []ListIInv
<1>1. ListInit => ListIInv
  BY ListStart
<1>2. ListIInv /\ [ListNext]_listVars => ListIInv'
  BY ListStays
<1> QED
  BY <1>1, <1>2, PTL DEF ListSpec

-----------------------------------------------------------------------------
(* The list implements the map.                                            *)

\* What Find sees is what the nodes hold.
FoundAsHeld == Contents = value

LEMMA ContentsAreValues == ListIInv => Contents = value
<1> SUFFICES ASSUME ListIInv PROVE Contents = value
  OBVIOUS
<1>1. Linked(next, height) /\ Capped /\ Valued
  BY DEF ListIInv
<1>2. ASSUME NEW k \in Keys PROVE Find(k) = value[k]
  <2>1. Has(k) <=> IsIn(k)
    BY <1>1, FindsNode
  <2>2. height[k] \in Nat /\ (value[k] = NoValue <=> height[k] = 0)
    BY <1>1 DEF Linked, Valued
  <2>3. ~IsIn(k) => value[k] = NoValue
    BY <2>2 DEF IsIn
  <2> QED
    BY <2>1, <2>3 DEF Find
<1>3. Contents = [k \in Keys |-> value[k]]
  BY <1>2, Zenon DEF Contents
<1> QED
  BY <1>1, <1>3 DEF Valued

LEMMA MapStarts == ListInit /\ Contents = value => Map!MapInit
BY DEF ListInit, Map!MapInit

LEMMA MapSteps ==
  ListIInv /\ [ListNext]_listVars /\ Contents = value /\ Contents' = value' => [Map!MapNext]_Contents
<1> SUFFICES ASSUME ListIInv, [ListNext]_listVars, Contents = value, Contents' = value'
             PROVE  Map!MapNext \/ Contents' = Contents
  BY Zenon
<1>1. ASSUME NEW k \in Keys, Remove(k) PROVE Map!MapNext
  <2>1. value[k] # NoValue /\ value' = [value EXCEPT ![k] = NoValue]
    BY <1>1, RemoveKeeps
  <2>2. Map!Drop(k)
    BY <2>1 DEF Map!Drop
  <2> QED
    BY <2>2 DEF Map!MapNext
<1>2. ASSUME NEW k \in Keys, NEW v \in Values, Insert(k, v) PROVE Map!MapNext
  <2>1. value' = [value EXCEPT ![k] = v]
    BY <1>2, InsertKeeps
  <2>2. Map!Put(k, v)
    BY <2>1 DEF Map!Put
  <2> QED
    BY <2>2 DEF Map!MapNext
<1>3. CASE Clear
  <2>1. value' = [k \in Keys |-> NoValue]
    BY <1>3 DEF Clear
  <2>2. Map!Empty
    BY <2>1 DEF Map!Empty
  <2> QED
    BY <2>2 DEF Map!MapNext
<1>4. CASE UNCHANGED listVars
  BY <1>4 DEF listVars
<1> QED
  BY <1>1, <1>2, <1>3, <1>4, Zenon DEF ListNext

\* The skip list is the map of its keys, as its own Find sees it: Insert is
\* Put, Remove is Drop, Clear is Empty, whatever levels randomLevel gives
\* (anytls/skiplist).
THEOREM ListIsAMap == ListSpec => ImplementsMap
<1>1. ListIInv => FoundAsHeld
  BY ContentsAreValues DEF FoundAsHeld
<1>2. ListInit /\ FoundAsHeld => Map!MapInit
  BY MapStarts DEF FoundAsHeld
<1>3. ListIInv /\ [ListNext]_listVars /\ FoundAsHeld /\ FoundAsHeld' => [Map!MapNext]_Contents
  BY MapSteps DEF FoundAsHeld
<1> QED
  BY <1>1, <1>2, <1>3, ListInv, PTL DEF ListSpec, ImplementsMap, Map!MapSpec

-----------------------------------------------------------------------------
(* The walks agree.                                                        *)

LEMMA LeastIs ==
  ASSUME NEW S \in SUBSET Keys, NEW x, x = Nil \/ x \in S, S = {} \/ x \in S, \A j \in S : x <= j
  PROVE  Least(S) = x
<1>1. \A k \in S : k \in Nat /\ k # Nil /\ k < Nil
  BY KeyFacts
<1>2. x \in S \cup {Nil} /\ \A j \in S : x <= j
  OBVIOUS
<1>3. PICK y : y = Least(S)
  OBVIOUS
<1>4. y \in S \cup {Nil} /\ \A j \in S : y <= j
  BY <1>2, <1>3, Zenon DEF Least
<1>5. CASE S = {}
  BY <1>2, <1>3, <1>4, <1>5
<1>6. CASE S # {}
  <2>1. x \in S
    BY <1>6
  <2>2. y <= x /\ x \in Nat /\ x < Nil /\ Nil \in Nat
    BY <1>1, <1>4, <2>1, KeyFacts
  <2>3. y \in S
    BY <1>4, <2>2
  <2>4. x <= y /\ y \in Nat
    BY <1>1, <2>3
  <2> QED
    BY <1>3, <2>2, <2>4
<1> QED
  BY <1>5, <1>6

\* The keys of the list from a to before end.
Between(a, end) == {k \in Present(height) : a <= k /\ k < end}

LEMMA PresentFacts ==
  ASSUME Linked(next, height)
  PROVE  \A k \in Keys : k \in Present(height) <=> IsIn(k)
BY DEF Linked, Present, IsIn

LEMMA WalkTo ==
  ASSUME Linked(next, height), NEW end, end = Nil \/ (end \in Keys /\ IsIn(end)),
         NEW n, n = Nil \/ (n \in Keys /\ IsIn(n)), n <= end
  PROVE  Visited(n, end) = Between(n, end)
<1> DEFINE Ks == Nodes \cup {Nil}
<1> DEFINE Steps(f) == [m \in Ks |-> IF m \in {end, Nil} THEN {} ELSE {m} \cup f[next[m][1]]]
<1> DEFINE After(m) == {k \in Present(height) : m < k /\ (m < end => k < end)}
<1> DEFINE Seen(m) == IF m \in {end, Nil} THEN {} ELSE IF OnLevel(height, m, 1) THEN {m} \cup After(m) ELSE {m}
<1>1. /\ Nil \in Nat /\ end \in Nat /\ n \in Nat /\ n \in Ks /\ end <= Nil /\ 1 \in Levels
      /\ \A m \in Ks : m \in Nat /\ m <= Nil /\ (m # Nil => m \in Nodes)
  BY KeyFacts
<1>2. \A k \in Present(height) : k \in Keys /\ k \in Nat /\ k < Nil /\ 1 <= height[k]
  BY PresentFacts, KeyFacts DEF Present, IsIn
<1>2a. end = Nil \/ end \in Present(height)
  BY PresentFacts
<1>3. ASSUME NEW m \in Nodes
      PROVE  /\ next[m][1] \in Ks /\ m < next[m][1]
             /\ ~OnLevel(height, m, 1) => next[m][1] = Nil
             /\ OnLevel(height, m, 1) =>
                  /\ next[m][1] = Nil \/ (next[m][1] \in Present(height) /\ OnLevel(height, next[m][1], 1))
                  /\ \A k \in Present(height) : m < k => next[m][1] <= k
  <2>1. CASE OnLevel(height, m, 1)
    <3>1. PICK x : x = next[m][1]
      OBVIOUS
    <3>2. /\ x \in Nat /\ m < x /\ (x = Nil \/ (x \in Keys /\ 1 <= height[x] /\ OnLevel(height, x, 1)))
          /\ \A k \in Keys : m < k /\ 1 <= height[k] => x <= k
      BY <1>1, <2>1, <3>1, LinkFacts
    <3>3. x \in Ks /\ (x # Nil => x \in Present(height))
      BY <3>2, PresentFacts, KeyFacts DEF IsIn
    <3> QED
      BY <1>2, <2>1, <3>1, <3>2, <3>3
  <2>2. CASE ~OnLevel(height, m, 1)
    BY <1>1, <2>2, KeyFacts DEF Linked
  <2> QED
    BY <2>1, <2>2
<1>4. ASSUME NEW m \in Ks, m \notin {end, Nil}
      PROVE  Seen(m) = {m} \cup Seen(next[m][1])
  <2>1. m \in Nodes /\ m \in Nat
    BY <1>1, <1>4
  <2>2. PICK x : x = next[m][1]
    OBVIOUS
  <2>3. CASE ~OnLevel(height, m, 1)
    BY <1>3, <1>4, <2>1, <2>3
  <2>4. CASE OnLevel(height, m, 1)
    <3>1. /\ x \in Ks /\ m < x /\ x \in Nat /\ (x = Nil \/ (x \in Present(height) /\ OnLevel(height, x, 1)))
          /\ \A k \in Present(height) : m < k => x <= k
      BY <1>1, <1>3, <2>1, <2>2, <2>4
    <3>2. CASE x \in {end, Nil}
      <4>1. ASSUME NEW k \in After(m) PROVE FALSE
        <5>1. k \in Nat /\ k < Nil /\ m < k /\ (m < end => k < end) /\ x <= k
          BY <1>2, <3>1
        <5>2. x = end
          BY <1>1, <3>1, <3>2, <5>1
        <5> QED
          BY <1>1, <3>1, <5>1, <5>2
      <4>2. Seen(x) = {} /\ Seen(m) = {m} \cup After(m)
        BY <1>4, <2>4, <3>2
      <4> QED
        BY <2>2, <4>1, <4>2
    <3>3. CASE x \notin {end, Nil}
      <4>1. x \in Present(height) /\ OnLevel(height, x, 1)
        BY <3>1, <3>3
      <4>2. m < end <=> x < end
        BY <1>1, <1>2a, <2>1, <3>1, <3>3, <1>2
      <4>3. ASSUME NEW k PROVE k \in After(m) <=> k = x \/ k \in After(x)
        <5>1. k \in Present(height) => k \in Nat /\ (m < k <=> k = x \/ x < k)
          BY <1>2, <2>1, <3>1
        <5> QED
          BY <4>1, <4>2, <5>1
      <4>4. Seen(x) = {x} \cup After(x) /\ Seen(m) = {m} \cup After(m)
        BY <1>4, <2>4, <3>3, <4>1
      <4> QED
        BY <2>2, <4>3, <4>4
    <3> QED
      BY <3>2, <3>3
  <2> QED
    BY <2>3, <2>4
<1>5. PICK F : F = [m \in Ks |-> Seen(m)]
  OBVIOUS
<1>6. F = Steps(F)
  <2>1. ASSUME NEW m \in Ks PROVE Seen(m) = IF m \in {end, Nil} THEN {} ELSE {m} \cup F[next[m][1]]
    <3>1. CASE m \in {end, Nil}
      BY <3>1
    <3>2. CASE m \notin {end, Nil}
      <4>1. next[m][1] \in Ks
        BY <1>1, <1>3, <3>2
      <4>2. F[next[m][1]] = Seen(next[m][1])
        BY <1>5, <4>1
      <4> QED
        BY <1>4, <3>2, <4>2
    <3> QED
      BY <3>1, <3>2
  <2> HIDE DEF Seen, Ks
  <2> QED
    BY <1>5, <2>1
<1>7. PICK c : c = CHOOSE f : f = Steps(f)
  OBVIOUS
<1>8. c = Steps(c)
  BY <1>6, <1>7, Zenon
<1>9. Visited(n, end) = c[n]
  BY <1>7, Zenon DEF Visited
<1> HIDE DEF Seen
<1>10. c[n] = Seen(n)
  <2> SUFFICES ASSUME c[n] # Seen(n) PROVE FALSE
    OBVIOUS
  <2>1. PICK T : T = {m \in Ks : c[m] # Seen(m)}
    OBVIOUS
  <2>2. T \subseteq Nat
    BY <1>1, <2>1
  <2>3. n \in T /\ \A t \in T : t <= Nil
    BY <1>1, <2>1
  <2>4. PICK m \in T : \A j \in T : j <= m
    BY <1>1, <2>2, <2>3, GreatestOne
  <2>5. m \in Ks /\ c[m] # Seen(m) /\ m \in Nat
    BY <2>1, <2>2, <2>4
  <2>6. c[m] = IF m \in {end, Nil} THEN {} ELSE {m} \cup c[next[m][1]]
    BY <1>8, <2>5
  <2>7. m \notin {end, Nil}
    BY <2>5, <2>6 DEF Seen
  <2>8. next[m][1] \in Ks /\ m < next[m][1] /\ next[m][1] \in Nat
    BY <1>1, <1>3, <2>5, <2>7
  <2>9. next[m][1] \notin T
    BY <2>4, <2>5, <2>8
  <2>10. c[next[m][1]] = Seen(next[m][1])
    BY <2>1, <2>8, <2>9
  <2> QED
    BY <1>4, <2>5, <2>6, <2>7, <2>10
<1>11. Seen(n) = Between(n, end)
  <2>1. CASE n \in {end, Nil}
    <3>1. \A k \in Present(height) : ~(n <= k /\ k < end)
      BY <1>1, <1>2, <2>1
    <3> QED
      BY <2>1, <3>1 DEF Seen, Between
  <2>2. CASE n \notin {end, Nil}
    <3>1. n < end /\ n \in Present(height) /\ n \in Nodes
      BY <1>1, <2>2, PresentFacts, KeyFacts
    <3>2. OnLevel(height, n, 1)
      BY <2>2, <3>1 DEF OnLevel, IsIn
    <3>3. \A k \in Present(height) : (n <= k /\ k < end) <=> k = n \/ (n < k /\ (n < end => k < end))
      BY <1>1, <1>2, <3>1
    <3>4. Seen(n) = {n} \cup After(n)
      BY <2>2, <3>2 DEF Seen
    <3> QED
      BY <3>1, <3>3, <3>4 DEF Between
  <2> QED
    BY <2>1, <2>2
<1> QED
  BY <1>9, <1>10, <1>11

\* The bounds, by what lies at or after them.
LEMMA Bounds ==
  ASSUME Linked(next, height), Capped, NEW key \in Keys
  PROVE  /\ AtOrAfter(LowerBound(key), key)
         /\ UpperBound(key) \in Keys \cup {Nil} /\ key < UpperBound(key)
         /\ UpperBound(key) # Nil => IsIn(UpperBound(key))
         /\ \A m \in Keys : IsIn(m) /\ key < m => UpperBound(key) <= m
         /\ FuncUpperBound(key) = UpperBound(key)
         /\ LowerBound(key) = key <=> IsIn(key)
<1>1. AtOrAfter(LowerBound(key), key) /\ FuncLowerBound(key) = LowerBound(key)
  BY FindsNode
<1>2. PICK y : y = LowerBound(key)
  OBVIOUS
<1>3. PICK x : x = next[key][1]
  OBVIOUS
<1>4. key \in Nat /\ key \in Nodes /\ Nil \in Nat /\ key < Nil /\ 1 \in Levels /\ \A m \in Keys : m \in Nat
  BY KeyFacts
<1>5. UpperBound(key) = IF y = key THEN x ELSE y
  BY <1>2, <1>3 DEF UpperBound
<1>6. FuncUpperBound(key) = IF y = key THEN x ELSE y
  BY <1>1, <1>2, <1>3 DEF FuncUpperBound
<1>7. /\ y \in Keys \cup {Nil} /\ key <= y /\ (y # Nil => IsIn(y))
      /\ \A m \in Keys : IsIn(m) /\ key <= m => y <= m
  BY <1>1, <1>2 DEF AtOrAfter
<1>8. y = key <=> IsIn(key)
  BY <1>4, <1>7
<1>9. CASE y = key
  <2>1. OnLevel(height, key, 1)
    BY <1>4, <1>8, <1>9 DEF OnLevel, IsIn
  <2>2. /\ x \in Nat /\ key < x /\ (x = Nil \/ (x \in Keys /\ 1 <= height[x]))
        /\ \A m \in Keys : key < m /\ 1 <= height[m] => x <= m
    BY <1>3, <1>4, <2>1, LinkFacts
  <2> QED
    BY <1>1, <1>2, <1>5, <1>6, <1>8, <1>9, <2>2 DEF IsIn
<1>10. CASE y # key
  <2>1. key < y /\ \A m \in Keys : IsIn(m) /\ key < m => y <= m
    BY <1>4, <1>7, <1>10
  <2> QED
    BY <1>1, <1>2, <1>5, <1>6, <1>7, <1>8, <1>10, <2>1
<1> QED
  BY <1>9, <1>10

LEMMA AllVisited ==
  ASSUME Linked(next, height)
  PROVE  ForEach = Present(height)
<1>1. HeadNode \in Nodes /\ 1 \in Levels /\ HeadNode = 0 /\ OnLevel(height, HeadNode, 1) /\ Nil \in Nat
  BY KeyFacts DEF OnLevel
<1>2. PICK x : x = next[HeadNode][1]
  OBVIOUS
<1>3. /\ x \in Nat /\ (x = Nil \/ (x \in Keys /\ 1 <= height[x]))
      /\ \A m \in Keys : HeadNode < m /\ 1 <= height[m] => x <= m
  BY <1>1, <1>2, LinkFacts
<1>4. x <= Nil /\ \A m \in Keys : m \in Nat /\ HeadNode < m /\ m < Nil
  BY <1>1, <1>3, KeyFacts
<1>5. x = Nil \/ (x \in Keys /\ IsIn(x))
  BY <1>3 DEF IsIn
<1>6. Visited(x, Nil) = Between(x, Nil)
  BY <1>4, <1>5, WalkTo
<1>7. \A k \in Present(height) : k \in Keys /\ x <= k /\ k < Nil
  BY <1>3, <1>4, PresentFacts DEF Present, IsIn
<1>8. Between(x, Nil) = Present(height)
  BY <1>7 DEF Between
<1> QED
  BY <1>2, <1>6, <1>8 DEF ForEach

LEMMA RangeIsAll ==
  ASSUME Linked(next, height), Capped, NEW k \in Keys, NEW l \in Keys, k <= l
  PROVE  FindRange(k, l) = Present(height) \cap (k .. l)
<1>1. PICK x : x = LowerBound(k)
  OBVIOUS
<1>2. PICK y : y = UpperBound(l)
  OBVIOUS
<1>3. /\ x \in Keys \cup {Nil} /\ k <= x /\ (x # Nil => IsIn(x))
      /\ \A m \in Keys : IsIn(m) /\ k <= m => x <= m
  BY <1>1, Bounds DEF AtOrAfter
<1>4. /\ y \in Keys \cup {Nil} /\ l < y /\ (y # Nil => IsIn(y))
      /\ \A m \in Keys : IsIn(m) /\ l < m => y <= m
  BY <1>2, Bounds
<1>5. k \in Nat /\ l \in Nat /\ Nil \in Nat /\ \A m \in Keys : m \in Nat /\ m < Nil
  BY KeyFacts
<1>6. x <= y
  <2>1. CASE y = Nil
    BY <1>3, <1>5, <2>1
  <2>2. CASE y # Nil
    <3>1. y \in Keys /\ IsIn(y) /\ k <= y
      BY <1>4, <1>5, <2>2
    <3> QED
      BY <1>3, <3>1
  <2> QED
    BY <2>1, <2>2
<1>7. Visited(x, y) = Between(x, y)
  BY <1>3, <1>4, <1>6, WalkTo
<1>8. ASSUME NEW j \in Present(height) PROVE (x <= j /\ j < y) <=> j \in k .. l
  <2>1. j \in Keys /\ IsIn(j) /\ j \in Nat
    BY <1>5, PresentFacts DEF Present
  <2>2. x \in Nat /\ y \in Nat
    BY <1>3, <1>4, <1>5
  <2>3. k <= j => x <= j
    BY <1>3, <2>1
  <2>4. x <= j => k <= j
    BY <1>3, <1>5, <2>1, <2>2
  <2>5. l < j => y <= j
    BY <1>4, <2>1
  <2> QED
    BY <1>4, <1>5, <2>1, <2>2, <2>3, <2>4, <2>5
<1>9. Between(x, y) = Present(height) \cap (k .. l)
  BY <1>8 DEF Between
<1> QED
  BY <1>1, <1>2, <1>7, <1>9 DEF FindRange

LEMMA WalksTell == ListIInv => WalksAgree
<1> SUFFICES ASSUME ListIInv PROVE WalksAgree
  OBVIOUS
<1>1. Linked(next, height) /\ Capped /\ len = Cardinality(Present(height))
  BY DEF ListIInv
<1>2. PICK present : present = {k \in Keys : height[k] > 0}
  OBVIOUS
<1>3. present = Present(height) /\ present \subseteq Keys
  BY <1>2 DEF Present
<1>4. \A k \in Keys : k \in present <=> IsIn(k)
  BY <1>1, <1>3, PresentFacts
<1>5. ForEach = present /\ len = Cardinality(present)
  BY <1>1, <1>3, AllVisited
<1>6. Nil \notin Keys /\ \A k \in Keys : k \in Nat
  BY KeyFacts
<1>7. ASSUME NEW k \in Keys
      PROVE  /\ LowerBound(k) = Least({j \in present : j >= k}) /\ FuncLowerBound(k) = LowerBound(k)
             /\ UpperBound(k) = Least({j \in present : j > k}) /\ FuncUpperBound(k) = UpperBound(k)
             /\ (FuncFindNode(k) # Nil) = Has(k)
             /\ \A l \in k .. MaxKey : FindRange(k, l) = present \cap (k .. l)
  <2>1. FuncLowerBound(k) = LowerBound(k) /\ FuncUpperBound(k) = UpperBound(k)
    BY <1>1, FindsNode, Bounds
  <2>2. LowerBound(k) = Least({j \in present : j >= k})
    <3>1. PICK S : S = {j \in present : j >= k}
      OBVIOUS
    <3>2. PICK x : x = LowerBound(k)
      OBVIOUS
    <3>3. /\ x \in Keys \cup {Nil} /\ k <= x /\ (x # Nil => IsIn(x))
          /\ \A m \in Keys : IsIn(m) /\ k <= m => x <= m
      BY <1>1, <3>2, FindsNode DEF AtOrAfter
    <3>4. S \in SUBSET Keys /\ \A j \in S : x <= j
      BY <1>3, <1>4, <1>6, <3>1, <3>3
    <3>5. x = Nil \/ x \in S
      BY <1>4, <1>6, <3>1, <3>3
    <3>6. x = Nil => S = {}
      BY <3>4, KeyFacts
    <3>7. Least(S) = x
      BY <3>4, <3>5, <3>6, LeastIs
    <3> QED
      BY <3>1, <3>2, <3>7
  <2>3. UpperBound(k) = Least({j \in present : j > k})
    <3>1. PICK S : S = {j \in present : j > k}
      OBVIOUS
    <3>2. PICK x : x = UpperBound(k)
      OBVIOUS
    <3>3. /\ x \in Keys \cup {Nil} /\ k < x /\ (x # Nil => IsIn(x))
          /\ \A m \in Keys : IsIn(m) /\ k < m => x <= m
      BY <1>1, <3>2, Bounds
    <3>4. S \in SUBSET Keys /\ \A j \in S : x <= j
      BY <1>3, <1>4, <1>6, <3>1, <3>3
    <3>5. x = Nil \/ x \in S
      BY <1>4, <1>6, <3>1, <3>3
    <3>6. x = Nil => S = {}
      BY <3>4, KeyFacts
    <3>7. Least(S) = x
      BY <3>4, <3>5, <3>6, LeastIs
    <3> QED
      BY <3>1, <3>2, <3>7
  <2>4. (FuncFindNode(k) # Nil) = Has(k)
    <3>1. FuncLowerBound(k) = k <=> IsIn(k)
      BY <1>1, <2>1, Bounds
    <3>2. Has(k) <=> IsIn(k)
      BY <1>1, FindsNode
    <3>3. FuncFindNode(k) # Nil <=> IsIn(k)
      BY <1>6, <3>1 DEF FuncFindNode
    <3>4. Has(k) \in BOOLEAN
      BY DEF Has
    <3> QED
      BY <3>2, <3>3, <3>4
  <2>5. ASSUME NEW l \in k .. MaxKey PROVE FindRange(k, l) = present \cap (k .. l)
    <3>1. l \in Keys /\ k <= l
      BY SkipListAssumption DEF Keys
    <3> QED
      BY <1>1, <1>3, <3>1, RangeIsAll
  <2> QED
    BY <2>1, <2>2, <2>3, <2>4, <2>5
<1> QED
  BY <1>2, <1>5, <1>7, Zenon DEF WalksAgree

\* Every walk of the skip list tells the truth: bounds, ranges and the
\* iteration agree with the keys inserted and not removed, in both
\* implementations (skipListOrdered and skipListFunc).
THEOREM WalksTellTruth == ListSpec => []WalksAgree
<1>1. ListIInv => WalksAgree
  BY WalksTell
<1> QED
  BY <1>1, ListInv, PTL
=============================================================================
