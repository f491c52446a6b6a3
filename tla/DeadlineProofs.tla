--------------------------- MODULE DeadlineProofs ---------------------------
(***************************************************************************)
(* Proofs about PipeDeadline, for any number of goroutines, timers and     *)
(* channels: its invariants, and that it implements Deadline.              *)
(***************************************************************************)
EXTENDS PipeDeadline, TLAPS

USE DEF Timers, Chans

\* The state MakePipeDeadline returns satisfies the inductive invariant.
LEMMA InitIInv == DeadlineInit => DeadlineIInv
  BY DeadlineBounds, NoSetterAssumption
  DEF DeadlineInit, DeadlineIInv, DeadlineTypeOK, MutexHeld, NewTimers, OnlyOldShut, OldChannelsAreShut,
      LiveTimerMeansOpen, NoStaleTimer, NoTimerWhileApplying, WaitingForFired,
      NeverClosedTwice

\* Every step of Set and of the timers preserves it.
LEMMA NextIInv == DeadlineIInv /\ [DeadlineNext]_deadlineVars => DeadlineIInv'
<1> SUFFICES ASSUME DeadlineIInv, [DeadlineNext]_deadlineVars PROVE DeadlineIInv'
  OBVIOUS
<1> USE DeadlineBounds, NoSetterAssumption
    DEF DeadlineIInv, DeadlineTypeOK, MutexHeld, NewTimers, OnlyOldShut, OldChannelsAreShut,
        LiveTimerMeansOpen, NoStaleTimer, NoTimerWhileApplying, WaitingForFired,
        NeverClosedTwice
<1>1. ASSUME NEW g \in Setters, NEW w \in {"zero", "future", "past"}, SetEnter(g, w)
      PROVE  DeadlineIInv'
  BY <1>1 DEF SetEnter
<1>2. ASSUME NEW g \in Setters, SetStop(g) PROVE DeadlineIInv'
  <2>1. CASE timer # 0 /\ clk[timer] # "armed"
    BY <1>2, <2>1 DEF SetStop, MustWait
  <2>2. CASE ~(timer # 0 /\ clk[timer] # "armed")
    BY <1>2, <2>2 DEF SetStop, MustWait
  <2> QED
    BY <2>1, <2>2
<1>3. ASSUME NEW g \in Setters, SetWait(g) PROVE DeadlineIInv'
  BY <1>3 DEF SetWait
<1>4. ASSUME NEW g \in Setters, SetApply(g) PROVE DeadlineIInv'
  <2>1. timer = 0 /\ mu = g
    BY <1>4 DEF SetApply
  <2>2. \A t \in Timers : clk[t] \notin {"armed", "fired"}
    BY <2>1
  <2>3. \A h \in Setters : pc'[h] = "idle"
    BY <1>4, <2>1 DEF SetApply
  <2>4. pc' \in [Setters -> {"idle", "stop", "wait", "apply"}] /\ mu' = NoSetter
    BY <1>4 DEF SetApply
  <2>5. MutexHeld' /\ NoTimerWhileApplying' /\ WaitingForFired'
    BY <2>3, <2>4
  <2>6. cancel' \in Chans /\ OnlyOldShut' /\ OldChannelsAreShut' /\ NeverClosedTwice'
    BY <1>4 DEF SetApply, Renew
  <2>7. shut' \in SUBSET Chans /\ twice' \in SUBSET Chans
    BY <1>4 DEF SetApply
  <2>8. want' \in [Setters -> {"zero", "future", "past"}] /\ mu' \in Setters \cup {NoSetter}
    BY <1>4, <2>4 DEF SetApply
  <2>9. ASSUME want[g] = "future"
        PROVE  /\ made' \in 1..MaxTimer /\ made' = made + 1 /\ timer' = made'
               /\ clk' = [clk EXCEPT ![made'] = "armed"]
               /\ cancel' \notin shut'
    BY <1>4, <2>9 DEF SetApply, Renew
  <2>10. ASSUME want[g] # "future"
         PROVE  made' = made /\ timer' = timer /\ clk' = clk
    BY <1>4, <2>10 DEF SetApply
  <2>11. /\ timer' \in Timers \cup {0} /\ made' \in 0..MaxTimer
         /\ clk' \in [Timers -> {"new", "armed", "fired", "over", "stopped"}]
    BY <2>9, <2>10
  <2>12. NewTimers' /\ LiveTimerMeansOpen' /\ NoStaleTimer'
    BY <2>1, <2>2, <2>9, <2>10
  <2> QED
    BY <2>4, <2>5, <2>6, <2>7, <2>8, <2>11, <2>12
<1>5. ASSUME NEW t \in Timers, TimerFire(t) PROVE DeadlineIInv'
  BY <1>5 DEF TimerFire
<1>6. ASSUME NEW t \in Timers, TimerClose(t) PROVE DeadlineIInv'
  BY <1>6 DEF TimerClose
<1>7. CASE UNCHANGED deadlineVars
  BY <1>7 DEF deadlineVars
<1> QED
  BY <1>1, <1>2, <1>3, <1>4, <1>5, <1>6, <1>7 DEF DeadlineNext

\* DeadlineIInv is an invariant of PipeDeadline.
THEOREM InvariantHolds == DeadlineSpec => []DeadlineIInv
  BY InitIInv, NextIInv, PTL DEF DeadlineSpec

\* The types of PipeDeadline's state.
THEOREM TypeCorrect == DeadlineSpec => []DeadlineTypeOK
<1>1. DeadlineIInv => DeadlineTypeOK
  BY DEF DeadlineIInv
<1> QED
  BY InvariantHolds, <1>1, PTL

\* close(d.cancel) never panics, and no callback of an earlier deadline is left to
\* close the channel of a later one.
THEOREM NoPanicNoStaleTimer == DeadlineSpec => [](NeverClosedTwice /\ NoStaleTimer)
<1>1. DeadlineIInv => NeverClosedTwice /\ NoStaleTimer
  BY DEF DeadlineIInv
<1> QED
  BY InvariantHolds, <1>1, PTL

-----------------------------------------------------------------------------
\* Every step of PipeDeadline is a step of Deadline or leaves it alone.
LEMMA StepRefines ==
  DeadlineIInv /\ [DeadlineNext]_deadlineVars =>
    [Abstract!Next]_<<cancel, cancel \in shut, timer # 0 /\ clk[timer] \in {"armed", "fired"}>>
<1> DEFINE live == timer # 0 /\ clk[timer] \in {"armed", "fired"}
           absvars == <<cancel, cancel \in shut, live>>
<1> SUFFICES ASSUME DeadlineIInv, [DeadlineNext]_deadlineVars PROVE Abstract!Next \/ UNCHANGED absvars
  OBVIOUS
<1> USE DeadlineBounds, NoSetterAssumption
    DEF DeadlineIInv, DeadlineTypeOK, NewTimers, OnlyOldShut, LiveTimerMeansOpen, NoStaleTimer,
        NoTimerWhileApplying, WaitingForFired
<1>1. ASSUME NEW g \in Setters, NEW w \in {"zero", "future", "past"}, SetEnter(g, w)
      PROVE  UNCHANGED absvars
  BY <1>1 DEF SetEnter
<1>2. ASSUME NEW g \in Setters, SetStop(g) PROVE Abstract!Next \/ UNCHANGED absvars
  <2>1. CASE timer # 0 /\ clk[timer] # "armed"
    BY <1>2, <2>1 DEF SetStop, MustWait
  <2>2. CASE timer = 0
    BY <1>2, <2>2 DEF SetStop, MustWait
  <2>3. CASE timer # 0 /\ clk[timer] = "armed"
    BY <1>2, <2>3 DEF SetStop, MustWait, Abstract!Next, Abstract!Set, Abstract!SetNone, Abstract!Reopen
  <2> QED
    BY <2>1, <2>2, <2>3
<1>3. ASSUME NEW g \in Setters, SetWait(g) PROVE UNCHANGED absvars
  BY <1>3 DEF SetWait
<1>4. ASSUME NEW g \in Setters, SetApply(g) PROVE Abstract!Next
  <2>1. timer = 0
    BY <1>4 DEF SetApply
  <2>2. CASE want[g] = "zero"
    BY <1>4, <2>1, <2>2 DEF SetApply, Renew, Abstract!Next, Abstract!Set, Abstract!SetNone,
                            Abstract!Reopen
  <2>3. CASE want[g] = "future"
    BY <1>4, <2>1, <2>3 DEF SetApply, Renew, Abstract!Next, Abstract!Set,
                            Abstract!SetFuture, Abstract!Reopen
  <2>4. CASE want[g] = "past"
    BY <1>4, <2>1, <2>4 DEF SetApply, Abstract!Next, Abstract!Set, Abstract!SetPast
  <2> QED
    BY <2>2, <2>3, <2>4
<1>5. ASSUME NEW t \in Timers, TimerFire(t) PROVE UNCHANGED absvars
  BY <1>5 DEF TimerFire
<1>6. ASSUME NEW t \in Timers, TimerClose(t) PROVE Abstract!Next
  BY <1>6 DEF TimerClose, Abstract!Next, Abstract!Fire
<1>7. CASE UNCHANGED deadlineVars
  BY <1>7 DEF deadlineVars
<1> QED
  BY <1>1, <1>2, <1>3, <1>4, <1>5, <1>6, <1>7 DEF DeadlineNext

\* PipeDeadline implements Deadline, which Pipe is built on.
THEOREM Refinement == DeadlineSpec => ImplementsDeadline
<1>1. DeadlineInit => Abstract!Init
  BY DEF DeadlineInit, Abstract!Init
<1> QED
  BY <1>1, InvariantHolds, StepRefines, PTL DEF DeadlineSpec, ImplementsDeadline, Abstract!Spec
=============================================================================
