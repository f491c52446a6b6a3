---------------------------- MODULE PipeDeadline ----------------------------
(***************************************************************************)
(* anytls/pipe/deadline.go: PipeDeadline, set by several goroutines while  *)
(* time.AfterFunc callbacks of earlier deadlines are firing.               *)
(***************************************************************************)
EXTENDS Naturals

CONSTANTS Setters,   \* goroutines that call Set
          MaxCancel, \* bound on the cancel channels made
          MaxTimer,  \* bound on the timers made
          NoSetter

ASSUME DeadlineBounds == MaxCancel \in Nat /\ MaxTimer \in Nat
ASSUME NoSetterAssumption == NoSetter \notin Setters

Timers == 1..MaxTimer
Chans == 0..MaxCancel

VARIABLES
  mu,       \* PipeDeadline.mu: the goroutine that holds it
  timer,    \* PipeDeadline.timer, 0 for nil
  cancel,   \* PipeDeadline.cancel: the number of the channel
  shut,     \* the channels that are closed
  clk,      \* each timer: "new", "armed", "fired" (callback running), "over", "stopped"
  made,     \* timers made so far
  pc,       \* where each Set is: "idle", "stop", "wait", "apply"
  want,     \* the argument of each Set: "zero", "future", "past"
  twice     \* channels closed when they were closed already, which panics

deadlineVars == <<mu, timer, cancel, shut, clk, made, pc, want, twice>>

DeadlineTypeOK ==
  /\ mu \in Setters \cup {NoSetter}
  /\ timer \in Timers \cup {0}
  /\ cancel \in Chans
  /\ shut \in SUBSET Chans
  /\ clk \in [Timers -> {"new", "armed", "fired", "over", "stopped"}]
  /\ made \in 0..MaxTimer
  /\ pc \in [Setters -> {"idle", "stop", "wait", "apply"}]
  /\ want \in [Setters -> {"zero", "future", "past"}]
  /\ twice \in SUBSET Chans

\* MakePipeDeadline.
DeadlineInit ==
  /\ mu = NoSetter
  /\ timer = 0
  /\ cancel = 0
  /\ shut = {}
  /\ clk = [t \in Timers |-> "new"]
  /\ made = 0
  /\ pc = [g \in Setters |-> "idle"]
  /\ want = [g \in Setters |-> "zero"]
  /\ twice = {}

\* Set is called and takes the mutex.
SetEnter(g, w) ==
  /\ pc[g] = "idle"
  /\ mu = NoSetter
  /\ mu' = g
  /\ want' = [want EXCEPT ![g] = w]
  /\ pc' = [pc EXCEPT ![g] = "stop"]
  /\ UNCHANGED <<timer, cancel, shut, clk, made, twice>>

\* d.timer != nil && !d.timer.Stop(): Stop is true only for a timer that has not fired.
MustWaitNot == FALSE  \* mutant: the result of Stop is ignored
MustWaitAlways == timer # 0  \* mutant: the timer is not stopped
MustWait == timer # 0 /\ clk[timer] # "armed"

\* Stop the timer, or else wait for its callback to have closed cancel.
SetStop(g) ==
  /\ pc[g] = "stop"
  /\ IF MustWait
       THEN /\ pc' = [pc EXCEPT ![g] = "wait"]
            /\ UNCHANGED <<timer, clk>>
       ELSE /\ pc' = [pc EXCEPT ![g] = "apply"]
            /\ clk' = [t \in Timers |-> IF t = timer /\ clk[t] = "armed" THEN "stopped" ELSE clk[t]]
            /\ timer' = 0
  /\ UNCHANGED <<mu, cancel, shut, made, want, twice>>

\* <-d.cancel, with the mutex held.
SetWait(g) ==
  /\ pc[g] = "wait"
  /\ cancel \in shut
  /\ pc' = [pc EXCEPT ![g] = "apply"]
  /\ timer' = 0
  /\ UNCHANGED <<mu, cancel, shut, clk, made, want, twice>>

\* Mutant of Renew: a new channel each time.
RenewAlways == cancel' = cancel + 1

\* if closed { d.cancel = make(chan struct{}) }
Renew ==
  /\ cancel \in shut => cancel < MaxCancel
  /\ cancel' = IF cancel \in shut THEN cancel + 1 ELSE cancel

\* The rest of Set: no deadline, a timer for a deadline ahead, or a close.
SetApply(g) ==
  /\ pc[g] = "apply"
  /\ \/ want[g] = "zero" /\ Renew /\ UNCHANGED <<timer, shut, clk, made>>
     \/ /\ want[g] = "future"
        /\ made < MaxTimer
        /\ Renew
        /\ made' = made + 1
        /\ timer' = made + 1
        /\ clk' = [clk EXCEPT ![made + 1] = "armed"]
        /\ UNCHANGED shut
     \/ want[g] = "past" /\ shut' = shut \cup {cancel} /\ UNCHANGED <<timer, cancel, clk, made>>
  /\ mu' = NoSetter
  /\ pc' = [pc EXCEPT ![g] = "idle"]
  /\ UNCHANGED <<want, twice>>

\* The runtime takes a due timer and starts its callback.
TimerFire(t) ==
  /\ clk[t] = "armed"
  /\ clk' = [clk EXCEPT ![t] = "fired"]
  /\ UNCHANGED <<mu, timer, cancel, shut, made, pc, want, twice>>

\* The callback: close(d.cancel), without the mutex.
TimerClose(t) ==
  /\ clk[t] = "fired"
  /\ clk' = [clk EXCEPT ![t] = "over"]
  /\ twice' = twice \cup ({cancel} \cap shut)
  /\ shut' = shut \cup {cancel}
  /\ UNCHANGED <<mu, timer, cancel, made, pc, want>>

DeadlineNext ==
  \/ \E g \in Setters, w \in {"zero", "future", "past"} : SetEnter(g, w)
  \/ \E g \in Setters : SetStop(g) \/ SetWait(g) \/ SetApply(g)
  \/ \E t \in Timers : TimerFire(t) \/ TimerClose(t)

DeadlineSpec == DeadlineInit /\ [][DeadlineNext]_deadlineVars

\* A goroutine inside Set runs, and a callback that has started finishes.
DeadlineFairness ==
  /\ \A g \in Setters : WF_deadlineVars(SetStop(g)) /\ WF_deadlineVars(SetWait(g)) /\ WF_deadlineVars(SetApply(g))
  /\ \A t \in Timers : WF_deadlineVars(TimerClose(t))

DeadlineFairSpec == DeadlineSpec /\ DeadlineFairness

-----------------------------------------------------------------------------
(* Properties.                                                             *)

\* The cancel channel is never closed twice, although callbacks close it without
\* the mutex.
NeverClosedTwice == twice = {}

\* A timer that can still close a channel is the one Set would stop or wait for:
\* no callback of an earlier deadline is left to cut a later one short.
NoStaleTimer ==
  \A t \in Timers : clk[t] \in {"armed", "fired"} => timer = t

\* A channel handed out by Wait is the current one or is closed, so a goroutine
\* blocked on it hears of every deadline that passes.
OldChannelsAreShut == \A c \in Chans : c < cancel => c \in shut

\* Set does not wait for ever for a callback, with the mutex held.
SetReturns == \A g \in Setters : pc[g] = "wait" ~> pc[g] = "apply"

\* The deadline the pipe's loops rely on.
Abstract == INSTANCE Deadline
              WITH MaxChan <- MaxCancel,
                   gen <- cancel,
                   closed <- cancel \in shut,
                   armed <- timer # 0 /\ clk[timer] \in {"armed", "fired"}

\* PipeDeadline implements it.
ImplementsDeadline == Abstract!Spec

-----------------------------------------------------------------------------
\* Inductive strengthening: the mutex protects Set, channels are closed in
\* order, and a recorded timer whose callback is over has closed the channel.
MutexHeld == \A g \in Setters : pc[g] # "idle" <=> mu = g
NewTimers == \A t \in Timers : clk[t] = "new" <=> t > made
OnlyOldShut == \A c \in Chans : c \in shut => c <= cancel
LiveTimerMeansOpen ==
  timer # 0 => /\ timer <= made
               /\ clk[timer] \in {"armed", "fired", "over"}
               /\ clk[timer] = "over" <=> cancel \in shut
NoTimerWhileApplying == \A g \in Setters : pc[g] = "apply" => timer = 0
WaitingForFired ==
  \A g \in Setters : pc[g] = "wait" => timer # 0 /\ clk[timer] # "armed"

DeadlineIInv == /\ DeadlineTypeOK /\ MutexHeld /\ NewTimers /\ OnlyOldShut /\ OldChannelsAreShut
        /\ LiveTimerMeansOpen /\ NoStaleTimer /\ NoTimerWhileApplying
        /\ WaitingForFired /\ NeverClosedTwice
=============================================================================
