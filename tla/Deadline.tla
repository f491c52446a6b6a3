------------------------------ MODULE Deadline ------------------------------
(***************************************************************************)
(* What anytls/pipe/deadline.go promises to the read and write loops of a  *)
(* pipe: a cancel channel that is closed while the deadline is in the past *)
(* and replaced by a fresh one when the deadline moves away again.         *)
(* Channels are numbered; every channel before the current one is closed.  *)
(***************************************************************************)
EXTENDS Naturals

CONSTANT MaxChan     \* bound on the channels made

VARIABLES gen,       \* the current cancel channel
          closed,    \* it is closed
          armed      \* a timer is going to close it

TypeOK == gen \in 0..MaxChan /\ closed \in BOOLEAN /\ armed \in BOOLEAN

Init == gen = 0 /\ closed = FALSE /\ armed = FALSE

\* A channel that was handed out by Wait is closed.
Expired(c) == c < gen \/ closed

\* A closed channel is replaced, an open one is kept.
Reopen ==
  /\ closed => gen < MaxChan
  /\ gen' = IF closed THEN gen + 1 ELSE gen
  /\ closed' = FALSE

SetNone == Reopen /\ armed' = FALSE
SetFuture == Reopen /\ armed' = TRUE
SetPast == closed' = TRUE /\ armed' = FALSE /\ UNCHANGED gen
Fire == armed /\ closed' = TRUE /\ armed' = FALSE /\ UNCHANGED gen

Set == SetNone \/ SetFuture \/ SetPast
Next == Set \/ Fire
Spec == Init /\ [][Next]_<<gen, closed, armed>>
=============================================================================
