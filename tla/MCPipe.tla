------------------------------- MODULE MCPipe -------------------------------
(* Model checking instance of the pipe, a reader and two writers, and of   *)
(* the deadline it is built on, two goroutines that call Set.  A behaviour *)
(* is one of one of them: Pipe uses a deadline as the abstract one, which  *)
(* PipeDeadline implements.                                                *)
EXTENDS Pipe, PipeDeadline

VARIABLE part

MCInit == part \in {"pipe", "deadline"} /\ Init /\ DeadlineInit

MCNext == /\ part' = part
          /\ \/ part = "pipe" /\ Next /\ UNCHANGED deadlineVars
             \/ part = "deadline" /\ DeadlineNext /\ UNCHANGED vars

\* The part that does not run stays where nothing of it is enabled.
MCFairSpec == MCInit /\ [][MCNext]_<<part, vars, deadlineVars>> /\ Fairness /\ DeadlineFairness
=============================================================================
