------------------------------ MODULE MCWorker ------------------------------
(* Model checking instance of Worker: two streams, of which the first has  *)
(* a short address, so that the second is dialled with its first data and  *)
(* has some left to write; two connectors and two dial-backs, four piped   *)
(* messages.                                                               *)
EXTENDS Worker
=============================================================================
