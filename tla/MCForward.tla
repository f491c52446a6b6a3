----------------------------- MODULE MCForward -----------------------------
(* Model checking instances of Forward.  The requests are interchangeable, *)
(* and so are the management connections an agent dials one after another. *)
EXTENDS Forward, TLC

Symmetry == Permutations(Clients) \cup Permutations(Manages)
=============================================================================
