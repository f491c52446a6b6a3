--------------------------- MODULE MCSessionPool ---------------------------
(* Model checking instances of SessionPool.  Calls are interchangeable.    *)
EXTENDS SessionPool, TLC

Symmetry == Permutations(Callers)
=============================================================================
