---------------------------- MODULE MCAnySession ----------------------------
(* Model checking instances of AnySession.                                 *)
EXTENDS AnySession
=============================================================================
