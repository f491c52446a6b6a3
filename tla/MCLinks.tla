------------------------------ MODULE MCLinks ------------------------------
(* Model checking instance of what carries connections: the local          *)
(* listeners, the relay (one state of a listener's job), the pool of mux   *)
(* sessions, and the streams of one of them.  They share no state; a       *)
(* behaviour is one of one of them.                                        *)
(*                                                                         *)
(* Two clients are enough to have them compete for a channel of capacity   *)
(* one; two requests, to have a pipe used again; two calls over two        *)
(* sessions, to have the limit overshot and the pool empty for one of them *)
(* while the other dials.                                                  *)
EXTENDS Listeners, Relay, MuxPool, MuxStream, TLC

CONSTANTS c1, c2

MCArrivals == {(c1 :> "mixed") @@ (c2 :> "socks"), (c1 :> "http") @@ (c2 :> "socks")}

\* One stream on which each side writes twice, and one on which it writes once.
MCMaxMsg == <<2, 1>>

VARIABLE part

MCInit ==
  /\ Init /\ MuxInit /\ RelayInit
  /\ part \in {"listeners", "relay", "pool", "streams"}
  /\ ListenersInit(IF part = "listeners" THEN MCArrivals ELSE {c \in MCArrivals : c[c1] = "mixed"})
MCNext ==
  /\ UNCHANGED part
  /\ \/ part = "listeners" /\ ListenersNext /\ UNCHANGED <<bothVars, vars, muxVars>>
     \/ part = "relay" /\ RelayNext /\ UNCHANGED <<lstVars, vars, muxVars>>
     \/ part = "pool" /\ Next /\ UNCHANGED <<lstVars, bothVars, muxVars>>
     \/ part = "streams" /\ MuxNext /\ UNCHANGED <<lstVars, bothVars, vars>>
MCSpec ==
  /\ MCInit /\ [][MCNext]_<<part, lstVars, bothVars, vars, muxVars>>
  /\ ListenersFairness /\ RelayFairness /\ MuxFairness
=============================================================================
