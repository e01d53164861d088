---------------------------- MODULE MCEventLoop ----------------------------
(* An instance of TimerQueue for TLC: a one-shot timer and a repeating one. *)
EXTENDS TimerQueue, TLC

CONSTANTS t1, t2, k1, k2, k3

Periods == (k2 :> 0) @@ (k3 :> 1)
=============================================================================
