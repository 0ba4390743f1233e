---------------------------- MODULE MCThreadSync ----------------------------
(* ThreadSync with two words that have different queues, for futex_requeue. *)
EXTENDS ThreadSync, TLC

CONSTANTS a1, a2, q1, q2

MCHash == (a1 :> q1) @@ (a2 :> q2)
MCRequeues == {<<a1, a2>>}
=============================================================================
