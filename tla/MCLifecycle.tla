----------------------------- MODULE MCLifecycle -----------------------------
(* A small instance of Lifecycle for TLC. *)
EXTENDS Lifecycle, TLC

CONSTANTS t1, t2, b1, b2
=============================================================================
