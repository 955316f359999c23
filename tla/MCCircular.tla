------------------------------ MODULE MCCircular ------------------------------
(* Small instances of TwCircular for TLC. *)
EXTENDS TwCircular, TLC

CONSTANTS a, b, c, x, y

Symm == Permutations(Threads) \cup Permutations(Vals)
=============================================================================
