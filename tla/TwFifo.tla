------------------------------- MODULE TwFifo -------------------------------
(***************************************************************************)
(* What a tw_safeCircular promises: a bounded first-in first-out queue.     *)
(* got[th] is the value thread th removed last.                            *)
(***************************************************************************)
EXTENDS Naturals, Sequences

CONSTANTS Threads, Vals, None, Size

VARIABLES q, got

Init == q = <<>> /\ got = [th \in Threads |-> None]

Put == /\ Len(q) < Size
       /\ \E v \in Vals : q' = Append(q, v)
       /\ UNCHANGED got

Take == /\ q # <<>>
        /\ \E th \in Threads : got' = [got EXCEPT ![th] = Head(q)]
        /\ q' = Tail(q)

\* The first element is now the last.
Flip == q' = [i \in DOMAIN q |-> q[Len(q) + 1 - i]] /\ UNCHANGED got

Empty == q' = <<>> /\ UNCHANGED got

Next == Put \/ Take \/ Flip \/ Empty

Spec == Init /\ [][Next]_<<q, got>>
=============================================================================
