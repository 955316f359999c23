----------------------------- MODULE LogDelivery -----------------------------
(***************************************************************************)
(* What the logging pipeline promises, seen from outside: a message handed *)
(* to log() is accepted for the targets of its route or refused as a whole; *)
(* what a target has accepted reaches its output in the order of acceptance, *)
(* each message once; a target under pressure may lose accepted messages,   *)
(* but nothing is invented, repeated or reordered.                          *)
(***************************************************************************)
EXTENDS Naturals, Sequences

CONSTANTS Msgs, Targets, Route

VARIABLES
  seen,     \* messages log() has dealt with
  pending,  \* accepted and not yet at the output, per target
  output    \* what reached the terminal, file or callback, per target

Init == /\ seen = {}
        /\ pending = [t \in Targets |-> <<>>]
        /\ output = [t \in Targets |-> <<>>]

Routed(m, t) == \E i \in DOMAIN Route[m] : Route[m][i] = t

Accept(m) ==
  /\ m \notin seen
  /\ seen' = seen \cup {m}
  /\ pending' = [t \in Targets |-> IF Routed(m, t) THEN Append(pending[t], m)
                                                   ELSE pending[t]]
  /\ UNCHANGED output

Refuse(m) ==
  /\ m \notin seen
  /\ seen' = seen \cup {m}
  /\ UNCHANGED <<pending, output>>

\* A write takes the oldest k messages of a target.
Deliver(t) ==
  /\ \E k \in 1..Len(pending[t]) :
       /\ output' = [output EXCEPT ![t] = @ \o SubSeq(pending[t], 1, k)]
       /\ pending' = [pending EXCEPT ![t] = SubSeq(@, k + 1, Len(@))]
  /\ UNCHANGED seen

\* A target loses a run of what it accepted; the rest keeps its order.
Lose(t) ==
  /\ \E i \in 0..Len(pending[t]) : \E k \in i..Len(pending[t]) :
       pending' = [pending EXCEPT ![t] = SubSeq(@, 1, i) \o SubSeq(@, k + 1, Len(@))]
  /\ UNCHANGED <<seen, output>>

Next == \/ \E m \in Msgs : Accept(m) \/ Refuse(m)
        \/ \E t \in Targets : Deliver(t) \/ Lose(t)

Spec == Init /\ [][Next]_<<seen, pending, output>>
=============================================================================
