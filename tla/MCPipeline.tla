------------------------------ MODULE MCPipeline ------------------------------
(* Small instances of GreasePipeline for TLC.  A bank has 5 units of space, a   *)
(* message of 1 takes 2 with its delimiter: two of them fill a bank, or one of 4. *)
EXTENDS PipelineDelivery, TLC

CONSTANTS m1, m2, m3, m4, p1, p2, l1, l2, t1, t2

Short   == [m \in Msgs |-> 1]
OneFull == [m \in Msgs |-> IF m = m2 THEN 4 ELSE 1]  \* m2 fills a bank
OneMid  == [m \in Msgs |-> IF m = m2 THEN 5 ELSE 1]  \* m2 overflows a bank
OneBig  == [m \in Msgs |-> IF m = m2 THEN 6 ELSE 1]  \* m2 overflows a master buffer
Mixed == [m \in Msgs |-> IF m = m2 THEN 6 ELSE IF m = m1 THEN 5 ELSE IF m = m3 THEN 3 ELSE 1]
AllButOneBig == [m \in Msgs |-> IF m = m1 THEN 1 ELSE 6]
OneRoute   == [m \in Msgs |-> <<t1>>]
BothRoutes == [m \in Msgs |-> <<t1, t2>>]

AllTTY == [t \in Targets |-> "tty"]
AllFile == [t \in Targets |-> "file"]
TTYAndCallback == [t \in Targets |-> IF t = t1 THEN "tty" ELSE "callback"]
TTYAndFile == [t \in Targets |-> IF t = t1 THEN "tty" ELSE "file"]

Symm == Permutations(Masters) \cup Permutations(Producers)
=============================================================================
