------------------------------ MODULE MCFilters ------------------------------
(* A small instance of Filters for TLC. *)
EXTENDS Filters, TLC

CONSTANTS m1, m2

Lo == 1
Hi == 2

\* The key of both covers the first message only, the origin's covers both.
MCMeta == m1 :> [tag |-> 1, origin |-> 1, level |-> Lo, ignores |-> {1}, js |-> TRUE]
       @@ m2 :> [tag |-> 2, origin |-> 1, level |-> Hi, ignores |-> {}, js |-> FALSE]

Arg(k, mask, t, d) == [key |-> k, mask |-> mask, target |-> t, disable |-> d]

MCAddArgs == {Arg(<<1, 1>>, {Lo}, 1, FALSE), Arg(<<0, 1>>, {Lo, Hi}, 1, FALSE),
              Arg(<<0, 1>>, {Hi}, Default, TRUE)}
=============================================================================
