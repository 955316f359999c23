----------------------------- MODULE TwCircular -----------------------------
(***************************************************************************)
(* tw_safeCircular, the ring buffer behind every queue of greaseLog, with    *)
(* the two-way semaphore that guards it.  Every method holds the semaphore's *)
(* mutex from its first to its last access of the ring, or to the point      *)
(* where it waits on one of the two condition variables: one action is one   *)
(* such section.  A signalled thread still has to take the mutex again, and  *)
(* others may come first; POSIX also lets a wait return without a signal.    *)
(*                                                                         *)
(* A definition X_Y is X with the mistake Y, which some property must catch. *)
(***************************************************************************)
EXTENDS Integers, FiniteSets

CONSTANTS
  Threads, Vals, None,
  Size   \* the size given to the constructor

ASSUME TwCircularAssumption ==
  Size \in Nat \ {0} /\ None \notin Vals /\ IsFiniteSet(Threads)

VARIABLES
  cnt,              \* free slots: the count of the semaphore
  nextIn, nextOut,  \* last slot filled, next slot to empty
  reversed,         \* _reverse
  data,
  pc,               \* where a thread stands in a blocking call
  val,              \* the value a blocked add() wants to place
  timed,            \* threads whose blocking call was given usec_wait
  got               \* the value each thread removed last

ringVars == <<cnt, nextIn, nextOut, reversed, data>>
vars == <<ringVars, pc, val, timed, got>>

Slots == 0..(Size - 1)

Init ==
  /\ cnt = Size
  /\ nextIn = -1 /\ nextOut = 0 /\ reversed = FALSE
  /\ data = [i \in Slots |-> None]
  /\ pc = [th \in Threads |-> "idle"]
  /\ val = [th \in Threads |-> None] /\ timed = {}
  /\ got = [th \in Threads |-> None]

Remain == Size - cnt
Full_OffByOne == cnt < 0
Full == cnt < 1

\* nextNextIn() and nextNextOut()
Advance_NoWrap(i) == IF reversed THEN i - 1 ELSE IF i + 1 > Size THEN 0 ELSE i + 1
Advance(i) == IF reversed THEN IF i - 1 < 0 THEN Size - 1 ELSE i - 1
                          ELSE IF i + 1 >= Size THEN 0 ELSE i + 1

-----------------------------------------------------------------------------
(* Condition variables: a signal moves one waiter from `waiting' to `woken'. *)

Signalled_None(p, waiting, woken) == {p}
Signalled(p, waiting, woken) ==
  LET W == {th \in Threads : p[th] = waiting}
  IN IF W = {} THEN {p} ELSE {[p EXCEPT ![th] = woken] : th \in W}

\* Thread th has the mutex and a slot: cnt--, signal decrementCond, place v.
Place(th, v) ==
  /\ cnt' = cnt - 1
  /\ nextIn' = Advance(nextIn)
  /\ data' = [data EXCEPT ![Advance(nextIn)] = v]
  /\ pc' \in Signalled([pc EXCEPT ![th] = "idle"], "decWait", "decWoken")
  /\ val' = [val EXCEPT ![th] = None] /\ timed' = timed \ {th}
  /\ UNCHANGED <<nextOut, reversed, got>>

\* Thread th has the mutex and an element: releaseWithoutLock() signals gtZeroCond.
Pull(th) ==
  /\ cnt' = cnt + 1
  /\ got' = [got EXCEPT ![th] = data[nextOut]]
  /\ pc' \in Signalled([pc EXCEPT ![th] = "idle"], "gtWait", "gtWoken")
  /\ timed' = timed \ {th}
  /\ UNCHANGED <<data, val>>

\* Only the paths that did not wait put the indices of an emptied ring back.
ResetIfLast_KeepsDirection ==
  /\ nextIn'  = IF Remain = 1 THEN -1 ELSE nextIn
  /\ nextOut' = IF Remain = 1 THEN 0 ELSE Advance(nextOut)
  /\ UNCHANGED reversed
ResetIfLast == /\ nextIn'  = IF Remain = 1 THEN -1 ELSE nextIn
               /\ nextOut' = IF Remain = 1 THEN 0 ELSE Advance(nextOut)
               /\ reversed' = (Remain # 1 /\ reversed)

WaitAt(th, where, v, t) ==
  /\ pc' = [pc EXCEPT ![th] = where]
  /\ val' = [val EXCEPT ![th] = v]
  /\ timed' = IF t THEN timed \cup {th} ELSE timed \ {th}
  /\ UNCHANGED <<ringVars, got>>

Return(th) ==
  /\ pc' = [pc EXCEPT ![th] = "idle"]
  /\ val' = [val EXCEPT ![th] = None] /\ timed' = timed \ {th}
  /\ UNCHANGED <<ringVars, got>>

-----------------------------------------------------------------------------
(* add, addMv, with and without usec_wait; addIfRoom, addMvIfRoom            *)

Add(th) ==
  /\ pc[th] = "idle"
  /\ \E v \in Vals : \/ ~Full /\ Place(th, v)
                     \/ Full /\ \E t \in BOOLEAN : WaitAt(th, "gtWait", v, t)

\* pthread_cond_wait has returned 0; the while loop tests cnt again.
AddResume(th) ==
  /\ pc[th] = "gtWoken"
  /\ \/ ~Full /\ Place(th, val[th])
     \/ Full /\ WaitAt(th, "gtWait", val[th], th \in timed)

\* ETIMEDOUT: add() returns false without another look at cnt.
AddTimeout(th) == pc[th] = "gtWait" /\ th \in timed /\ Return(th)

AddIfRoom(th) == pc[th] = "idle" /\ ~Full /\ \E v \in Vals : Place(th, v)

-----------------------------------------------------------------------------
(* remove, removeMv; removeOrBlock, removeMvOrBlock                          *)

Remove(th) == pc[th] = "idle" /\ Remain > 0 /\ Pull(th) /\ ResetIfLast

\* An empty ring is waited for without a deadline: the variant with usec_wait calls
\* pthread_cond_wait all the same.
RemoveOrBlock(th) ==
  /\ pc[th] = "idle" /\ Remain <= 0
  /\ WaitAt(th, "decWait", None, FALSE)

\* Woken: -1 if the ring is empty again, else one element.
RemoveResume(th) ==
  /\ pc[th] = "decWoken"
  /\ \/ cnt >= Size /\ Return(th)
     \/ /\ cnt < Size /\ Pull(th)
        /\ nextOut' = Advance(nextOut)
        /\ UNCHANGED <<nextIn, reversed>>

\* A wait that returns with neither signal nor timeout.
SpuriousWakeup(th) ==
  /\ pc[th] \in {"gtWait", "decWait"}
  /\ pc' = [pc EXCEPT ![th] = IF @ = "gtWait" THEN "gtWoken" ELSE "decWoken"]
  /\ UNCHANGED <<ringVars, val, timed, got>>

-----------------------------------------------------------------------------
(* reverse() takes no lock, clear() and transferFrom() wake nobody: greaseLog calls   *)
(* them on the rings of file rotation only, while no other call on the ring runs.   *)

Owned == \A th \in Threads : pc[th] = "idle"

Reverse ==
  /\ Owned /\ Remain >= 1
  /\ reversed' = ~reversed
  /\ nextOut' = nextIn /\ nextIn' = nextOut
  /\ UNCHANGED <<cnt, data, pc, val, timed, got>>

Clear ==
  /\ Owned
  /\ cnt' = Size /\ nextIn' = -1 /\ nextOut' = 0 /\ reversed' = FALSE
  /\ UNCHANGED <<data, pc, val, timed, got>>

\* transferFrom(), seen from the ring that gives its elements away; it leaves _reverse
\* alone, and that ring is never a reversed one.
Transfer_CountOnly ==
  /\ Owned /\ ~reversed
  /\ cnt' = Size
  /\ UNCHANGED <<nextIn, nextOut, reversed, data, pc, val, timed, got>>
Transfer ==
  /\ Owned /\ ~reversed
  /\ cnt' = Size /\ nextIn' = -1 /\ nextOut' = 0
  /\ UNCHANGED <<reversed, data, pc, val, timed, got>>

UnblockAllRemovers ==
  /\ pc' = [th \in Threads |-> IF pc[th] = "decWait" THEN "decWoken" ELSE pc[th]]
  /\ UNCHANGED <<ringVars, val, timed, got>>

-----------------------------------------------------------------------------
ThreadStep(th) == \/ Add(th) \/ AddResume(th) \/ AddTimeout(th) \/ AddIfRoom(th)
                  \/ Remove(th) \/ RemoveOrBlock(th) \/ RemoveResume(th)
                  \/ SpuriousWakeup(th)

Next == (\E th \in Threads : ThreadStep(th))
        \/ Reverse \/ Clear \/ Transfer \/ UnblockAllRemovers

Spec == Init /\ [][Next]_vars

-----------------------------------------------------------------------------
(* Properties                                                               *)

\* The types of the variables; a thread waits with the value of its add().
TypeOK ==
  /\ cnt \in 0..Size
  /\ nextIn \in -1..(Size - 1) /\ nextOut \in Slots /\ reversed \in BOOLEAN
  /\ data \in [Slots -> Vals \cup {None}]
  /\ pc \in [Threads -> {"idle", "gtWait", "gtWoken", "decWait", "decWoken"}]
  /\ val \in [Threads -> Vals \cup {None}]
  /\ \A th \in Threads : pc[th] \in {"gtWait", "gtWoken"} => val[th] \in Vals
  /\ timed \subseteq Threads
  /\ got \in [Threads -> Vals \cup {None}]

\* The two indices and the semaphore, which nothing but the order of statements
\* keeps together, agree: nextOut is Remain - 1 slots behind nextIn (ahead of it in
\* a reversed ring), whatever mixture of calls emptied, filled or reversed the ring.
RingConsistent ==
  /\ nextIn = -1 => Remain = 0 /\ nextOut = 0 /\ ~reversed
  /\ ~reversed => nextIn - Remain + 1 \in {nextOut - Size, nextOut, nextOut + Size}
  /\ reversed => nextIn + Remain - 1 \in {nextOut - Size, nextOut, nextOut + Size}

\* The elements, oldest first.
Contents ==
  [i \in 1..Remain |->
     data[LET o == IF reversed THEN nextOut - (i - 1) ELSE nextOut + (i - 1)
          IN IF o < 0 THEN o + Size ELSE IF o >= Size THEN o - Size ELSE o]]

Fifo == INSTANCE TwFifo WITH q <- Contents

\* The ring is a bounded FIFO: each remove, blocked before or not, returns the oldest
\* element, none is lost, overwritten or returned twice.
ImplementsFifo == Fifo!Spec

Waiting(where) == {th \in Threads : pc[th] = where}

\* No add() sleeps for ever beside a free slot: as long as one waits, each free slot
\* has a thread on its way to it (pthread_cond_signal in releaseWithoutLock).
AddersSignalled ==
  Waiting("gtWait") # {} => cnt <= Cardinality(Waiting("gtWoken"))

\* No removeOrBlock() sleeps beside an element: as long as one waits, each element
\* has a thread on its way to it (pthread_cond_signal in acquireAndKeepLock).
RemoversSignalled ==
  Waiting("decWait") # {} => Remain <= Cardinality(Waiting("decWoken"))
=============================================================================
