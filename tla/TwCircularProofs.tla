-------------------------- MODULE TwCircularProofs --------------------------
(***************************************************************************)
(* What holds of a ring of every size, used by any number of threads: the   *)
(* types, the agreement of the indices with the semaphore, that the ring is  *)
(* a FIFO, and that no thread sleeps beside what it waits for.               *)
(***************************************************************************)
EXTENDS TwCircular, Sequences, FiniteSetTheorems, TLAPS

RingInv == /\ TypeOK
           /\ RingConsistent

\* Moving an index on stays in the ring (nextNextIn, nextNextOut).
LEMMA AdvanceInSlots ==
  ASSUME NEW i \in -1..(Size - 1), reversed \in BOOLEAN, reversed => i # -1
  PROVE  Advance(i) \in Slots
  BY TwCircularAssumption DEF Advance, Slots

PCs == {"idle", "gtWait", "gtWoken", "decWait", "decWoken"}

\* A signal moves at most one thread, from `waiting' to `woken'; the thread that
\* signals returns from its own call.
LEMMA SignalledMovesOne ==
  ASSUME pc \in [Threads -> PCs], NEW th \in Threads, NEW w \in PCs, NEW r \in PCs,
         pc' \in Signalled([pc EXCEPT ![th] = "idle"], w, r)
  PROVE  /\ pc' \in [Threads -> PCs]
         /\ \A x \in Threads : \/ pc'[x] = "idle" \/ pc'[x] = pc[x]
                               \/ (pc'[x] = r /\ (pc[x] = w \/ w = "idle"))
  <1> DEFINE p == [pc EXCEPT ![th] = "idle"]
  <1>1. p \in [Threads -> PCs] /\ \A x \in Threads : p[x] = pc[x] \/ p[x] = "idle"
    BY DEF PCs
  <1>2. CASE pc' = p
    BY <1>1, <1>2
  <1>3. CASE \E x \in Threads : p[x] = w /\ pc' = [p EXCEPT ![x] = r]
    <2>1. PICK x \in Threads : p[x] = w /\ pc' = [p EXCEPT ![x] = r]
      BY <1>3
    <2> HIDE DEF p
    <2> QED BY <1>1, <2>1
  <1> QED BY <1>2, <1>3 DEF Signalled

\* Placing a value (acquireAndKeepLock with a free slot, then the assignment).
LEMMA PlaceKeepsInv ==
  ASSUME RingInv, NEW th \in Threads, NEW v \in Vals, ~Full, Place(th, v)
  PROVE  RingInv'
  <1> USE TwCircularAssumption DEF RingInv, TypeOK
  <1>1. /\ cnt' = cnt - 1 /\ nextIn' = Advance(nextIn)
        /\ nextOut' = nextOut /\ reversed' = reversed
    BY DEF Place
  <1>2. nextIn' \in Slots
    BY <1>1, AdvanceInSlots DEF RingConsistent
  <1>3. RingConsistent'
    BY <1>1, <1>2 DEF RingConsistent, Advance, Remain, Slots, Full
  <1>4. /\ pc' \in [Threads -> PCs]
        /\ \A x \in Threads : pc'[x] \in {"gtWait", "gtWoken"} => x # th /\ pc'[x] = pc[x]
    <2>1. pc' \in Signalled([pc EXCEPT ![th] = "idle"], "decWait", "decWoken")
      BY DEF Place
    <2>2. pc \in [Threads -> PCs] /\ "decWait" \in PCs /\ "decWoken" \in PCs
      BY DEF PCs
    <2>3. pc'[th] = "idle"
      <3> DEFINE p == [pc EXCEPT ![th] = "idle"]
      <3>1. p \in [Threads -> PCs] /\ p[th] = "idle"
        BY DEF PCs
      <3>2. pc' = p \/ \E x \in Threads : p[x] = "decWait" /\ pc' = [p EXCEPT ![x] = "decWoken"]
        BY <2>1 DEF Signalled
      <3> HIDE DEF p
      <3> QED BY ONLY <3>1, <3>2
    <2>4. /\ pc' \in [Threads -> PCs]
          /\ \A x \in Threads : pc'[x] = "idle" \/ pc'[x] = pc[x] \/ pc'[x] = "decWoken"
      BY <2>1, <2>2, SignalledMovesOne
    <2> QED BY ONLY <2>3, <2>4
  <1>5. /\ val' = [val EXCEPT ![th] = None] /\ timed' \subseteq Threads
        /\ got' = got /\ data' \in [Slots -> Vals \cup {None}]
    BY DEF Place
  <1>6. TypeOK'
    BY <1>1, <1>2, <1>4, <1>5 DEF Full, Slots, PCs
  <1> QED BY <1>1, <1>3, <1>6

\* What removing the oldest element does to everything but the indices.
LEMMA PullKeepsTypes ==
  ASSUME RingInv, NEW th \in Threads, Pull(th)
  PROVE  /\ pc' \in [Threads -> PCs]
         /\ \A x \in Threads : pc'[x] \in {"gtWait", "gtWoken"} => val'[x] \in Vals
         /\ data' \in [Slots -> Vals \cup {None}] /\ val' = val
         /\ timed' \subseteq Threads
         /\ got' \in [Threads -> Vals \cup {None}]
  <1>1. /\ pc' \in [Threads -> PCs]
        /\ \A x \in Threads : \/ pc'[x] = "idle" \/ pc'[x] = pc[x]
                              \/ (pc'[x] = "gtWoken" /\ pc[x] = "gtWait")
    <2>1. pc' \in Signalled([pc EXCEPT ![th] = "idle"], "gtWait", "gtWoken")
      BY DEF Pull
    <2>2. pc \in [Threads -> PCs] /\ "gtWait" \in PCs /\ "gtWoken" \in PCs
      BY DEF PCs, RingInv, TypeOK
    <2>3. "gtWait" # "idle"
      OBVIOUS
    <2> QED BY <2>1, <2>2, <2>3, SignalledMovesOne
  <1>2. /\ data' = data /\ val' = val /\ timed' \subseteq Threads
        /\ got' \in [Threads -> Vals \cup {None}]
    BY DEF Pull, RingInv, TypeOK
  <1> QED BY <1>1, <1>2 DEF RingInv, TypeOK

\* Every thread keeps the invariant, whatever it calls.
LEMMA ThreadKeepsInv ==
  ASSUME RingInv, NEW th \in Threads, ThreadStep(th)
  PROVE  RingInv'
  <1> USE TwCircularAssumption DEF RingInv
  <1>1. CASE Add(th)
    <2>1. ASSUME NEW v \in Vals, ~Full, Place(th, v) PROVE RingInv'
      BY <2>1, PlaceKeepsInv
    <2>2. ASSUME NEW v \in Vals, NEW t \in BOOLEAN, WaitAt(th, "gtWait", v, t)
          PROVE  RingInv'
      BY <2>2 DEF WaitAt, ringVars, TypeOK, RingConsistent, Remain
    <2> QED BY <1>1, <2>1, <2>2 DEF Add
  <1>2. CASE AddResume(th)
    <2>1. pc[th] = "gtWoken" /\ val[th] \in Vals
      BY <1>2 DEF AddResume, TypeOK
    <2>2. CASE ~Full /\ Place(th, val[th])
      BY <2>1, <2>2, PlaceKeepsInv
    <2>3. CASE WaitAt(th, "gtWait", val[th], th \in timed)
      BY <2>1, <2>3 DEF WaitAt, ringVars, TypeOK, RingConsistent, Remain
    <2> QED BY <1>2, <2>2, <2>3 DEF AddResume
  <1>3. CASE AddTimeout(th)
    BY <1>3 DEF AddTimeout, Return, ringVars, TypeOK, RingConsistent, Remain
  <1>4. CASE AddIfRoom(th)
    BY <1>4, PlaceKeepsInv DEF AddIfRoom
  <1>5. CASE Remove(th)
    <2>1. /\ Remain > 0 /\ pc[th] = "idle" /\ Pull(th) /\ ResetIfLast
          /\ cnt' = cnt + 1
      BY <1>5 DEF Remove, Pull
    <2>2. CASE Remain = 1
      <3>1. nextIn' = -1 /\ nextOut' = 0 /\ reversed' = FALSE
        BY <2>1, <2>2 DEF ResetIfLast
      <3>2. cnt' = Size
        BY <2>1, <2>2 DEF Remain, TypeOK
      <3>3. RingConsistent'
        BY <3>1, <3>2 DEF RingConsistent, Remain
      <3>4. cnt' \in 0..Size /\ nextIn' \in -1..(Size - 1) /\ nextOut' \in Slots
        BY <3>1, <3>2 DEF Slots
      <3>5. reversed' \in BOOLEAN
        BY <3>1
      <3>6. TypeOK'
        BY <2>1, <3>4, <3>5, PullKeepsTypes DEF TypeOK, Slots, PCs
      <3> QED BY <3>3, <3>6
    <2>3. CASE Remain # 1
      <3>1. /\ nextIn' = nextIn /\ nextOut' = Advance(nextOut)
            /\ reversed' = reversed
        BY <2>1, <2>3 DEF ResetIfLast, TypeOK
      <3>2. nextOut' \in Slots
        BY <3>1, AdvanceInSlots DEF TypeOK, Slots
      <3>3. RingConsistent'
        BY <2>1, <2>3, <3>1, <3>2 DEF RingConsistent, Advance, Remain, Slots, TypeOK
      <3> QED BY <2>1, <3>1, <3>2, <3>3, PullKeepsTypes DEF TypeOK, Slots, Remain, PCs
    <2> QED BY <2>2, <2>3
  <1>6. CASE RemoveOrBlock(th)
    <2>1. PICK t \in BOOLEAN : WaitAt(th, "decWait", None, t)
      BY <1>6 DEF RemoveOrBlock
    <2> QED BY <2>1 DEF WaitAt, ringVars, TypeOK, RingConsistent, Remain
  <1>7. CASE RemoveResume(th)
    <2>1. CASE Return(th)
      BY <2>1 DEF Return, ringVars, TypeOK, RingConsistent, Remain
    <2>2. CASE /\ cnt < Size /\ Pull(th)
               /\ nextOut' = Advance(nextOut)
               /\ UNCHANGED <<nextIn, reversed>>
      <3>1. cnt' = cnt + 1 /\ pc[th] = "decWoken"
        BY <1>7, <2>2 DEF Pull, RemoveResume
      <3>2. nextOut' \in Slots
        BY <2>2, AdvanceInSlots DEF TypeOK, Slots
      <3>3. RingConsistent'
        BY <2>2, <3>1, <3>2 DEF RingConsistent, Advance, Remain, Slots, TypeOK
      <3> QED BY <2>2, <3>1, <3>2, <3>3, PullKeepsTypes DEF TypeOK, Slots, PCs
    <2> QED BY <1>7, <2>1, <2>2 DEF RemoveResume
  <1>8. CASE SpuriousWakeup(th)
    BY <1>8 DEF SpuriousWakeup, ringVars, TypeOK, RingConsistent, Remain
  <1> QED BY <1>1, <1>2, <1>3, <1>4, <1>5, <1>6, <1>7, <1>8 DEF ThreadStep

\* The invariant holds at first and every step keeps it.
LEMMA RingInvariant == Spec => []RingInv
  <1> USE TwCircularAssumption
  <1>1. Init => RingInv
    <2> SUFFICES ASSUME Init PROVE RingInv
      OBVIOUS
    <2>1. cnt \in 0..Size /\ nextIn \in -1..(Size - 1) /\ nextOut \in Slots
      BY DEF Init, Slots
    <2>2. reversed \in BOOLEAN
      BY DEF Init
    <2>3. TypeOK
      BY <2>1, <2>2 DEF Init, TypeOK
    <2>4. RingConsistent /\ ~reversed
      BY DEF Init, RingConsistent, Remain
    <2> QED BY <2>3, <2>4 DEF RingInv
  <1>2. RingInv /\ [Next]_vars => RingInv'
    <2> SUFFICES ASSUME RingInv, [Next]_vars PROVE RingInv'
      OBVIOUS
    <2>1. CASE \E th \in Threads : ThreadStep(th)
      BY <2>1, ThreadKeepsInv
    <2>2. CASE Reverse
      <3>1. /\ reversed' = ~reversed /\ nextOut' = nextIn /\ nextIn' = nextOut
            /\ Remain >= 1
            /\ UNCHANGED <<cnt, data, pc, val, timed, got>>
        BY <2>2 DEF Reverse
      <3>2. nextIn # -1
        BY <3>1 DEF RingInv, RingConsistent
      <3>3. RingConsistent'
        <4>1. /\ nextIn \in Slots /\ nextOut \in Slots /\ Remain \in Int
              /\ Remain' = Remain
          BY <3>1, <3>2 DEF RingInv, TypeOK, Remain, Slots
        <4>2. CASE reversed
          <5>1. reversed' = FALSE
            BY <3>1, <4>2
          <5>2. nextIn + Remain - 1 \in {nextOut - Size, nextOut, nextOut + Size}
            BY <4>2 DEF RingInv, RingConsistent
          <5>3. nextIn' - Remain' + 1 \in {nextOut' - Size, nextOut', nextOut' + Size}
            BY <3>1, <4>1, <5>2 DEF Slots
          <5> QED BY <3>1, <4>1, <5>1, <5>3 DEF RingConsistent, Slots
        <4>3. CASE ~reversed
          <5>1. reversed' = TRUE
            BY <3>1, <4>3
          <5>2. nextIn - Remain + 1 \in {nextOut - Size, nextOut, nextOut + Size}
            BY <4>3 DEF RingInv, RingConsistent
          <5>3. nextIn' + Remain' - 1 \in {nextOut' - Size, nextOut', nextOut' + Size}
            BY <3>1, <4>1, <5>2 DEF Slots
          <5> QED BY <3>1, <4>1, <5>1, <5>3 DEF RingConsistent, Slots
        <4> QED BY <4>2, <4>3
      <3> QED BY <3>1, <3>2, <3>3 DEF RingInv, TypeOK, Slots
    <2>3. CASE Clear
      <3>1. RingConsistent' /\ ~reversed'
        BY <2>3 DEF Clear, RingConsistent, Remain
      <3>2. cnt' \in 0..Size /\ nextIn' \in -1..(Size - 1) /\ nextOut' \in Slots
        BY <2>3 DEF Clear, Slots
      <3>3. reversed' \in BOOLEAN
        BY <2>3 DEF Clear
      <3>4. TypeOK'
        BY <2>3, <3>2, <3>3 DEF Clear, RingInv, TypeOK, Slots
      <3> QED BY <3>1, <3>4 DEF RingInv
    <2>4. CASE Transfer
      <3>1. ~reversed
        BY <2>4 DEF Transfer, RingInv
      <3>2. RingConsistent' /\ ~reversed'
        BY <2>4, <3>1 DEF Transfer, RingConsistent, Remain
      <3>3. TypeOK'
        BY <2>4 DEF Transfer, RingInv, TypeOK, Slots
      <3> QED BY <3>2, <3>3 DEF RingInv
    <2>5. CASE UnblockAllRemovers
      BY <2>5 DEF UnblockAllRemovers, ringVars, RingInv, TypeOK, RingConsistent, Remain
    <2>6. CASE UNCHANGED vars
      BY <2>6 DEF vars, ringVars, RingInv, TypeOK, RingConsistent, Remain
    <2> QED BY <2>1, <2>2, <2>3, <2>4, <2>5, <2>6 DEF Next
  <1> QED BY <1>1, <1>2, PTL DEF Spec

\* Every variable of the ring and of the threads that use it keeps its type: the count of
\* the semaphore stays within the ring, and a thread that sleeps in add() has its value.
THEOREM RingTypes == Spec => []TypeOK
  <1>1. RingInv => TypeOK
    BY DEF RingInv
  <1> QED BY <1>1, RingInvariant, PTL

\* The indices and the count of the semaphore agree for ever (all methods of
\* tw_safeCircular greaseLog calls), so no slot is read before it is written or written
\* before it is read.
THEOREM RingStaysConsistent == Spec => []RingConsistent
  <1>1. RingInv => RingConsistent
    BY DEF RingInv
  <1> QED BY <1>1, RingInvariant, PTL

-----------------------------------------------------------------------------
(* The ring is a FIFO                                                       *)

\* The slot of the i-th oldest element.
Nth(i) == LET o == IF reversed THEN nextOut - (i - 1) ELSE nextOut + (i - 1)
          IN IF o < 0 THEN o + Size ELSE IF o >= Size THEN o - Size ELSE o

\* What the refinement needs of a state: numbers, and where the indices point.
LEMMA RingNumbers ==
  ASSUME RingInv
  PROVE  /\ Size \in Nat \ {0} /\ Remain \in 0..Size /\ cnt = Size - Remain
         /\ nextIn \in -1..(Size - 1) /\ nextOut \in 0..(Size - 1) /\ reversed \in BOOLEAN
         /\ data \in [0..(Size - 1) -> Vals \cup {None}]
  BY TwCircularAssumption DEF RingInv, TypeOK, Remain, Slots

LEMMA NthInSlots ==
  ASSUME RingInv, NEW i \in 1..Size
  PROVE  Nth(i) \in 0..(Size - 1)
  <1>1. Size \in Nat /\ nextOut \in 0..(Size - 1) /\ reversed \in BOOLEAN
    BY RingNumbers
  <1> QED BY ONLY <1>1, i \in 1..Size DEF Nth

\* Different elements are in different slots.
LEMMA NthDiffer ==
  ASSUME RingInv, NEW i \in 1..Size, NEW j \in 1..Size, i # j
  PROVE  Nth(i) # Nth(j)
  <1>1. Size \in Nat /\ nextOut \in 0..(Size - 1) /\ i \in 1..Size /\ j \in 1..Size
    BY RingNumbers
  <1>2. CASE reversed
    BY ONLY <1>1, <1>2, i # j DEF Nth
  <1>3. CASE ~reversed
    BY ONLY <1>1, <1>3, i # j DEF Nth
  <1> QED BY <1>2, <1>3

LEMMA ContentsAre ==
  ASSUME RingInv
  PROVE  /\ Contents = [i \in 1..Remain |-> data[Nth(i)]]
         /\ Contents \in Seq(Vals \cup {None}) /\ Len(Contents) = Remain
  <1>1. Contents = [i \in 1..Remain |-> data[Nth(i)]]
    BY DEF Contents, Nth
  <1>2. \A i \in 1..Remain : data[Nth(i)] \in Vals \cup {None}
    BY RingNumbers, NthInSlots
  <1>3. Remain \in Nat
    BY RingNumbers
  <1> QED BY ONLY <1>1, <1>2, <1>3

\* acquireAndKeepLock() fills the slot behind the youngest element.
LEMMA NextInIsLast ==
  ASSUME RingInv, ~Full
  PROVE  Remain + 1 \in 1..Size /\ Advance(nextIn) = Nth(Remain + 1)
  <1>1. Remain + 1 \in 1..Size
    BY RingNumbers DEF Full
  <1>2. /\ Size \in Nat \ {0} /\ Remain \in 0..Size /\ nextIn \in -1..(Size - 1)
        /\ nextOut \in 0..(Size - 1)
    BY RingNumbers
  <1>3. RingConsistent
    BY DEF RingInv
  <1>4. CASE reversed
    <2>1. nextIn # -1 /\ nextIn + Remain - 1 \in {nextOut - Size, nextOut, nextOut + Size}
      BY ONLY <1>3, <1>4 DEF RingConsistent
    <2>2. Advance(nextIn) = IF nextIn - 1 < 0 THEN Size - 1 ELSE nextIn - 1
      BY ONLY <1>4 DEF Advance
    <2>3. Nth(Remain + 1) = LET o == nextOut - Remain
                            IN IF o < 0 THEN o + Size ELSE IF o >= Size THEN o - Size ELSE o
      BY ONLY <1>2, <1>4 DEF Nth
    <2> QED BY ONLY <1>1, <1>2, <2>1, <2>2, <2>3
  <1>5. CASE ~reversed
    <2>1. /\ nextIn - Remain + 1 \in {nextOut - Size, nextOut, nextOut + Size}
          /\ nextIn = -1 => Remain = 0 /\ nextOut = 0
      BY ONLY <1>3, <1>5 DEF RingConsistent
    <2>2. Advance(nextIn) = IF nextIn + 1 >= Size THEN 0 ELSE nextIn + 1
      BY ONLY <1>5 DEF Advance
    <2>3. Nth(Remain + 1) = LET o == nextOut + Remain
                            IN IF o < 0 THEN o + Size ELSE IF o >= Size THEN o - Size ELSE o
      BY ONLY <1>2, <1>5 DEF Nth
    <2> QED BY ONLY <1>1, <1>2, <2>1, <2>2, <2>3
  <1> QED BY <1>1, <1>4, <1>5

LEMMA PlaceIsPut ==
  ASSUME RingInv, RingInv', NEW th \in Threads, NEW v \in Vals, ~Full, Place(th, v)
  PROVE  Fifo!Put
  <1>1. /\ Remain' = Remain + 1 /\ nextOut' = nextOut /\ reversed' = reversed /\ got' = got
        /\ data' = [data EXCEPT ![Nth(Remain + 1)] = v]
    BY NextInIsLast, RingNumbers DEF Place, Remain
  <1>2. Remain \in Nat /\ Remain < Size /\ Remain + 1 \in 1..Size
    BY RingNumbers, NextInIsLast DEF Full
  <1>3. \A i : Nth(i)' = Nth(i)
    BY <1>1 DEF Nth
  <1>4. \A i \in 1..Remain : data'[Nth(i)] = data[Nth(i)]
    <2> SUFFICES ASSUME NEW i \in 1..Remain PROVE data'[Nth(i)] = data[Nth(i)]
      OBVIOUS
    <2>1. i \in 1..Size /\ i # Remain + 1
      BY ONLY <1>2, i \in 1..Remain, RingInv, RingNumbers
    <2>2. Nth(i) # Nth(Remain + 1) /\ Nth(i) \in 0..(Size - 1)
      BY <2>1, <1>2, NthDiffer, NthInSlots
    <2> QED BY <1>1, <2>2, RingNumbers
  <1>5. data'[Nth(Remain + 1)] = v
    BY <1>1, <1>2, NthInSlots, RingNumbers
  <1>6. Contents' = [i \in 1..(Remain + 1) |-> data'[Nth(i)]]
    BY <1>1, <1>3 DEF Contents, Nth
  <1>7. Contents' = Append(Contents, v)
    <2> DEFINE C == Contents  D == [i \in 1..(Remain + 1) |-> data'[Nth(i)]]
    <2>1. C \in Seq(Vals \cup {None}) /\ Len(C) = Remain /\ C = [i \in 1..Remain |-> data[Nth(i)]]
      BY ContentsAre
    <2>2. Append(C, v) = [i \in 1..(Remain + 1) |-> IF i = Remain + 1 THEN v ELSE C[i]]
      BY <2>1, <1>2
    <2>3. \A i \in 1..(Remain + 1) : D[i] = IF i = Remain + 1 THEN v ELSE C[i]
      BY <1>2, <1>4, <1>5, <2>1
    <2> QED BY <1>6, <2>2, <2>3
  <1> QED BY <1>1, <1>2, <1>7, ContentsAre DEF Fifo!Put

\* Taking the oldest element: the index of the next one to empty moves on.
LEMMA PullIsTake ==
  ASSUME RingInv, NEW th \in Threads, Remain > 0, Pull(th),
         \/ nextOut' = Advance(nextOut) /\ reversed' = reversed
         \/ Remain = 1
  PROVE  Fifo!Take
  <1>1. /\ Remain' = Remain - 1 /\ data' = data /\ got' = [got EXCEPT ![th] = data[nextOut]]
    BY RingNumbers DEF Pull, Remain
  <1>2. Size \in Nat \ {0} /\ Remain \in 1..Size /\ nextOut \in 0..(Size - 1)
        /\ reversed \in BOOLEAN
    BY RingNumbers
  <1>3. /\ Contents = [i \in 1..Remain |-> data[Nth(i)]]
        /\ Contents \in Seq(Vals \cup {None}) /\ Len(Contents) = Remain
    BY ContentsAre
  <1>4. Nth(1) = nextOut
    BY ONLY <1>2 DEF Nth
  <1>5. Contents # <<>> /\ Head(Contents) = data[nextOut]
    BY ONLY <1>2, <1>3, <1>4
  <1>6. Contents' = [i \in 1..(Remain - 1) |-> data[Nth(i)']]
    BY ONLY <1>1 DEF Contents, Nth
  <1>7. \A i \in 1..(Remain - 1) : Nth(i)' = Nth(i + 1)
    <2>1. CASE Remain = 1
      BY ONLY <1>2, <2>1
    <2>2. CASE nextOut' = Advance(nextOut) /\ reversed' = reversed /\ reversed
      <3>1. nextOut' = IF nextOut - 1 < 0 THEN Size - 1 ELSE nextOut - 1
        BY ONLY <2>2 DEF Advance
      <3> QED BY ONLY <1>2, <2>2, <3>1 DEF Nth
    <2>3. CASE nextOut' = Advance(nextOut) /\ reversed' = reversed /\ ~reversed
      <3>1. nextOut' = IF nextOut + 1 >= Size THEN 0 ELSE nextOut + 1
        BY ONLY <2>3 DEF Advance
      <3> QED BY ONLY <1>2, <2>3, <3>1 DEF Nth
    <2> QED BY <2>1, <2>2, <2>3
  <1>8. Contents' = Tail(Contents)
    <2> DEFINE C == Contents
    <2>1. Tail(C) = [i \in 1..(Remain - 1) |-> C[i + 1]]
      BY ONLY <1>2, <1>3
    <2>2. \A i \in 1..(Remain - 1) : C[i + 1] = data[Nth(i + 1)]
      BY ONLY <1>2, <1>3
    <2> QED BY ONLY <1>6, <1>7, <2>1, <2>2
  <1> QED BY <1>1, <1>5, <1>8 DEF Fifo!Take

\* reverse() swaps the ends.
LEMMA ReverseIsFlip ==
  ASSUME RingInv, Reverse
  PROVE  Fifo!Flip
  <1>1. /\ Remain' = Remain /\ data' = data /\ got' = got /\ reversed' = ~reversed
        /\ nextOut' = nextIn /\ Remain >= 1
    BY DEF Reverse, Remain
  <1>2. /\ Size \in Nat \ {0} /\ Remain \in 1..Size /\ nextIn \in -1..(Size - 1)
        /\ nextOut \in 0..(Size - 1) /\ reversed \in BOOLEAN
    BY <1>1, RingNumbers
  <1>3. RingConsistent
    BY DEF RingInv
  <1>4. \A i \in 1..Remain : Nth(i)' = Nth(Remain + 1 - i)
    <2>1. CASE reversed
      <3>1. nextIn # -1 /\ nextIn + Remain - 1 \in {nextOut - Size, nextOut, nextOut + Size}
        BY ONLY <1>2, <1>3, <2>1 DEF RingConsistent
      <3> SUFFICES ASSUME NEW i \in 1..Remain PROVE Nth(i)' = Nth(Remain + 1 - i)
        OBVIOUS
      <3>2. Nth(i)' = LET o == nextIn + (i - 1) IN
                      IF o < 0 THEN o + Size ELSE IF o >= Size THEN o - Size ELSE o
        BY ONLY <1>1, <2>1 DEF Nth
      <3>3. Nth(Remain + 1 - i) = LET o == nextOut - (Remain - i) IN
                                  IF o < 0 THEN o + Size ELSE IF o >= Size THEN o - Size ELSE o
        BY ONLY <1>2, <2>1, i \in 1..Remain DEF Nth
      <3> QED BY ONLY <1>2, <3>1, <3>2, <3>3, i \in 1..Remain
    <2>2. CASE ~reversed
      <3>1. nextIn # -1 /\ nextIn - Remain + 1 \in {nextOut - Size, nextOut, nextOut + Size}
        BY ONLY <1>2, <1>3, <2>2 DEF RingConsistent
      <3> SUFFICES ASSUME NEW i \in 1..Remain PROVE Nth(i)' = Nth(Remain + 1 - i)
        OBVIOUS
      <3>2. Nth(i)' = LET o == nextIn - (i - 1) IN
                      IF o < 0 THEN o + Size ELSE IF o >= Size THEN o - Size ELSE o
        BY ONLY <1>1, <2>2 DEF Nth
      <3>3. Nth(Remain + 1 - i) = LET o == nextOut + (Remain - i) IN
                                  IF o < 0 THEN o + Size ELSE IF o >= Size THEN o - Size ELSE o
        BY ONLY <1>2, <2>2, i \in 1..Remain DEF Nth
      <3> QED BY ONLY <1>2, <3>1, <3>2, <3>3, i \in 1..Remain
    <2> QED BY <2>1, <2>2
  <1>5. Contents' = [i \in 1..Remain |-> data[Nth(i)']]
    BY ONLY <1>1 DEF Contents, Nth
  <1>6. /\ Contents = [i \in 1..Remain |-> data[Nth(i)]]
        /\ Contents \in Seq(Vals \cup {None}) /\ Len(Contents) = Remain
    BY ContentsAre
  <1>7. Contents' = [i \in DOMAIN Contents |-> Contents[Len(Contents) + 1 - i]]
    <2> DEFINE C == Contents
    <2>1. DOMAIN C = 1..Remain
      BY ONLY <1>6
    <2>2. \A i \in 1..Remain : C[Len(C) + 1 - i] = data[Nth(Remain + 1 - i)]
      BY ONLY <1>2, <1>6
    <2> QED BY ONLY <1>4, <1>5, <2>1, <2>2
  <1> QED BY <1>1, <1>7 DEF Fifo!Flip

\* A ring whose count says so is empty.
LEMMA EmptiedIsEmpty ==
  ASSUME RingInv, Remain' = 0, got' = got
  PROVE  Fifo!Empty
  <1>1. Contents' = [i \in 1..0 |-> data'[Nth(i)']]
    BY DEF Contents, Nth
  <1>2. Contents' = <<>>
    BY ONLY <1>1
  <1> QED BY <1>2 DEF Fifo!Empty

\* A step of a thread is a put, a take or invisible.
LEMMA ThreadImplements ==
  ASSUME RingInv, RingInv', NEW th \in Threads, ThreadStep(th)
  PROVE  Fifo!Put \/ Fifo!Take \/ UNCHANGED <<Contents, got>>
  <1>1. UNCHANGED <<ringVars, got>> => UNCHANGED <<Contents, got>>
    BY DEF ringVars, Contents, Remain
  <1>2. CASE Add(th)
    BY <1>1, <1>2, PlaceIsPut DEF Add, WaitAt
  <1>3. CASE AddResume(th)
    <2>1. val[th] \in Vals
      BY <1>3 DEF AddResume, RingInv, TypeOK
    <2> QED BY <1>1, <1>3, <2>1, PlaceIsPut DEF AddResume, WaitAt
  <1>4. CASE AddTimeout(th)
    BY <1>1, <1>4 DEF AddTimeout, Return
  <1>5. CASE AddIfRoom(th)
    BY <1>5, PlaceIsPut DEF AddIfRoom
  <1>6. CASE Remove(th)
    BY <1>6, PullIsTake, RingNumbers DEF Remove, ResetIfLast
  <1>7. CASE RemoveOrBlock(th)
    BY <1>1, <1>7 DEF RemoveOrBlock, WaitAt
  <1>8. CASE RemoveResume(th)
    <2>1. cnt < Size => Remain > 0
      BY RingNumbers DEF Remain
    <2> QED BY <1>1, <1>8, <2>1, PullIsTake DEF RemoveResume, Return
  <1>9. CASE SpuriousWakeup(th)
    BY <1>1, <1>9 DEF SpuriousWakeup
  <1> QED BY <1>2, <1>3, <1>4, <1>5, <1>6, <1>7, <1>8, <1>9 DEF ThreadStep

\* Every ring is a bounded FIFO: what add() placed, remove() and removeOrBlock() give back
\* oldest first, once, and reverse() turns the order round, for every size, any number of
\* threads, waits that time out and wakeups without a signal.
THEOREM RingImplementsFifo == Spec => ImplementsFifo
  <1>1. Init => Fifo!Init
    <2> SUFFICES ASSUME Init PROVE Fifo!Init
      OBVIOUS
    <2>1. Remain = 0
      BY TwCircularAssumption DEF Init, Remain
    <2>2. Contents = <<>>
      BY <2>1 DEF Contents
    <2> QED BY <2>2 DEF Init, Fifo!Init
  <1>2. RingInv /\ RingInv' /\ [Next]_vars => [Fifo!Next]_<<Contents, got>>
    <2> SUFFICES ASSUME RingInv, RingInv', [Next]_vars
                 PROVE  Fifo!Next \/ UNCHANGED <<Contents, got>>
      OBVIOUS
    <2>1. CASE \E th \in Threads : ThreadStep(th)
      BY <2>1, ThreadImplements DEF Fifo!Next
    <2>2. CASE Reverse
      BY <2>2, ReverseIsFlip DEF Fifo!Next
    <2>3. CASE Clear \/ Transfer
      <3>1. Remain' = 0 /\ got' = got
        BY <2>3, RingNumbers DEF Clear, Transfer, Remain
      <3> QED BY <3>1, EmptiedIsEmpty DEF Fifo!Next
    <2>4. CASE UnblockAllRemovers \/ UNCHANGED vars
      BY <2>4 DEF UnblockAllRemovers, vars, ringVars, Contents, Remain
    <2> QED BY <2>1, <2>2, <2>3, <2>4 DEF Next
  <1> QED BY <1>1, <1>2, RingInvariant, PTL DEF Spec, ImplementsFifo, Fifo!Spec

-----------------------------------------------------------------------------
(* Sleepers are signalled                                                   *)

Signals == AddersSignalled /\ RemoversSignalled

\* The threads at one place are finitely many, and one more or less changes their number
\* by one.
LEMMA WaitingFinite ==
  ASSUME NEW S \in SUBSET Threads
  PROVE  /\ IsFiniteSet(S) /\ Cardinality(S) \in Nat
         /\ \A x \in Threads : /\ Cardinality(S \ {x}) \in Nat
                               /\ Cardinality(S \ {x}) >= Cardinality(S) - 1
                               /\ x \notin S => Cardinality(S \cup {x}) = Cardinality(S) + 1
  <1>1. IsFiniteSet(S)
    BY TwCircularAssumption, FS_Subset
  <1>2. Cardinality(S) \in Nat
    BY <1>1, FS_CardinalityType
  <1>3. ASSUME NEW x \in Threads
        PROVE  /\ Cardinality(S \ {x}) \in Nat
               /\ Cardinality(S \ {x}) >= Cardinality(S) - 1
               /\ x \notin S => Cardinality(S \cup {x}) = Cardinality(S) + 1
    <2>1. IsFiniteSet(S \ {x}) /\ Cardinality(S \ {x}) = IF x \in S THEN Cardinality(S) - 1
                                                         ELSE Cardinality(S)
      BY <1>1, FS_RemoveElement
    <2>2. Cardinality(S \cup {x}) = IF x \in S THEN Cardinality(S) ELSE Cardinality(S) + 1
      BY <1>1, FS_AddElement
    <2>3. Cardinality(S \ {x}) \in Nat
      BY <2>1, FS_CardinalityType
    <2> QED BY ONLY <1>2, <2>1, <2>2, <2>3
  <1> QED BY <1>1, <1>2, <1>3

\* One thread goes from its place to another one.
LEMMA OneMoves ==
  ASSUME pc \in [Threads -> PCs], NEW th \in Threads, NEW q \in PCs,
         pc' = [pc EXCEPT ![th] = q]
  PROVE  \A o \in PCs : Waiting(o)' = IF o = q THEN Waiting(o) \cup {th}
                                                ELSE Waiting(o) \ {th}
  BY DEF Waiting

WakesOne(th, w, r) ==
  \/ Waiting(w) = {} /\ Waiting(w)' = {}
  \/ \E x \in Waiting(w) : Waiting(r)' = (Waiting(r) \ {th}) \cup {x}

\* A signal wakes one of those who wait, if there are any; nobody else moves but the thread
\* that signals (pthread_cond_signal).
LEMMA SignalWakesOne ==
  ASSUME pc \in [Threads -> PCs], NEW th \in Threads,
         NEW w \in PCs \ {"idle"}, NEW r \in PCs \ {"idle"}, w # r, pc[th] # w,
         pc' \in Signalled([pc EXCEPT ![th] = "idle"], w, r)
  PROVE  /\ \A o \in PCs \ {w, r, "idle"} : Waiting(o)' = Waiting(o) \ {th}
         /\ WakesOne(th, w, r)
  <1> DEFINE p == [pc EXCEPT ![th] = "idle"]
  <1>1. /\ p \in [Threads -> PCs] /\ p[th] = "idle"
        /\ \A x \in Threads \ {th} : p[x] = pc[x]
    BY DEF PCs
  <1>2. \/ pc' = p /\ {x \in Threads : p[x] = w} = {}
        \/ \E x \in Threads : p[x] = w /\ pc' = [p EXCEPT ![x] = r]
    BY DEF Signalled
  <1> HIDE DEF p
  <1>3. CASE pc' = p /\ {x \in Threads : p[x] = w} = {}
    <2>1. Waiting(w) = {} /\ Waiting(w)' = {}
      BY <1>1, <1>3 DEF Waiting
    <2>2. \A o \in PCs \ {w, r, "idle"} : Waiting(o)' = Waiting(o) \ {th}
      BY <1>1, <1>3 DEF Waiting
    <2> QED BY <2>1, <2>2 DEF WakesOne
  <1>4. CASE \E x \in Threads : p[x] = w /\ pc' = [p EXCEPT ![x] = r]
    <2>1. PICK x \in Threads : p[x] = w /\ pc' = [p EXCEPT ![x] = r]
      BY <1>4
    <2>2. x # th /\ x \in Waiting(w)
      BY <1>1, <2>1 DEF Waiting
    <2>3. \A y \in Threads : pc'[y] = IF y = x THEN r ELSE IF y = th THEN "idle" ELSE pc[y]
      BY <1>1, <2>1, <2>2
    <2>4. Waiting(r)' = (Waiting(r) \ {th}) \cup {x}
      BY ONLY <2>2, <2>3, r # "idle" DEF Waiting
    <2>5. \A o \in PCs \ {w, r, "idle"} : Waiting(o)' = Waiting(o) \ {th}
      <3>1. pc[x] = w
        BY <2>2 DEF Waiting
      <3> QED BY ONLY <2>3, <2>2, <3>1, r # "idle" DEF Waiting
    <2> QED BY <2>2, <2>4, <2>5 DEF WakesOne
  <1> QED BY <1>2, <1>3, <1>4

LEMMA PlaceSignals ==
  ASSUME RingInv, Signals, NEW th \in Threads, NEW v, Place(th, v), ~Full,
         pc[th] \in {"idle", "gtWoken"}
  PROVE  Signals'
  <1>1. /\ cnt' = cnt - 1 /\ Remain' = Remain + 1 /\ cnt \in Nat /\ Remain \in Nat
        /\ pc \in [Threads -> PCs]
        /\ pc' \in Signalled([pc EXCEPT ![th] = "idle"], "decWait", "decWoken")
    BY RingNumbers DEF Place, Remain, RingInv, TypeOK, PCs
  <1>2. /\ Waiting("gtWait")' = Waiting("gtWait") \ {th}
        /\ Waiting("gtWoken")' = Waiting("gtWoken") \ {th}
    <2>1. /\ "decWait" \in PCs \ {"idle"} /\ "decWoken" \in PCs \ {"idle"} /\ pc[th] # "decWait"
          /\ "gtWait" \in PCs \ {"decWait", "decWoken", "idle"} /\ "gtWoken" \in PCs \ {"decWait", "decWoken", "idle"}
      BY DEF PCs
    <2>2. \A o \in PCs \ {"decWait", "decWoken", "idle"} : Waiting(o)' = Waiting(o) \ {th}
      BY ONLY <1>1, <2>1, SignalWakesOne, th \in Threads
    <2> QED BY ONLY <2>1, <2>2
  <1>6. WakesOne(th, "decWait", "decWoken")
    <2>1. "decWait" \in PCs \ {"idle"} /\ "decWoken" \in PCs \ {"idle"} /\ pc[th] # "decWait"
      BY DEF PCs
    <2> QED BY ONLY <1>1, <2>1, SignalWakesOne, th \in Threads
  <1>3. th \notin Waiting("gtWait") /\ th \notin Waiting("decWoken")
    BY DEF Waiting
  <1>4. AddersSignalled'
    <2> SUFFICES ASSUME Waiting("gtWait")' # {} PROVE cnt' <= Cardinality(Waiting("gtWoken")')
      BY DEF AddersSignalled
    <2>1. cnt <= Cardinality(Waiting("gtWoken"))
      BY <1>2 DEF Signals, AddersSignalled
    <2>2. Waiting("gtWoken") \in SUBSET Threads
      BY DEF Waiting
    <2>3. /\ Cardinality(Waiting("gtWoken")) \in Nat /\ Cardinality(Waiting("gtWoken") \ {th}) \in Nat
          /\ Cardinality(Waiting("gtWoken") \ {th}) >= Cardinality(Waiting("gtWoken")) - 1
      BY <2>2, WaitingFinite
    <2> QED BY ONLY <1>1, <1>2, <2>1, <2>3
  <1>5. RemoversSignalled'
    <2> SUFFICES ASSUME Waiting("decWait")' # {}
                 PROVE  Remain' <= Cardinality(Waiting("decWoken")')
      BY DEF RemoversSignalled
    <2>1. PICK x \in Waiting("decWait") : Waiting("decWoken")' = Waiting("decWoken") \cup {x}
      BY <1>6, <1>3 DEF WakesOne
    <2>2. Remain <= Cardinality(Waiting("decWoken"))
      BY <2>1 DEF Signals, RemoversSignalled
    <2>3. /\ Waiting("decWoken") \in SUBSET Threads /\ x \in Threads
          /\ x \notin Waiting("decWoken")
      BY <2>1 DEF Waiting
    <2> QED BY <1>1, <2>1, <2>2, <2>3, WaitingFinite
  <1> QED BY <1>4, <1>5 DEF Signals

LEMMA PullSignals ==
  ASSUME RingInv, Signals, NEW th \in Threads, Pull(th), Remain > 0,
         pc[th] \in {"idle", "decWoken"}
  PROVE  Signals'
  <1>1. /\ cnt' = cnt + 1 /\ Remain' = Remain - 1 /\ cnt \in Nat /\ Remain \in Nat
        /\ pc \in [Threads -> PCs]
        /\ pc' \in Signalled([pc EXCEPT ![th] = "idle"], "gtWait", "gtWoken")
    BY RingNumbers DEF Pull, Remain, RingInv, TypeOK, PCs
  <1>2. /\ Waiting("decWait")' = Waiting("decWait") \ {th}
        /\ Waiting("decWoken")' = Waiting("decWoken") \ {th}
    <2>1. /\ "gtWait" \in PCs \ {"idle"} /\ "gtWoken" \in PCs \ {"idle"} /\ pc[th] # "gtWait"
          /\ "decWait" \in PCs \ {"gtWait", "gtWoken", "idle"} /\ "decWoken" \in PCs \ {"gtWait", "gtWoken", "idle"}
      BY DEF PCs
    <2>2. \A o \in PCs \ {"gtWait", "gtWoken", "idle"} : Waiting(o)' = Waiting(o) \ {th}
      BY ONLY <1>1, <2>1, SignalWakesOne, th \in Threads
    <2> QED BY ONLY <2>1, <2>2
  <1>6. WakesOne(th, "gtWait", "gtWoken")
    <2>1. "gtWait" \in PCs \ {"idle"} /\ "gtWoken" \in PCs \ {"idle"} /\ pc[th] # "gtWait"
      BY DEF PCs
    <2> QED BY ONLY <1>1, <2>1, SignalWakesOne, th \in Threads
  <1>3. th \notin Waiting("decWait") /\ th \notin Waiting("gtWoken")
    BY DEF Waiting
  <1>4. RemoversSignalled'
    <2> SUFFICES ASSUME Waiting("decWait")' # {}
                 PROVE  Remain' <= Cardinality(Waiting("decWoken")')
      BY DEF RemoversSignalled
    <2>1. Remain <= Cardinality(Waiting("decWoken"))
      BY <1>2 DEF Signals, RemoversSignalled
    <2>2. Waiting("decWoken") \in SUBSET Threads
      BY DEF Waiting
    <2>3. /\ Cardinality(Waiting("decWoken")) \in Nat /\ Cardinality(Waiting("decWoken") \ {th}) \in Nat
          /\ Cardinality(Waiting("decWoken") \ {th}) >= Cardinality(Waiting("decWoken")) - 1
      BY <2>2, WaitingFinite
    <2>4. Cardinality(Waiting("decWoken")') = Cardinality(Waiting("decWoken") \ {th})
      BY ONLY <1>2
    <2>5. Remain - 1 <= Cardinality(Waiting("decWoken") \ {th})
      BY ONLY <1>1, <2>1, <2>3
    <2> QED BY ONLY <1>1, <2>4, <2>5
  <1>5. AddersSignalled'
    <2> SUFFICES ASSUME Waiting("gtWait")' # {} PROVE cnt' <= Cardinality(Waiting("gtWoken")')
      BY DEF AddersSignalled
    <2>1. PICK x \in Waiting("gtWait") : Waiting("gtWoken")' = Waiting("gtWoken") \cup {x}
      BY <1>6, <1>3 DEF WakesOne
    <2>2. cnt <= Cardinality(Waiting("gtWoken"))
      BY <2>1 DEF Signals, AddersSignalled
    <2>3. /\ Waiting("gtWoken") \in SUBSET Threads /\ x \in Threads
          /\ x \notin Waiting("gtWoken")
      BY <2>1 DEF Waiting
    <2> QED BY <1>1, <2>1, <2>2, <2>3, WaitingFinite
  <1> QED BY <1>4, <1>5 DEF Signals

\* A thread that goes to sleep, gives up or wakes by itself changes neither count.
LEMMA MoveSignals ==
  ASSUME RingInv, Signals, NEW th \in Threads, NEW q \in PCs, pc' = [pc EXCEPT ![th] = q],
         cnt' = cnt,
         cnt > 0 => pc[th] # "gtWoken" /\ q # "gtWait",
         Remain > 0 => pc[th] # "decWoken" /\ q # "decWait"
  PROVE  Signals'
  <1>1. cnt \in Nat /\ Remain \in Nat /\ Remain' = Remain /\ pc \in [Threads -> PCs]
    BY RingNumbers DEF Remain, RingInv, TypeOK, PCs
  <1>2. \A o \in PCs : Waiting(o)' = IF o = q THEN Waiting(o) \cup {th} ELSE Waiting(o) \ {th}
    BY <1>1, OneMoves
  <1>3. \A o \in PCs : /\ Waiting(o) \in SUBSET Threads
                       /\ IsFiniteSet(Waiting(o)) /\ Cardinality(Waiting(o)) \in Nat
                       /\ Cardinality(Waiting(o) \ {th}) \in Nat
                       /\ Cardinality(Waiting(o) \cup {th}) >= Cardinality(Waiting(o))
    <2> SUFFICES ASSUME NEW o \in PCs
                 PROVE  /\ Waiting(o) \in SUBSET Threads
                        /\ IsFiniteSet(Waiting(o)) /\ Cardinality(Waiting(o)) \in Nat
                        /\ Cardinality(Waiting(o) \ {th}) \in Nat
                        /\ Cardinality(Waiting(o) \cup {th}) >= Cardinality(Waiting(o))
      OBVIOUS
    <2>1. Waiting(o) \in SUBSET Threads
      BY DEF Waiting
    <2>2. CASE th \in Waiting(o)
      <3>1. Waiting(o) \cup {th} = Waiting(o)
        BY <2>2
      <3> QED BY <2>1, <3>1, WaitingFinite
    <2>3. CASE th \notin Waiting(o)
      BY <2>1, <2>3, WaitingFinite
    <2> QED BY <2>2, <2>3
  <1>4. Cardinality(Waiting("gtWoken")') \in Nat /\ Cardinality(Waiting("decWoken")') \in Nat
    <2>1. Waiting("gtWoken") \cup {th} \in SUBSET Threads
          /\ Waiting("decWoken") \cup {th} \in SUBSET Threads
      BY DEF Waiting
    <2>2. /\ Cardinality(Waiting("gtWoken") \cup {th}) \in Nat
          /\ Cardinality(Waiting("decWoken") \cup {th}) \in Nat
      BY <2>1, WaitingFinite
    <2> QED BY <1>2, <1>3, <2>2 DEF PCs
  <1>5. AddersSignalled'
    <2>1. CASE cnt = 0
      BY <1>1, <1>4, <2>1 DEF AddersSignalled
    <2>2. CASE cnt > 0
      <3>1. th \notin Waiting("gtWoken") /\ Waiting("gtWait")' \subseteq Waiting("gtWait")
        BY ONLY <1>2, <2>2, cnt > 0 => pc[th] # "gtWoken" /\ q # "gtWait" DEF Waiting, PCs
      <3>2. Cardinality(Waiting("gtWoken")') >= Cardinality(Waiting("gtWoken"))
        <4>1. Waiting("gtWoken") \ {th} = Waiting("gtWoken")
          BY <3>1
        <4>2. \/ Waiting("gtWoken")' = Waiting("gtWoken") \cup {th}
              \/ Waiting("gtWoken")' = Waiting("gtWoken") \ {th}
          BY ONLY <1>2 DEF PCs
        <4>3. /\ Cardinality(Waiting("gtWoken")) \in Nat
              /\ Cardinality(Waiting("gtWoken") \cup {th}) >= Cardinality(Waiting("gtWoken"))
          BY ONLY <1>3 DEF PCs
        <4> QED BY ONLY <4>1, <4>2, <4>3
      <3>3. Waiting("gtWait")' # {} => cnt <= Cardinality(Waiting("gtWoken"))
        BY <3>1 DEF Signals, AddersSignalled
      <3>4. Cardinality(Waiting("gtWoken")) \in Nat
        BY ONLY <1>3 DEF PCs
      <3> QED BY ONLY <1>1, cnt' = cnt, <1>4, <3>2, <3>3, <3>4 DEF AddersSignalled
    <2> QED BY <1>1, <2>1, <2>2
  <1>6. RemoversSignalled'
    <2>1. CASE Remain = 0
      BY <1>1, <1>4, <2>1 DEF RemoversSignalled
    <2>2. CASE Remain > 0
      <3>1. th \notin Waiting("decWoken") /\ Waiting("decWait")' \subseteq Waiting("decWait")
        BY ONLY <1>2, <2>2, Remain > 0 => pc[th] # "decWoken" /\ q # "decWait" DEF Waiting, PCs
      <3>2. Cardinality(Waiting("decWoken")') >= Cardinality(Waiting("decWoken"))
        <4>1. Waiting("decWoken") \ {th} = Waiting("decWoken")
          BY <3>1
        <4>2. \/ Waiting("decWoken")' = Waiting("decWoken") \cup {th}
              \/ Waiting("decWoken")' = Waiting("decWoken") \ {th}
          BY ONLY <1>2 DEF PCs
        <4>3. /\ Cardinality(Waiting("decWoken")) \in Nat
              /\ Cardinality(Waiting("decWoken") \cup {th}) >= Cardinality(Waiting("decWoken"))
          BY ONLY <1>3 DEF PCs
        <4> QED BY ONLY <4>1, <4>2, <4>3
      <3>3. Waiting("decWait")' # {} => Remain <= Cardinality(Waiting("decWoken"))
        BY <3>1 DEF Signals, RemoversSignalled
      <3>4. Cardinality(Waiting("decWoken")) \in Nat
        BY ONLY <1>3 DEF PCs
      <3> QED BY ONLY <1>1, <1>4, <3>2, <3>3, <3>4 DEF RemoversSignalled
    <2> QED BY <1>1, <2>1, <2>2
  <1> QED BY <1>5, <1>6 DEF Signals

LEMMA ThreadSignals ==
  ASSUME RingInv, Signals, NEW th \in Threads, ThreadStep(th)
  PROVE  Signals'
  <1> USE DEF PCs
  <1>1. cnt \in 0..Size /\ Remain = Size - cnt /\ Size \in Nat
    BY RingNumbers DEF Remain
  <1>2. CASE Add(th)
    <2>1. ASSUME NEW v \in Vals, ~Full, Place(th, v) PROVE Signals'
      BY <1>2, <2>1, PlaceSignals DEF Add
    <2>2. ASSUME NEW v \in Vals, Full, NEW t \in BOOLEAN, WaitAt(th, "gtWait", v, t)
          PROVE  Signals'
      <3>1. pc[th] = "idle" /\ pc' = [pc EXCEPT ![th] = "gtWait"] /\ cnt' = cnt /\ ~(cnt > 0)
        BY <1>1, <1>2, <2>2 DEF Add, WaitAt, ringVars, Full
      <3> QED BY ONLY <3>1, RingInv, Signals, th \in Threads, MoveSignals DEF PCs
    <2> QED BY <1>2, <2>1, <2>2 DEF Add
  <1>3. CASE AddResume(th)
    <2>1. CASE ~Full /\ Place(th, val[th])
      BY <1>3, <2>1, PlaceSignals DEF AddResume
    <2>2. CASE Full /\ WaitAt(th, "gtWait", val[th], th \in timed)
      <3>1. pc[th] = "gtWoken" /\ pc' = [pc EXCEPT ![th] = "gtWait"] /\ cnt' = cnt /\ ~(cnt > 0)
        BY <1>1, <1>3, <2>2 DEF AddResume, WaitAt, ringVars, Full
      <3> QED BY ONLY <3>1, RingInv, Signals, th \in Threads, MoveSignals DEF PCs
    <2> QED BY <1>3, <2>1, <2>2 DEF AddResume
  <1>4. CASE AddTimeout(th)
    BY <1>4, MoveSignals DEF AddTimeout, Return, ringVars
  <1>5. CASE AddIfRoom(th)
    BY <1>5, PlaceSignals DEF AddIfRoom
  <1>6. CASE Remove(th)
    BY <1>6, PullSignals DEF Remove
  <1>7. CASE RemoveOrBlock(th)
    <2>1. pc[th] = "idle" /\ pc' = [pc EXCEPT ![th] = "decWait"] /\ cnt' = cnt /\ ~(Remain > 0)
      BY <1>1, <1>7 DEF RemoveOrBlock, WaitAt, ringVars
    <2> QED BY ONLY <2>1, RingInv, Signals, th \in Threads, MoveSignals DEF PCs
  <1>8. CASE RemoveResume(th)
    <2>1. CASE cnt >= Size /\ Return(th)
      <3>1. /\ pc[th] = "decWoken" /\ pc' = [pc EXCEPT ![th] = "idle"] /\ cnt' = cnt
            /\ ~(Remain > 0)
        BY <1>1, <1>8, <2>1 DEF RemoveResume, Return, ringVars
      <3> QED BY ONLY <3>1, RingInv, Signals, th \in Threads, MoveSignals DEF PCs
    <2>2. CASE cnt < Size /\ Pull(th)
      BY <1>1, <1>8, <2>2, PullSignals DEF RemoveResume
    <2> QED BY <1>8, <2>1, <2>2 DEF RemoveResume
  <1>9. CASE SpuriousWakeup(th)
    <2>1. PICK q \in {"gtWoken", "decWoken"} : pc' = [pc EXCEPT ![th] = q]
      BY <1>9 DEF SpuriousWakeup, RingInv, TypeOK
    <2> QED BY <1>9, <2>1, MoveSignals DEF SpuriousWakeup, ringVars
  <1> QED BY <1>2, <1>3, <1>4, <1>5, <1>6, <1>7, <1>8, <1>9 DEF ThreadStep

LEMMA SignalsInvariant == Spec => []Signals
  <1>1. Init => Signals
    BY DEF Init, Signals, AddersSignalled, RemoversSignalled, Waiting
  <1>2. RingInv /\ Signals /\ [Next]_vars => Signals'
    <2> SUFFICES ASSUME RingInv, Signals, [Next]_vars PROVE Signals'
      OBVIOUS
    <2>1. CASE \E th \in Threads : ThreadStep(th)
      BY <2>1, ThreadSignals
    <2>2. CASE Reverse \/ Clear \/ Transfer
      <3>1. \A th \in Threads : pc'[th] = "idle"
        BY <2>2 DEF Reverse, Clear, Transfer, Owned
      <3>2. Waiting("gtWait")' = {} /\ Waiting("decWait")' = {}
        BY <3>1 DEF Waiting
      <3> QED BY <3>2 DEF Signals, AddersSignalled, RemoversSignalled
    <2>3. CASE UnblockAllRemovers
      <3>1. /\ cnt' = cnt /\ Waiting("decWait")' = {}
            /\ Waiting("gtWait")' = Waiting("gtWait") /\ Waiting("gtWoken")' = Waiting("gtWoken")
        BY <2>3 DEF UnblockAllRemovers, Waiting, ringVars, RingInv, TypeOK
      <3> QED BY <3>1 DEF Signals, AddersSignalled, RemoversSignalled
    <2>4. CASE UNCHANGED vars
      BY <2>4 DEF vars, ringVars, Signals, AddersSignalled, RemoversSignalled, Waiting, Remain
    <2> QED BY <2>1, <2>2, <2>3, <2>4 DEF Next
  <1> QED BY <1>1, <1>2, RingInvariant, PTL DEF Spec

\* While an add() sleeps, every free slot has a thread on its way to it: releaseWithoutLock()
\* signals for each slot it frees, and no timeout or spurious wakeup loses a signal.
THEOREM AddersAreSignalled == Spec => []AddersSignalled
  <1>1. Signals => AddersSignalled
    BY DEF Signals
  <1> QED BY <1>1, SignalsInvariant, PTL

\* The same for a removeOrBlock() that sleeps and the elements (acquireAndKeepLock).
THEOREM RemoversAreSignalled == Spec => []RemoversSignalled
  <1>1. Signals => RemoversSignalled
    BY DEF Signals
  <1> QED BY <1>1, SignalsInvariant, PTL
=============================================================================
