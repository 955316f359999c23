---------------------------- MODULE FiltersProofs ----------------------------
(***************************************************************************)
(* What holds of the filters for any keys, lists, messages and targets, with *)
(* the walk of the grease thread between any two stores of the V8 thread.    *)
(***************************************************************************)
EXTENDS Filters, FiniteSetTheorems, TLAPS

-----------------------------------------------------------------------------
(* The table and the call that changes it                                   *)

Lists ==
  /\ known \subseteq Keys
  /\ list \in [Keys -> [1..Slots -> Slot]] /\ bloom \in [Keys -> SUBSET Levels]
  /\ nextFilterId \in Nat \ {0}

Calling ==
  /\ v8 \in [key : Keys \cup {NoList}, n : 0..Slots, todo : SUBSET Fields, slot : Slot,
             locked : BOOLEAN, disable : BOOLEAN]
  /\ v8.todo # {} \/ v8.disable => v8.key \in Keys /\ v8.n \in 1..Slots
  /\ v8.locked => v8.todo # {}
  /\ ~v8.locked => v8.todo \subseteq {"disabled", "target"}

\* Storing one field of a filter gives a filter.
LEMMA SlotStore ==
  ASSUME NEW r \in Slot, NEW q \in Slot, NEW s \in Fields \ {"bloom"}
  PROVE  [r EXCEPT ![s] = q[s]] \in Slot
  <1>1. CASE s = "id"
    BY <1>1 DEF Slot
  <1>2. CASE s = "mask"
    BY <1>2 DEF Slot
  <1>3. CASE s = "target"
    BY <1>3 DEF Slot
  <1>4. CASE s = "disabled"
    BY <1>4 DEF Slot
  <1> QED BY <1>1, <1>2, <1>3, <1>4 DEF Fields

LEMMA SlotDisable ==
  ASSUME NEW r \in Slot, NEW d \in BOOLEAN
  PROVE  [r EXCEPT !.disabled = d] \in Slot
  BY DEF Slot

LEMMA SlotChange ==
  ASSUME NEW r \in Slot, NEW d \in BOOLEAN, NEW t \in Outputs
  PROVE  [r EXCEPT !.disabled = d, !.target = t] \in Slot
  <1> DEFINE q == [r EXCEPT !.disabled = d]
  <1>1. q \in Slot
    BY SlotDisable
  <1> HIDE DEF q
  <1>2. [q EXCEPT !.target = t] \in Slot
    BY <1>1 DEF Slot
  <1> QED BY <1>1, <1>2 DEF q

\* Storing a filter in a slot leaves a table.
LEMMA ListStore ==
  ASSUME NEW L \in [Keys -> [1..Slots -> Slot]], NEW k \in Keys, NEW n \in 1..Slots,
         NEW r \in Slot
  PROVE  [L EXCEPT ![k] = [L[k] EXCEPT ![n] = r]] \in [Keys -> [1..Slots -> Slot]]
  OBVIOUS

LEMMA IdleType ==
  /\ Idle \in [key : Keys \cup {NoList}, n : 0..Slots, todo : SUBSET Fields, slot : Slot,
               locked : BOOLEAN, disable : BOOLEAN]
  /\ Idle.todo = {} /\ Idle.disable = FALSE /\ Idle.locked = FALSE /\ EmptySlot \in Slot
  <1>1. EmptySlot \in Slot
    BY DEF EmptySlot, Slot, Outputs
  <1> QED BY <1>1, FiltersAssumption DEF Idle

LEMMA ListsInit == Init => Lists /\ Calling
  BY FiltersAssumption, IdleType DEF Init, Lists, Calling

LEMMA ListsNext == Lists /\ Calling /\ [Next]_vars => (Lists /\ Calling)'
  <1> SUFFICES ASSUME Lists, Calling, [Next]_vars PROVE (Lists /\ Calling)'
    OBVIOUS
  <1> USE FiltersAssumption, IdleType DEF v8Vars, tableVars
  <1>1. ASSUME NEW a \in AddArgs, AddFilter(a) PROVE (Lists /\ Calling)'
    <2>1. Lists'
      BY <1>1 DEF AddFilter, AddToList, Lists, Keys
    <2>2. CASE UNCHANGED v8
      BY <2>1, <2>2 DEF Calling
    <2>3. ASSUME NEW n \in 1..Slots,
                 v8' = [key |-> a.key, n |-> n, todo |-> {"bloom", "id", "mask", "target"},
                        slot |-> [id |-> nextFilterId, mask |-> a.mask,
                                  target |-> a.target, disabled |-> FALSE],
                        locked |-> TRUE, disable |-> a.disable]
          PROVE  Calling'
      <3>1. [id |-> nextFilterId, mask |-> a.mask, target |-> a.target,
             disabled |-> FALSE] \in Slot
        BY DEF Slot, Lists
      <3>2. a.key \in Keys
        BY DEF Keys
      <3> QED BY <2>3, <3>1, <3>2 DEF Calling, Fields
    <2> QED BY <1>1, <2>1, <2>2, <2>3 DEF AddFilter, AddToList
  <1>2. ASSUME NEW k \in Keys, NEW n \in 1..Slots, NEW d \in BOOLEAN, NEW t \in Outputs,
              ModifyFilter(k, n, [list[k][n] EXCEPT !.disabled = d, !.target = t])
       PROVE (Lists /\ Calling)'
    <2> DEFINE slot == [list[k][n] EXCEPT !.disabled = d, !.target = t]
    <2>1. slot \in Slot
      <3>1. list[k][n] \in Slot
        BY DEF Lists
      <3> QED BY <3>1, SlotChange, Zenon
    <2>2. v8' = [key |-> k, n |-> n, slot |-> slot, locked |-> FALSE, disable |-> FALSE,
                 todo |-> {f \in {"disabled", "target"} : slot[f] # list[k][n][f]}]
      BY <1>2 DEF ModifyFilter
    <2> HIDE DEF slot
    <2>3. Calling'
      BY <2>1, <2>2 DEF Calling, Fields
    <2> QED BY <1>2, <2>3 DEF ModifyFilter, Lists
  <1>3. CASE Store
    <2>1. PICK s \in v8.todo :
            /\ IF s = "bloom"
               THEN bloom' = BloomAfter(v8.key, v8.slot.mask) /\ UNCHANGED list
               ELSE /\ list' = [list EXCEPT ![v8.key][v8.n][s] = v8.slot[s]]
                    /\ UNCHANGED bloom
            /\ v8' = IF v8.todo \ {s} = {} /\ ~v8.disable THEN Idle
                     ELSE [v8 EXCEPT !.todo = v8.todo \ {s}, !.locked = StillLocked(v8.todo \ {s})]
      BY <1>3 DEF Store
    <2>2. v8.key \in Keys /\ v8.n \in 1..Slots /\ s \in Fields /\ v8.slot \in Slot
      BY DEF Calling
    <2>5. list[v8.key][v8.n] \in Slot
      BY <2>2 DEF Lists
    <2>3. Lists'
      <3>1. list' \in [Keys -> [1..Slots -> Slot]]
        <4>1. CASE s = "bloom"
          BY <2>1, <4>1 DEF Lists
        <4>2. CASE s # "bloom"
          <5> DEFINE r == [list[v8.key][v8.n] EXCEPT ![s] = v8.slot[s]]
          <5>1. r \in Slot
            BY <2>2, <2>5, <4>2, SlotStore
          <5>2. list' = [list EXCEPT ![v8.key] = [list[v8.key] EXCEPT ![v8.n] = r]]
            BY <2>1, <4>2
          <5> HIDE DEF r
          <5> QED BY <5>1, <5>2, <2>2, ListStore DEF Lists
        <4> QED BY <4>1, <4>2
      <3>2. v8.slot.mask \subseteq Levels
        BY DEF Calling, Slot
      <3>3. bloom' \in [Keys -> SUBSET Levels]
        <4>1. bloom' = bloom \/ bloom' = [bloom EXCEPT ![v8.key] = @ \cup v8.slot.mask]
          BY <2>1 DEF BloomAfter
        <4>2. bloom \in [Keys -> SUBSET Levels]
          BY DEF Lists
        <4> QED BY ONLY <3>2, <4>1, <4>2
      <3> QED BY <1>3, <3>1, <3>3 DEF Store, Lists
    <2>4. Calling'
      BY <2>1 DEF Calling, StillLocked
    <2> QED BY <2>3, <2>4
  <1>4. CASE DisableAdded
    <2> DEFINE r == [list[v8.key][v8.n] EXCEPT !.disabled = TRUE]
    <2>3. v8.key \in Keys /\ v8.n \in 1..Slots
      BY <1>4 DEF DisableAdded, Calling
    <2>1. r \in Slot
      <3>1. list[v8.key][v8.n] \in Slot
        BY <2>3 DEF Lists
      <3> QED BY <3>1, SlotDisable
    <2>4. list' = [list EXCEPT ![v8.key] = [list[v8.key] EXCEPT ![v8.n] = r]]
      BY <1>4 DEF DisableAdded
    <2> HIDE DEF r
    <2>2. Lists'
      <3>1. list' \in [Keys -> [1..Slots -> Slot]]
        BY <2>1, <2>3, <2>4, ListStore DEF Lists
      <3>2. UNCHANGED <<known, bloom, nextFilterId>>
        BY <1>4 DEF DisableAdded
      <3> QED BY <3>1, <3>2 DEF Lists
    <2> QED BY <1>4, <2>2 DEF DisableAdded, Calling
  <1>5. CASE SetGlobalOpts
    BY <1>5 DEF SetGlobalOpts, Lists, Calling
  <1>6. ASSUME NEW t \in Targets, TargetReady(t) PROVE (Lists /\ Calling)'
    BY <1>6 DEF TargetReady, Lists, Calling
  <1>7. ASSUME NEW m \in Msgs, Sift(m) PROVE (Lists /\ Calling)'
    BY <1>7 DEF Sift, Lists, Calling
  <1>8. ASSUME NEW m \in Msgs, Enqueue(m) PROVE (Lists /\ Calling)'
    BY <1>8 DEF Enqueue, Lists, Calling
  <1>9. CASE WalkStart
    BY <1>9 DEF WalkStart, Lists, Calling
  <1>10. CASE WalkSlot
    BY <1>10 DEF WalkSlot, Lists, Calling
  <1>11. CASE WalkPastEnd
    BY <1>11 DEF WalkPastEnd, Lists, Calling
  <1>12. CASE WalkIgnore
    BY <1>12 DEF WalkIgnore, Lists, Calling
  <1>13. CASE WalkTarget
    BY <1>13 DEF WalkTarget, Lists, Calling
  <1>14. CASE WalkFind
    BY <1>14 DEF WalkFind, Lists, Calling
  <1>15. CASE UNCHANGED vars
    BY <1>15 DEF vars, Lists, Calling
  <1> QED BY <1>1, <1>2, <1>3, <1>4, <1>5, <1>6, <1>7, <1>8, <1>9, <1>10, <1>11,
      <1>12, <1>13, <1>14, <1>15
    DEF Next, V8Step, GreaseStep
-----------------------------------------------------------------------------
(* What the reader without the lock relies on                               *)

\* The id of the filter that addFilter() is storing is new, and its slot the first free one;
\* as long as the lock is held, what is stored of it is what it will be.
Adding ==
  /\ \A k \in Keys, n \in 1..Slots : list[k][n].id < nextFilterId
  /\ "id" \in v8.todo =>
       /\ v8.slot.id \in 1..(nextFilterId - 1) /\ list[v8.key][v8.n].id = 0
       /\ \A n \in 1..(v8.n - 1) : list[v8.key][n].id # 0
       /\ \A k \in Keys, n \in 1..Slots : list[k][n].id # v8.slot.id
  /\ v8.locked => /\ "bloom" \notin v8.todo => v8.slot.mask \subseteq bloom[v8.key]
                  /\ "mask" \notin v8.todo => list[v8.key][v8.n].mask = v8.slot.mask

LEMMA AddingInit == Init => Adding /\ ListsSound
  BY FiltersAssumption, IdleType DEF Init, Adding, ListsSound, EmptySlot

\* A step that stores nothing.
LEMMA AddingQuiet ==
  ASSUME Adding, ListsSound, UNCHANGED <<list, bloom, nextFilterId, v8>>
  PROVE  (Adding /\ ListsSound)'
  BY DEF Adding, ListsSound

LEMMA AddingNext == Lists /\ Calling /\ Adding /\ ListsSound /\ [Next]_vars
                      => (Adding /\ ListsSound)'
  <1> SUFFICES ASSUME Lists, Calling, Adding, ListsSound, [Next]_vars
               PROVE  (Adding /\ ListsSound)'
    OBVIOUS
  <1>1. ASSUME NEW a \in AddArgs, AddFilter(a) PROVE (Adding /\ ListsSound)'
    <2>1. v8 = Idle /\ UNCHANGED <<list, bloom>> /\ nextFilterId' = nextFilterId + 1
      BY <1>1 DEF AddFilter, AddToList, Calls, V8Idle
    <2>2. CASE UNCHANGED v8
      <3>1. \A k \in Keys, i \in 1..Slots : list[k][i].id \in Nat
        BY DEF Lists, Slot
      <3>2. Adding'
        BY <2>1, <2>2, <3>1, IdleType DEF Lists, Adding
      <3> QED BY <2>1, <2>2, <3>2 DEF ListsSound
    <2>3. ASSUME NEW n \in 1..Slots, FirstFree(a.key, n),
                 v8' = [key |-> a.key, n |-> n, todo |-> {"bloom", "id", "mask", "target"},
                        slot |-> [id |-> nextFilterId, mask |-> a.mask,
                                  target |-> a.target, disabled |-> FALSE],
                        locked |-> TRUE, disable |-> a.disable]
          PROVE  (Adding /\ ListsSound)'
      <3>1. a.key \in Keys
        BY DEF Keys
      <3>2. \A k \in Keys, i \in 1..Slots : list[k][i].id \in Nat
        BY DEF Lists, Slot
      <3>3. list[a.key][n].id = 0 /\ \A i \in 1..(n - 1) : list[a.key][i].id # 0
        BY <2>3, FiltersAssumption DEF FirstFree, FreeSlots
      <3>4. Adding'
        BY <2>1, <2>3, <3>1, <3>2, <3>3 DEF Adding, Lists
      <3>5. \A k \in Keys, i \in 1..Slots : list[k][i].mask \subseteq bloom[k]
        BY <2>1, IdleType DEF ListsSound
      <3> QED BY <2>1, <3>4, <3>5 DEF ListsSound
    <2> QED BY <1>1, <2>2, <2>3 DEF AddFilter, AddToList
  <1>2. ASSUME NEW k \in Keys, NEW n \in 1..Slots, NEW d \in BOOLEAN, NEW t \in Outputs,
              ModifyFilter(k, n, [list[k][n] EXCEPT !.disabled = d, !.target = t])
       PROVE (Adding /\ ListsSound)'
    <2>1. v8 = Idle /\ UNCHANGED <<list, bloom, nextFilterId>>
      BY <1>2 DEF ModifyFilter, Calls, V8Idle, tableVars
    <2>2. v8'.locked = FALSE /\ "id" \notin v8'.todo
      BY <1>2 DEF ModifyFilter
    <2> QED BY <2>1, <2>2, IdleType DEF Adding, ListsSound
  <1>3. CASE Store
    <2> DEFINE K == v8.key
               N == v8.n
    <2>1. PICK s \in v8.todo :
            /\ IF s = "bloom"
               THEN bloom' = BloomAfter(v8.key, v8.slot.mask) /\ UNCHANGED list
               ELSE /\ list' = [list EXCEPT ![v8.key][v8.n][s] = v8.slot[s]]
                    /\ UNCHANGED bloom
            /\ v8' = IF v8.todo \ {s} = {} /\ ~v8.disable THEN Idle
                     ELSE [v8 EXCEPT !.todo = v8.todo \ {s}, !.locked = StillLocked(v8.todo \ {s})]
      BY <1>3 DEF Store
    <2>2. K \in Keys /\ N \in 1..Slots /\ s \in Fields /\ v8.slot \in Slot
      BY DEF Calling
    <2>3. \/ v8' = Idle /\ v8.todo \ {s} = {}
          \/ /\ v8'.todo = v8.todo \ {s} /\ v8'.locked = (v8.locked /\ v8.todo \ {s} # {})
             /\ v8'.slot = v8.slot /\ v8'.key = K /\ v8'.n = N
      BY <2>1 DEF Calling, StillLocked
    <2>4. s = "bloom" => /\ UNCHANGED list
                         /\ bloom' = [bloom EXCEPT ![K] = @ \cup v8.slot.mask]
      BY <2>1 DEF BloomAfter
    <2>5. s # "bloom" =>
            /\ UNCHANGED bloom
            /\ \A k \in Keys, n \in 1..Slots :
                 /\ list'[k][n].id = IF k = K /\ n = N /\ s = "id" THEN v8.slot.id
                                     ELSE list[k][n].id
                 /\ list'[k][n].mask = IF k = K /\ n = N /\ s = "mask" THEN v8.slot.mask
                                       ELSE list[k][n].mask
      <3>1. list[K][N] \in Slot
        BY <2>2 DEF Lists
      <3>2. ASSUME s # "bloom"
            PROVE  LET r == [list[K][N] EXCEPT ![s] = v8.slot[s]]
                   IN /\ r.id = IF s = "id" THEN v8.slot.id ELSE list[K][N].id
                      /\ r.mask = IF s = "mask" THEN v8.slot.mask ELSE list[K][N].mask
        <4>1. CASE s = "id"
          BY <4>1, <3>1 DEF Slot
        <4>2. CASE s = "mask"
          BY <4>2, <3>1 DEF Slot
        <4>3. CASE s = "target"
          BY <4>3, <3>1 DEF Slot
        <4>4. CASE s = "disabled"
          BY <4>4, <3>1 DEF Slot
        <4> QED BY <2>2, <3>2, <4>1, <4>2, <4>3, <4>4 DEF Fields
      <3> SUFFICES ASSUME s # "bloom"
                   PROVE  /\ UNCHANGED bloom
                          /\ \A k \in Keys, n \in 1..Slots :
                               /\ list'[k][n].id =
                                    IF k = K /\ n = N /\ s = "id" THEN v8.slot.id
                                                              ELSE list[k][n].id
                               /\ list'[k][n].mask =
                                    IF k = K /\ n = N /\ s = "mask" THEN v8.slot.mask
                                                                ELSE list[k][n].mask
        OBVIOUS
      <3> DEFINE r == [list[K][N] EXCEPT ![s] = v8.slot[s]]
      <3>3. list' = [list EXCEPT ![K] = [list[K] EXCEPT ![N] = r]] /\ UNCHANGED bloom
        BY <2>1
      <3>4. /\ r.id = IF s = "id" THEN v8.slot.id ELSE list[K][N].id
            /\ r.mask = IF s = "mask" THEN v8.slot.mask ELSE list[K][N].mask
        BY <3>2
      <3> HIDE DEF r
      <3> QED BY <2>2, <3>3, <3>4 DEF Lists
    <2>6. UNCHANGED nextFilterId
      BY <1>3 DEF Store
    <2>7. \A k \in Keys, n \in 1..Slots : list[k][n].id \in Nat
      BY DEF Lists, Slot
    <2>8. v8.locked \/ s \in {"disabled", "target"}
      BY DEF Calling
    <2> HIDE DEF K, N
    <2>9. Adding'
      <3>1. \A k \in Keys, n \in 1..Slots : list'[k][n].id < nextFilterId'
        BY <2>2, <2>4, <2>5, <2>6, <2>7 DEF Adding, Lists
      <3>2. ASSUME "id" \in v8'.todo
            PROVE  /\ v8'.slot.id \in 1..(nextFilterId' - 1) /\ list'[v8'.key][v8'.n].id = 0
                   /\ \A n \in 1..(v8'.n - 1) : list'[v8'.key][n].id # 0
                   /\ \A k \in Keys, n \in 1..Slots : list'[k][n].id # v8'.slot.id
        <4>1. s # "id" /\ "id" \in v8.todo /\ v8'.slot = v8.slot /\ v8'.key = K /\ v8'.n = N
          BY <2>3, <3>2, IdleType
        <4>2. \A k \in Keys, n \in 1..Slots : list'[k][n].id = list[k][n].id
          BY <4>1, <2>4, <2>5
        <4>3. v8.slot.id \in 1..(nextFilterId' - 1) /\ list[K][N].id = 0
          BY <2>6, <4>1 DEF Adding, K, N
        <4>4. \A n \in 1..(N - 1) : n \in 1..Slots /\ list[K][n].id # 0
          BY <2>2, <4>1, FiltersAssumption DEF Adding, K, N
        <4>5. \A k \in Keys, n \in 1..Slots : list[k][n].id # v8.slot.id
          BY <4>1 DEF Adding
        <4> QED BY <2>2, <4>1, <4>2, <4>3, <4>4, <4>5
      <3>3. ASSUME v8'.locked
            PROVE  /\ "bloom" \notin v8'.todo => v8'.slot.mask \subseteq bloom'[v8'.key]
                   /\ "mask" \notin v8'.todo => list'[v8'.key][v8'.n].mask = v8'.slot.mask
        <4>1. v8.locked /\ v8'.todo = v8.todo \ {s} /\ v8'.slot = v8.slot
              /\ v8'.key = K /\ v8'.n = N
          BY <2>3, <3>3, IdleType
        <4>2. "bloom" \notin v8'.todo => v8.slot.mask \subseteq bloom'[K]
          BY <4>1, <2>2, <2>4, <2>5 DEF Adding, Lists, K
        <4>3. "mask" \notin v8'.todo => list'[K][N].mask = v8.slot.mask
          BY <4>1, <2>2, <2>4, <2>5 DEF Adding, K, N
        <4> QED BY <4>1, <4>2, <4>3
      <3> QED BY <3>1, <3>2, <3>3 DEF Adding
    <2>10. ListsSound'
      <3>1. ASSUME NEW k \in Keys, NEW n \in 2..Slots, list'[k][n].id # 0
            PROVE  list'[k][n - 1].id # 0
        <4>1. n \in 1..Slots /\ n - 1 \in 1..Slots
          BY FiltersAssumption
        <4>2. CASE s = "id" /\ k = K /\ n = N
          BY <4>1, <4>2, <2>2, <2>5 DEF Adding, K, N
        <4>3. CASE ~(s = "id" /\ k = K /\ n = N)
          <5>1. list[k][n - 1].id # 0
            BY <3>1, <4>1, <4>3, <2>4, <2>5 DEF ListsSound
          <5>2. s = "id" => v8.slot.id # 0
            BY DEF Adding, Lists
          <5> QED BY <4>1, <5>1, <5>2, <2>4, <2>5
        <4> QED BY <4>2, <4>3
      <3>2. ASSUME NEW k \in Keys, NEW l \in Keys, NEW n \in 1..Slots, NEW i \in 1..Slots,
                   list'[k][n].id # 0, list'[k][n].id = list'[l][i].id
            PROVE  k = l /\ n = i
        <4>1. CASE s = "id"
          BY <3>2, <4>1, <2>5 DEF Adding, ListsSound
        <4>2. CASE s # "id"
          BY <3>2, <4>2, <2>4, <2>5 DEF ListsSound
        <4> QED BY <4>1, <4>2
      <3>3. ASSUME NEW k \in Keys, NEW n \in 1..Slots,
                   ~(v8'.locked /\ v8'.key = k /\ v8'.n = n)
            PROVE  list'[k][n].mask \subseteq bloom'[k]
        <4>1. bloom[k] \subseteq bloom'[k]
          BY <2>4, <2>5 DEF Lists
        <4>2. CASE ~(v8.locked /\ K = k /\ N = n)
          <5>1. list[k][n].mask \subseteq bloom[k]
            BY <4>2 DEF ListsSound, K, N
          <5>2. s = "mask" => v8.locked
            BY <2>8
          <5> QED BY <4>1, <4>2, <5>1, <5>2, <2>4, <2>5
        <4>3. CASE v8.locked /\ K = k /\ N = n
          <5>1. v8.todo \ {s} = {}
            BY <3>3, <4>3, <2>3
          <5>2. v8.slot.mask \subseteq bloom'[K] /\ list'[K][N].mask = v8.slot.mask
            BY <4>3, <5>1, <2>2, <2>4, <2>5 DEF Adding, Lists, K, N
          <5> QED BY <4>3, <5>2
        <4> QED BY <4>2, <4>3
      <3> QED BY <3>1, <3>2, <3>3 DEF ListsSound
    <2> QED BY <2>9, <2>10
  <1>4. CASE DisableAdded
    <2>1. v8' = Idle /\ UNCHANGED <<bloom, nextFilterId>> /\ v8.locked = FALSE
      BY <1>4 DEF DisableAdded, Calling
    <2>2. \A k \in Keys, n \in 1..Slots : /\ list'[k][n].id = list[k][n].id
                                          /\ list'[k][n].mask = list[k][n].mask
      <3>1. v8.key \in Keys /\ v8.n \in 1..Slots
        BY <1>4 DEF DisableAdded, Calling
      <3>2. list' = [list EXCEPT ![v8.key][v8.n].disabled = TRUE]
        BY <1>4 DEF DisableAdded
      <3>3. list[v8.key][v8.n] \in Slot
        BY <3>1 DEF Lists
      <3>4. /\ [list[v8.key][v8.n] EXCEPT !.disabled = TRUE].id = list[v8.key][v8.n].id
            /\ [list[v8.key][v8.n] EXCEPT !.disabled = TRUE].mask = list[v8.key][v8.n].mask
        BY <3>3 DEF Slot
      <3> DEFINE r == [list[v8.key][v8.n] EXCEPT !.disabled = TRUE]
      <3>5. list' = [list EXCEPT ![v8.key] = [list[v8.key] EXCEPT ![v8.n] = r]]
        BY <3>2
      <3>6. r.id = list[v8.key][v8.n].id /\ r.mask = list[v8.key][v8.n].mask
        BY <3>4
      <3> HIDE DEF r
      <3> QED BY <3>1, <3>5, <3>6 DEF Lists
    <2>3. Adding'
      BY <2>1, <2>2, IdleType DEF Adding
    <2>4. \A k \in Keys, n \in 1..Slots : list'[k][n].mask \subseteq bloom'[k]
      BY <2>1, <2>2 DEF ListsSound
    <2>5. \A k \in Keys, n \in 2..Slots : n \in 1..Slots /\ n - 1 \in 1..Slots
      BY FiltersAssumption
    <2>6. /\ \A k \in Keys, n \in 2..Slots : list'[k][n].id # 0 => list'[k][n - 1].id # 0
          /\ \A k, l \in Keys, n, i \in 1..Slots :
               list'[k][n].id # 0 /\ list'[k][n].id = list'[l][i].id => k = l /\ n = i
      BY <2>2, <2>5 DEF ListsSound
    <2> QED BY <2>3, <2>4, <2>6 DEF ListsSound
  <1>5. CASE SetGlobalOpts
    BY <1>5, AddingQuiet DEF SetGlobalOpts, v8Vars, tableVars
  <1>6. ASSUME NEW t \in Targets, TargetReady(t) PROVE (Adding /\ ListsSound)'
    BY <1>6, AddingQuiet DEF TargetReady, v8Vars, tableVars
  <1>7. ASSUME NEW m \in Msgs, Sift(m) PROVE (Adding /\ ListsSound)'
    BY <1>7, AddingQuiet DEF Sift, v8Vars, tableVars
  <1>8. ASSUME NEW m \in Msgs, Enqueue(m) PROVE (Adding /\ ListsSound)'
    BY <1>8, AddingQuiet DEF Enqueue, v8Vars, tableVars
  <1>9. CASE WalkStart
    BY <1>9, AddingQuiet DEF WalkStart, v8Vars, tableVars
  <1>10. CASE WalkSlot
    BY <1>10, AddingQuiet DEF WalkSlot, v8Vars, tableVars
  <1>11. CASE WalkPastEnd
    BY <1>11, AddingQuiet DEF WalkPastEnd, v8Vars, tableVars
  <1>12. CASE WalkIgnore
    BY <1>12, AddingQuiet DEF WalkIgnore, v8Vars, tableVars
  <1>13. CASE WalkTarget
    BY <1>13, AddingQuiet DEF WalkTarget, v8Vars, tableVars
  <1>14. CASE WalkFind
    BY <1>14, AddingQuiet DEF WalkFind, v8Vars, tableVars
  <1>15. CASE UNCHANGED vars
    BY <1>15, AddingQuiet DEF vars, v8Vars, tableVars
  <1> QED BY <1>1, <1>2, <1>3, <1>4, <1>5, <1>6, <1>7, <1>8, <1>9, <1>10, <1>11,
      <1>12, <1>13, <1>14, <1>15
    DEF Next, V8Step, GreaseStep
-----------------------------------------------------------------------------
(* Which keys have a filter                                                 *)

\* A store changes one slot's id, or none.
LEMMA StoreIds ==
  ASSUME Lists, Calling, Store
  PROVE  \E s \in v8.todo :
           /\ \A k \in Keys, n \in 1..Slots :
                list'[k][n].id = IF s = "id" /\ k = v8.key /\ n = v8.n THEN v8.slot.id
                                 ELSE list[k][n].id
           /\ \/ v8' = Idle /\ v8.todo \ {s} = {}
              \/ /\ v8'.todo = v8.todo \ {s} /\ v8'.key = v8.key /\ v8'.n = v8.n
                 /\ v8'.disable = v8.disable
                 /\ v8.todo \ {s} # {} => v8'.locked = v8.locked
  <1>1. PICK s \in v8.todo :
          /\ IF s = "bloom" THEN UNCHANGED list
             ELSE list' = [list EXCEPT ![v8.key][v8.n][s] = v8.slot[s]]
          /\ v8' = IF v8.todo \ {s} = {} /\ ~v8.disable THEN Idle
                   ELSE [v8 EXCEPT !.todo = v8.todo \ {s}, !.locked = StillLocked(v8.todo \ {s})]
    BY DEF Store
  <1>2. v8.key \in Keys /\ v8.n \in 1..Slots /\ s \in Fields /\ v8.slot \in Slot
    BY DEF Calling
  <1>3. ASSUME NEW k \in Keys, NEW n \in 1..Slots
        PROVE  list'[k][n].id = IF s = "id" /\ k = v8.key /\ n = v8.n THEN v8.slot.id
                                ELSE list[k][n].id
    <2>1. CASE s = "bloom"
      BY <1>1, <2>1
    <2>2. CASE s # "bloom"
      <3> DEFINE r == [list[v8.key][v8.n] EXCEPT ![s] = v8.slot[s]]
      <3>1. list[v8.key][v8.n] \in Slot
        BY <1>2 DEF Lists
      <3>2. r.id = IF s = "id" THEN v8.slot.id ELSE list[v8.key][v8.n].id
        BY <1>2, <2>2, <3>1 DEF Slot
      <3>3. list' = [list EXCEPT ![v8.key] = [list[v8.key] EXCEPT ![v8.n] = r]]
        BY <1>1, <2>2
      <3> HIDE DEF r
      <3> QED BY <1>2, <3>2, <3>3 DEF Lists
    <2> QED BY <2>1, <2>2
  <1>4. \/ v8' = Idle /\ v8.todo \ {s} = {}
        \/ /\ v8'.todo = v8.todo \ {s} /\ v8'.key = v8.key /\ v8'.n = v8.n
           /\ v8'.disable = v8.disable
           /\ v8.todo \ {s} # {} => v8'.locked = v8.locked
    BY <1>1 DEF Calling, StillLocked
  <1> QED BY <1>3, <1>4

\* DisableAdded() changes no id.
LEMMA DisableIds ==
  ASSUME Lists, Calling, DisableAdded
  PROVE  \A k \in Keys, n \in 1..Slots : list'[k][n].id = list[k][n].id
  <1>1. /\ v8.key \in Keys /\ v8.n \in 1..Slots
        /\ list' = [list EXCEPT ![v8.key][v8.n].disabled = TRUE]
    BY DEF DisableAdded, Calling
  <1> DEFINE r == [list[v8.key][v8.n] EXCEPT !.disabled = TRUE]
  <1>2. r.id = list[v8.key][v8.n].id
    BY <1>1 DEF Lists, Slot
  <1>3. list' = [list EXCEPT ![v8.key] = [list[v8.key] EXCEPT ![v8.n] = r]]
    BY <1>1
  <1> HIDE DEF r
  <1> QED BY <1>1, <1>2, <1>3 DEF Lists

\* A list in the table has a filter, but for one that addFilter() has just put there, and
\* holds the lock until the filter is in it.
Filled ==
  /\ \A k \in Keys, n \in 1..Slots : list[k][n].id # 0 => k \in known
  /\ v8.todo # {} \/ v8.disable => v8.key \in known
  /\ \A k \in known : \/ list[k][1].id # 0
                      \/ v8.locked /\ v8.key = k /\ v8.n = 1 /\ "id" \in v8.todo

LEMMA FilledInit == Init => Filled
  BY IdleType DEF Init, Filled, EmptySlot

LEMMA FilledNext == Lists /\ Calling /\ Adding /\ Filled /\ [Next]_vars => Filled'
  <1> SUFFICES ASSUME Lists, Calling, Adding, Filled, [Next]_vars PROVE Filled'
    OBVIOUS
  <1>0. known \subseteq Keys /\ 1 \in 1..Slots
    BY FiltersAssumption DEF Lists
  <1>1. ASSUME NEW a \in AddArgs, AddFilter(a) PROVE Filled'
    <2>1. v8 = Idle /\ UNCHANGED list /\ known' = known \cup {a.key} /\ a.key \in Keys
      BY <1>1 DEF AddFilter, AddToList, Calls, V8Idle, Keys
    <2>2. \A k \in known : list[k][1].id # 0
      BY <2>1, IdleType DEF Filled
    <2>3. CASE FreeSlots(a.key) = {} /\ UNCHANGED v8
      <3>1. list[a.key][1].id # 0
        BY <1>0, <2>3 DEF FreeSlots
      <3> QED BY <2>1, <2>2, <2>3, <3>1, IdleType DEF Filled
    <2>4. ASSUME NEW n \in 1..Slots, FirstFree(a.key, n),
                 v8' = [key |-> a.key, n |-> n, todo |-> {"bloom", "id", "mask", "target"},
                        slot |-> [id |-> nextFilterId, mask |-> a.mask,
                                  target |-> a.target, disabled |-> FALSE],
                        locked |-> TRUE, disable |-> a.disable]
          PROVE  Filled'
      <3>1. n = 1 \/ list[a.key][1].id # 0
        BY <1>0, <2>4, FiltersAssumption DEF FirstFree, FreeSlots
      <3> QED BY <2>1, <2>2, <2>4, <3>1 DEF Filled
    <2> QED BY <1>1, <2>3, <2>4 DEF AddFilter, AddToList
  <1>2. ASSUME NEW k \in Keys, NEW n \in 1..Slots, NEW d \in BOOLEAN, NEW t \in Outputs,
              ModifyFilter(k, n, [list[k][n] EXCEPT !.disabled = d, !.target = t])
       PROVE Filled'
    <2>1. v8 = Idle /\ UNCHANGED <<list, known>> /\ k \in known /\ v8'.key = k
      BY <1>2 DEF ModifyFilter, Found, Calls, V8Idle, tableVars
    <2> QED BY <2>1, IdleType DEF Filled
  <1>3. CASE Store
    <2>1. PICK s \in v8.todo :
            /\ \A k \in Keys, n \in 1..Slots :
                 list'[k][n].id = IF s = "id" /\ k = v8.key /\ n = v8.n THEN v8.slot.id
                                  ELSE list[k][n].id
            /\ \/ v8' = Idle /\ v8.todo \ {s} = {}
               \/ /\ v8'.todo = v8.todo \ {s} /\ v8'.key = v8.key /\ v8'.n = v8.n
                  /\ v8'.disable = v8.disable
                  /\ v8.todo \ {s} # {} => v8'.locked = v8.locked
      BY <1>3, StoreIds
    <2>2. v8.key \in known /\ UNCHANGED known
      BY <1>3 DEF Store, Filled
    <2>3. s = "id" => v8.slot.id # 0
      BY <2>1 DEF Adding, Lists
    <2>4. ASSUME NEW k \in known
          PROVE  \/ list'[k][1].id # 0
                 \/ v8'.locked /\ v8'.key = k /\ v8'.n = 1 /\ "id" \in v8'.todo
      <3>1. CASE list[k][1].id # 0
        BY <1>0, <2>1, <2>3, <3>1
      <3>2. CASE v8.locked /\ v8.key = k /\ v8.n = 1 /\ "id" \in v8.todo
        BY <1>0, <2>1, <2>3, <3>2
      <3> QED BY <3>1, <3>2 DEF Filled
    <2>5. \A k \in Keys, n \in 1..Slots : list'[k][n].id # 0 => k \in known
      BY <2>1, <2>2 DEF Filled
    <2>6. v8'.todo # {} \/ v8'.disable => v8'.key \in known
      BY <2>1, <2>2, IdleType
    <2> QED BY <2>2, <2>4, <2>5, <2>6 DEF Filled
  <1>4. CASE DisableAdded
    <2>1. v8' = Idle /\ UNCHANGED known /\ "id" \notin v8.todo
      BY <1>4 DEF DisableAdded
    <2>2. \A k \in Keys, n \in 1..Slots : list'[k][n].id = list[k][n].id
      BY <1>4, DisableIds
    <2> QED BY <1>0, <2>1, <2>2, IdleType DEF Filled
  <1>5. CASE UNCHANGED <<known, list, v8>>
    BY <1>5 DEF Filled
  <1>6. \/ UNCHANGED <<known, list, v8>> \/ Store \/ DisableAdded
        \/ \E a \in AddArgs : AddFilter(a)
        \/ \E k \in Keys, n \in 1..Slots, d \in BOOLEAN, t \in Outputs :
              ModifyFilter(k, n, [list[k][n] EXCEPT !.disabled = d, !.target = t])
    BY DEF Next, V8Step, GreaseStep, SetGlobalOpts, TargetReady, Sift, Enqueue, WalkStart,
       WalkSlot, WalkPastEnd, WalkIgnore, WalkTarget, WalkFind, v8Vars, tableVars, vars
  <1> QED BY <1>1, <1>2, <1>3, <1>4, <1>5, <1>6

-----------------------------------------------------------------------------
(* The messages and the walk                                                *)

WalkRecord == [m : Msgs \cup {NoList}, pc : {"none", "slot", "ignore", "target", "find"},
               n : 0..(Slots + 1), wrote : BOOLEAN, ignore : BOOLEAN, quiet : BOOLEAN]

Messages ==
  /\ levelFilterOutMask \subseteq Levels /\ defaultFilterOut \in BOOLEAN
  /\ ready \subseteq Targets
  /\ st \in [Msgs -> {"new", "out", "sifted", "queued", "dropped", "done", "astray"}]
  /\ cached \in [Msgs -> Keys \cup {NoList}]
  /\ written \in [Msgs -> [Outputs -> Nat]]

\* A message is in the queue once, and no longer when it is walked for.
InQueue ==
  /\ queue \in Seq(Msgs)
  /\ \A i \in 1..Len(queue) : st[queue[i]] = "queued"
  /\ \A i, j \in 1..Len(queue) : queue[i] = queue[j] => i = j

Walking ==
  /\ walk \in WalkRecord
  /\ walk.pc # "none" =>
       /\ walk.m \in Msgs /\ st[walk.m] = "queued" /\ cached[walk.m] \in Keys
       /\ walk.n \in 1..(Slots + 1) /\ (walk.pc # "slot" => walk.n <= Slots)
       /\ \A i \in 1..Len(queue) : queue[i] # walk.m

WalkInv == Messages /\ InQueue /\ Walking

LEMMA WalkInit == Init => WalkInv
  <1> SUFFICES ASSUME Init PROVE Messages /\ InQueue /\ Walking
    BY DEF WalkInv
  <1>1. NoWalk \in WalkRecord /\ NoWalk.pc = "none"
    BY FiltersAssumption DEF NoWalk, WalkRecord
  <1>2. Messages
    BY DEF Init, Messages
  <1>3. InQueue
    BY DEF Init, InQueue
  <1> QED BY <1>1, <1>2, <1>3 DEF Init, Walking

\* Where the walk stands when it reads the filter in a slot.
LEMMA CurType ==
  ASSUME Lists, Walking, walk.pc # "none", walk.n <= Slots
  PROVE  Cur \in Slot
  <1>1. walk.n \in 1..Slots /\ cached[walk.m] \in Keys
    BY FiltersAssumption DEF Walking
  <1> QED BY <1>1 DEF Lists, Cur

\* A walk that goes on with its message.
LEMMA WalkOn ==
  ASSUME Walking, walk' \in WalkRecord, UNCHANGED <<st, cached, queue>>,
         walk'.m = walk.m, walk'.pc # "none" => walk.pc # "none",
         walk'.pc # "none" => walk'.n \in 1..(Slots + 1) /\ (walk'.pc # "slot" => walk'.n <= Slots)
  PROVE  Walking'
  BY DEF Walking

\* A walk that ends.
LEMMA WalkEnds ==
  ASSUME Messages, InQueue, Walking, walk.pc # "none", walk' = NoWalk, UNCHANGED queue,
         NEW e \in {"done", "astray"}, st' = [st EXCEPT ![walk.m] = e]
  PROVE  (InQueue /\ Walking)'
  <1>1. NoWalk \in WalkRecord /\ NoWalk.pc = "none"
    BY FiltersAssumption DEF NoWalk, WalkRecord
  <1>2. walk.m \in Msgs /\ \A i \in 1..Len(queue) : queue[i] # walk.m /\ queue[i] \in Msgs
    BY DEF Walking, InQueue
  <1>3. \A i \in 1..Len(queue) : st'[queue[i]] = "queued"
    BY <1>2 DEF InQueue, Messages
  <1>4. InQueue'
    BY <1>3 DEF InQueue
  <1> QED BY <1>1, <1>4 DEF Walking

LEMMA FirstKnownKey ==
  ASSUME Lists, NEW m \in Msgs
  PROVE  FirstKnown(m) \in Keys \cup {NoList}
  <1> DEFINE hit == {i \in 1..4 : Hashes(m)[i] \in known}
  <1>1. CASE hit = {}
    BY <1>1 DEF FirstKnown
  <1>2. CASE hit # {}
    <2>1. \E i \in hit : \A j \in hit : i <= j
      <3> HIDE DEF Hashes
      <3> QED BY <1>2
    <2>2. (CHOOSE i \in hit : \A j \in hit : i <= j) \in hit
      BY <2>1
    <2>3. FirstKnown(m) = Hashes(m)[CHOOSE i \in hit : \A j \in hit : i <= j]
      BY <1>2, Zenon DEF FirstKnown
    <2> QED BY <2>2, <2>3 DEF Lists
  <1> QED BY <1>1, <1>2

LEMMA WrittenType ==
  ASSUME Messages, NEW m \in Msgs, NEW t \in Outputs
  PROVE  Written(m, t) \in [Msgs -> [Outputs -> Nat]]
  BY DEF Messages, Written

\* A step that leaves the messages and the walk alone.
LEMMA WalkSame ==
  ASSUME WalkInv,
         UNCHANGED <<levelFilterOutMask, defaultFilterOut, ready, st, cached, queue, walk, written>>
  PROVE  WalkInv'
  BY DEF WalkInv, Messages, InQueue, Walking

\* A store to the walk's list is noted, and moves nothing.
LEMMA WalkDisturbed ==
  ASSUME walk \in WalkRecord, NEW k
  PROVE  /\ Disturbed(k) \in WalkRecord /\ Disturbed(k).m = walk.m
         /\ Disturbed(k).pc = walk.pc /\ Disturbed(k).n = walk.n
         /\ Disturbed(k).wrote = walk.wrote
  BY DEF Disturbed, WalkRecord

LEMMA WalkInvNext == Lists /\ WalkInv /\ [Next]_vars => WalkInv'
  <1> SUFFICES ASSUME Lists, WalkInv, [Next]_vars PROVE WalkInv'
    OBVIOUS
  <1>1. ASSUME NEW a \in AddArgs, AddFilter(a) PROVE WalkInv'
    BY <1>1, WalkSame DEF AddFilter, AddToList
  <1>2. ASSUME NEW k \in Keys, NEW n \in 1..Slots, NEW d \in BOOLEAN, NEW t \in Outputs,
              ModifyFilter(k, n, [list[k][n] EXCEPT !.disabled = d, !.target = t])
       PROVE WalkInv'
    BY <1>2, WalkSame DEF ModifyFilter, AddToList
  <1>3. CASE Store
    <2>1. walk' \in WalkRecord /\ walk'.m = walk.m /\ walk'.pc = walk.pc /\ walk'.n = walk.n
      <3>1. walk \in WalkRecord
        BY DEF WalkInv, Walking
      <3>2. walk' = Disturbed(v8.key)
        BY <1>3 DEF Store
      <3> QED BY ONLY <3>1, <3>2, WalkDisturbed
    <2>2. UNCHANGED <<levelFilterOutMask, defaultFilterOut, ready, st, cached, queue, written>>
      BY <1>3 DEF Store
    <2> QED BY <2>1, <2>2 DEF WalkInv, Messages, InQueue, Walking
  <1>4. CASE DisableAdded
    <2>1. walk' \in WalkRecord /\ walk'.m = walk.m /\ walk'.pc = walk.pc /\ walk'.n = walk.n
      <3>1. walk \in WalkRecord
        BY DEF WalkInv, Walking
      <3>2. walk' = Disturbed(v8.key)
        BY <1>4 DEF DisableAdded
      <3> QED BY ONLY <3>1, <3>2, WalkDisturbed
    <2>2. UNCHANGED <<levelFilterOutMask, defaultFilterOut, ready, st, cached, queue, written>>
      BY <1>4 DEF DisableAdded
    <2> QED BY <2>1, <2>2 DEF WalkInv, Messages, InQueue, Walking
  <1>5. CASE SetGlobalOpts
    <2>1. levelFilterOutMask' \subseteq Levels /\ defaultFilterOut' \in BOOLEAN
      BY <1>5, FiltersAssumption DEF SetGlobalOpts, WalkInv, Messages
    <2> QED BY <1>5, <2>1 DEF SetGlobalOpts, WalkInv, Messages, InQueue, Walking
  <1>6. ASSUME NEW t \in Targets, TargetReady(t) PROVE WalkInv'
    <2>1. walk' \in WalkRecord /\ walk'.m = walk.m /\ walk'.pc = walk.pc /\ walk'.n = walk.n
      BY <1>6 DEF TargetReady, WalkInv, Walking, WalkRecord
    <2>2. UNCHANGED <<levelFilterOutMask, defaultFilterOut, st, cached, queue, written>>
          /\ ready' \subseteq Targets
      BY <1>6 DEF TargetReady, v8Vars, WalkInv, Messages
    <2> QED BY <2>1, <2>2 DEF WalkInv, Messages, InQueue, Walking
  <1>7. ASSUME NEW m \in Msgs, Sift(m) PROVE WalkInv'
    <2>1. UNCHANGED <<levelFilterOutMask, defaultFilterOut, ready, queue, walk, written>>
      BY <1>7 DEF Sift, v8Vars
    <2>2. \A o \in Msgs : st[o] = "queued" => st'[o] = "queued" /\ cached'[o] = cached[o]
      BY <1>7 DEF Sift, WalkInv, Messages
    <2>3. FirstKnown(m) \in Keys \cup {NoList}
      BY FirstKnownKey
    <2>4. Messages'
      BY <1>7, <2>1, <2>3 DEF Sift, WalkInv, Messages
    <2> QED BY <2>1, <2>2, <2>4 DEF WalkInv, InQueue, Walking
  <1>8. ASSUME NEW m \in Msgs, Enqueue(m) PROVE WalkInv'
    <2>1. UNCHANGED <<levelFilterOutMask, defaultFilterOut, ready, cached, walk, written>>
          /\ st[m] = "sifted" /\ st' = [st EXCEPT ![m] = "queued"] /\ queue' = Append(queue, m)
      BY <1>8 DEF Enqueue, v8Vars
    <2>2. Messages'
      BY <2>1 DEF WalkInv, Messages
    <2>3. \A i \in 1..Len(queue) : queue[i] # m
      BY <2>1 DEF WalkInv, InQueue
    <2>4. InQueue'
      BY <2>1, <2>3 DEF WalkInv, Messages, InQueue
    <2>5. walk.pc # "none" => walk.m # m
      BY <2>1 DEF WalkInv, Walking
    <2>6. Walking'
      BY <2>1, <2>5 DEF WalkInv, Messages, InQueue, Walking
    <2> QED BY <2>2, <2>4, <2>6 DEF WalkInv
  <1>9. CASE WalkStart
    <2> DEFINE m == Head(queue)
    <2>1. /\ Messages /\ InQueue /\ Walking /\ queue \in Seq(Msgs) /\ queue # <<>>
          /\ walk = NoWalk /\ queue' = Tail(queue)
          /\ UNCHANGED <<levelFilterOutMask, defaultFilterOut, ready, cached>>
      BY <1>9 DEF WalkStart, WalkInv, InQueue, v8Vars
    <2>2. /\ m \in Msgs /\ st[m] = "queued" /\ queue' \in Seq(Msgs)
          /\ Len(queue') = Len(queue) - 1
          /\ \A i \in 1..Len(queue') : queue'[i] = queue[i + 1] /\ i + 1 \in 1..Len(queue)
      BY <2>1 DEF InQueue
    <2>3. \A i \in 1..Len(queue') : queue'[i] # m /\ queue'[i] \in Msgs /\ st[queue'[i]] = "queued"
      BY <2>1, <2>2 DEF InQueue
    <2>4. \A i, j \in 1..Len(queue') : queue'[i] = queue'[j] => i = j
      BY <2>1, <2>2 DEF InQueue
    <2>5. ASSUME NEW e \in {"queued", "dropped", "done"}, st' = [st EXCEPT ![m] = e]
          PROVE  InQueue'
      BY <2>1, <2>2, <2>3, <2>4, <2>5 DEF InQueue, Messages
    <2>6. NoWalk \in WalkRecord /\ NoWalk.pc = "none"
      BY FiltersAssumption DEF NoWalk, WalkRecord
    <2>7. CASE st' = [st EXCEPT ![m] = "dropped"] /\ UNCHANGED <<walk, written>>
      <3>1. Messages'
        BY <2>1, <2>2, <2>7 DEF Messages
      <3> QED BY <2>1, <2>5, <2>6, <2>7, <3>1 DEF WalkInv, Walking
    <2>8. CASE /\ cached[m] # NoList /\ UNCHANGED <<st, written>>
               /\ walk' = [m |-> m, pc |-> "slot", n |-> 1, wrote |-> FALSE, ignore |-> FALSE,
                           quiet |-> Settled(cached[m])]
      <3>1. Settled(cached[m]) \in BOOLEAN
        BY DEF Settled
      <3>2. cached[m] \in Keys
        BY <2>1, <2>2, <2>8 DEF Messages
      <3>3. walk' \in WalkRecord
        BY <2>2, <2>8, <3>1, FiltersAssumption DEF WalkRecord
      <3>6. walk'.m = m /\ walk'.pc = "slot" /\ walk'.n = 1
        BY <2>8
      <3>7. 1 \in 1..(Slots + 1)
        BY FiltersAssumption
      <3>4. Walking'
        BY <2>1, <2>2, <2>3, <2>8, <3>2, <3>3, <3>6, <3>7 DEF Walking
      <3>5. InQueue'
        BY <2>2, <2>3, <2>4, <2>8 DEF InQueue
      <3> QED BY <2>1, <2>8, <3>4, <3>5 DEF WalkInv, Messages
    <2>9. CASE Finish(m, FALSE)
      <3>1. written' \in [Msgs -> [Outputs -> Nat]]
        BY <2>1, <2>2, <2>9, WrittenType DEF Finish, Outputs
      <3>2. Messages'
        BY <2>1, <2>2, <2>9, <3>1 DEF Finish, Messages
      <3>3. InQueue'
        BY <2>5, <2>9 DEF Finish
      <3>4. Walking'
        BY <2>6, <2>9 DEF Finish, Walking
      <3> QED BY <3>2, <3>3, <3>4 DEF WalkInv
    <2> HIDE DEF m
    <2> QED BY <1>9, <2>7, <2>8, <2>9 DEF WalkStart, Passes, m
  <1>10. CASE WalkSlot
    <2>1. Messages /\ InQueue /\ Walking /\ walk.pc # "none" /\ walk.m \in Msgs
      BY <1>10 DEF WalkSlot, WalkInv, Walking
    <2>2. walk.n \in 1..Slots
      BY <1>10, <2>1, FiltersAssumption DEF WalkSlot, Walking
    <2>3. UNCHANGED <<levelFilterOutMask, defaultFilterOut, ready, cached, queue>>
      BY <1>10 DEF WalkSlot, v8Vars
    <2>4. CASE Finish(walk.m, walk.wrote)
      <3>1. written' \in [Msgs -> [Outputs -> Nat]]
        BY <2>4, <2>1, WrittenType DEF Finish, Messages, Outputs
      <3>2. Messages'
        BY <2>4, <2>1, <2>3, <3>1 DEF Finish, Messages
      <3>3. (InQueue /\ Walking)'
        BY <2>4, <2>1, <2>3, WalkEnds DEF Finish
      <3> QED BY <3>2, <3>3 DEF WalkInv
    <2>5. CASE walk' = [walk EXCEPT !.pc = IF Meta[walk.m].ignores = {} THEN "target"
                                                                   ELSE "ignore"]
               /\ UNCHANGED <<st, written>>
      <3>1. walk' \in WalkRecord /\ walk'.m = walk.m /\ walk'.n \in 1..(Slots + 1)
            /\ (walk'.pc # "slot" => walk'.n <= Slots)
        BY <2>5, <2>1, <2>2, FiltersAssumption DEF WalkRecord, Walking
      <3>2. Walking'
        BY <2>5, <2>1, <2>3, <3>1, WalkOn
      <3> QED BY <2>5, <2>3, <3>2 DEF WalkInv, Messages, InQueue
    <2>6. CASE NextSlot(FALSE) /\ UNCHANGED <<st, written>>
      <3>1. walk' \in WalkRecord /\ walk'.m = walk.m /\ walk'.n \in 1..(Slots + 1)
            /\ (walk'.pc # "slot" => walk'.n <= Slots)
        BY <2>6, <2>1, <2>2, FiltersAssumption DEF NextSlot, WalkRecord, Walking
      <3>2. Walking'
        BY <2>6, <2>1, <2>3, <3>1, WalkOn
      <3> QED BY <2>6, <2>3, <3>2 DEF WalkInv, Messages, InQueue
    <2> QED BY <1>10, <2>4, <2>5, <2>6 DEF WalkSlot
  <1>11. CASE WalkPastEnd
    <2>1. Messages /\ InQueue /\ Walking /\ walk.pc # "none" /\ walk.m \in Msgs
      BY <1>11 DEF WalkPastEnd, WalkInv, Walking
    <2>2. UNCHANGED <<levelFilterOutMask, defaultFilterOut, ready, cached, queue>>
      BY <1>11 DEF WalkPastEnd, v8Vars
    <2>3. PICK e \in {"done", "astray"}, t \in Outputs :
            /\ walk' = NoWalk /\ st' = [st EXCEPT ![walk.m] = e]
            /\ written' = written \/ written' = Written(walk.m, t)
      BY <1>11, <2>1 DEF WalkPastEnd, Finish, Messages, Outputs
    <2>4. (InQueue /\ Walking)'
      BY <2>1, <2>2, <2>3, WalkEnds
    <2>5. written' \in [Msgs -> [Outputs -> Nat]]
      BY <2>1, <2>3, WrittenType DEF Messages
    <2>6. Messages'
      BY <2>1, <2>2, <2>3, <2>5 DEF Messages
    <2> QED BY <2>4, <2>6 DEF WalkInv
  <1>12. CASE WalkIgnore
    <2>1. Messages /\ InQueue /\ Walking /\ walk.pc # "none" /\ walk.m \in Msgs
      BY <1>12 DEF WalkIgnore, WalkInv, Walking
    <2>2. walk.n \in 1..Slots
      BY <1>12, <2>1, FiltersAssumption DEF WalkIgnore, Walking
    <2>3. UNCHANGED <<levelFilterOutMask, defaultFilterOut, ready, cached, queue>>
      BY <1>12 DEF WalkIgnore, v8Vars
    <2>4. Cur.target \in Outputs
      BY <2>1, <2>2, CurType DEF Slot
    <2>7. PICK b \in BOOLEAN : walk' = [walk EXCEPT !.pc = "target", !.ignore = b]
      <3>1. Ignored(walk.m, Cur.target) \in BOOLEAN
        BY DEF Ignored
      <3> QED BY <1>12, <3>1, Zenon DEF WalkIgnore
    <2>5. walk' \in WalkRecord /\ walk'.m = walk.m /\ walk'.n \in 1..(Slots + 1)
          /\ (walk'.pc # "slot" => walk'.n <= Slots)
      <3> DEFINE x == [walk EXCEPT !.pc = "target"]
      <3>1. walk' = [x EXCEPT !.ignore = b]
        BY <2>7
      <3>2. x \in WalkRecord /\ x.m = walk.m /\ x.n = walk.n
        BY <2>1 DEF WalkRecord, Walking
      <3> HIDE DEF x
      <3>3. /\ [x EXCEPT !.ignore = b] \in WalkRecord
            /\ [x EXCEPT !.ignore = b].m = walk.m /\ [x EXCEPT !.ignore = b].n = walk.n
        BY <3>2 DEF WalkRecord
      <3> QED BY <2>2, <3>1, <3>3, FiltersAssumption
    <2>6. Walking'
      BY <1>12, <2>1, <2>3, <2>5, WalkOn DEF WalkIgnore
    <2> QED BY <1>12, <2>1, <2>3, <2>6 DEF WalkIgnore, WalkInv, Messages, InQueue
  <1>13. CASE WalkTarget
    <2>1. Messages /\ InQueue /\ Walking /\ walk.pc # "none" /\ walk.m \in Msgs
      BY <1>13 DEF WalkTarget, WalkInv, Walking
    <2>2. walk.n \in 1..Slots
      BY <1>13, <2>1, FiltersAssumption DEF WalkTarget, Walking
    <2>3. UNCHANGED <<levelFilterOutMask, defaultFilterOut, ready, cached, queue>>
      BY <1>13 DEF WalkTarget, v8Vars
    <2>4. Cur.target \in Outputs
      BY <2>1, <2>2, CurType DEF Slot
    <2>5. walk' \in WalkRecord /\ walk'.m = walk.m /\ walk'.n \in 1..(Slots + 1)
          /\ (walk'.pc # "slot" => walk'.n <= Slots)
      <3>1. CASE NextSlot(TRUE)
        BY <3>1, <2>1, <2>2, FiltersAssumption DEF NextSlot, WalkRecord, Walking
      <3>2. CASE walk' = [walk EXCEPT !.pc = "find"]
        BY <3>2, <2>1, <2>2, FiltersAssumption DEF WalkRecord, Walking
      <3> QED BY <1>13, <3>1, <3>2 DEF WalkTarget
    <2>6. Walking'
      BY <1>13, <2>1, <2>3, <2>5, WalkOn DEF WalkTarget
    <2>7. written' \in [Msgs -> [Outputs -> Nat]]
      <3>1. written' = written \/ written' = Written(walk.m, Default)
        BY <1>13, Zenon DEF WalkTarget
      <3>2. Default \in Outputs
        BY DEF Outputs
      <3> QED BY <2>1, <3>1, <3>2, WrittenType DEF Messages
    <2>8. Messages'
      BY <1>13, <2>1, <2>3, <2>7 DEF WalkTarget, Messages
    <2> QED BY <1>13, <2>1, <2>3, <2>6, <2>8 DEF WalkTarget, WalkInv, InQueue
  <1>14. CASE WalkFind
    <2>1. Messages /\ InQueue /\ Walking /\ walk.pc # "none" /\ walk.m \in Msgs
      BY <1>14 DEF WalkFind, WalkInv, Walking
    <2>2. walk.n \in 1..Slots
      BY <1>14, <2>1, FiltersAssumption DEF WalkFind, Walking
    <2>3. UNCHANGED <<levelFilterOutMask, defaultFilterOut, ready, cached, queue>>
      BY <1>14 DEF WalkFind, v8Vars
    <2>4. Cur.target \in Outputs
      BY <2>1, <2>2, CurType DEF Slot
    <2>5. \/ written' = Written(walk.m, Cur.target) /\ NextSlot(TRUE)
          \/ written' = written /\ NextSlot(FALSE)
      <3>1. CASE ~walk.ignore /\ Cur.target \in ready
        BY <1>14, <3>1 DEF WalkFind, NextSlot, Wrote
      <3>2. CASE ~(~walk.ignore /\ Cur.target \in ready)
        BY <1>14, <3>2 DEF WalkFind, NextSlot, Wrote
      <3> QED BY <3>1, <3>2
    <2>6. walk' \in WalkRecord /\ walk'.m = walk.m /\ walk'.n \in 1..(Slots + 1)
          /\ walk'.pc = "slot"
      <3>1. CASE NextSlot(TRUE)
        BY <3>1, <2>1, <2>2, FiltersAssumption DEF NextSlot, WalkRecord, Walking
      <3>2. CASE NextSlot(FALSE)
        BY <3>2, <2>1, <2>2, FiltersAssumption DEF NextSlot, WalkRecord, Walking
      <3> QED BY <2>5, <3>1, <3>2
    <2>7. Walking'
      BY <1>14, <2>1, <2>3, <2>6, WalkOn DEF WalkFind
    <2>8. written' \in [Msgs -> [Outputs -> Nat]]
      BY <2>1, <2>4, <2>5, WrittenType DEF Messages
    <2>9. Messages'
      BY <1>14, <2>1, <2>3, <2>8 DEF WalkFind, Messages
    <2> QED BY <1>14, <2>1, <2>3, <2>7, <2>9 DEF WalkFind, WalkInv, InQueue
  <1>15. CASE UNCHANGED vars
    BY <1>15, WalkSame DEF vars, v8Vars, tableVars
  <1> QED BY <1>1, <1>2, <1>3, <1>4, <1>5, <1>6, <1>7, <1>8, <1>9, <1>10, <1>11,
      <1>12, <1>13, <1>14, <1>15
    DEF Next, V8Step, GreaseStep
-----------------------------------------------------------------------------
(* What is written                                                          *)

Got(m) == \E t \in Outputs : written[m][t] > 0

\* A walk remembers whether it has written its message.
Passed ==
  /\ \A m \in Msgs : st[m] \in {"done", "astray"} => Got(m)
  /\ walk.pc # "none" /\ walk.wrote => Got(walk.m)

LEMMA PassedInit == Init => Passed
  BY DEF Init, Passed, NoWalk

\* Writing a message to a target takes nothing from the others.
LEMMA GotMore ==
  ASSUME Messages, NEW m \in Msgs, NEW t \in Outputs, written' = Written(m, t)
  PROVE  Got(m)' /\ \A o \in Msgs : Got(o) => Got(o)'
  <1>1. \A o \in Msgs, u \in Outputs :
          written'[o][u] = IF o = m /\ u = t THEN written[o][u] + 1 ELSE written[o][u]
    BY DEF Messages, Written
  <1>2. \A o \in Msgs, u \in Outputs : written[o][u] \in Nat
    BY DEF Messages
  <1> QED BY <1>1, <1>2 DEF Got

\* A walk ends with its message written.
LEMMA GotEnds ==
  ASSUME WalkInv, Passed, NEW m \in Msgs, NEW e \in {"done", "astray"},
         st' = [st EXCEPT ![m] = e], walk' = NoWalk,
         \/ written' = written /\ Got(m)
         \/ \E t \in Outputs : written' = Written(m, t)
  PROVE  Passed'
  <1>1. NoWalk.pc = "none"
    BY DEF NoWalk
  <1>2. Got(m)' /\ \A o \in Msgs : Got(o) => Got(o)'
    <2>1. CASE written' = written /\ Got(m)
      BY <2>1 DEF Got
    <2>2. CASE \E t \in Outputs : written' = Written(m, t)
      BY <2>2, GotMore DEF WalkInv
    <2> QED BY <2>1, <2>2
  <1> QED BY <1>1, <1>2 DEF Passed, WalkInv, Messages

LEMMA GotSame ==
  ASSUME Passed, UNCHANGED <<st, written>>, walk'.m = walk.m, walk'.pc = walk.pc,
         walk'.wrote = walk.wrote
  PROVE  Passed'
  BY DEF Passed, Got

LEMMA PassedNext == Lists /\ WalkInv /\ Passed /\ [Next]_vars => Passed'
  <1> SUFFICES ASSUME Lists, WalkInv, Passed, [Next]_vars PROVE Passed'
    OBVIOUS
  <1>1. ASSUME NEW a \in AddArgs, AddFilter(a) PROVE Passed'
    <2>1. UNCHANGED <<st, written>> /\ walk'.m = walk.m /\ walk'.pc = walk.pc
          /\ walk'.wrote = walk.wrote
      BY <1>1 DEF AddFilter
    <2> QED BY <2>1, GotSame DEF WalkInv, Walking
  <1>2. ASSUME NEW k \in Keys, NEW n \in 1..Slots, NEW d \in BOOLEAN, NEW t \in Outputs,
              ModifyFilter(k, n, [list[k][n] EXCEPT !.disabled = d, !.target = t])
       PROVE Passed'
    <2>1. UNCHANGED <<st, written>> /\ walk'.m = walk.m /\ walk'.pc = walk.pc
          /\ walk'.wrote = walk.wrote
      BY <1>2 DEF ModifyFilter
    <2> QED BY <2>1, GotSame DEF WalkInv, Walking
  <1>3. CASE Store
    <2>1. UNCHANGED <<st, written>> /\ walk'.m = walk.m /\ walk'.pc = walk.pc
          /\ walk'.wrote = walk.wrote
      <3>1. walk \in WalkRecord
        BY DEF WalkInv, Walking
      <3>2. walk' = Disturbed(v8.key) /\ UNCHANGED <<st, written>>
        BY <1>3 DEF Store
      <3> QED BY ONLY <3>1, <3>2, WalkDisturbed
    <2> QED BY <2>1, GotSame DEF WalkInv, Walking
  <1>4. CASE DisableAdded
    <2>1. UNCHANGED <<st, written>> /\ walk'.m = walk.m /\ walk'.pc = walk.pc
          /\ walk'.wrote = walk.wrote
      <3>1. walk \in WalkRecord
        BY DEF WalkInv, Walking
      <3>2. walk' = Disturbed(v8.key) /\ UNCHANGED <<st, written>>
        BY <1>4 DEF DisableAdded
      <3> QED BY ONLY <3>1, <3>2, WalkDisturbed
    <2> QED BY <2>1, GotSame DEF WalkInv, Walking
  <1>5. CASE SetGlobalOpts
    <2>1. UNCHANGED <<st, written>> /\ walk'.m = walk.m /\ walk'.pc = walk.pc
          /\ walk'.wrote = walk.wrote
      BY <1>5 DEF SetGlobalOpts
    <2> QED BY <2>1, GotSame DEF WalkInv, Walking
  <1>6. ASSUME NEW t \in Targets, TargetReady(t) PROVE Passed'
    <2>1. UNCHANGED <<st, written>> /\ walk'.m = walk.m /\ walk'.pc = walk.pc
          /\ walk'.wrote = walk.wrote
      BY <1>6 DEF TargetReady, WalkInv, Walking, WalkRecord
    <2> QED BY <2>1, GotSame DEF WalkInv, Walking
  <1>7. ASSUME NEW m \in Msgs, Sift(m) PROVE Passed'
    <2>1. UNCHANGED <<walk, written>> /\ \A o \in Msgs : st'[o] = st[o] \/ st'[o] \in {"out", "sifted"}
      BY <1>7 DEF Sift, WalkInv, Messages
    <2> QED BY <2>1 DEF Got, Passed
  <1>8. ASSUME NEW m \in Msgs, Enqueue(m) PROVE Passed'
    <2>1. UNCHANGED <<walk, written>> /\ \A o \in Msgs : st'[o] = st[o] \/ st'[o] \in {"queued"}
      BY <1>8 DEF Enqueue, WalkInv, Messages
    <2> QED BY <2>1 DEF Got, Passed
  <1>9. CASE WalkStart
    <2>1. walk = NoWalk /\ Head(queue) \in Msgs
      BY <1>9 DEF WalkStart, WalkInv, InQueue
    <2>2. CASE st' = [st EXCEPT ![Head(queue)] = "dropped"] /\ UNCHANGED <<walk, written>>
      BY <2>1, <2>2 DEF Passed, Got, WalkInv, Messages
    <2>3. CASE /\ UNCHANGED <<st, written>>
               /\ walk' = [m |-> Head(queue), pc |-> "slot", n |-> 1, wrote |-> FALSE,
                           ignore |-> FALSE, quiet |-> Settled(cached[Head(queue)])]
      <3>1. walk'.wrote = FALSE
        BY <2>3
      <3> QED BY <2>3, <3>1 DEF Passed, Got
    <2>4. CASE Finish(Head(queue), FALSE)
      BY <2>1, <2>4, GotEnds DEF Finish, Outputs
    <2> QED BY <1>9, <2>2, <2>3, <2>4 DEF WalkStart
  <1>10. CASE WalkSlot
    <2>1. walk.m \in Msgs /\ walk.pc # "none"
      BY <1>10 DEF WalkSlot, WalkInv, Walking
    <2>2. CASE Finish(walk.m, walk.wrote)
      <3>1. CASE walk.wrote
        BY <2>1, <2>2, <3>1, GotEnds DEF Finish, Passed
      <3>2. CASE ~walk.wrote
        BY <2>1, <2>2, <3>2, GotEnds DEF Finish, Outputs
      <3> QED BY <3>1, <3>2
    <2>3. CASE walk' = [walk EXCEPT !.pc = IF Meta[walk.m].ignores = {} THEN "target"
                                                                   ELSE "ignore"]
               /\ UNCHANGED <<st, written>>
      <3>1. walk'.m = walk.m /\ walk'.wrote = walk.wrote
        BY <2>3 DEF WalkInv, Walking, WalkRecord
      <3> QED BY <2>1, <2>3, <3>1 DEF Passed, Got
    <2>4. CASE NextSlot(FALSE) /\ UNCHANGED <<st, written>>
      <3>1. walk'.m = walk.m /\ (walk'.wrote => walk.wrote)
        BY <2>4 DEF NextSlot
      <3> QED BY <2>1, <2>4, <3>1 DEF Passed, Got
    <2> QED BY <1>10, <2>2, <2>3, <2>4 DEF WalkSlot
  <1>11. CASE WalkPastEnd
    <2>1. walk.m \in Msgs /\ walk.pc # "none"
      BY <1>11 DEF WalkPastEnd, WalkInv, Walking
    <2>2. CASE Finish(walk.m, walk.wrote)
      <3>1. CASE walk.wrote
        BY <2>1, <2>2, <3>1, GotEnds DEF Finish, Passed
      <3>2. CASE ~walk.wrote
        BY <2>1, <2>2, <3>2, GotEnds DEF Finish, Outputs
      <3> QED BY <3>1, <3>2
    <2>3. ASSUME NEW t \in Outputs, written' = Written(walk.m, t), walk' = NoWalk,
                 st' = [st EXCEPT ![walk.m] = "astray"]
          PROVE  Passed'
      BY <2>1, <2>3, GotEnds
    <2>4. ready \cup {Default} \subseteq Outputs
      BY DEF WalkInv, Messages, Outputs
    <2> QED BY <1>11, <2>2, <2>3, <2>4 DEF WalkPastEnd
  <1>12. CASE WalkIgnore
    <2>1. walk'.m = walk.m /\ walk'.wrote = walk.wrote /\ UNCHANGED <<st, written>>
      BY <1>12 DEF WalkIgnore, WalkInv, Walking, WalkRecord
    <2> QED BY <1>12, <2>1 DEF WalkIgnore, Passed, Got
  <1>13. CASE WalkTarget
    <2>1. walk.m \in Msgs /\ walk.pc # "none" /\ UNCHANGED st
      BY <1>13 DEF WalkTarget, WalkInv, Walking
    <2>2. CASE written' = Written(walk.m, Default) /\ NextSlot(TRUE)
      <3>1. walk'.m = walk.m
        BY <2>2 DEF NextSlot
      <3>2. PICK m \in Msgs : m = walk.m
        BY <2>1
      <3>3. Got(m)' /\ \A o \in Msgs : Got(o) => Got(o)'
        BY <2>2, GotMore, <3>2 DEF WalkInv, Outputs
      <3> QED BY <2>1, <3>1, <3>2, <3>3 DEF Passed, Got
    <2>3. CASE walk' = [walk EXCEPT !.pc = "find"] /\ UNCHANGED written
      <3>1. walk'.m = walk.m /\ walk'.wrote = walk.wrote
        BY <2>3 DEF WalkInv, Walking, WalkRecord
      <3> QED BY <2>1, <2>3, <3>1 DEF Passed, Got
    <2> QED BY <1>13, <2>2, <2>3 DEF WalkTarget
  <1>14. CASE WalkFind
    <2>1. /\ walk.m \in Msgs /\ walk.pc # "none" /\ UNCHANGED st
          /\ walk.n \in 1..Slots
      BY <1>14, FiltersAssumption DEF WalkFind, WalkInv, Walking
    <2>2. Cur.target \in Outputs
      BY <2>1, CurType DEF WalkInv, Slot
    <2>3. CASE ~walk.ignore /\ Cur.target \in ready
      <3>1. written' = Written(walk.m, Cur.target) /\ walk'.m = walk.m
        BY <1>14, <2>3 DEF WalkFind, NextSlot
      <3>2. PICK m \in Msgs : m = walk.m
        BY <2>1
      <3>3. Got(m)' /\ \A o \in Msgs : Got(o) => Got(o)'
        BY <2>2, <3>1, GotMore, <3>2 DEF WalkInv
      <3> QED BY <2>1, <3>1, <3>2, <3>3 DEF Passed, Got
    <2>4. CASE ~(~walk.ignore /\ Cur.target \in ready)
      <3>1. written' = written /\ walk'.m = walk.m /\ (walk'.wrote => walk.wrote)
        BY <1>14, <2>4 DEF WalkFind, NextSlot, Wrote
      <3> QED BY <2>1, <3>1 DEF Passed, Got
    <2> QED BY <2>3, <2>4
  <1>15. CASE UNCHANGED vars
    BY <1>15, GotSame DEF vars
  <1> QED BY <1>1, <1>2, <1>3, <1>4, <1>5, <1>6, <1>7, <1>8, <1>9, <1>10, <1>11,
      <1>12, <1>13, <1>14, <1>15
    DEF Next, V8Step, GreaseStep

-----------------------------------------------------------------------------
(* The theorems                                                             *)

FiltersInv == Lists /\ Calling /\ Adding /\ ListsSound /\ Filled /\ WalkInv /\ Passed

LEMMA FiltersInvariant == Spec => []FiltersInv
  <1>1. Init => FiltersInv
    BY ListsInit, AddingInit, FilledInit, WalkInit, PassedInit DEF FiltersInv
  <1>2. FiltersInv /\ [Next]_vars => FiltersInv'
    BY ListsNext, AddingNext, FilledNext, WalkInvNext, PassedNext DEF FiltersInv
  <1> QED BY <1>1, <1>2, PTL DEF Spec

\* Every reachable state has the types of TypeOK: the V8 thread holds modifyFilters only while
\* addFilter() stores, and a message is walked for only while it is queued.
THEOREM FiltersTypes == Spec => []TypeOK
  <1>1. FiltersInv => TypeOK
    <2> SUFFICES ASSUME FiltersInv PROVE TypeOK
      OBVIOUS
    <2>1. Lists /\ Calling /\ Messages /\ Walking
      BY DEF FiltersInv, WalkInv
    <2>2. /\ v8.key \in Keys \cup {NoList} /\ v8.n \in 0..Slots /\ v8.todo \subseteq Fields
          /\ v8.slot \in Slot /\ (v8.locked => v8.todo # {})
      BY <2>1 DEF Calling
    <2>3. /\ walk.pc # "none" => walk.m \in Msgs /\ st[walk.m] = "queued"
          /\ walk.n \in 0..(Slots + 1)
      BY <2>1 DEF Walking, WalkRecord
    <2> QED BY <2>1, <2>2, <2>3 DEF Lists, Messages, TypeOK
  <1> QED BY <1>1, FiltersInvariant, PTL

\* The walk without the lock finds the slots in use first, no id twice, and a bloom mask
\* that lets every complete filter's levels pass, at any moment of addFilter().
THEOREM ReaderFindsSound == Spec => []ListsSound
  <1>1. FiltersInv => ListsSound
    BY DEF FiltersInv
  <1> QED BY <1>1, FiltersInvariant, PTL

\* A message that reaches the end of handleInternalCmd() was written to some target, whatever
\* addFilter() and modifyFilter() stored under the walk.
THEOREM NothingPassedIsLost == Spec => []PassedIsWritten
  <1>1. FiltersInv => PassedIsWritten
    BY DEF FiltersInv, Passed, Got, PassedIsWritten
  <1> QED BY <1>1, FiltersInvariant, PTL

-----------------------------------------------------------------------------
(* The list sift() finds                                                    *)

\* The list of the first hash that has one.
LEMMA FirstKnownIs ==
  ASSUME NEW m \in Msgs
  PROVE  \/ FirstKnown(m) = NoList /\ \A j \in 1..4 : Hashes(m)[j] \notin known
         \/ \E i \in 1..4 : /\ FirstKnown(m) = Hashes(m)[i] /\ Hashes(m)[i] \in known
                            /\ \A j \in 1..4 : j < i => Hashes(m)[j] \notin known
  <1> DEFINE hit == {i \in 1..4 : Hashes(m)[i] \in known}
  <1>1. CASE hit = {}
    BY <1>1 DEF FirstKnown
  <1>2. CASE hit # {}
    <2> DEFINE first == CHOOSE i \in hit : \A j \in hit : i <= j
    <2>1. \E i \in hit : \A j \in hit : i <= j
      <3> HIDE DEF Hashes
      <3> QED BY <1>2
    <2>2. first \in hit /\ \A j \in hit : first <= j
      BY <2>1
    <2>3. FirstKnown(m) = Hashes(m)[first]
      BY <1>2, Zenon DEF FirstKnown
    <2> HIDE DEF first
    <2>4. first \in 1..4 /\ Hashes(m)[first] \in known
      BY <2>2
    <2>5. \A j \in 1..4 : j < first => Hashes(m)[j] \notin known
      BY <2>2, <2>4
    <2> QED BY <2>3, <2>4, <2>5
  <1> QED BY <1>1, <1>2

\* While nobody holds modifyFilters, the lists in the table that cover a message are those
\* with a filter.
LEMMA CoveringIsKnown ==
  ASSUME Lists, Filled, ~v8.locked, NEW m \in Msgs
  PROVE  Covering(m) = {k \in known : Covers(k, m)}
  <1>1. \A k \in Keys : (\E n \in 1..Slots : list[k][n].id # 0) <=> k \in known
    <2>1. 1 \in 1..Slots
      BY FiltersAssumption
    <2> QED BY <2>1 DEF Filled
  <1>2. known \subseteq Keys
    BY DEF Lists
  <1> QED BY <1>1, <1>2 DEF Covering

\* The order of getHashes() puts no key before a more specific one.
LEMMA SiftTakes ==
  ASSUME Lists, Filled, ~v8.locked, NEW m \in Msgs
  PROVE  IF Covering(m) = {} THEN FirstKnown(m) = NoList
         ELSE /\ FirstKnown(m) \in Covering(m)
              /\ \A k \in Covering(m) : ~MoreSpecific(k, FirstKnown(m))
  <1> DEFINE C == {k \in known : Covers(k, m)}
             t == Meta[m].tag
             o == Meta[m].origin
  <1>1. /\ Hashes(m)[1] = <<t, o>> /\ Hashes(m)[2] = <<0, o>>
        /\ Hashes(m)[3] = <<t, 0>> /\ Hashes(m)[4] = <<0, 0>>
    BY DEF Hashes
  <1>2. Covering(m) = C
    BY CoveringIsKnown
  <1>3. \A k \in C : \E j \in 1..4 : k = Hashes(m)[j]
    <2> SUFFICES ASSUME NEW k \in C PROVE \E j \in 1..4 : k = Hashes(m)[j]
      OBVIOUS
    <2>1. k[1] \in {0, t} /\ k[2] \in {0, o} /\ k = <<k[1], k[2]>>
      BY FiltersAssumption DEF Covers, Lists
    <2>2. k = <<t, o>> \/ k = <<0, o>> \/ k = <<t, 0>> \/ k = <<0, 0>>
      BY <2>1
    <2> QED BY <1>1, <2>2
  <1>4. CASE FirstKnown(m) = NoList /\ \A j \in 1..4 : Hashes(m)[j] \notin known
    BY <1>2, <1>3, <1>4
  <1>5. ASSUME NEW i \in 1..4, FirstKnown(m) = Hashes(m)[i], Hashes(m)[i] \in known,
               \A j \in 1..4 : j < i => Hashes(m)[j] \notin known
        PROVE  /\ FirstKnown(m) \in C
               /\ \A k \in C : ~MoreSpecific(k, FirstKnown(m))
    <2>1. FirstKnown(m) \in C
      BY <1>1, <1>5 DEF Covers
    <2>2. ASSUME NEW k \in C, MoreSpecific(k, FirstKnown(m)) PROVE FALSE
      <3>1. PICK j \in 1..4 : k = Hashes(m)[j]
        BY <1>3
      <3>2. j > i
        <4>1. j >= i /\ j # i
          BY <1>5, <2>2, <3>1 DEF MoreSpecific
        <4> QED BY <4>1
      <3>3. LET f == FirstKnown(m) IN f # k /\ f[1] \in {0, k[1]} /\ f[2] \in {0, k[2]}
        BY <2>2 DEF MoreSpecific
      <3>4. CASE i = 1
        BY <1>1, <1>5, <3>1, <3>2, <3>3, <3>4
      <3>5. CASE i = 2
        BY <1>1, <1>5, <3>1, <3>2, <3>3, <3>5
      <3>6. CASE i = 3
        BY <1>1, <1>5, <3>1, <3>2, <3>3, <3>6
      <3> QED BY <3>2, <3>4, <3>5, <3>6
    <2> QED BY <2>1, <2>2
  <1> QED BY <1>2, <1>4, <1>5, FirstKnownIs

\* Only sift() takes a new message up.
LEMMA NewIsSifted ==
  ASSUME WalkInv, [Next]_vars, NEW m \in Msgs, st[m] = "new", st'[m] # "new"
  PROVE  Sift(m)
  <1>1. st \in [Msgs -> {"new", "out", "sifted", "queued", "dropped", "done", "astray"}]
    BY DEF WalkInv, Messages
  <1>2. ASSUME NEW q \in Msgs, NEW s, st[q] # "new", st' = [st EXCEPT ![q] = s] PROVE FALSE
    BY <1>1, <1>2
  <1>3. ASSUME UNCHANGED st PROVE FALSE
    BY <1>3
  <1>4. CASE V8Step
    BY <1>3, <1>4 DEF V8Step, AddFilter, ModifyFilter, Store, DisableAdded, SetGlobalOpts
  <1>5. CASE GreaseStep
    <2>1. walk.pc # "none" => walk.m \in Msgs /\ st[walk.m] # "new"
      BY DEF WalkInv, Walking
    <2>2. CASE WalkStart
      <3>1. Head(queue) \in Msgs /\ st[Head(queue)] # "new"
        BY <2>2 DEF WalkStart, WalkInv, InQueue
      <3> QED BY <1>2, <1>3, <2>2, <3>1 DEF WalkStart, Finish
    <2>3. CASE WalkSlot
      BY <1>2, <1>3, <2>1, <2>3 DEF WalkSlot, Finish
    <2>4. CASE WalkPastEnd
      BY <1>2, <1>3, <2>1, <2>4 DEF WalkPastEnd, Finish
    <2>5. CASE WalkIgnore \/ WalkTarget \/ WalkFind
      BY <1>3, <2>5 DEF WalkIgnore, WalkTarget, WalkFind
    <2> QED BY <1>5, <2>2, <2>3, <2>4, <2>5 DEF GreaseStep
  <1>6. ASSUME NEW t \in Targets, TargetReady(t) PROVE FALSE
    BY <1>3, <1>6 DEF TargetReady
  <1>7. ASSUME NEW q \in Msgs, Enqueue(q) PROVE FALSE
    BY <1>2, <1>7 DEF Enqueue
  <1>8. ASSUME NEW q \in Msgs, Sift(q) PROVE q = m
    BY <1>1, <1>8 DEF Sift
  <1>9. CASE UNCHANGED vars
    BY <1>3, <1>9 DEF vars
  <1> QED BY <1>4, <1>5, <1>6, <1>7, <1>8, <1>9 DEF Next

\* sift() lets pass what no levelFilterOutMask and no defaultFilterOut stops, and the message
\* takes a list with it that has a filter and covers it, and that no more specific one does:
\* for any table, with addFilter() on the V8 thread at any of its stores.
THEOREM SiftFindsMostSpecific == Spec => SiftsByMostSpecific
  <1> DEFINE Fits(m, k) ==
          IF Covering(m) = {} THEN k = NoList
          ELSE k \in Covering(m) /\ \A l \in Covering(m) : ~MoreSpecific(l, k)
  <1>1. ASSUME FiltersInv, [Next]_vars, NEW m \in Msgs, st[m] = "new", st'[m] # "new"
        PROVE  /\ st'[m] = "sifted" <=> /\ Meta[m].level \notin levelFilterOutMask
                                        /\ Covering(m) # {} \/ ~defaultFilterOut
               /\ st'[m] = "sifted" => Fits(m, cached'[m])
    <2>1. Sift(m)
      BY <1>1, NewIsSifted DEF FiltersInv
    <2>2. /\ st \in [Msgs -> {"new", "out", "sifted", "queued", "dropped", "done", "astray"}]
          /\ cached \in [Msgs -> Keys \cup {NoList}]
      BY <1>1 DEF FiltersInv, WalkInv, Messages
    <2>3. CASE FilteredOut(m) /\ st' = [st EXCEPT ![m] = "out"]
      BY <2>2, <2>3 DEF FilteredOut
    <2>4. CASE /\ ~FilteredOut(m) /\ Unlocked
               /\ cached' = [cached EXCEPT ![m] = FirstKnown(m)]
               /\ st' = [st EXCEPT ![m] = IF FirstKnown(m) = NoList /\ defaultFilterOut
                                          THEN "out" ELSE "sifted"]
      <3>1. Fits(m, FirstKnown(m))
        BY <1>1, <2>4, SiftTakes DEF FiltersInv, Unlocked
      <3>2. FirstKnown(m) = NoList <=> Covering(m) = {}
        BY <3>1, FiltersAssumption DEF Covering
      <3>3. cached'[m] = FirstKnown(m)
        BY <2>2, <2>4
      <3>4. st'[m] = IF Covering(m) = {} /\ defaultFilterOut THEN "out" ELSE "sifted"
        BY <2>2, <2>4, <3>2
      <3>5. Fits(m, cached'[m])
        BY <3>1, <3>3
      <3> HIDE DEF Fits
      <3> QED BY <2>4, <3>4, <3>5 DEF FilteredOut
    <2> QED BY <2>1, <2>3, <2>4 DEF Sift
  <1>2. FiltersInv /\ [Next]_vars =>
          [\A m \in Msgs : st[m] = "new" /\ st'[m] # "new" =>
             /\ st'[m] = "sifted" <=> /\ Meta[m].level \notin levelFilterOutMask
                                      /\ Covering(m) # {} \/ ~defaultFilterOut
             /\ st'[m] = "sifted" =>
                  IF Covering(m) = {} THEN cached'[m] = NoList
                  ELSE /\ cached'[m] \in Covering(m)
                       /\ \A k \in Covering(m) : ~MoreSpecific(k, cached'[m])]_vars
    BY <1>1, Zenon
  <1> QED BY <1>2, FiltersInvariant, PTL DEF Spec, SiftsByMostSpecific

-----------------------------------------------------------------------------
(* A walk that nothing disturbs                                             *)

\* The slots in use come first, at any distance.
NoGaps == \A k \in Keys, i, j \in 1..Slots : i < j /\ list[k][j].id # 0 => list[k][i].id # 0

\* What is stored anywhere but in one slot's id leaves the ids alone.
LEMMA NoGapsNext == Lists /\ Calling /\ Adding /\ NoGaps /\ [Next]_vars => NoGaps'
  <1> SUFFICES ASSUME Lists, Calling, Adding, NoGaps, [Next]_vars PROVE NoGaps'
    OBVIOUS
  <1>1. CASE UNCHANGED list
    BY <1>1 DEF NoGaps
  <1>2. CASE Store
    <2>1. PICK s \in v8.todo :
            \A k \in Keys, n \in 1..Slots :
              list'[k][n].id = IF s = "id" /\ k = v8.key /\ n = v8.n THEN v8.slot.id
                               ELSE list[k][n].id
      BY <1>2, StoreIds
    <2>2. s = "id" => v8.slot.id # 0 /\ \A n \in 1..(v8.n - 1) : list[v8.key][n].id # 0
      BY <2>1 DEF Adding
    <2>3. ASSUME NEW k \in Keys, NEW i \in 1..Slots, NEW j \in 1..Slots, i < j,
                 list'[k][j].id # 0
          PROVE  list'[k][i].id # 0
      <3>1. s = "id" /\ k = v8.key /\ j = v8.n => i \in 1..(v8.n - 1)
        BY <2>3
      <3>2. ~(s = "id" /\ k = v8.key /\ j = v8.n) => list[k][i].id # 0
        BY <2>1, <2>3 DEF NoGaps
      <3> QED BY <2>1, <2>2, <3>1, <3>2
    <2> QED BY <2>3 DEF NoGaps
  <1>3. CASE DisableAdded
    <2>1. \A k \in Keys, n \in 1..Slots : list'[k][n].id = list[k][n].id
      BY <1>3, DisableIds
    <2> QED BY <2>1 DEF NoGaps
  <1>4. UNCHANGED list \/ Store \/ DisableAdded
    BY DEF Next, V8Step, GreaseStep, AddFilter, ModifyFilter, SetGlobalOpts, TargetReady, Sift,
       Enqueue, WalkStart, WalkSlot, WalkPastEnd, WalkIgnore, WalkTarget, WalkFind, v8Vars,
       tableVars, vars
  <1> QED BY <1>1, <1>2, <1>3, <1>4

\* The slots the walk is past that send its message to a target.
Before(t) == {i \in Matching(walk.m, t) : i < walk.n}

\* A message was written nowhere before its walk begins.
Unwritten ==
  \A m \in Msgs : st[m] \in {"new", "sifted", "queued"} /\ (walk.pc = "none" \/ walk.m # m)
                    => \A t \in Outputs : written[m][t] = 0

\* What a walk has written, and remembers of the slot it is at, follows from the list as it
\* is now: nothing has changed it since the walk began.
Following ==
  walk.pc # "none" /\ walk.quiet =>
    /\ \A t \in Outputs : written[walk.m][t] = Cardinality(Before(t))
    /\ walk.wrote <=> \E t \in Outputs : Before(t) # {}
    /\ walk.pc # "slot" => Cur.id # 0 /\ Meta[walk.m].level \in Cur.mask /\ ~Cur.disabled
    /\ walk.pc \in {"target", "find"} => (walk.ignore <=> Cur.target \in Meta[walk.m].ignores)
    /\ walk.pc = "find" => Cur.target # Default
    /\ walk.pc = "slot" => ~walk.ignore

LEMMA RouteInit == Init => NoGaps /\ Unwritten /\ Following
  BY FiltersAssumption DEF Init, NoGaps, Unwritten, Following, NoWalk, EmptySlot

\* A step that changes neither what the walk reads nor what it has done.
LEMMA FollowSame ==
  ASSUME Walking, Following, walk.pc # "none",
         walk'.m = walk.m, walk'.pc = walk.pc, walk'.n = walk.n, walk'.wrote = walk.wrote,
         walk'.ignore = walk.ignore, walk'.quiet => walk.quiet,
         walk'.quiet => list'[cached[walk.m]] = list[cached[walk.m]] /\ ready' = ready,
         cached'[walk.m] = cached[walk.m], written'[walk.m] = written[walk.m]
  PROVE  Following'
  <1>1. CASE ~walk'.quiet
    BY <1>1 DEF Following
  <1>2. CASE walk'.quiet
    <2>1. cached[walk.m] \in Keys /\ list'[cached[walk.m]] = list[cached[walk.m]]
          /\ ready' = ready
      BY <1>2 DEF Walking
    <2>2. Cur' = Cur
      BY <2>1 DEF Cur
    <2>3. \A t \in Outputs : Before(t)' = Before(t)
      BY <2>1 DEF Before, Matching
    <2> QED BY <1>2, <2>2, <2>3 DEF Following
  <1> QED BY <1>1, <1>2

LEMMA MatchingFinite ==
  ASSUME NEW m \in Msgs, NEW t \in Outputs, NEW n \in Nat
  PROVE  /\ Matching(m, t) \subseteq 1..Slots
         /\ IsFiniteSet({i \in Matching(m, t) : i < n})
  <1>1. Matching(m, t) \subseteq 1..Slots
    BY DEF Matching
  <1>2. IsFiniteSet(1..Slots)
    BY FS_Interval, FiltersAssumption
  <1> QED BY <1>1, <1>2, FS_Subset, {i \in Matching(m, t) : i < n} \subseteq 1..Slots

\* A slot more is one more if it matches.
LEMMA OneMore ==
  ASSUME NEW m \in Msgs, NEW t \in Outputs, NEW n \in 1..Slots
  PROVE  /\ Cardinality({i \in Matching(m, t) : i < n}) \in Nat
         /\ n \in Matching(m, t) =>
              /\ Cardinality({i \in Matching(m, t) : i < n + 1})
                   = Cardinality({i \in Matching(m, t) : i < n}) + 1
              /\ {i \in Matching(m, t) : i < n + 1} # {}
         /\ n \notin Matching(m, t) =>
              {i \in Matching(m, t) : i < n + 1} = {i \in Matching(m, t) : i < n}
  <1> DEFINE B == {i \in Matching(m, t) : i < n}
             C == {i \in Matching(m, t) : i < n + 1}
  <1>1. Matching(m, t) \subseteq 1..Slots /\ IsFiniteSet(B) /\ n \in Nat
    BY MatchingFinite, FiltersAssumption
  <1>2. Cardinality(B) \in Nat
    BY <1>1, FS_CardinalityType
  <1>3. CASE n \in Matching(m, t)
    <2>1. C = B \cup {n} /\ n \notin B
      BY <1>1, <1>3
    <2> HIDE DEF B, C
    <2>2. Cardinality(C) = Cardinality(B) + 1
      BY ONLY <1>1, <2>1, FS_AddElement
    <2>3. C # {}
      BY <2>1
    <2> QED BY <1>2, <1>3, <2>2, <2>3, Zenon DEF B, C
  <1>4. CASE n \notin Matching(m, t)
    <2>1. C = B
      BY <1>1, <1>4
    <2> QED BY <1>2, <1>4, <2>1, Zenon
  <1> QED BY <1>3, <1>4

\* A walk that goes on to the next slot has written for the one it leaves.
LEMMA FollowNext ==
  ASSUME Walking, Following, walk.pc # "none", walk.n \in 1..Slots, UNCHANGED <<list, ready, cached>>,
         NEW b \in BOOLEAN, NextSlot(b),
         walk.quiet => (b <=> \E t \in Outputs : walk.n \in Matching(walk.m, t)),
         walk.quiet => \A t \in Outputs :
           written'[walk.m][t] = IF walk.n \in Matching(walk.m, t) THEN written[walk.m][t] + 1
                                                                   ELSE written[walk.m][t]
  PROVE  Following'
  <1>1. walk.m \in Msgs /\ walk.wrote \in BOOLEAN
    BY DEF Walking, WalkRecord
  <1>2. /\ walk'.m = walk.m /\ walk'.pc = "slot" /\ walk'.n = walk.n + 1
        /\ walk'.wrote = (walk.wrote \/ b) /\ walk'.quiet = walk.quiet /\ walk'.ignore = FALSE
    BY DEF NextSlot
  <1>3. CASE ~walk.quiet
    BY <1>2, <1>3 DEF Following
  <1>4. CASE walk.quiet
    <2>1. ASSUME NEW t \in Outputs
          PROVE  /\ Before(t)' = {i \in Matching(walk.m, t) : i < walk.n + 1}
                 /\ Before(t) = {i \in Matching(walk.m, t) : i < walk.n}
      BY <1>2 DEF Before, Matching
    <2>2. ASSUME NEW t \in Outputs
          PROVE  /\ Cardinality(Before(t)) \in Nat
                 /\ walk.n \in Matching(walk.m, t)
                      => Cardinality(Before(t)') = Cardinality(Before(t)) + 1 /\ Before(t)' # {}
                 /\ walk.n \notin Matching(walk.m, t) => Before(t)' = Before(t)
      <3> DEFINE B == {i \in Matching(walk.m, t) : i < walk.n}
                 C == {i \in Matching(walk.m, t) : i < walk.n + 1}
      <3>1. /\ Cardinality(B) \in Nat
            /\ walk.n \in Matching(walk.m, t) => Cardinality(C) = Cardinality(B) + 1 /\ C # {}
            /\ walk.n \notin Matching(walk.m, t) => C = B
        <4>1. walk.m \in Msgs /\ t \in Outputs /\ walk.n \in 1..Slots
          BY <1>1
        <4> QED BY ONLY <4>1, OneMore, Zenon
      <3> QED BY <2>1, <3>1, Zenon
    <2>3. \A t \in Outputs : written[walk.m][t] = Cardinality(Before(t))
      BY <1>4 DEF Following
    <2>4. \A t \in Outputs : written'[walk.m][t] = Cardinality(Before(t)')
      <3> SUFFICES ASSUME NEW t \in Outputs PROVE written'[walk.m][t] = Cardinality(Before(t)')
        OBVIOUS
      <3>1. CASE walk.n \in Matching(walk.m, t)
        <4>1. written'[walk.m][t] = written[walk.m][t] + 1
          BY <1>4, <3>1
        <4>2. Cardinality(Before(t)') = Cardinality(Before(t)) + 1
          BY <2>2, <3>1
        <4> QED BY <2>3, <4>1, <4>2, Zenon
      <3>2. CASE walk.n \notin Matching(walk.m, t)
        BY <1>4, <2>2, <2>3, <3>2, Zenon
      <3> QED BY <3>1, <3>2
    <2>5. walk.wrote <=> \E t \in Outputs : Before(t) # {}
      BY <1>4 DEF Following
    <2>6. \A t \in Outputs : Before(t) # {} => Before(t)' # {}
      <3>1. \A t \in Outputs : walk.n \notin Matching(walk.m, t) => Before(t)' = Before(t)
        BY <2>2
      <3>2. \A t \in Outputs : walk.n \in Matching(walk.m, t) => Before(t)' # {}
        BY <2>2
      <3> QED BY <3>1, <3>2, Zenon
    <2>7. walk'.wrote <=> \E t \in Outputs : Before(t)' # {}
      <3>1. (\E t \in Outputs : Before(t)' # {})
              <=> (\E t \in Outputs : Before(t) # {})
                  \/ (\E t \in Outputs : walk.n \in Matching(walk.m, t))
        BY <2>2, <2>6, Zenon
      <3> QED BY <1>2, <1>4, <2>5, <3>1, Zenon
    <2> QED BY <1>2, <2>4, <2>7 DEF Following
  <1> QED BY <1>3, <1>4

\* A step of another thread than the grease thread's writes nothing.
LEMMA RouteBeside ==
  ASSUME WalkInv, Unwritten, Following, UNCHANGED written,
         walk' \in WalkRecord, walk'.m = walk.m, walk'.pc = walk.pc, walk'.n = walk.n,
         walk'.wrote = walk.wrote, walk'.ignore = walk.ignore, walk'.quiet => walk.quiet,
         walk.pc # "none" /\ walk'.quiet =>
           list'[cached[walk.m]] = list[cached[walk.m]] /\ ready' = ready,
         \A m \in Msgs : st'[m] \in {"new", "sifted", "queued"}
                           => st[m] \in {"new", "sifted", "queued"},
         walk.pc # "none" => cached'[walk.m] = cached[walk.m]
  PROVE  (Unwritten /\ Following)'
  <1>1. Unwritten'
    BY DEF Unwritten
  <1>2. CASE walk.pc # "none"
    BY <1>1, <1>2, FollowSame DEF WalkInv
  <1>3. CASE walk.pc = "none"
    BY <1>1, <1>3 DEF Following
  <1> QED BY <1>2, <1>3

\* A store to the list that is walked is noted.
LEMMA StoreNoted ==
  ASSUME Lists, WalkInv, NEW k \in Keys, walk' = Disturbed(k),
         \A l \in Keys : l # k => list'[l] = list[l]
  PROVE  /\ walk' \in WalkRecord /\ walk'.m = walk.m /\ walk'.pc = walk.pc /\ walk'.n = walk.n
         /\ walk'.wrote = walk.wrote /\ walk'.ignore = walk.ignore
         /\ walk'.quiet => walk.quiet
         /\ walk.pc # "none" /\ walk'.quiet => list'[cached[walk.m]] = list[cached[walk.m]]
  <1>1. walk \in WalkRecord
    BY DEF WalkInv, Walking
  <1>2. CASE walk.m \in Msgs /\ cached[walk.m] = k
    <2>1. walk' = [walk EXCEPT !.quiet = FALSE]
      BY <1>2 DEF Disturbed
    <2> QED BY <1>1, <2>1 DEF WalkRecord
  <1>3. CASE ~(walk.m \in Msgs /\ cached[walk.m] = k)
    <2>1. walk' = walk
      BY <1>3 DEF Disturbed
    <2>2. walk.pc # "none" => walk.m \in Msgs /\ cached[walk.m] \in Keys
      BY DEF WalkInv, Walking
    <2> QED BY <1>1, <1>3, <2>1, <2>2
  <1> QED BY <1>2, <1>3

\* A walk that ends leaves no other message written.
LEMMA RouteEnds ==
  ASSUME WalkInv, Unwritten, NEW m \in Msgs, NEW e \in {"dropped", "done", "astray"},
         walk.pc = "none" \/ walk.m = m, walk' = NoWalk, st' = [st EXCEPT ![m] = e],
         written' = written \/ \E t \in Outputs : written' = Written(m, t)
  PROVE  (Unwritten /\ Following)'
  <1>1. walk'.pc = "none"
    BY DEF NoWalk
  <1>2. \A o \in Msgs : o # m => st'[o] = st[o] /\ written'[o] = written[o]
    BY DEF WalkInv, Messages, Written
  <1>3. st'[m] = e
    BY DEF WalkInv, Messages
  <1> QED BY <1>1, <1>2, <1>3 DEF Unwritten, Following

\* A walk that goes on writes its own message.
LEMMA OthersUnwritten ==
  ASSUME WalkInv, Unwritten, walk.pc # "none", walk'.pc # "none", walk'.m = walk.m, UNCHANGED st,
         written' = written \/ \E t \in Outputs : written' = Written(walk.m, t)
  PROVE  Unwritten'
  <1>1. \A o \in Msgs : o # walk.m => written'[o] = written[o]
    BY DEF WalkInv, Messages, Written
  <1> QED BY <1>1 DEF Unwritten

LEMMA RouteNext == Lists /\ Calling /\ WalkInv /\ Unwritten /\ Following /\ [Next]_vars
                     => (Unwritten /\ Following)'
  <1> SUFFICES ASSUME Lists, Calling, WalkInv, Unwritten, Following, [Next]_vars
               PROVE  (Unwritten /\ Following)'
    OBVIOUS
  <1>0. walk \in WalkRecord
    BY DEF WalkInv, Walking
  <1>1. ASSUME NEW a \in AddArgs, AddFilter(a) PROVE (Unwritten /\ Following)'
    BY <1>0, <1>1, RouteBeside DEF AddFilter
  <1>2. ASSUME NEW k \in Keys, NEW n \in 1..Slots, NEW d \in BOOLEAN, NEW t \in Outputs,
              ModifyFilter(k, n, [list[k][n] EXCEPT !.disabled = d, !.target = t])
       PROVE (Unwritten /\ Following)'
    BY <1>0, <1>2, RouteBeside DEF ModifyFilter, tableVars
  <1>3. CASE Store
    <2>1. PICK s \in v8.todo :
            \/ UNCHANGED list
            \/ list' = [list EXCEPT ![v8.key][v8.n][s] = v8.slot[s]]
      BY <1>3 DEF Store
    <2>2. v8.key \in Keys /\ walk' = Disturbed(v8.key)
          /\ UNCHANGED <<ready, st, cached, written>>
      BY <1>3 DEF Store, Calling
    <2>3. \A l \in Keys : l # v8.key => list'[l] = list[l]
      BY <2>1 DEF Lists
    <2> QED BY <2>2, <2>3, StoreNoted, RouteBeside
  <1>4. CASE DisableAdded
    <2>1. /\ v8.key \in Keys /\ walk' = Disturbed(v8.key)
          /\ UNCHANGED <<ready, st, cached, written>>
          /\ list' = [list EXCEPT ![v8.key][v8.n].disabled = TRUE]
      BY <1>4 DEF DisableAdded, Calling
    <2>2. \A l \in Keys : l # v8.key => list'[l] = list[l]
      BY <2>1 DEF Lists
    <2> QED BY <2>1, <2>2, StoreNoted, RouteBeside
  <1>5. CASE SetGlobalOpts
    BY <1>0, <1>5, RouteBeside DEF SetGlobalOpts, tableVars
  <1>6. ASSUME NEW t \in Targets, TargetReady(t) PROVE (Unwritten /\ Following)'
    <2>1. UNCHANGED <<st, cached, written, list>> /\ walk' = [walk EXCEPT !.quiet = (walk = NoWalk)]
      BY <1>6 DEF TargetReady, v8Vars, tableVars
    <2>2. /\ walk' \in WalkRecord /\ walk'.m = walk.m /\ walk'.pc = walk.pc /\ walk'.n = walk.n
          /\ walk'.wrote = walk.wrote /\ walk'.ignore = walk.ignore
          /\ walk'.quiet <=> walk = NoWalk
      BY <1>0, <2>1 DEF WalkRecord
    <2>3. walk'.quiet => walk.quiet /\ walk.pc = "none"
      BY <2>2 DEF NoWalk
    <2> QED BY <2>1, <2>2, <2>3, RouteBeside
  <1>7. ASSUME NEW m \in Msgs, Sift(m) PROVE (Unwritten /\ Following)'
    <2>1. UNCHANGED <<list, ready, walk, written>> /\ st[m] = "new"
      BY <1>7 DEF Sift, v8Vars, tableVars
    <2>2. \A o \in Msgs : o # m => st'[o] = st[o] /\ cached'[o] = cached[o]
      BY <1>7 DEF Sift, WalkInv, Messages
    <2>3. walk.pc # "none" => walk.m \in Msgs /\ walk.m # m
      BY <2>1 DEF WalkInv, Walking
    <2> QED BY <1>0, <2>1, <2>2, <2>3, RouteBeside
  <1>8. ASSUME NEW m \in Msgs, Enqueue(m) PROVE (Unwritten /\ Following)'
    <2>1. UNCHANGED <<list, ready, cached, walk, written>> /\ st[m] = "sifted"
          /\ st' = [st EXCEPT ![m] = "queued"]
      BY <1>8 DEF Enqueue, v8Vars, tableVars
    <2>2. \A o \in Msgs : o # m => st'[o] = st[o]
      BY <2>1 DEF WalkInv, Messages
    <2> QED BY <1>0, <2>1, <2>2, RouteBeside
  <1>9. CASE WalkStart
    <2> DEFINE m == Head(queue)
    <2>1. walk.pc = "none" /\ m \in Msgs /\ st[m] = "queued" /\ UNCHANGED <<list, ready, cached>>
          /\ walk = NoWalk
      BY <1>9 DEF WalkStart, WalkInv, InQueue, NoWalk, v8Vars, tableVars
    <2>2. CASE st' = [st EXCEPT ![m] = "dropped"] /\ UNCHANGED <<walk, written>>
      BY <2>1, <2>2, RouteEnds
    <2>3. CASE /\ UNCHANGED <<st, written>>
               /\ walk' = [m |-> m, pc |-> "slot", n |-> 1, wrote |-> FALSE, ignore |-> FALSE,
                           quiet |-> Settled(cached[m])]
      <3>1. walk'.m = m /\ walk'.pc = "slot" /\ walk'.n = 1 /\ walk'.wrote = FALSE /\ walk'.ignore = FALSE
        BY <2>3
      <3>2. Unwritten'
        BY <2>1, <2>3 DEF Unwritten
      <3>3. \A t \in Outputs : Before(t)' = {}
        <4>1. \A t \in Outputs : Matching(walk.m, t)' \subseteq 1..Slots
          BY DEF Matching
        <4> QED BY <3>1, <4>1, FiltersAssumption DEF Before
      <3>4. \A t \in Outputs : written'[m][t] = 0
        BY <2>1, <2>3 DEF Unwritten
      <3>5. \A t \in Outputs : written'[m][t] = Cardinality(Before(t)')
        BY <3>3, <3>4, FS_EmptySet
      <3> QED BY <3>1, <3>2, <3>3, <3>5 DEF Following
    <2>4. CASE Finish(m, FALSE)
      BY <2>1, <2>4, RouteEnds DEF Finish, Outputs
    <2> HIDE DEF m
    <2> QED BY <1>9, <2>2, <2>3, <2>4 DEF WalkStart, m
  <1>10. CASE WalkSlot
    <2>1. walk.pc = "slot" /\ walk.m \in Msgs /\ walk.n \in 1..Slots /\ UNCHANGED <<list, ready, cached>>
          /\ cached[walk.m] \in Keys
      BY <1>10, FiltersAssumption DEF WalkSlot, WalkInv, Walking, v8Vars, tableVars
    <2>2. CASE Finish(walk.m, walk.wrote)
      BY <2>1, <2>2, RouteEnds DEF Finish, Outputs
    <2>3. CASE /\ Cur.id # 0 /\ Meta[walk.m].level \in Cur.mask /\ ~Cur.disabled
               /\ walk' = [walk EXCEPT !.pc = IF Meta[walk.m].ignores = {} THEN "target"
                                                                          ELSE "ignore"]
               /\ UNCHANGED <<st, written>>
      <3>1. /\ walk'.m = walk.m /\ walk'.n = walk.n /\ walk'.wrote = walk.wrote
            /\ walk'.quiet = walk.quiet /\ walk'.ignore = walk.ignore
            /\ walk'.pc = IF Meta[walk.m].ignores = {} THEN "target" ELSE "ignore"
        BY <1>0, <2>3 DEF WalkRecord
      <3>2. Unwritten'
        BY <2>1, <2>3, <3>1 DEF Unwritten
      <3>3. Cur' = Cur /\ \A t \in Outputs : Before(t)' = Before(t)
        BY <2>1, <3>1 DEF Cur, Before, Matching
      <3>4. walk'.pc = "target" => Meta[walk.m].ignores = {}
        BY <3>1
      <3> QED BY <2>1, <2>3, <3>1, <3>2, <3>3, <3>4 DEF Following
    <2>4. CASE /\ Cur.id # 0 /\ (Meta[walk.m].level \notin Cur.mask \/ Cur.disabled)
               /\ NextSlot(FALSE) /\ UNCHANGED <<st, written>>
      <3>1. \A t \in Outputs : walk.n \notin Matching(walk.m, t)
        BY <2>1, <2>4 DEF Matching, Cur
      <3>2. Following'
        BY <2>1, <2>4, <3>1, FollowNext DEF WalkInv
      <3>3. walk'.m = walk.m /\ walk'.pc = "slot"
        BY <2>4 DEF NextSlot
      <3> QED BY <2>1, <2>4, <3>2, <3>3, OthersUnwritten
    <2> QED BY <1>10, <2>2, <2>3, <2>4 DEF WalkSlot
  <1>11. CASE WalkPastEnd
    <2>1. walk.m \in Msgs /\ ready \subseteq Targets
      BY <1>11 DEF WalkPastEnd, WalkInv, Walking, Messages
    <2>2. CASE Finish(walk.m, walk.wrote)
      BY <2>1, <2>2, RouteEnds DEF Finish, Outputs
    <2>3. ASSUME NEW t \in ready \cup {Default}, written' = Written(walk.m, t), walk' = NoWalk,
                 st' = [st EXCEPT ![walk.m] = "astray"]
          PROVE  (Unwritten /\ Following)'
      BY <2>1, <2>3, RouteEnds DEF Outputs
    <2> QED BY <1>11, <2>2, <2>3 DEF WalkPastEnd
  <1>12. CASE WalkIgnore
    <2>1. walk.pc = "ignore" /\ walk.m \in Msgs /\ UNCHANGED <<list, ready, cached, st, written>>
          /\ walk' = [walk EXCEPT !.pc = "target", !.ignore = Ignored(walk.m, Cur.target)]
      BY <1>12 DEF WalkIgnore, WalkInv, Walking, v8Vars, tableVars
    <2>2. /\ walk'.m = walk.m /\ walk'.n = walk.n /\ walk'.wrote = walk.wrote
          /\ walk'.quiet = walk.quiet /\ walk'.ignore = Ignored(walk.m, Cur.target)
          /\ walk'.pc = "target"
      BY <1>0, <2>1 DEF WalkRecord
    <2>3. Unwritten'
      BY <2>1, <2>2 DEF Unwritten
    <2>4. Cur' = Cur /\ \A t \in Outputs : Before(t)' = Before(t)
      BY <2>1, <2>2 DEF Cur, Before, Matching
    <2> QED BY <2>1, <2>2, <2>3, <2>4 DEF Following, Ignored
  <1>13. CASE WalkTarget
    <2>1. walk.pc = "target" /\ walk.m \in Msgs /\ walk.n \in 1..Slots
          /\ cached[walk.m] \in Keys /\ UNCHANGED <<list, ready, cached, st>>
      BY <1>13, FiltersAssumption DEF WalkTarget, WalkInv, Walking, v8Vars, tableVars
    <2>2. CASE Cur.target = Default /\ written' = Written(walk.m, Default) /\ NextSlot(TRUE)
      <3>1. walk.quiet => Cur.id # 0 /\ Meta[walk.m].level \in Cur.mask /\ ~Cur.disabled
        BY <2>1 DEF Following
      <3>2. walk.quiet => \A t \in Outputs : walk.n \in Matching(walk.m, t) <=> t = Default
        BY <2>1, <2>2, <3>1, FiltersAssumption DEF Matching, Cur
      <3>3. Default \in Outputs
        BY DEF Outputs
      <3>4. \A t \in Outputs : written'[walk.m][t] = IF t = Default THEN written[walk.m][t] + 1
                                                                    ELSE written[walk.m][t]
        BY <2>1, <2>2, <3>3 DEF Written, WalkInv, Messages
      <3>5. Following'
        BY <2>1, <2>2, <3>2, <3>3, <3>4, FollowNext DEF WalkInv
      <3>6. walk'.m = walk.m /\ walk'.pc = "slot"
        BY <2>2 DEF NextSlot
      <3> QED BY <2>1, <2>2, <3>3, <3>5, <3>6, OthersUnwritten
    <2>3. CASE Cur.target # Default /\ walk' = [walk EXCEPT !.pc = "find"] /\ UNCHANGED written
      <3>1. /\ walk'.m = walk.m /\ walk'.n = walk.n /\ walk'.wrote = walk.wrote
            /\ walk'.quiet = walk.quiet /\ walk'.ignore = walk.ignore /\ walk'.pc = "find"
        BY <1>0, <2>3 DEF WalkRecord
      <3>2. Unwritten'
        BY <2>1, <2>3, <3>1 DEF Unwritten
      <3>3. Cur' = Cur /\ \A t \in Outputs : Before(t)' = Before(t)
        BY <2>1, <3>1 DEF Cur, Before, Matching
      <3> QED BY <2>1, <2>3, <3>1, <3>2, <3>3 DEF Following
    <2> QED BY <1>13, <2>2, <2>3 DEF WalkTarget
  <1>14. CASE WalkFind
    <2> DEFINE found == ~walk.ignore /\ Cur.target \in ready
    <2>1. walk.pc = "find" /\ walk.m \in Msgs /\ walk.n \in 1..Slots /\ cached[walk.m] \in Keys
          /\ UNCHANGED <<list, ready, cached, st>> /\ Cur.target \in Outputs
      <3>1. walk.pc # "none" /\ walk.n <= Slots /\ Walking
        BY <1>14 DEF WalkFind, WalkInv, Walking
      <3>2. Cur \in Slot
        BY <3>1, CurType
      <3> QED BY <1>14, <3>1, <3>2, FiltersAssumption
            DEF WalkFind, Walking, v8Vars, tableVars, Slot
    <2>2. NextSlot(found) /\ written' = IF found THEN Written(walk.m, Cur.target) ELSE written
      BY <1>14 DEF WalkFind, Wrote
    <2>3. walk.quiet => /\ Cur.id # 0 /\ Meta[walk.m].level \in Cur.mask /\ ~Cur.disabled
                        /\ walk.ignore <=> Cur.target \in Meta[walk.m].ignores
                        /\ Cur.target # Default
      BY <2>1 DEF Following
    <2>4. walk.quiet => \A t \in Outputs :
                          walk.n \in Matching(walk.m, t) <=> found /\ t = Cur.target
      BY <2>1, <2>3, FiltersAssumption DEF Matching, Cur
    <2>5. \A t \in Outputs : written'[walk.m][t] = IF found /\ t = Cur.target
                                                   THEN written[walk.m][t] + 1
                                                   ELSE written[walk.m][t]
      BY <2>1, <2>2 DEF Written, WalkInv, Messages
    <2>6. found \in BOOLEAN
      OBVIOUS
    <2> HIDE DEF found
    <2>7. walk.quiet => (found <=> \E t \in Outputs : walk.n \in Matching(walk.m, t))
      BY <2>1, <2>4
    <2>8. Following'
      BY <2>1, <2>2, <2>4, <2>5, <2>6, <2>7, FollowNext DEF WalkInv
    <2>9. walk'.m = walk.m /\ walk'.pc = "slot"
      BY <2>2 DEF NextSlot
    <2> QED BY <2>1, <2>2, <2>8, <2>9, OthersUnwritten
  <1>15. CASE UNCHANGED vars
    BY <1>0, <1>15, RouteBeside DEF vars, v8Vars, tableVars
  <1> QED BY <1>1, <1>2, <1>3, <1>4, <1>5, <1>6, <1>7, <1>8, <1>9, <1>10, <1>11,
      <1>12, <1>13, <1>14, <1>15
    DEF Next, V8Step, GreaseStep

\* Where the walk ends there is no filter left that it has not seen.
LEMMA AllSeen ==
  ASSUME Lists, WalkInv, NoGaps, walk.pc = "slot", walk.n > Slots \/ Cur.id = 0, NEW t \in Outputs
  PROVE  Before(t) = Matching(walk.m, t)
  <1>1. walk.m \in Msgs /\ cached[walk.m] \in Keys /\ walk.n \in 1..(Slots + 1)
    BY DEF WalkInv, Walking
  <1>2. Matching(walk.m, t) \subseteq 1..Slots
    BY DEF Matching
  <1>3. ASSUME NEW i \in Matching(walk.m, t), ~(i < walk.n) PROVE FALSE
    <2>1. i \in 1..Slots /\ list[cached[walk.m]][i].id # 0 /\ walk.n <= i
      BY <1>1, <1>2, <1>3, FiltersAssumption DEF Matching
    <2>2. walk.n \in 1..Slots /\ Cur.id = 0
      BY <1>1, <2>1, FiltersAssumption
    <2> QED BY <1>1, <2>1, <2>2 DEF NoGaps, Cur
  <1> QED BY <1>3 DEF Before

\* A walk writes the default target once if it has written nothing, and else nothing more.
LEMMA LastWrite ==
  ASSUME WalkInv, NEW m \in Msgs, NEW wrote \in BOOLEAN, Finish(m, wrote),
         \A t \in Outputs : written[m][t] = Cardinality(Matching(m, t)),
         wrote <=> \E t \in Outputs : Matching(m, t) # {},
         NEW t \in Outputs
  PROVE  written'[m][t] = IF t = Default /\ \A o \in Outputs : Matching(m, o) = {}
                          THEN 1 ELSE Cardinality(Matching(m, t))
  <1>1. CASE wrote
    BY <1>1 DEF Finish
  <1>2. CASE ~wrote
    <2>1. written' = Written(m, Default)
      BY <1>2 DEF Finish
    <2>2. written'[m][t] = IF t = Default THEN written[m][t] + 1 ELSE written[m][t]
      BY <2>1 DEF Written, WalkInv, Messages, Outputs
    <2>3. Matching(m, t) = {} /\ written[m][t] = 0
      BY <1>2, FS_EmptySet
    <2> QED BY <1>2, <2>2, <2>3
  <1> QED BY <1>1, <1>2

\* Every route there is to the end of a message.
LEMMA DoneAtFinish ==
  ASSUME WalkInv, [Next]_vars, NEW m \in Msgs, st[m] = "queued", st'[m] = "done"
  PROVE  \/ WalkStart /\ m = Head(queue) /\ ~Passes(cached[m], Meta[m].level) /\ Finish(m, FALSE)
         \/ WalkSlot /\ m = walk.m /\ Cur.id = 0 /\ Finish(m, walk.wrote)
         \/ WalkPastEnd /\ m = walk.m /\ Finish(m, walk.wrote)
  <1>1. \A o, e : st' = [st EXCEPT ![o] = e] => m = o /\ e = "done"
    BY DEF WalkInv, Messages
  <1>2. ASSUME NEW q \in Msgs, Sift(q) PROVE FALSE
    BY <1>2 DEF Sift, WalkInv, Messages
  <1>3. CASE WalkStart
    <2>1. CASE st' = [st EXCEPT ![Head(queue)] = "dropped"]
      BY <1>1, <2>1
    <2>2. CASE ~Passes(cached[Head(queue)], Meta[Head(queue)].level) /\ Finish(Head(queue), FALSE)
      <3>1. m = Head(queue)
        BY <1>1, <2>2 DEF Finish
      <3> QED BY <1>3, <2>2, <3>1
    <2> QED BY <1>3, <2>1, <2>2 DEF WalkStart
  <1>4. CASE WalkSlot
    <2>1. Cur.id = 0 /\ Finish(walk.m, walk.wrote)
      BY <1>4 DEF WalkSlot
    <2>2. m = walk.m
      BY <1>1, <2>1 DEF Finish
    <2> QED BY <1>4, <2>1, <2>2
  <1>5. CASE WalkPastEnd
    <2>1. CASE Finish(walk.m, walk.wrote)
      <3>1. m = walk.m
        BY <1>1, <2>1 DEF Finish
      <3> QED BY <1>5, <2>1, <3>1
    <2>2. CASE st' = [st EXCEPT ![walk.m] = "astray"]
      BY <1>1, <2>2
    <2> QED BY <1>5, <2>1, <2>2 DEF WalkPastEnd
  <1>6. UNCHANGED st \/ (\E q \in Msgs : Sift(q) \/ Enqueue(q)) \/ WalkStart \/ WalkSlot
        \/ WalkPastEnd
    BY DEF Next, V8Step, GreaseStep, AddFilter, ModifyFilter, Store, DisableAdded, SetGlobalOpts,
       TargetReady, WalkIgnore, WalkTarget, WalkFind, vars
  <1>7. ASSUME NEW q \in Msgs, Enqueue(q) PROVE FALSE
    BY <1>1, <1>7 DEF Enqueue
  <1> QED BY <1>2, <1>3, <1>4, <1>5, <1>6, <1>7

LEMMA RoutedAsListed ==
  ASSUME Lists, Calling, ListsSound, WalkInv, NoGaps, Unwritten, Following, [Next]_vars,
         NEW m \in Msgs, st[m] = "queued", st'[m] = "done", Quiet(m), NEW t \in Outputs
  PROVE  written'[m][t] = IF t = Default /\ \A o \in Outputs : Matching(m, o) = {}
                          THEN 1 ELSE Cardinality(Matching(m, t))
  <1>1. CASE WalkStart /\ m = Head(queue) /\ ~Passes(cached[m], Meta[m].level) /\ Finish(m, FALSE)
    <2>1. walk = NoWalk /\ walk.pc = "none"
      BY <1>1 DEF WalkStart, NoWalk
    <2>2. \A o \in Outputs : written[m][o] = 0
      BY <2>1 DEF Unwritten
    <2>3. \A o \in Outputs : Matching(m, o) = {}
      <3>1. CASE cached[m] = NoList
        BY <3>1 DEF Matching
      <3>2. CASE cached[m] # NoList
        <4>1. cached[m] \in Keys /\ Meta[m].level \notin bloom[cached[m]]
          BY <1>1, <3>2 DEF Passes, WalkInv, Messages
        <4>2. v8.key # cached[m] \/ ~v8.locked
          BY <2>1, IdleType DEF Quiet, Settled
        <4>3. \A n \in 1..Slots : list[cached[m]][n].mask \subseteq bloom[cached[m]]
          BY <4>1, <4>2 DEF ListsSound
        <4> QED BY <4>1, <4>3 DEF Matching
      <3> QED BY <3>1, <3>2
    <2>4. \A o \in Outputs : written[m][o] = Cardinality(Matching(m, o))
      BY <2>2, <2>3, FS_EmptySet
    <2> QED BY <1>1, <2>3, <2>4, LastWrite
  <1>2. CASE m = walk.m /\ walk.pc = "slot" /\ (walk.n > Slots \/ Cur.id = 0) /\ Finish(m, walk.wrote)
    <2>1. walk # NoWalk /\ walk.quiet /\ walk.wrote \in BOOLEAN
      BY <1>2 DEF Quiet, NoWalk, WalkInv, Walking, WalkRecord
    <2>2. \A o \in Outputs : Before(o) = Matching(m, o)
      BY <1>2, AllSeen
    <2>3. /\ \A o \in Outputs : written[m][o] = Cardinality(Before(o))
          /\ walk.wrote <=> \E o \in Outputs : Before(o) # {}
      BY <1>2, <2>1 DEF Following
    <2>4. /\ \A o \in Outputs : written[m][o] = Cardinality(Matching(m, o))
          /\ walk.wrote <=> \E o \in Outputs : Matching(m, o) # {}
      BY <2>2, <2>3
    <2> QED BY <1>2, <2>1, <2>4, LastWrite
  <1> QED BY <1>1, <1>2, DoneAtFinish DEF WalkSlot, WalkPastEnd

\* A walk whose list no call changes meanwhile writes its message once for each filter of the
\* list that matches, to that filter's target, and to the default target if none does; the
\* list may have changed at any time between sift() and the walk (handleInternalCmd).
THEOREM RoutesFollowTheList == Spec => RoutesAsListed
  <1> DEFINE Inv == FiltersInv /\ NoGaps /\ Unwritten /\ Following
  <1>1. Init => Inv
    BY ListsInit, AddingInit, FilledInit, WalkInit, PassedInit, RouteInit DEF FiltersInv
  <1>2. Inv /\ [Next]_vars => Inv'
    <2>1. FiltersInv /\ [Next]_vars => FiltersInv'
      BY ListsNext, AddingNext, FilledNext, WalkInvNext, PassedNext DEF FiltersInv
    <2> QED BY <2>1, NoGapsNext, RouteNext DEF FiltersInv
  <1>3. Inv /\ [Next]_vars
          => \A m \in Msgs : st[m] = "queued" /\ st'[m] = "done" /\ Quiet(m) =>
               \A t \in Outputs : written'[m][t] =
                 IF t = Default /\ \A o \in Outputs : Matching(m, o) = {}
                 THEN 1 ELSE Cardinality(Matching(m, t))
    BY RoutedAsListed DEF FiltersInv
  <1> QED BY <1>1, <1>2, <1>3, PTL DEF Spec, RoutesAsListed
=============================================================================
