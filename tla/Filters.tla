------------------------------- MODULE Filters -------------------------------
(***************************************************************************)
(* The filters of greaseLog.  addFilter() and modifyFilter() change the      *)
(* filter lists on the V8 thread; sift() looks a message up on the thread    *)
(* that logs it and leaves the list it found in the message; the grease      *)
(* thread walks that list later, without modifyFilters, and writes the       *)
(* message to the targets of the filters that match.                        *)
(*                                                                         *)
(* A key is <<tag, origin>>, 0 standing for `none given'.  A level mask is a  *)
(* set of levels.  A definition X_Y is X with the mistake Y.                 *)
(***************************************************************************)
EXTENDS Integers, FiniteSets, Sequences

CONSTANTS
  Msgs,
  Meta,        \* [tag, origin, level, ignores, js] of each message; js: JavaScript logs it;
               \* ignores: the targets in the list _log() copies
  Levels,
  Targets,     \* ids of the targets besides the default one
  Slots,       \* MAX_IDENTICAL_FILTERS
  NoList,
  AddArgs,     \* [key, mask, target, disable]: what addFilter() is called with
  OutMasks,    \* levelFilterOutMask values given to setGlobalOpts()
  MaxAdds, MaxModifies, MaxOpts,  \* bounds on the calls JavaScript makes,
  MaxLogs                         \* and on the messages logged

Default == 0   \* DEFAULT_TARGET; also the target of an empty slot
Outputs == Targets \cup {Default}
Keys == {a.key : a \in AddArgs}
Fields == {"id", "mask", "target", "bloom", "disabled"}

ASSUME FiltersAssumption ==
  /\ Default \notin Targets /\ Slots \in Nat \ {0} /\ NoList \notin Keys
  /\ Keys \subseteq Nat \X Nat
  /\ \A a \in AddArgs : /\ a.mask \subseteq Levels /\ a.target \in Outputs
                         /\ a.disable \in BOOLEAN
  /\ OutMasks \subseteq (SUBSET Levels) \ {{}}

VARIABLES
  known, list, bloom,    \* filterHashTable: the keys with a FilterList, their slots, bloom
  nextFilterId,
  levelFilterOutMask, defaultFilterOut,
  ready,                 \* targets that are in the table `targets'
  v8,                    \* what the call the V8 thread is in still has to store
  adds, modifies, opts,  \* calls made so far
  st,                    \* where a message stands
  cached,                \* _cached_lists: the key of the list sift() found
  queue, walk,           \* internalCmdQueue; the walk the grease thread is on
  written                \* how often each target got each message

tableVars == <<known, list, bloom>>
v8Vars == <<tableVars, nextFilterId, levelFilterOutMask, defaultFilterOut, v8, adds,
            modifies, opts>>
vars == <<v8Vars, ready, st, cached, queue, walk, written>>

EmptySlot == [id |-> 0, mask |-> {}, target |-> Default, disabled |-> FALSE]
Idle == [key |-> NoList, n |-> 0, todo |-> {}, slot |-> EmptySlot, locked |-> FALSE,
         disable |-> FALSE]
NoWalk == [m |-> NoList, pc |-> "none", n |-> 0, wrote |-> FALSE, ignore |-> FALSE,
           quiet |-> TRUE]

Init ==
  /\ known = {}
  /\ list = [k \in Keys |-> [n \in 1..Slots |-> EmptySlot]]
  /\ bloom = [k \in Keys |-> {}]
  /\ nextFilterId = 1
  /\ levelFilterOutMask = {} /\ defaultFilterOut = FALSE
  /\ ready = {}
  /\ v8 = Idle /\ adds = 0 /\ modifies = 0 /\ opts = 0
  /\ st = [m \in Msgs |-> "new"] /\ cached = [m \in Msgs |-> NoList]
  /\ queue = <<>> /\ walk = NoWalk
  /\ written = [m \in Msgs |-> [t \in Outputs |-> 0]]

-----------------------------------------------------------------------------
(* The V8 thread                                                            *)

\* Log() of JavaScript holds the V8 thread from sift() to the end of _log().
V8Idle == v8 = Idle /\ \A m \in Msgs : Meta[m].js => st[m] # "sifted"

Ended == {m \in Msgs : st[m] \in {"out", "dropped", "done", "astray"}}

\* JavaScript calls, or a target gets ready, while there are messages to come (a bound).
Calls == V8Idle /\ Cardinality(Ended) < MaxLogs

FreeSlots(k) == {n \in 1..Slots : list[k][n].id = 0}
FirstFree(k, n) == n \in FreeSlots(k) /\ \A i \in FreeSlots(k) : n <= i

\* _addFilter(): a new id and, under modifyFilters, the list of the key.  Its stores to the
\* bloom mask and to the slot are plain ones: the reader without the lock may see them in
\* any order.  A full list is left alone.
AddToList(a) ==
  /\ nextFilterId' = nextFilterId + 1
  /\ known' = known \cup {a.key}
  /\ \/ FreeSlots(a.key) = {} /\ UNCHANGED v8
     \/ \E n \in 1..Slots :
          /\ FirstFree(a.key, n)
          /\ v8' = [key |-> a.key, n |-> n, todo |-> {"bloom", "id", "mask", "target"},
                    slot |-> [id |-> nextFilterId, mask |-> a.mask, target |-> a.target,
                              disabled |-> FALSE],
                    locked |-> TRUE, disable |-> a.disable]

AddFilter(a) ==
  /\ Calls /\ adds < MaxAdds /\ adds' = adds + 1
  /\ AddToList(a)
  /\ UNCHANGED <<list, bloom, levelFilterOutMask, defaultFilterOut, modifies, opts, ready,
                 st, cached, queue, walk, written>>

\* _lookupFilter() with the key a filter was added under; it takes no lock.
Found(k, n) == k \in known /\ list[k][n].id # 0

ModifyFilter(k, n, slot) ==
  /\ Calls /\ modifies < MaxModifies
  /\ Found(k, n) /\ slot # list[k][n]
  /\ modifies' = modifies + 1
  /\ v8' = [key |-> k, n |-> n, slot |-> slot, locked |-> FALSE, disable |-> FALSE,
            todo |-> {f \in {"disabled", "target"} : slot[f] # list[k][n][f]}]
  /\ UNCHANGED <<tableVars, nextFilterId, levelFilterOutMask, defaultFilterOut, adds, opts,
                 ready, st, cached, queue, walk, written>>

\* A store to the list the grease thread walks.
Disturbed(k) ==
  IF walk.m \in Msgs /\ cached[walk.m] = k THEN [walk EXCEPT !.quiet = FALSE] ELSE walk

BloomAfter_Replaced(k, mask) == [bloom EXCEPT ![k] = mask]
BloomAfter(k, mask) == [bloom EXCEPT ![k] = @ \cup mask]

StillLocked_Kept(left) == v8.locked
StillLocked(left) == v8.locked /\ left # {}

Store ==
  \E s \in v8.todo :
    LET left == v8.todo \ {s} IN
    /\ IF s = "bloom"
       THEN bloom' = BloomAfter(v8.key, v8.slot.mask) /\ UNCHANGED list
       ELSE list' = [list EXCEPT ![v8.key][v8.n][s] = v8.slot[s]] /\ UNCHANGED bloom
    /\ v8' = IF left = {} /\ ~v8.disable THEN Idle
             ELSE [v8 EXCEPT !.todo = left, !.locked = StillLocked(left)]
    /\ walk' = Disturbed(v8.key)
    /\ UNCHANGED <<known, nextFilterId, levelFilterOutMask, defaultFilterOut, adds, modifies,
                   opts, ready, st, cached, queue, written>>

\* addFilter({disable: true}) disables the filter after it has let go of the lock.
DisableAdded ==
  /\ v8.todo = {} /\ v8.disable
  /\ list' = [list EXCEPT ![v8.key][v8.n].disabled = TRUE]
  /\ v8' = Idle
  /\ walk' = Disturbed(v8.key)
  /\ UNCHANGED <<known, bloom, nextFilterId, levelFilterOutMask, defaultFilterOut, adds,
                 modifies, opts, ready, st, cached, queue, written>>

\* setGlobalOpts(): a levelFilterOutMask of 0 is ignored, so filtering out cannot end.
SetGlobalOpts ==
  /\ Calls /\ opts < MaxOpts /\ opts' = opts + 1
  /\ levelFilterOutMask' \in OutMasks \cup {levelFilterOutMask}
  /\ defaultFilterOut' \in BOOLEAN
  /\ UNCHANGED <<tableVars, nextFilterId, v8, adds, modifies, ready, st, cached, queue, walk,
                 written>>

\* targetReady() adds the target to the table the walk looks in.
TargetReady(t) ==
  /\ Cardinality(Ended) < MaxLogs /\ t \notin ready /\ ready' = ready \cup {t}
  /\ walk' = [walk EXCEPT !.quiet = walk = NoWalk]
  /\ UNCHANGED <<v8Vars, st, cached, queue, written>>

-----------------------------------------------------------------------------
(* A thread that logs                                                       *)

\* getHashes(), in the order sift() tries them; the last one is `zero'.
Hashes_OriginFirst(m) == << <<0, Meta[m].origin>>, <<Meta[m].tag, Meta[m].origin>>,
                            <<Meta[m].tag, 0>>, <<0, 0>> >>
Hashes(m) == << <<Meta[m].tag, Meta[m].origin>>, <<0, Meta[m].origin>>,
                <<Meta[m].tag, 0>>, <<0, 0>> >>

FirstKnown(m) ==
  LET hit == {i \in 1..4 : Hashes(m)[i] \in known}
  IN IF hit = {} THEN NoList ELSE Hashes(m)[CHOOSE i \in hit : \A j \in hit : i <= j]

FilteredOut(m) == Meta[m].level \in levelFilterOutMask

\* sift() locks modifyFilters for the lookup.
Unlocked_Always == TRUE
Unlocked == ~v8.locked

\* Log() of the V8 thread, which cannot be in addFilter() meanwhile; log() and logP() of
\* any other.  The lookup waits for modifyFilters.
Sift(m) ==
  /\ st[m] = "new" /\ Cardinality({o \in Msgs : st[o] # "new"}) < MaxLogs
  /\ Meta[m].js => V8Idle
  /\ \/ FilteredOut(m) /\ st' = [st EXCEPT ![m] = "out"] /\ UNCHANGED cached
     \/ /\ ~FilteredOut(m) /\ Unlocked
        /\ cached' = [cached EXCEPT ![m] = FirstKnown(m)]
        /\ st' = [st EXCEPT ![m] = IF FirstKnown(m) = NoList /\ defaultFilterOut
                                   THEN "out" ELSE "sifted"]
  /\ UNCHANGED <<v8Vars, ready, queue, walk, written>>

Enqueue(m) ==
  /\ st[m] = "sifted" /\ st' = [st EXCEPT ![m] = "queued"]
  /\ queue' = Append(queue, m)
  /\ UNCHANGED <<v8Vars, ready, cached, walk, written>>

-----------------------------------------------------------------------------
(* The grease thread: handleInternalCmd(), NEW_LOG and WRITE_TARGET_OVERFLOW  *)

Cur == list[cached[walk.m]][walk.n]

Written(m, t) == [written EXCEPT ![m][t] = @ + 1]

NextSlot(wrote) ==
  walk' = [m |-> walk.m, pc |-> "slot", n |-> walk.n + 1, wrote |-> walk.wrote \/ wrote,
           ignore |-> FALSE, quiet |-> walk.quiet]

\* What no filter sends anywhere goes to the default target; the buffer goes back.  There is
\* a default target: before it is ready the code drops what is meant for it.
Finish(m, wrote) ==
  /\ written' = IF wrote THEN written ELSE Written(m, Default)
  /\ st' = [st EXCEPT ![m] = "done"] /\ walk' = NoWalk

Settled(k) == v8.key # k \/ v8 = Idle

\* FilterList::valid()
Passes(k, level) == k # NoList /\ level \in bloom[k]

\* The second sift(): the lists are cached, only the level is looked at again.
WalkStart ==
  /\ walk = NoWalk /\ queue # <<>> /\ queue' = Tail(queue)
  /\ LET m == Head(queue) IN
     \/ /\ FilteredOut(m)
        /\ st' = [st EXCEPT ![m] = "dropped"] /\ UNCHANGED <<walk, written>>
     \/ /\ ~FilteredOut(m) /\ Passes(cached[m], Meta[m].level)
        /\ walk' = [m |-> m, pc |-> "slot", n |-> 1, wrote |-> FALSE, ignore |-> FALSE,
                    quiet |-> Settled(cached[m])]
        /\ UNCHANGED <<st, written>>
     \/ ~FilteredOut(m) /\ ~Passes(cached[m], Meta[m].level) /\ Finish(m, FALSE)
  /\ UNCHANGED <<v8Vars, ready, cached>>

\* log() of a native thread copies the logMeta without the ignore list behind it, so _log()
\* takes for the list whatever lies there: `ignores' of such a message is any set.
Ignored_Never(m, t) == FALSE
Ignored(m, t) == t \in Meta[m].ignores

\* The slot's id, its mask and _disabled; once set, the first two do not change.
WalkSlot ==
  /\ walk.pc = "slot" /\ walk.n <= Slots
  /\ \/ Cur.id = 0 /\ Finish(walk.m, walk.wrote)
     \/ /\ Cur.id # 0 /\ Meta[walk.m].level \in Cur.mask /\ ~Cur.disabled
        /\ walk' = [walk EXCEPT !.pc = IF Meta[walk.m].ignores = {} THEN "target"
                                                                    ELSE "ignore"]
        /\ UNCHANGED <<st, written>>
     \/ /\ Cur.id # 0 /\ (Meta[walk.m].level \notin Cur.mask \/ Cur.disabled)
        /\ NextSlot(FALSE) /\ UNCHANGED <<st, written>>
  /\ UNCHANGED <<v8Vars, ready, cached, queue>>

\* A full list has no empty slot to stop at: the walk reads what is behind it, filterOut and
\* three bytes of padding for the id.  Zero ends it, anything else may match.
WalkPastEnd ==
  /\ walk.pc = "slot" /\ walk.n > Slots
  /\ \/ Finish(walk.m, walk.wrote)
     \/ \E t \in ready \cup {Default} :
          /\ written' = Written(walk.m, t) /\ walk' = NoWalk
          /\ st' = [st EXCEPT ![walk.m] = "astray"]
  /\ UNCHANGED <<v8Vars, ready, cached, queue>>

\* targetId is read here, in the next step, and in the one after.
WalkIgnore ==
  /\ walk.pc = "ignore"
  /\ walk' = [walk EXCEPT !.pc = "target", !.ignore = Ignored(walk.m, Cur.target)]
  /\ UNCHANGED <<v8Vars, ready, st, cached, queue, written>>

\* The default target is written to even if the message ignores it.
WalkTarget ==
  /\ walk.pc = "target"
  /\ IF Cur.target = Default
     THEN written' = Written(walk.m, Default) /\ NextSlot(TRUE)
     ELSE walk' = [walk EXCEPT !.pc = "find"] /\ UNCHANGED written
  /\ UNCHANGED <<v8Vars, ready, st, cached, queue>>

Wrote_Anyway(found) == TRUE
Wrote(found) == found

WalkFind ==
  /\ walk.pc = "find"
  /\ LET found == ~walk.ignore /\ Cur.target \in ready IN
     /\ written' = IF found THEN Written(walk.m, Cur.target) ELSE written
     /\ NextSlot(Wrote(found))
  /\ UNCHANGED <<v8Vars, ready, st, cached, queue>>

-----------------------------------------------------------------------------
V8Step == \/ \E a \in AddArgs : AddFilter(a)
          \/ \E k \in Keys, n \in 1..Slots, d \in BOOLEAN, t \in Outputs :
               ModifyFilter(k, n, [list[k][n] EXCEPT !.disabled = d, !.target = t])
          \/ Store \/ DisableAdded \/ SetGlobalOpts

GreaseStep == \/ WalkStart \/ WalkSlot \/ WalkPastEnd \/ WalkIgnore \/ WalkTarget
              \/ WalkFind

Next == \/ V8Step \/ GreaseStep
        \/ \E t \in Targets : TargetReady(t)
        \/ \E m \in Msgs : Sift(m) \/ Enqueue(m)

Spec == Init /\ [][Next]_vars

-----------------------------------------------------------------------------
(* Properties                                                               *)

Slot == [id : Nat, mask : SUBSET Levels, target : Outputs, disabled : BOOLEAN]

\* The types of the variables; the V8 thread holds modifyFilters only inside addFilter().
TypeOK ==
  /\ known \subseteq Keys
  /\ list \in [Keys -> [1..Slots -> Slot]] /\ bloom \in [Keys -> SUBSET Levels]
  /\ nextFilterId \in Nat
  /\ levelFilterOutMask \subseteq Levels /\ defaultFilterOut \in BOOLEAN
  /\ ready \subseteq Targets
  /\ v8.key \in Keys \cup {NoList} /\ v8.n \in 0..Slots
  /\ v8.todo \subseteq Fields /\ v8.slot \in Slot
  /\ v8.locked => v8.todo # {}
  /\ st \in [Msgs -> {"new", "out", "sifted", "queued", "dropped", "done", "astray"}]
  /\ cached \in [Msgs -> Keys \cup {NoList}]
  /\ walk.pc # "none" => walk.m \in Msgs /\ st[walk.m] = "queued"
  /\ walk.n \in 0..(Slots + 1)

\* What the reader without the lock relies on, even in the middle of addFilter(): the slots
\* in use come first, no id is used twice, and once a filter's store is complete the
\* bloom mask of its list lets its levels pass (FilterList::add, _addFilter).
ListsSound ==
  /\ \A k \in Keys, n \in 2..Slots : list[k][n].id # 0 => list[k][n - 1].id # 0
  /\ \A k, l \in Keys, n, i \in 1..Slots :
       list[k][n].id # 0 /\ list[k][n].id = list[l][i].id => k = l /\ n = i
  /\ \A k \in Keys, n \in 1..Slots :
       ~(v8.locked /\ v8.key = k /\ v8.n = n) => list[k][n].mask \subseteq bloom[k]

Covers(k, m) == k[1] \in {0, Meta[m].tag} /\ k[2] \in {0, Meta[m].origin}

\* The keys that filters were added under, of those that cover a message.
Covering(m) ==
  {k \in Keys : Covers(k, m) /\ \E n \in 1..Slots : list[k][n].id # 0}

\* l gives what k gives, and more.
MoreSpecific(l, k) == l # k /\ \A i \in 1..2 : k[i] \in {0, l[i]}

\* sift() lets a message pass unless its level is filtered out, or no filter covers it and
\* defaultFilterOut is set.  The list it takes has a filter and covers the message, and no
\* filter was added under a more specific key that does: addFilter() puts a new list in
\* the table before there is a filter in it, and no lookup may find it so.  Between a key of
\* the tag alone and one of the origin alone nothing is asked: code and comments differ.
SiftsByMostSpecific ==
  [][\A m \in Msgs : st[m] = "new" /\ st'[m] # "new" =>
       /\ st'[m] = "sifted" <=> /\ Meta[m].level \notin levelFilterOutMask
                                /\ Covering(m) # {} \/ ~defaultFilterOut
       /\ st'[m] = "sifted" =>
            IF Covering(m) = {} THEN cached'[m] = NoList
            ELSE /\ cached'[m] \in Covering(m)
                 /\ \A k \in Covering(m) : ~MoreSpecific(k, cached'[m])]_vars

\* The filters that send message m to target t.
Matching(m, t) ==
  IF cached[m] = NoList THEN {}
  ELSE {n \in 1..Slots : LET f == list[cached[m]][n] IN
          /\ f.id # 0 /\ Meta[m].level \in f.mask /\ ~f.disabled /\ f.target = t
          /\ t = Default \/ t \in ready \ Meta[m].ignores}

\* No call is changing, or has changed, the list since the walk of m began.
Quiet(m) == IF walk = NoWalk THEN Settled(cached[m]) ELSE walk.quiet

\* If nothing changes the list while it is walked, each target gets the message once for
\* each filter of the list that names it, and the default target gets it if no other
\* does, however long ago sift() found the list and whatever was added since.  (A full
\* list may lead the walk astray.)
RoutesAsListed ==
  [][\A m \in Msgs : st[m] = "queued" /\ st'[m] = "done" /\ Quiet(m) =>
       \A t \in Outputs : written'[m][t] =
         IF t = Default /\ \A o \in Outputs : Matching(m, o) = {}
         THEN 1 ELSE Cardinality(Matching(m, t))]_vars

\* Whatever addFilter() and modifyFilter() do under the walk, a message that sift() let pass
\* is written to some target, unless the second sift() filters its level out.
PassedIsWritten ==
  \A m \in Msgs : st[m] \in {"done", "astray"} => \E t \in Outputs : written[m][t] > 0
=============================================================================
