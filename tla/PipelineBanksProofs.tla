------------------------ MODULE PipelineBanksProofs ------------------------
(***************************************************************************)
(* The banks of the targets, for every number of targets, banks and          *)
(* messages and with the V8 thread flushing at any time: no bank is lost or   *)
(* in two places, rotate() finds room in writeOutBuffers, no copy goes past   *)
(* the end of a bank.  Then the references of the grease thread, one for each *)
(* bank and overflow message that waits to be written.                       *)
(***************************************************************************)
EXTENDS GreasePipelineProofs, FiniteSetTheorems

-----------------------------------------------------------------------------
(* Sequences that hold a thing at most once                                 *)

\* An element of s belongs to E; no two do.
Holds(s, E) == \E i \in DOMAIN s : s[i] \in E
Once(s, E) == \A i, j \in DOMAIN s : s[i] \in E /\ s[j] \in E => i = j

\* add() on a ring.
LEMMA AppendHolds ==
  ASSUME NEW S, NEW s \in Seq(S), NEW x \in S, NEW E
  PROVE  /\ Holds(Append(s, x), E) <=> Holds(s, E) \/ x \in E
         /\ Once(s, E) /\ ~(Holds(s, E) /\ x \in E) => Once(Append(s, x), E)
  <1>1. /\ Len(s) \in Nat /\ DOMAIN s = 1..Len(s)
        /\ DOMAIN Append(s, x) = 1..(Len(s) + 1)
        /\ \A i \in 1..Len(s) : Append(s, x)[i] = s[i]
        /\ Append(s, x)[Len(s) + 1] = x
    BY AppendProperties, LenProperties
  <1> DEFINE r == Append(s, x)
  <1> HIDE DEF r
  <1>2. /\ DOMAIN s \subseteq DOMAIN r /\ Len(s) + 1 \in DOMAIN r
        /\ \A i \in DOMAIN r : i \in DOMAIN s \/ i = Len(s) + 1
        /\ \A i \in DOMAIN s : r[i] = s[i]
        /\ r[Len(s) + 1] = x
    BY ONLY <1>1 DEF r
  <1>3. Holds(r, E) <=> Holds(s, E) \/ x \in E
    BY ONLY <1>2 DEF Holds
  <1>4. Once(s, E) /\ ~(Holds(s, E) /\ x \in E) => Once(r, E)
    BY ONLY <1>2 DEF Holds, Once
  <1> QED BY <1>3, <1>4 DEF r

\* remove() on a ring.
LEMMA TailHolds ==
  ASSUME NEW S, NEW s \in Seq(S), s # <<>>, NEW E, Once(s, E)
  PROVE  /\ Holds(s, E) <=> Holds(Tail(s), E) \/ Head(s) \in E
         /\ ~(Holds(Tail(s), E) /\ Head(s) \in E)
         /\ Once(Tail(s), E)
  <1>1. /\ Len(s) \in Nat \ {0} /\ DOMAIN s = 1..Len(s) /\ Head(s) = s[1]
        /\ DOMAIN Tail(s) = 1..(Len(s) - 1)
        /\ \A i \in 1..(Len(s) - 1) : Tail(s)[i] = s[i + 1]
    BY EmptySeq, HeadTailProperties, LenProperties
  <1> DEFINE r == Tail(s)
  <1> HIDE DEF r
  <1>2. /\ 1 \in DOMAIN s
        /\ \A i \in DOMAIN r : i \in Int /\ i + 1 \in DOMAIN s /\ i + 1 # 1 /\ r[i] = s[i + 1]
        /\ \A i \in DOMAIN s : i = 1 \/ (i - 1 \in DOMAIN r /\ r[i - 1] = s[i])
    BY ONLY <1>1 DEF r
  <1>3. Holds(s, E) <=> Holds(r, E) \/ Head(s) \in E
    BY ONLY <1>1, <1>2 DEF Holds
  <1>4. ~(Holds(r, E) /\ Head(s) \in E)
    BY ONLY <1>1, <1>2, Once(s, E) DEF Holds, Once
  <1>5. Once(r, E)
    <2> SUFFICES ASSUME NEW i \in DOMAIN r, NEW j \in DOMAIN r, r[i] \in E, r[j] \in E
                 PROVE  i = j
      BY DEF Once
    <2>1. i + 1 = j + 1
      BY ONLY <1>2, Once(s, E), i \in DOMAIN r, j \in DOMAIN r, r[i] \in E, r[j] \in E DEF Once
    <2> QED BY <1>2, <2>1
  <1> QED BY <1>3, <1>4, <1>5 DEF r

Without(s, i) == SubSeq(s, 1, i - 1) \o SubSeq(s, i + 1, Len(s))

\* The write at place i is performed.
LEMMA WithoutIs ==
  ASSUME NEW S, NEW s \in Seq(S), NEW i \in DOMAIN s
  PROVE  /\ Without(s, i) \in Seq(S) /\ Len(s) \in Nat /\ DOMAIN s = 1..Len(s)
         /\ DOMAIN Without(s, i) = 1..(Len(s) - 1)
         /\ \A j \in 1..(Len(s) - 1) : Without(s, i)[j] = IF j < i THEN s[j] ELSE s[j + 1]
  <1>1. Len(s) \in Nat /\ DOMAIN s = 1..Len(s) /\ i \in 1..Len(s)
    BY LenProperties
  <1>2. \A j \in 1..Len(s) : s[j] \in S
    BY <1>1, ElementOfSeq
  <1>3. /\ SubSeq(s, 1, i - 1) \in Seq(S) /\ Len(SubSeq(s, 1, i - 1)) = i - 1
        /\ \A j \in 1..(i - 1) : SubSeq(s, 1, i - 1)[j] = s[j]
    <2>1. \A j \in 1..(i - 1) : s[j] \in S
      BY <1>1, <1>2
    <2>2. 1 \in Int /\ i - 1 \in Int
      BY <1>1
    <2>3. /\ SubSeq(s, 1, i - 1) \in Seq(S)
          /\ Len(SubSeq(s, 1, i - 1)) = IF 1 <= i - 1 THEN i - 1 - 1 + 1 ELSE 0
          /\ \A j \in 1..(i - 1 - 1 + 1) : SubSeq(s, 1, i - 1)[j] = s[1 + j - 1]
      BY ONLY <2>1, <2>2, SubSeqProperties
    <2> QED BY <1>1, <2>3
  <1>4. /\ SubSeq(s, i + 1, Len(s)) \in Seq(S) /\ Len(SubSeq(s, i + 1, Len(s))) = Len(s) - i
        /\ \A j \in 1..(Len(s) - i) : SubSeq(s, i + 1, Len(s))[j] = s[i + j]
    <2>1. \A j \in (i + 1)..Len(s) : s[j] \in S
      BY <1>1, <1>2
    <2>2. i + 1 \in Int /\ Len(s) \in Int
      BY <1>1
    <2>3. /\ SubSeq(s, i + 1, Len(s)) \in Seq(S)
          /\ Len(SubSeq(s, i + 1, Len(s))) = IF i + 1 <= Len(s) THEN Len(s) - (i + 1) + 1 ELSE 0
          /\ \A j \in 1..(Len(s) - (i + 1) + 1) : SubSeq(s, i + 1, Len(s))[j] = s[(i + 1) + j - 1]
      BY ONLY <2>1, <2>2, SubSeqProperties
    <2> QED BY <1>1, <2>3
  <1> DEFINE u == SubSeq(s, 1, i - 1)
             v == SubSeq(s, i + 1, Len(s))
  <1> HIDE DEF u, v
  <1>5. u \in Seq(S) /\ v \in Seq(S) /\ Without(s, i) = u \o v
    BY <1>3, <1>4 DEF u, v, Without
  <1>6. /\ u \o v \in Seq(S) /\ Len(u \o v) = Len(u) + Len(v)
        /\ \A j \in 1..(Len(u) + Len(v)) : (u \o v)[j] = IF j <= Len(u) THEN u[j] ELSE v[j - Len(u)]
    BY ONLY <1>5, ConcatProperties
  <1>7. Len(u) = i - 1 /\ Len(v) = Len(s) - i
    BY <1>3, <1>4 DEF u, v
  <1>8. DOMAIN (u \o v) = 1..(Len(s) - 1)
    <2>1. Len(u \o v) = Len(s) - 1
      BY ONLY <1>1, <1>6, <1>7
    <2>2. DOMAIN (u \o v) = 1..Len(u \o v)
      BY ONLY <1>6, LenProperties
    <2> QED BY ONLY <2>1, <2>2
  <1>9. ASSUME NEW j \in 1..(Len(s) - 1)
        PROVE  (u \o v)[j] = IF j < i THEN s[j] ELSE s[j + 1]
    <2>1. (u \o v)[j] = IF j <= i - 1 THEN u[j] ELSE v[j - (i - 1)]
      BY ONLY <1>1, <1>6, <1>7, j \in 1..(Len(s) - 1)
    <2>2. CASE j < i
      <3>1. u[j] = s[j]
        BY <1>1, <1>3, <2>2 DEF u
      <3> QED BY <1>1, <2>1, <2>2, <3>1
    <2>3. CASE ~(j < i)
      <3>1. j - (i - 1) \in 1..(Len(s) - i) /\ i + (j - (i - 1)) = j + 1
        BY <1>1, <2>3
      <3>2. v[j - (i - 1)] = s[j + 1]
        BY <1>4, <3>1 DEF v
      <3> QED BY <1>1, <2>1, <2>3, <3>2
    <2> QED BY <2>2, <2>3
  <1> QED BY ONLY <1>1, <1>5, <1>6, <1>8, <1>9

LEMMA WithoutHolds ==
  ASSUME NEW S, NEW s \in Seq(S), NEW i \in DOMAIN s, NEW E, Once(s, E)
  PROVE  /\ Holds(s, E) <=> Holds(Without(s, i), E) \/ s[i] \in E
         /\ ~(Holds(Without(s, i), E) /\ s[i] \in E)
         /\ Once(Without(s, i), E)
  <1> DEFINE r == Without(s, i)
  <1>1. /\ Len(s) \in Nat /\ DOMAIN s = 1..Len(s) /\ DOMAIN r = 1..(Len(s) - 1)
        /\ \A j \in 1..(Len(s) - 1) : r[j] = IF j < i THEN s[j] ELSE s[j + 1]
    BY WithoutIs
  <1> HIDE DEF r
  <1> DEFINE at(j) == IF j < i THEN j ELSE j + 1
  <1>2. /\ \A j \in DOMAIN r : at(j) \in DOMAIN s /\ at(j) # i /\ r[j] = s[at(j)]
        /\ \A j \in DOMAIN s : \/ j = i \/ (j < i /\ j \in DOMAIN r /\ r[j] = s[j])
                               \/ (j > i /\ j - 1 \in DOMAIN r /\ r[j - 1] = s[j])
    BY ONLY <1>1, i \in DOMAIN s
  <1>3. \A j, k \in DOMAIN r : at(j) = at(k) => j = k
    BY ONLY <1>1, i \in DOMAIN s
  <1> HIDE DEF at
  <1>4. Holds(s, E) <=> Holds(r, E) \/ s[i] \in E
    BY ONLY <1>2, i \in DOMAIN s DEF Holds
  <1>5. ~(Holds(r, E) /\ s[i] \in E)
    BY ONLY <1>2, i \in DOMAIN s, Once(s, E) DEF Holds, Once
  <1>6. Once(r, E)
    BY ONLY <1>2, <1>3, Once(s, E) DEF Once
  <1> QED BY <1>4, <1>5, <1>6 DEF r

\* A thing held once counts one.
LEMMA HeldCounts ==
  ASSUME NEW S, NEW s \in Seq(S), NEW E, Once(s, E)
  PROVE  Cardinality({i \in DOMAIN s : s[i] \in E}) = IF Holds(s, E) THEN 1 ELSE 0
  <1> DEFINE H == {i \in DOMAIN s : s[i] \in E}
  <1>1. CASE Holds(s, E)
    <2>1. PICK i \in DOMAIN s : s[i] \in E
      BY <1>1 DEF Holds
    <2>2. H = {i}
      BY <2>1 DEF Once
    <2> QED BY <1>1, <2>2, FS_Singleton
  <1>2. CASE ~Holds(s, E)
    <2>1. H = {}
      BY <1>2 DEF Holds
    <2> QED BY <1>2, <2>1, FS_EmptySet
  <1> QED BY <1>1, <1>2

-----------------------------------------------------------------------------
(* Where a bank is                                                          *)

Kinds == {"current", "free", "queued", "flushing", "flying", "written", "waiting", "inside"}

WriteOf(b) == {r \in WriteReq : r.b = b}
CallOf(t, b) == {c \in Callback : c.t = t /\ c.b = b}

In(k, t, b) ==
  \/ k = "current"  /\ cur[t] = b
  \/ k = "free"     /\ b \in avail[t]
  \/ k = "queued"   /\ Holds(wout[t], {b})
  \/ k = "flushing" /\ \E x \in Threads : ft[x] = t /\ fb[x] = b
  \/ k = "flying"   /\ Holds(fly[t], WriteOf(b))
  \/ k = "written"  /\ Holds(fin[t], WriteOf(b))
  \/ k = "waiting"  /\ Holds(cbq, CallOf(t, b))
  \/ k = "inside"   /\ vcb \in CallOf(t, b)

\* Each bank is in one kind of place, and there once.
OneKind == \A t \in Targets, b \in Banks : \E k \in Kinds : \A j \in Kinds : In(j, t, b) <=> j = k
QueuedBankOnce  == \A t \in Targets, b \in Banks : Once(wout[t], {b})
FlyingOnce  == \A t \in Targets, b \in Banks : Once(fly[t], WriteOf(b))
WrittenOnce == \A t \in Targets, b \in Banks : Once(fin[t], WriteOf(b))
WaitingOnce == \A t \in Targets, b \in Banks : Once(cbq, CallOf(t, b))
FlushingOnce == \A x, y \in Threads : fb[x] \in Banks /\ fb[x] = fb[y] /\ ft[x] = ft[y] => x = y
BankInv == /\ OneKind /\ QueuedBankOnce /\ FlyingOnce /\ WrittenOnce /\ WaitingOnce
           /\ FlushingOnce

\* A step that leaves a list alone leaves what is in it there.
LEMMA PlaceFrame ==
  /\ UNCHANGED cur => \A t, b : In("current", t, b)' <=> In("current", t, b)
  /\ UNCHANGED avail => \A t, b : In("free", t, b)' <=> In("free", t, b)
  /\ UNCHANGED wout => \A t, b : In("queued", t, b)' <=> In("queued", t, b)
  /\ UNCHANGED <<ft, fb>> => \A t, b : In("flushing", t, b)' <=> In("flushing", t, b)
  /\ UNCHANGED fly => \A t, b : In("flying", t, b)' <=> In("flying", t, b)
  /\ UNCHANGED fin => \A t, b : In("written", t, b)' <=> In("written", t, b)
  /\ UNCHANGED cbq => \A t, b : In("waiting", t, b)' <=> In("waiting", t, b)
  /\ UNCHANGED vcb => \A t, b : In("inside", t, b)' <=> In("inside", t, b)
  BY DEF In, Holds

LEMMA OnceFrame ==
  ASSUME BankInv
  PROVE  /\ UNCHANGED wout => QueuedBankOnce'
         /\ UNCHANGED fly => FlyingOnce'
         /\ UNCHANGED fin => WrittenOnce'
         /\ UNCHANGED cbq => WaitingOnce'
         /\ UNCHANGED <<ft, fb>> => FlushingOnce'
  BY DEF BankInv, QueuedBankOnce, FlyingOnce, WrittenOnce, WaitingOnce, FlushingOnce, Once

\* Bank b0 of target t0 goes from place k1 to place k2, and no other bank moves.
Moved(t0, b0, k1, k2) ==
  /\ \A t \in Targets, b \in Banks : \A k \in Kinds \ {k1, k2} : In(k, t, b)' <=> In(k, t, b)
  /\ \A t \in Targets, b \in Banks : In(k1, t, b)' <=> In(k1, t, b) /\ ~(t = t0 /\ b = b0)
  /\ \A t \in Targets, b \in Banks : In(k2, t, b)' <=> In(k2, t, b) \/ (t = t0 /\ b = b0)

LEMMA MovedKeepsOneKind ==
  ASSUME OneKind, NEW t0 \in Targets, NEW b0 \in Banks, NEW k1 \in Kinds, NEW k2 \in Kinds,
         k1 # k2, In(k1, t0, b0), Moved(t0, b0, k1, k2)
  PROVE  OneKind'
  <1> SUFFICES ASSUME NEW t \in Targets, NEW b \in Banks
               PROVE  \E k \in Kinds : \A j \in Kinds : In(j, t, b)' <=> j = k
    BY DEF OneKind
  <1>1. PICK k \in Kinds : \A j \in Kinds : In(j, t, b) <=> j = k
    BY DEF OneKind
  <1>2. /\ \A j \in Kinds \ {k1, k2} : In(j, t, b)' <=> In(j, t, b)
        /\ In(k1, t, b)' <=> In(k1, t, b) /\ ~(t = t0 /\ b = b0)
        /\ In(k2, t, b)' <=> In(k2, t, b) \/ (t = t0 /\ b = b0)
    BY DEF Moved
  <1>3. CASE t = t0 /\ b = b0
    <2>1. k = k1
      BY <1>1, <1>3
    <2>2. \A j \in Kinds : In(j, t, b)' <=> j = k2
      BY ONLY <1>1, <1>2, <1>3, <2>1, k1 \in Kinds, k2 \in Kinds, k1 # k2
    <2> QED BY <2>2
  <1>4. CASE ~(t = t0 /\ b = b0)
    <2>1. \A j \in Kinds : In(j, t, b)' <=> j = k
      BY ONLY <1>1, <1>2, <1>4
    <2> QED BY <2>1
  <1> QED BY <1>3, <1>4

\* No bank moves at all.
LEMMA StayKeepsOneKind ==
  ASSUME OneKind, \A t \in Targets, b \in Banks : \A k \in Kinds : In(k, t, b)' <=> In(k, t, b)
  PROVE  OneKind'
  BY DEF OneKind

-----------------------------------------------------------------------------
(* The steps that move banks                                                *)

\* add() to and remove() from writeOutBuffers.
LEMMA QueuedAppend ==
  ASSUME TypeOK, BankInv, NEW t0 \in Targets, NEW b0 \in Banks, ~In("queued", t0, b0),
         wout' = [wout EXCEPT ![t0] = Append(@, b0)]
  PROVE  /\ \A t \in Targets, b \in Banks :
              In("queued", t, b)' <=> In("queued", t, b) \/ (t = t0 /\ b = b0)
         /\ QueuedBankOnce'
  <1>1. /\ wout \in [Targets -> Seq(Banks)] /\ wout[t0] \in Seq(Banks)
        /\ \A t \in Targets, b \in Banks : Once(wout[t], {b})
        /\ ~Holds(wout[t0], {b0})
    BY DEF TypeOK, BankTypes, BankInv, QueuedBankOnce, In
  <1>2. \A b \in Banks : /\ Holds(Append(wout[t0], b0), {b}) <=> Holds(wout[t0], {b}) \/ b = b0
                         /\ Once(Append(wout[t0], b0), {b})
    <2> TAKE b \in Banks
    <2>1. /\ Holds(Append(wout[t0], b0), {b}) <=> Holds(wout[t0], {b}) \/ b0 \in {b}
          /\ Once(wout[t0], {b}) /\ ~(Holds(wout[t0], {b}) /\ b0 \in {b})
             => Once(Append(wout[t0], b0), {b})
      BY ONLY <1>1, AppendHolds, b0 \in Banks
    <2>2. b0 \in {b} <=> b = b0
      OBVIOUS
    <2> QED BY ONLY <1>1, <2>1, <2>2, b \in Banks, t0 \in Targets
  <1>3. \A t \in Targets : wout'[t] = IF t = t0 THEN Append(wout[t0], b0) ELSE wout[t]
    BY <1>1
  <1>4. \A t, b : /\ In("queued", t, b)' <=> Holds(wout'[t], {b})
                  /\ In("queued", t, b) <=> Holds(wout[t], {b})
    BY DEF In
  <1>5. QueuedBankOnce'
    BY ONLY <1>1, <1>2, <1>3 DEF QueuedBankOnce
  <1>6. ASSUME NEW t \in Targets, NEW b \in Banks
        PROVE  In("queued", t, b)' <=> In("queued", t, b) \/ (t = t0 /\ b = b0)
    BY ONLY <1>2, <1>3, <1>4, <1>6
  <1> QED BY <1>5, <1>6

LEMMA QueuedTail ==
  ASSUME TypeOK, BankInv, NEW t0 \in Targets, wout[t0] # <<>>,
         wout' = [wout EXCEPT ![t0] = Tail(@)]
  PROVE  /\ Head(wout[t0]) \in Banks /\ In("queued", t0, Head(wout[t0]))
         /\ \A t \in Targets, b \in Banks :
              In("queued", t, b)' <=> In("queued", t, b) /\ ~(t = t0 /\ b = Head(wout[t0]))
         /\ QueuedBankOnce'
  <1> DEFINE h == Head(wout[t0])
             r == Tail(wout[t0])
  <1>1. /\ wout \in [Targets -> Seq(Banks)] /\ wout[t0] \in Seq(Banks) /\ h \in Banks
        /\ \A t \in Targets, b \in Banks : Once(wout[t], {b})
    BY HeadTailProperties DEF TypeOK, BankTypes, BankInv, QueuedBankOnce
  <1>2. \A b \in Banks : /\ Holds(wout[t0], {b}) <=> Holds(r, {b}) \/ b = h
                         /\ ~(Holds(r, {b}) /\ b = h)
                         /\ Once(r, {b})
    <2> TAKE b \in Banks
    <2>1. /\ Holds(wout[t0], {b}) <=> Holds(r, {b}) \/ h \in {b}
          /\ ~(Holds(r, {b}) /\ h \in {b})
          /\ Once(r, {b})
      BY <1>1, TailHolds
    <2>2. h \in {b} <=> b = h
      OBVIOUS
    <2> HIDE DEF h, r
    <2> QED BY ONLY <2>1, <2>2
  <1>3. \A t \in Targets : wout'[t] = IF t = t0 THEN r ELSE wout[t]
    BY <1>1
  <1>4. \A t, b : /\ In("queued", t, b)' <=> Holds(wout'[t], {b})
                  /\ In("queued", t, b) <=> Holds(wout[t], {b})
    BY DEF In
  <1> HIDE DEF h, r
  <1>5. QueuedBankOnce'
    BY ONLY <1>1, <1>2, <1>3 DEF QueuedBankOnce
  <1>6. ASSUME NEW t \in Targets, NEW b \in Banks
        PROVE  In("queued", t, b)' <=> In("queued", t, b) /\ ~(t = t0 /\ b = h)
    BY ONLY <1>2, <1>3, <1>4, <1>6
  <1>7. In("queued", t0, h)
    BY ONLY <1>1, <1>2, <1>4
  <1> QED BY <1>1, <1>5, <1>6, <1>7 DEF h

\* rotate(): the current bank is queued and a free one takes its place.
LEMMA RotateBanks ==
  ASSUME TypeOK, BankInv, NEW t0 \in Targets, Rotate(t0), UNCHANGED <<fly, fin, cbq, vcb>>,
         \A t \in Targets, b \in Banks : In("flushing", t, b)' <=> In("flushing", t, b),
         FlushingOnce'
  PROVE  BankInv'
  <1>1. /\ cur \in [Targets -> Banks] /\ cur[t0] \in Banks /\ avail \in [Targets -> SUBSET Banks]
    BY DEF TypeOK, BankTypes
  <1>2. \A t \in Targets, b \in Banks : \A k \in {"flushing", "flying", "written", "waiting", "inside"} :
          In(k, t, b)' <=> In(k, t, b)
    BY PlaceFrame
  <1>3. CASE /\ RotateSucceeds(t0)
             /\ \E next \in avail[t0] :
                  /\ avail' = [avail EXCEPT ![t0] = FreeAfterRotate(t0, next)]
                  /\ cur' = [cur EXCEPT ![t0] = next]
             /\ wout' = [wout EXCEPT ![t0] = Append(@, cur[t0])]
    <2>1. PICK next \in avail[t0] : /\ avail' = [avail EXCEPT ![t0] = avail[t0] \ {next}]
                                    /\ cur' = [cur EXCEPT ![t0] = next]
      BY <1>3 DEF FreeAfterRotate
    <2>2. next \in Banks /\ In("free", t0, next) /\ In("current", t0, cur[t0])
      BY <1>1 DEF In
    <2>3. \A t \in Targets, b \in Banks : In("current", t, b)' <=> IF t = t0 THEN b = next
                                                                  ELSE In("current", t, b)
      BY <1>1, <2>1 DEF In
    <2>4. \A t \in Targets, b \in Banks : In("free", t, b)' <=> In("free", t, b) /\ ~(t = t0 /\ b = next)
      BY <1>1, <2>1 DEF In
    <2>5. ~In("queued", t0, cur[t0])
      BY <1>1, <2>2 DEF BankInv, OneKind, Kinds
    <2>6. /\ \A t \in Targets, b \in Banks :
               In("queued", t, b)' <=> In("queued", t, b) \/ (t = t0 /\ b = cur[t0])
          /\ QueuedBankOnce'
      BY ONLY <1>1, <1>3, <2>5, TypeOK, BankInv, t0 \in Targets, QueuedAppend
    <2>7. OneKind'
      <3> SUFFICES ASSUME NEW t \in Targets, NEW b \in Banks
                   PROVE  \E k \in Kinds : \A j \in Kinds : In(j, t, b)' <=> j = k
        BY DEF OneKind
      <3>1. PICK k \in Kinds : \A j \in Kinds : In(j, t, b) <=> j = k
        BY DEF BankInv, OneKind
      <3>2. /\ In("current", t, b)' <=> IF t = t0 THEN b = next ELSE In("current", t, b)
            /\ In("free", t, b)' <=> In("free", t, b) /\ ~(t = t0 /\ b = next)
            /\ In("queued", t, b)' <=> In("queued", t, b) \/ (t = t0 /\ b = cur[t0])
            /\ \A j \in Kinds \ {"current", "free", "queued"} : In(j, t, b)' <=> In(j, t, b)
        BY <1>2, <2>3, <2>4, <2>6 DEF Kinds
      <3>3. /\ t = t0 /\ b = next => k = "free"
            /\ t = t0 => (k = "current" <=> b = cur[t0])
        BY <2>2, <3>1 DEF Kinds, In
      <3>4. CASE t = t0 /\ b = next
        <4>1. \A j \in Kinds : In(j, t, b)' <=> j = "current"
          BY ONLY <3>1, <3>2, <3>3, <3>4 DEF Kinds
        <4> QED BY <4>1 DEF Kinds
      <3>5. CASE t = t0 /\ b = cur[t0] /\ b # next
        <4>1. \A j \in Kinds : In(j, t, b)' <=> j = "queued"
          BY ONLY <3>1, <3>2, <3>3, <3>5 DEF Kinds
        <4> QED BY <4>1 DEF Kinds
      <3>6. CASE t # t0 \/ (b # next /\ b # cur[t0])
        <4>1. \A j \in Kinds : In(j, t, b)' <=> j = k
          BY ONLY <3>1, <3>2, <3>3, <3>6 DEF Kinds
        <4> QED BY <4>1
      <3> QED BY <3>4, <3>5, <3>6
    <2> QED BY <2>6, <2>7, OnceFrame DEF BankInv
  <1>4. CASE UNCHANGED <<cur, avail, wout>>
    <2>1. OneKind'
      BY <1>2, <1>4, PlaceFrame, StayKeepsOneKind DEF BankInv, Kinds
    <2> QED BY <1>4, <2>1, OnceFrame DEF BankInv
  <1> QED BY <1>3, <1>4 DEF Rotate, bankVars

\* The same for the writes of a target, waiting to be performed or already performed: each
\* bank is in one of them at most; bank b0 joins, or leaves, those of target t0.
EachOnce(f) == \A t \in Targets, b \in Banks : Once(f[t], WriteOf(b))
Joins(f, g, t0, b0) == \A t \in Targets, b \in Banks :
  Holds(g[t], WriteOf(b)) <=> Holds(f[t], WriteOf(b)) \/ (t = t0 /\ b = b0)
Leaves(f, g, t0, b0) == \A t \in Targets, b \in Banks :
  Holds(g[t], WriteOf(b)) <=> Holds(f[t], WriteOf(b)) /\ ~(t = t0 /\ b = b0)

LEMMA RequestAppend ==
  ASSUME NEW f \in [Targets -> Seq(WriteReq)], NEW t0 \in Targets, NEW q \in WriteReq, NEW g,
         g = [f EXCEPT ![t0] = Append(@, q)],
         EachOnce(f),
         q.b \in Banks => ~Holds(f[t0], WriteOf(q.b))
  PROVE  Joins(f, g, t0, q.b) /\ EachOnce(g)
  <1>1. \A b \in Banks : /\ Holds(Append(f[t0], q), WriteOf(b))
                            <=> Holds(f[t0], WriteOf(b)) \/ b = q.b
                         /\ Once(Append(f[t0], q), WriteOf(b))
    <2> TAKE b \in Banks
    <2>1. f[t0] \in Seq(WriteReq)
      OBVIOUS
    <2>2. /\ Holds(Append(f[t0], q), WriteOf(b)) <=> Holds(f[t0], WriteOf(b)) \/ q \in WriteOf(b)
          /\ Once(f[t0], WriteOf(b)) /\ ~(Holds(f[t0], WriteOf(b)) /\ q \in WriteOf(b))
             => Once(Append(f[t0], q), WriteOf(b))
      BY ONLY <2>1, AppendHolds, q \in WriteReq
    <2>3. q \in WriteOf(b) <=> b = q.b
      BY DEF WriteOf
    <2>4. Once(f[t0], WriteOf(b)) /\ (b = q.b => ~Holds(f[t0], WriteOf(b)))
      BY DEF EachOnce
    <2> QED BY ONLY <2>2, <2>3, <2>4
  <1>2. \A t \in Targets : g[t] = IF t = t0 THEN Append(f[t0], q) ELSE f[t]
    OBVIOUS
  <1>3. ASSUME NEW t \in Targets, NEW b \in Banks
        PROVE  /\ Holds(g[t], WriteOf(b)) <=> Holds(f[t], WriteOf(b)) \/ (t = t0 /\ b = q.b)
               /\ Once(g[t], WriteOf(b))
    BY ONLY <1>1, <1>2, <1>3, EachOnce(f) DEF EachOnce
  <1> QED BY <1>3 DEF Joins, EachOnce

LEMMA RequestTail ==
  ASSUME NEW f \in [Targets -> Seq(WriteReq)], NEW t0 \in Targets, f[t0] # <<>>, NEW g,
         g = [f EXCEPT ![t0] = Tail(@)],
         EachOnce(f)
  PROVE  /\ Leaves(f, g, t0, Head(f[t0]).b) /\ EachOnce(g)
         /\ Head(f[t0]) \in WriteReq
         /\ Head(f[t0]).b \in Banks => Holds(f[t0], WriteOf(Head(f[t0]).b))
  <1> DEFINE q == Head(f[t0])
             r == Tail(f[t0])
  <1>1. f[t0] \in Seq(WriteReq) /\ q \in WriteReq
    BY HeadTailProperties
  <1>2. \A b \in Banks : /\ Holds(f[t0], WriteOf(b)) <=> Holds(r, WriteOf(b)) \/ b = q.b
                         /\ ~(Holds(r, WriteOf(b)) /\ b = q.b)
                         /\ Once(r, WriteOf(b))
    <2> TAKE b \in Banks
    <2>1. /\ Holds(f[t0], WriteOf(b)) <=> Holds(r, WriteOf(b)) \/ q \in WriteOf(b)
          /\ ~(Holds(r, WriteOf(b)) /\ q \in WriteOf(b))
          /\ Once(r, WriteOf(b))
      BY <1>1, TailHolds DEF EachOnce
    <2>2. q \in WriteOf(b) <=> b = q.b
      BY <1>1 DEF WriteOf
    <2> HIDE DEF q, r
    <2> QED BY ONLY <2>1, <2>2
  <1>3. \A t \in Targets : g[t] = IF t = t0 THEN r ELSE f[t]
    OBVIOUS
  <1> HIDE DEF q, r
  <1>4. ASSUME NEW t \in Targets, NEW b \in Banks
        PROVE  /\ Holds(g[t], WriteOf(b)) <=> Holds(f[t], WriteOf(b)) /\ ~(t = t0 /\ b = q.b)
               /\ Once(g[t], WriteOf(b))
    BY ONLY <1>2, <1>3, <1>4, EachOnce(f) DEF EachOnce
  <1>5. q.b \in Banks => Holds(f[t0], WriteOf(q.b))
    BY <1>2
  <1> QED BY <1>1, <1>4, <1>5 DEF q, Leaves, EachOnce

LEMMA RequestWithout ==
  ASSUME NEW f \in [Targets -> Seq(WriteReq)], NEW t0 \in Targets, NEW i \in DOMAIN f[t0], NEW g,
         g = [f EXCEPT ![t0] = Without(@, i)],
         EachOnce(f)
  PROVE  /\ Leaves(f, g, t0, f[t0][i].b) /\ EachOnce(g)
         /\ f[t0][i] \in WriteReq
         /\ f[t0][i].b \in Banks => Holds(f[t0], WriteOf(f[t0][i].b))
  <1> DEFINE q == f[t0][i]
             r == Without(f[t0], i)
  <1>1. f[t0] \in Seq(WriteReq) /\ q \in WriteReq
    <2>1. f[t0] \in Seq(WriteReq)
      OBVIOUS
    <2> QED BY <2>1, LenProperties, ElementOfSeq
  <1>2. \A b \in Banks : /\ Holds(f[t0], WriteOf(b)) <=> Holds(r, WriteOf(b)) \/ b = q.b
                         /\ ~(Holds(r, WriteOf(b)) /\ b = q.b)
                         /\ Once(r, WriteOf(b))
    <2> TAKE b \in Banks
    <2>1. /\ Holds(f[t0], WriteOf(b)) <=> Holds(r, WriteOf(b)) \/ q \in WriteOf(b)
          /\ ~(Holds(r, WriteOf(b)) /\ q \in WriteOf(b))
          /\ Once(r, WriteOf(b))
      BY <1>1, WithoutHolds DEF EachOnce
    <2>2. q \in WriteOf(b) <=> b = q.b
      BY <1>1 DEF WriteOf
    <2> HIDE DEF q, r
    <2> QED BY ONLY <2>1, <2>2
  <1>3. \A t \in Targets : g[t] = IF t = t0 THEN r ELSE f[t]
    OBVIOUS
  <1> HIDE DEF q, r
  <1>4. ASSUME NEW t \in Targets, NEW b \in Banks
        PROVE  /\ Holds(g[t], WriteOf(b)) <=> Holds(f[t], WriteOf(b)) /\ ~(t = t0 /\ b = q.b)
               /\ Once(g[t], WriteOf(b))
    BY ONLY <1>2, <1>3, <1>4, EachOnce(f) DEF EachOnce
  <1>5. q.b \in Banks => Holds(f[t0], WriteOf(q.b))
    BY <1>2
  <1> QED BY <1>1, <1>4, <1>5 DEF q, Leaves, EachOnce

\* add() to and remove() from v8LogCallbacks.
LEMMA WaitingAppend ==
  ASSUME TypeOK, BankInv, NEW c \in Callback, cbq' = Append(cbq, c),
         c.b \in Banks => ~In("waiting", c.t, c.b)
  PROVE  /\ \A t \in Targets, b \in Banks :
              In("waiting", t, b)' <=> In("waiting", t, b) \/ (t = c.t /\ b = c.b)
         /\ WaitingOnce'
  <1> SUFFICES ASSUME NEW t \in Targets, NEW b \in Banks
               PROVE  /\ In("waiting", t, b)' <=> In("waiting", t, b) \/ (t = c.t /\ b = c.b)
                      /\ Once(cbq', CallOf(t, b))
    BY DEF WaitingOnce
  <1>1. cbq \in Seq(Callback) /\ Once(cbq, CallOf(t, b))
    BY DEF TypeOK, IOTypes, BankInv, WaitingOnce
  <1>2. c \in CallOf(t, b) <=> t = c.t /\ b = c.b
    BY DEF CallOf
  <1>3. /\ In("waiting", t, b) <=> Holds(cbq, CallOf(t, b))
        /\ In("waiting", t, b)' <=> Holds(cbq', CallOf(t, b))
    BY DEF In
  <1>4. /\ Holds(Append(cbq, c), CallOf(t, b)) <=> Holds(cbq, CallOf(t, b)) \/ c \in CallOf(t, b)
        /\ Once(cbq, CallOf(t, b)) /\ ~(Holds(cbq, CallOf(t, b)) /\ c \in CallOf(t, b))
           => Once(Append(cbq, c), CallOf(t, b))
    BY ONLY <1>1, AppendHolds, c \in Callback
  <1> QED BY <1>1, <1>2, <1>3, <1>4

LEMMA WaitingTail ==
  ASSUME TypeOK, BankInv, cbq # <<>>, cbq' = Tail(cbq)
  PROVE  /\ Head(cbq) \in Callback
         /\ Head(cbq).b \in Banks => In("waiting", Head(cbq).t, Head(cbq).b)
         /\ \A t \in Targets, b \in Banks :
              In("waiting", t, b)' <=> In("waiting", t, b) /\ ~(t = Head(cbq).t /\ b = Head(cbq).b)
         /\ WaitingOnce'
  <1> DEFINE c == Head(cbq)
  <1>1. cbq \in Seq(Callback) /\ c \in Callback
    BY HeadTailProperties DEF TypeOK, IOTypes
  <1>2. ASSUME NEW t \in Targets, NEW b \in Banks
        PROVE  /\ In("waiting", t, b)' <=> In("waiting", t, b) /\ ~(t = c.t /\ b = c.b)
               /\ t = c.t /\ b = c.b => In("waiting", t, b)
               /\ Once(cbq', CallOf(t, b))
    <2>1. Once(cbq, CallOf(t, b))
      BY DEF BankInv, WaitingOnce
    <2>2. c \in CallOf(t, b) <=> t = c.t /\ b = c.b
      BY <1>1 DEF CallOf
    <2>3. /\ In("waiting", t, b) <=> Holds(cbq, CallOf(t, b))
          /\ In("waiting", t, b)' <=> Holds(cbq', CallOf(t, b))
      BY DEF In
    <2>4. /\ Holds(cbq, CallOf(t, b)) <=> Holds(Tail(cbq), CallOf(t, b)) \/ c \in CallOf(t, b)
          /\ ~(Holds(Tail(cbq), CallOf(t, b)) /\ c \in CallOf(t, b))
          /\ Once(Tail(cbq), CallOf(t, b))
      BY <1>1, <2>1, TailHolds
    <2> HIDE DEF c
    <2> QED BY ONLY cbq' = Tail(cbq), <2>2, <2>3, <2>4
  <1>3. c.t \in Targets
    BY <1>1 DEF Callback
  <1> HIDE DEF c
  <1>4. c.b \in Banks => In("waiting", c.t, c.b)
    BY ONLY <1>2, <1>3
  <1>5. WaitingOnce'
    BY ONLY <1>2 DEF WaitingOnce
  <1> QED BY <1>1, <1>2, <1>4, <1>5 DEF c

\* returnBuffer(): the bank waits for its callback or is free again.
LEMMA ReturnBankMoves ==
  ASSUME TypeOK, BankInv, NEW t0 \in Targets, NEW b0 \in Banks, ReturnBank(t0, b0),
         NEW k1 \in {"flushing", "written"}, In(k1, t0, b0), UNCHANGED <<fly, vcb>>,
         \A t \in Targets, b \in Banks : In(k1, t, b)' <=> In(k1, t, b) /\ ~(t = t0 /\ b = b0),
         \A t \in Targets, b \in Banks : \A k \in {"flushing", "written"} \ {k1} :
           In(k, t, b)' <=> In(k, t, b),
         WrittenOnce', FlushingOnce'
  PROVE  BankInv'
  <1>1. UNCHANGED <<cur, wout>> /\ avail \in [Targets -> SUBSET Banks]
    BY DEF ReturnBank, TypeOK, BankTypes
  <1>2. \A t \in Targets, b \in Banks : \A k \in Kinds \ {k1, "free", "waiting"} :
          In(k, t, b)' <=> In(k, t, b)
    BY <1>1, PlaceFrame DEF Kinds
  <1>3. ~In("waiting", t0, b0) /\ ~In("free", t0, b0)
    BY DEF BankInv, OneKind, Kinds
  <1>4. CASE cbq' = Append(cbq, [t |-> t0, b |-> b0, m |-> None]) /\ UNCHANGED avail
    <2> DEFINE c == [t |-> t0, b |-> b0, m |-> None]
    <2>1. c \in Callback /\ c.t = t0 /\ c.b = b0
      BY DEF Callback
    <2> HIDE DEF c
    <2>2. /\ \A t \in Targets, b \in Banks :
               In("waiting", t, b)' <=> In("waiting", t, b) \/ (t = t0 /\ b = b0)
          /\ WaitingOnce'
      <3>1. cbq' = Append(cbq, c)
        BY <1>4 DEF c
      <3> QED BY ONLY <1>3, <2>1, <3>1, TypeOK, BankInv, WaitingAppend
    <2>3. Moved(t0, b0, k1, "waiting")
      BY <1>2, <1>4, <2>2, PlaceFrame DEF Moved, Kinds
    <2>4. OneKind'
      BY <2>3, MovedKeepsOneKind DEF BankInv, Kinds
    <2> QED BY <1>1, <2>2, <2>4, OnceFrame DEF BankInv
  <1>5. CASE avail' = [avail EXCEPT ![t0] = @ \cup {b0}] /\ UNCHANGED cbq
    <2>1. \A t \in Targets, b \in Banks : In("free", t, b)' <=> In("free", t, b) \/ (t = t0 /\ b = b0)
      BY <1>1, <1>5 DEF In
    <2>2. Moved(t0, b0, k1, "free")
      BY <1>2, <1>5, <2>1, PlaceFrame DEF Moved, Kinds
    <2>3. OneKind'
      BY <2>2, MovedKeepsOneKind DEF BankInv, Kinds
    <2> QED BY <1>1, <1>5, <2>3, OnceFrame DEF BankInv
  <1> QED BY <1>4, <1>5 DEF ReturnBank

\* A thread outside flush() that turns to another target carries no bank.
LEMMA EmptyHanded ==
  ASSUME TypeOK, BankInv, NEW x \in Threads, fpc[x] # "submit", UNCHANGED fb,
         NEW d, ft' = [ft EXCEPT ![x] = d]
  PROVE  /\ \A t \in Targets, b \in Banks : In("flushing", t, b)' <=> In("flushing", t, b)
         /\ FlushingOnce'
  <1>1. /\ fb[x] \notin Banks /\ \A y \in Threads : y # x => ft'[y] = ft[y]
    BY DEF TypeOK, FlushTypes
  <1>2. \A t, b : In("flushing", t, b) <=> \E y \in Threads : ft[y] = t /\ fb[y] = b
    BY DEF In
  <1>3. \A t, b : In("flushing", t, b)' <=> \E y \in Threads : ft'[y] = t /\ fb[y] = b
    BY DEF In
  <1>4. \A t \in Targets, b \in Banks : In("flushing", t, b)' <=> In("flushing", t, b)
    BY ONLY <1>1, <1>2, <1>3
  <1>5. FlushingOnce'
    BY <1>1 DEF BankInv, FlushingOnce
  <1> QED BY <1>4, <1>5

LEMMA FlushBanks ==
  ASSUME TypeOK, BankInv, NEW x \in Threads, FlushStep(x)
  PROVE  BankInv'
  <1>0. fb \in [Threads -> Banks \cup {None}] /\ ft \in [Threads -> Targets \cup {None}]
    BY DEF TypeOK, FlushTypes
  <1>1. CASE FlushRotate(x)
    <2>1. PICK t0 \in fset[x] : Rotate(t0) /\ ft' = [ft EXCEPT ![x] = t0]
      BY <1>1 DEF FlushRotate
    <2>2. t0 \in Targets /\ fpc[x] # "submit"
      BY <1>1 DEF FlushRotate, TypeOK, FlushTypes
    <2>3. UNCHANGED <<fb, fly, fin, cbq, vcb>>
      BY <1>1 DEF FlushRotate, ioVars
    <2>4. /\ \A t \in Targets, b \in Banks : In("flushing", t, b)' <=> In("flushing", t, b)
          /\ FlushingOnce'
      BY <2>1, <2>2, <2>3, EmptyHanded
    <2> QED BY <2>1, <2>2, <2>3, <2>4, RotateBanks
  <1>2. CASE FlushTake(x)
    <2>1. /\ ft[x] \in Targets /\ fpc[x] = "take" /\ fb[x] \notin Banks
          /\ UNCHANGED <<cur, avail, fly, fin, cbq, vcb>>
      BY <1>2 DEF FlushTake, TypeOK, FlushTypes, ioVars
    <2> DEFINE t0 == ft[x]
               h == Head(wout[t0])
    <2>2. CASE /\ wout[t0] # <<>>
               /\ fb' = [fb EXCEPT ![x] = h]
               /\ wout' = [wout EXCEPT ![t0] = Tail(@)]
               /\ UNCHANGED ft
      <3>1. /\ h \in Banks /\ In("queued", t0, h)
            /\ \A t \in Targets, b \in Banks :
                 In("queued", t, b)' <=> In("queued", t, b) /\ ~(t = t0 /\ b = h)
            /\ QueuedBankOnce'
        BY <2>1, <2>2, QueuedTail
      <3>2. ~In("flushing", t0, h)
        BY <2>1, <3>1 DEF BankInv, OneKind, Kinds
      <3>3. /\ \A t, b : In("flushing", t, b) <=> \E y \in Threads : ft[y] = t /\ fb[y] = b
            /\ \A t, b : In("flushing", t, b)' <=> \E y \in Threads : ft[y] = t /\ fb'[y] = b
        BY <2>2 DEF In
      <3> HIDE DEF t0, h
      <3>4. fb'[x] = h /\ \A y \in Threads : y # x => fb'[y] = fb[y]
        BY <1>0, <2>2
      <3>5. ft[x] = t0
        BY DEF t0
      <3>6. \A t \in Targets, b \in Banks :
              In("flushing", t, b)' <=> In("flushing", t, b) \/ (t = t0 /\ b = h)
        BY ONLY <2>1, <3>3, <3>4, <3>5, x \in Threads
      <3>7. FlushingOnce'
        <4> SUFFICES ASSUME NEW y \in Threads, NEW z \in Threads, fb'[y] \in Banks,
                            fb'[y] = fb'[z], ft[y] = ft[z]
                     PROVE  y = z
          BY <2>2 DEF FlushingOnce
        <4>1. CASE y # x /\ z # x
          BY <3>4, <4>1 DEF BankInv, FlushingOnce
        <4>2. CASE y = x /\ z # x
          BY <3>2, <3>3, <3>4, <3>5, <4>2
        <4>3. CASE y # x /\ z = x
          BY <3>2, <3>3, <3>4, <3>5, <4>3
        <4> QED BY <4>1, <4>2, <4>3
      <3>8. Moved(t0, h, "queued", "flushing")
        BY <2>1, <3>1, <3>6, PlaceFrame DEF Moved, Kinds
      <3>9. OneKind'
        BY <2>1, <3>1, <3>5, <3>8, MovedKeepsOneKind DEF BankInv, Kinds
      <3> QED BY <2>1, <3>1, <3>7, <3>9, OnceFrame DEF BankInv
    <2>3. CASE ft' = [ft EXCEPT ![x] = None] /\ UNCHANGED <<fb, wout>>
      <3>1. /\ \A t \in Targets, b \in Banks : In("flushing", t, b)' <=> In("flushing", t, b)
            /\ FlushingOnce'
        BY <2>1, <2>3, EmptyHanded
      <3>2. OneKind'
        BY <2>1, <2>3, <3>1, PlaceFrame, StayKeepsOneKind DEF BankInv, Kinds
      <3> QED BY <2>1, <2>3, <3>1, <3>2, OnceFrame DEF BankInv
    <2> QED BY <1>2, <2>2, <2>3 DEF FlushTake
  <1>3. CASE FlushSubmit(x)
    <2>1. /\ ft[x] \in Targets /\ fb[x] \in Banks /\ fb' = [fb EXCEPT ![x] = None]
          /\ UNCHANGED <<ft, fin, vcb>>
      BY <1>3 DEF FlushSubmit, TypeOK, FlushTypes
    <2> DEFINE t0 == ft[x]
               b0 == fb[x]
    <2>2. In("flushing", t0, b0)
      BY DEF In
    <2>3. \A t \in Targets, b \in Banks :
            In("flushing", t, b)' <=> In("flushing", t, b) /\ ~(t = t0 /\ b = b0)
      <3>1. /\ \A t, b : In("flushing", t, b) <=> \E y \in Threads : ft[y] = t /\ fb[y] = b
            /\ \A t, b : In("flushing", t, b)' <=> \E y \in Threads : ft[y] = t /\ fb'[y] = b
        BY <2>1 DEF In
      <3>2. fb'[x] = None /\ None \notin Banks /\ \A y \in Threads : y # x => fb'[y] = fb[y]
        BY <1>0, <2>1, PipelineAssumption
      <3>3. \A y \in Threads : fb[y] = b0 /\ ft[y] = t0 => y = x
        BY <2>1 DEF BankInv, FlushingOnce
      <3> HIDE DEF t0, b0
      <3>4. ft[x] = t0 /\ fb[x] = b0
        BY DEF t0, b0
      <3> QED BY ONLY <3>1, <3>2, <3>3, <3>4, x \in Threads
    <2>4. FlushingOnce'
      <3>1. None \notin Banks
        BY PipelineAssumption
      <3> QED BY <1>0, <2>1, <3>1 DEF BankInv, FlushingOnce
    <2>5. CASE /\ fly' = [fly EXCEPT ![t0] = Append(@, [b |-> b0, m |-> None])]
               /\ UNCHANGED <<bankVars, cbq>>
      <3> DEFINE q == [b |-> b0, m |-> None]
      <3>1. q \in WriteReq /\ q.b = b0
        BY <2>1 DEF WriteReq
      <3>2. ~Holds(fly[t0], WriteOf(b0))
        BY <2>1, <2>2 DEF BankInv, OneKind, Kinds, In
      <3>3. fly \in [Targets -> Seq(WriteReq)] /\ EachOnce(fly)
        BY DEF TypeOK, IOTypes, BankInv, FlyingOnce, EachOnce
      <3> HIDE DEF q
      <3>4. Joins(fly, fly', t0, q.b) /\ EachOnce(fly')
        <4>1. fly' = [fly EXCEPT ![t0] = Append(@, q)] /\ t0 \in Targets
          BY <2>1, <2>5 DEF q
        <4> HIDE DEF t0, b0
        <4>2. q.b \in Banks => ~Holds(fly[t0], WriteOf(q.b))
          BY ONLY <3>1, <3>2
        <4>3. q \in WriteReq
          BY <3>1
        <4> QED BY ONLY <3>3, <4>1, <4>2, <4>3, RequestAppend
      <3>5. \A t \in Targets, b \in Banks :
              In("flying", t, b)' <=> In("flying", t, b) \/ (t = t0 /\ b = b0)
        BY <3>1, <3>4 DEF In, Joins
      <3>6. Moved(t0, b0, "flushing", "flying")
        BY <2>1, <2>3, <2>5, <3>5, PlaceFrame DEF Moved, Kinds, bankVars
      <3>7. OneKind'
        BY <2>1, <2>2, <3>6, MovedKeepsOneKind DEF BankInv, Kinds
      <3>8. FlyingOnce'
        BY <3>4 DEF FlyingOnce, EachOnce
      <3> QED BY <2>1, <2>4, <2>5, <3>7, <3>8, OnceFrame DEF BankInv, bankVars
    <2>6. CASE ReturnBank(t0, b0) /\ UNCHANGED fly
      <3>1. \A t \in Targets, b \in Banks : \A k \in {"flushing", "written"} \ {"flushing"} :
              In(k, t, b)' <=> In(k, t, b)
        BY <2>1, PlaceFrame
      <3>2. WrittenOnce'
        BY <2>1, OnceFrame
      <3>3. "flushing" \in {"flushing", "written"} /\ t0 \in Targets /\ b0 \in Banks
        BY <2>1
      <3> HIDE DEF t0, b0
      <3> QED BY ONLY <2>1, <2>2, <2>3, <2>4, <2>6, <3>1, <3>2, <3>3, TypeOK, BankInv,
                      ReturnBankMoves
    <2> QED BY <1>3, <2>5, <2>6 DEF FlushSubmit
  <1> QED BY <1>1, <1>2, <1>3 DEF FlushStep

\* A callback for an overflow message carries no bank.
LEMMA OverflowCallbackStays ==
  ASSUME TypeOK, BankInv, NEW t0 \in Targets, NEW m \in Msgs, QueueOverflowCallback(t0, m)
  PROVE  /\ \A t \in Targets, b \in Banks : In("waiting", t, b)' <=> In("waiting", t, b)
         /\ WaitingOnce'
  <1>1. CASE UNCHANGED cbq
    BY <1>1, PlaceFrame, OnceFrame
  <1>2. CASE cbq' = Append(cbq, [t |-> t0, b |-> None, m |-> m])
    <2> DEFINE c == [t |-> t0, b |-> None, m |-> m]
    <2>1. c \in Callback /\ c.b \notin Banks
      BY PipelineAssumption DEF Callback
    <2>2. cbq' = Append(cbq, c)
      BY <1>2
    <2> HIDE DEF c
    <2>3. /\ \A t \in Targets, b \in Banks :
               In("waiting", t, b)' <=> In("waiting", t, b) \/ (t = c.t /\ b = c.b)
          /\ WaitingOnce'
      BY ONLY <2>1, <2>2, TypeOK, BankInv, WaitingAppend
    <2> QED BY ONLY <2>1, <2>3
  <1> QED BY <1>1, <1>2 DEF QueueOverflowCallback

LEMMA WriteCbBanks ==
  ASSUME TypeOK, BankInv, NEW t0 \in Targets, WriteCb(t0)
  PROVE  BankInv'
  <1> DEFINE q == Head(fin[t0])
  <1>1. /\ fin[t0] # <<>> /\ fin' = [fin EXCEPT ![t0] = Tail(@)]
        /\ UNCHANGED <<fly, vcb, ft, fb>>
    BY DEF WriteCb, fVars
  <1>2. fin \in [Targets -> Seq(WriteReq)] /\ EachOnce(fin)
    BY DEF TypeOK, IOTypes, BankInv, WrittenOnce, EachOnce
  <1>3. /\ Leaves(fin, fin', t0, q.b) /\ EachOnce(fin') /\ q \in WriteReq
        /\ q.b \in Banks => Holds(fin[t0], WriteOf(q.b))
    BY ONLY <1>1, <1>2, t0 \in Targets, RequestTail, ZenonT(60)
  <1>4. \A t \in Targets, b \in Banks :
          In("written", t, b)' <=> In("written", t, b) /\ ~(t = t0 /\ b = q.b)
    BY <1>3 DEF In, Leaves
  <1>5. WrittenOnce' /\ FlushingOnce'
    BY <1>1, <1>3, OnceFrame DEF WrittenOnce, EachOnce
  <1>6. CASE q.b # None /\ ReturnBank(t0, q.b)
    <2>1. q.b \in Banks
      BY <1>3, <1>6 DEF WriteReq
    <2>2. In("written", t0, q.b) /\ "written" \in {"flushing", "written"}
      BY <1>3, <2>1 DEF In
    <2>3. \A t \in Targets, b \in Banks : \A k \in {"flushing", "written"} \ {"written"} :
            In(k, t, b)' <=> In(k, t, b)
      BY <1>1, PlaceFrame
    <2> HIDE DEF q
    <2> QED BY ONLY <1>1, <1>4, <1>5, <1>6, <2>1, <2>2, <2>3, TypeOK, BankInv, t0 \in Targets,
                    ReturnBankMoves
  <1>7. CASE /\ q.b = None
             /\ QueueOverflowCallback(t0, q.m)
             /\ UNCHANGED bankVars
    <2>1. q.m \in Msgs /\ q.b \notin Banks
      BY <1>3, <1>7, PipelineAssumption DEF WriteReq
    <2>2. /\ \A t \in Targets, b \in Banks : In("waiting", t, b)' <=> In("waiting", t, b)
          /\ WaitingOnce'
      BY <1>7, <2>1, OverflowCallbackStays
    <2>3. \A t \in Targets, b \in Banks : In("written", t, b)' <=> In("written", t, b)
      BY ONLY <1>4, <2>1
    <2>4. OneKind'
      BY <1>1, <1>7, <2>2, <2>3, PlaceFrame, StayKeepsOneKind DEF BankInv, Kinds, bankVars
    <2> QED BY <1>1, <1>5, <1>7, <2>2, <2>4, OnceFrame DEF BankInv, bankVars
  <1> QED BY <1>6, <1>7 DEF WriteCb

LEMMA PerformWriteBanks ==
  ASSUME TypeOK, BankInv, NEW t0 \in Targets, PerformWrite(t0)
  PROVE  BankInv'
  <1>1. PICK i \in DOMAIN fly[t0] :
          /\ fin' = [fin EXCEPT ![t0] = Append(@, fly[t0][i])]
          /\ fly' = [fly EXCEPT ![t0] = Without(@, i)]
    BY DEF PerformWrite, Without
  <1> DEFINE q == fly[t0][i]
  <1>2. UNCHANGED <<cur, avail, wout, ft, fb, cbq, vcb>>
    BY DEF PerformWrite, bankVars, fVars
  <1>3. /\ fly \in [Targets -> Seq(WriteReq)] /\ EachOnce(fly)
        /\ fin \in [Targets -> Seq(WriteReq)] /\ EachOnce(fin)
    BY DEF TypeOK, IOTypes, BankInv, WrittenOnce, FlyingOnce, EachOnce
  <1>4. /\ Leaves(fly, fly', t0, q.b) /\ EachOnce(fly') /\ q \in WriteReq
        /\ q.b \in Banks => Holds(fly[t0], WriteOf(q.b))
    <2>1. fly' = [fly EXCEPT ![t0] = Without(@, i)] /\ i \in DOMAIN fly[t0]
      BY <1>1
    <2> QED BY ONLY <1>1, <1>3, <2>1, t0 \in Targets, RequestWithout
  <1>5. q.b \in Banks => In("flying", t0, q.b)
    BY <1>4 DEF In
  <1>6. q.b \in Banks => ~Holds(fin[t0], WriteOf(q.b))
    <2> SUFFICES ASSUME q.b \in Banks PROVE ~In("written", t0, q.b)
      BY DEF In
    <2> QED BY <1>5 DEF BankInv, OneKind, Kinds
  <1>7. Joins(fin, fin', t0, q.b) /\ EachOnce(fin')
    <2>1. q \in WriteReq /\ fin' = [fin EXCEPT ![t0] = Append(@, q)]
      BY <1>1, <1>4
    <2> HIDE DEF q
    <2> QED BY ONLY <1>3, <1>6, <2>1, t0 \in Targets, RequestAppend
  <1> HIDE DEF q
  <1>8. \A t \in Targets, b \in Banks :
          /\ In("flying", t, b)' <=> In("flying", t, b) /\ ~(t = t0 /\ b = q.b)
          /\ In("written", t, b)' <=> In("written", t, b) \/ (t = t0 /\ b = q.b)
    BY <1>4, <1>7 DEF In, Joins, Leaves
  <1>9. OneKind'
    <2>1. CASE q.b \in Banks
      <3>1. Moved(t0, q.b, "flying", "written")
        BY <1>2, <1>8, PlaceFrame DEF Moved, Kinds
      <3> QED BY <1>5, <2>1, <3>1, MovedKeepsOneKind DEF BankInv, Kinds
    <2>2. CASE q.b \notin Banks
      BY <1>2, <1>8, <2>2, PlaceFrame, StayKeepsOneKind DEF BankInv, Kinds
    <2> QED BY <2>1, <2>2
  <1>10. FlyingOnce' /\ WrittenOnce'
    BY <1>4, <1>7 DEF FlyingOnce, WrittenOnce, EachOnce
  <1> QED BY <1>2, <1>9, <1>10, OnceFrame DEF BankInv

\* writeOverflow() sends no bank anywhere.
LEMMA OverflowWriteBanks ==
  ASSUME TypeOK, BankInv, OverflowWrite
  PROVE  BankInv'
  <1>1. /\ UNCHANGED <<cur, avail, wout, fin, ft, fb, vcb>>
        /\ T \in Targets /\ gmsg \in Msgs
    <2>1. gpc = "owrite" /\ groute # <<>> /\ gmsg \in Msgs
      BY DEF OverflowWrite, TypeOK, GreaseTypes, WritePcs
    <2> QED BY <2>1, WriteTarget DEF OverflowWrite, bankVars, fVars, ioVars
  <1>2. /\ \A t \in Targets, b \in Banks : In("waiting", t, b)' <=> In("waiting", t, b)
        /\ WaitingOnce'
    <2>1. UNCHANGED cbq \/ QueueOverflowCallback(T, gmsg)
      BY DEF OverflowWrite
    <2> QED BY <1>1, <2>1, PlaceFrame, OnceFrame, OverflowCallbackStays
  <1>3. /\ \A t \in Targets, b \in Banks : In("flying", t, b)' <=> In("flying", t, b)
        /\ FlyingOnce'
    <2>1. CASE UNCHANGED fly
      BY <2>1, PlaceFrame, OnceFrame
    <2>2. CASE fly' = [fly EXCEPT ![T] = Append(@, [b |-> None, m |-> gmsg])]
      <3> DEFINE q == [b |-> None, m |-> gmsg]
      <3>1. q \in WriteReq /\ q.b \notin Banks
        BY <1>1, PipelineAssumption DEF WriteReq
      <3>2. fly \in [Targets -> Seq(WriteReq)] /\ EachOnce(fly)
        BY DEF TypeOK, IOTypes, BankInv, FlyingOnce, EachOnce
      <3>3. fly' = [fly EXCEPT ![T] = Append(@, q)] /\ T \in Targets
        BY <1>1, <2>2
      <3> HIDE DEF q
      <3>4. Joins(fly, fly', T, q.b) /\ EachOnce(fly')
        BY ONLY <3>1, <3>2, <3>3, RequestAppend, ZenonT(60)
      <3>5. \A t \in Targets, b \in Banks : Holds(fly'[t], WriteOf(b)) <=> Holds(fly[t], WriteOf(b))
        BY ONLY <3>1, <3>4 DEF Joins
      <3> QED BY <3>4, <3>5 DEF In, FlyingOnce, EachOnce
    <2> QED BY <2>1, <2>2 DEF OverflowWrite, ioVars
  <1>4. OneKind'
    BY <1>1, <1>2, <1>3, PlaceFrame, StayKeepsOneKind DEF BankInv, Kinds
  <1> QED BY <1>1, <1>2, <1>3, <1>4, OnceFrame DEF BankInv

\* callV8LogCallbacks, _doV8Callback and finalizeV8Callback.
LEMMA V8Banks ==
  ASSUME TypeOK, BankInv, CallV8LogCallbacks \/ DoV8Callback
  PROVE  BankInv'
  <1>1. CASE CallV8LogCallbacks
    <2> DEFINE c == Head(cbq)
    <2>1. /\ UNCHANGED <<cur, avail, wout, fly, fin, ft, fb>>
          /\ cbq # <<>> /\ cbq' = Tail(cbq) /\ vcb = None /\ vcb' = c
      BY <1>1 DEF CallV8LogCallbacks, V8Idle, bankVars, ioVars, fVars
    <2>2. /\ c \in Callback
          /\ c.b \in Banks => In("waiting", c.t, c.b)
          /\ \A t \in Targets, b \in Banks :
               In("waiting", t, b)' <=> In("waiting", t, b) /\ ~(t = c.t /\ b = c.b)
          /\ WaitingOnce'
      BY <2>1, WaitingTail
    <2> HIDE DEF c
    <2>3. \A t, b : None \notin CallOf(t, b)
      BY PipelineAssumption DEF CallOf
    <2>4. \A t \in Targets, b \in Banks :
            In("inside", t, b)' <=> In("inside", t, b) \/ (t = c.t /\ b = c.b)
      BY <2>1, <2>2, <2>3 DEF In, CallOf
    <2>5. OneKind'
      <3>1. CASE c.b \in Banks
        <4>1. Moved(c.t, c.b, "waiting", "inside")
          BY <2>1, <2>2, <2>4, PlaceFrame DEF Moved, Kinds
        <4>2. c.t \in Targets
          BY <2>2 DEF Callback
        <4> QED BY <2>2, <3>1, <4>1, <4>2, MovedKeepsOneKind DEF BankInv, Kinds
      <3>2. CASE c.b \notin Banks
        BY <2>1, <2>2, <2>4, <3>2, PlaceFrame, StayKeepsOneKind DEF BankInv, Kinds
      <3> QED BY <3>1, <3>2
    <2> QED BY <2>1, <2>2, <2>5, OnceFrame DEF BankInv
  <1>2. CASE DoV8Callback
    <2>1. /\ UNCHANGED <<cur, wout, fly, fin, cbq, ft, fb>>
          /\ vcb # None /\ vcb' = None /\ vcb \in Callback
      BY <1>2 DEF DoV8Callback, fVars, TypeOK, IOTypes
    <2>2. \A t \in Targets, b \in Banks :
            In("inside", t, b)' <=> In("inside", t, b) /\ ~(t = vcb.t /\ b = vcb.b)
      BY <2>1, PipelineAssumption DEF In, CallOf
    <2>3. CASE vcb.b = None /\ UNCHANGED avail
      <3>1. vcb.b \notin Banks
        BY <2>3, PipelineAssumption
      <3>2. OneKind'
        BY <2>1, <2>2, <2>3, <3>1, PlaceFrame, StayKeepsOneKind DEF BankInv, Kinds
      <3> QED BY <2>1, <3>2, OnceFrame DEF BankInv
    <2>4. CASE vcb.b # None /\ avail' = [avail EXCEPT ![vcb.t] = @ \cup {vcb.b}]
      <3>1. vcb.b \in Banks /\ vcb.t \in Targets /\ avail \in [Targets -> SUBSET Banks]
        BY <2>1, <2>4 DEF Callback, TypeOK, BankTypes
      <3>2. In("inside", vcb.t, vcb.b)
        BY <2>1 DEF In, CallOf
      <3>3. \A t \in Targets, b \in Banks :
              In("free", t, b)' <=> In("free", t, b) \/ (t = vcb.t /\ b = vcb.b)
        BY <2>4, <3>1 DEF In
      <3>4. Moved(vcb.t, vcb.b, "inside", "free")
        BY <2>1, <2>2, <3>3, PlaceFrame DEF Moved, Kinds
      <3>5. OneKind'
        BY <3>1, <3>2, <3>4, MovedKeepsOneKind DEF BankInv, Kinds
      <3> QED BY <2>1, <3>5, OnceFrame DEF BankInv
    <2> QED BY <1>2, <2>3, <2>4 DEF DoV8Callback
  <1> QED BY <1>1, <1>2

-----------------------------------------------------------------------------
(* No bank is lost or in two places                                         *)

placeVars == <<cur, avail, wout, fly, fin, cbq, vcb, ft, fb>>

LEMMA SamePlaces ==
  ASSUME BankInv, UNCHANGED placeVars
  PROVE  BankInv'
  <1>1. OneKind'
    BY PlaceFrame, StayKeepsOneKind DEF BankInv, Kinds, placeVars
  <1> QED BY <1>1, OnceFrame DEF BankInv, placeVars

LEMMA NextBanks ==
  ASSUME TypeOK, BankInv, [Next]_vars
  PROVE  BankInv'
  <1>1. ASSUME NEW p \in Producers, ProducerStep(p) PROVE BankInv'
    BY <1>1, SamePlaces DEF ProducerStep, LogStart, LogEnqueue, LogSend, placeVars, bankVars,
                            ioVars, fVars
  <1>2. ASSUME NEW x \in Threads, FlushStep(x) PROVE BankInv'
    BY <1>2, FlushBanks
  <1>3. CASE WriteStep
    <2>1. CASE WriteRotate
      <3>1. T \in Targets
        BY <2>1, WriteTarget DEF WriteRotate, TypeOK, GreaseTypes, WritePcs
      <3>2. Rotate(T) /\ UNCHANGED <<fly, fin, cbq, vcb, ft, fb>>
        BY <2>1 DEF WriteRotate, ioVars, fVars
      <3> QED BY <3>1, <3>2, RotateBanks, PlaceFrame, OnceFrame
    <2>2. CASE WriteTest \/ WriteRef \/ WriteCopy \/ WriteRequest \/ WriteRefCopy
      BY <2>2, SamePlaces DEF WriteTest, WriteRef, WriteCopy, WriteRequest, WriteRefCopy,
                              placeVars, bankVars, ioVars, fVars
    <2> QED BY <1>3, <2>1, <2>2 DEF WriteStep
  <1>4. CASE Dequeue
    <2>1. UNCHANGED <<cur, avail, wout, fly, fin, cbq, vcb>> /\ fpc["grease"] # "submit"
      BY <1>4 DEF Dequeue, bankVars, ioVars
    <2>2. CASE UNCHANGED fVars
      BY <2>1, <2>2, SamePlaces DEF placeVars, fVars
    <2>3. CASE ft' = [ft EXCEPT !["grease"] = Head(cmdq).t] /\ UNCHANGED fb
      <3>1. /\ \A t \in Targets, b \in Banks : In("flushing", t, b)' <=> In("flushing", t, b)
            /\ FlushingOnce'
        <4>1. "grease" \in Threads
          BY DEF Threads
        <4> QED BY <2>1, <2>3, <4>1, EmptyHanded
      <3>2. OneKind'
        BY <2>1, <3>1, PlaceFrame, StayKeepsOneKind DEF BankInv, Kinds
      <3> QED BY <2>1, <3>1, <3>2, OnceFrame DEF BankInv
    <2> QED BY <1>4, <2>2, <2>3 DEF Dequeue
  <1>5. CASE HandleInternalCmd \/ EndCmd \/ OverflowFlush \/ FlushTimer \/ Flush \/ DisableWrites
    BY <1>5, SamePlaces DEF HandleInternalCmd, EndCmd, OverflowFlush, FlushTimer, Flush,
         DisableWrites, BeginFlush, placeVars, bankVars, ioVars, fVars
  <1>6. ASSUME NEW t \in Targets, WriteCb(t) \/ PerformWrite(t) PROVE BankInv'
    BY <1>6, WriteCbBanks, PerformWriteBanks
  <1>7. CASE UNCHANGED vars
    BY <1>7, SamePlaces DEF vars, placeVars, bankVars, ioVars, fVars
  <1>8. "grease" \in Threads /\ "v8" \in Threads
    BY DEF Threads
  <1>9. CASE GreaseStep
    BY <1>2, <1>3, <1>4, <1>5, <1>8, <1>9, OverflowWriteBanks DEF GreaseStep
  <1>10. CASE V8Step
    BY <1>2, <1>8, <1>10, V8Banks DEF V8Step
  <1> QED BY <1>1, <1>5, <1>6, <1>7, <1>9, <1>10 DEF Next

LEMMA InitBanks == ASSUME Init PROVE BankInv
  <1>1. /\ None \notin Banks /\ \A t, b : None \notin CallOf(t, b)
    BY PipelineAssumption DEF CallOf
  <1>2. DOMAIN <<>> = {}
    BY EmptySeq, LenProperties
  <1>3. \A E : ~Holds(<<>>, E) /\ Once(<<>>, E)
    BY <1>2 DEF Holds, Once
  <1>4. 0 \in Banks
    BY PipelineAssumption DEF Banks
  <1>5. ASSUME NEW t \in Targets, NEW b \in Banks
        PROVE  \E k \in Kinds : \A j \in Kinds : In(j, t, b) <=> j = k
    <2>1. /\ cur[t] = 0 /\ avail[t] = Banks \ {0} /\ wout[t] = <<>> /\ fly[t] = <<>>
          /\ fin[t] = <<>> /\ cbq = <<>> /\ vcb = None /\ \A x \in Threads : fb[x] = None
      BY DEF Init
    <2>2. /\ ~Holds(wout[t], {b}) /\ ~Holds(fly[t], WriteOf(b)) /\ ~Holds(fin[t], WriteOf(b))
          /\ ~Holds(cbq, CallOf(t, b)) /\ vcb \notin CallOf(t, b)
          /\ ~\E x \in Threads : ft[x] = t /\ fb[x] = b
      BY <1>1, <1>3, <2>1
    <2>3. CASE b = 0
      <3>1. \A j \in Kinds : In(j, t, b) <=> j = "current"
        BY ONLY <2>1, <2>2, <2>3, b \in Banks DEF In, Kinds
      <3> QED BY <3>1 DEF Kinds
    <2>4. CASE b # 0
      <3>1. \A j \in Kinds : In(j, t, b) <=> j = "free"
        BY ONLY <2>1, <2>2, <2>4, b \in Banks DEF In, Kinds
      <3> QED BY <3>1 DEF Kinds
    <2> QED BY <2>3, <2>4
  <1>6. QueuedBankOnce /\ FlyingOnce /\ WrittenOnce /\ WaitingOnce
    BY <1>3 DEF Init, QueuedBankOnce, FlyingOnce, WrittenOnce, WaitingOnce
  <1>7. FlushingOnce
    BY <1>1 DEF Init, FlushingOnce
  <1> QED BY <1>5, <1>6, <1>7 DEF BankInv, OneKind

\* A bank in one kind of place, and there once, has one holder.
LEMMA BankCounted ==
  ASSUME TypeOK, BankInv
  PROVE  BankInOnePlace
  <1> SUFFICES ASSUME NEW t \in Targets, NEW b \in Banks
               PROVE  BankHolders(t, b) = 1
    BY DEF BankInOnePlace
  <1> DEFINE One(k) == IF In(k, t, b) THEN 1 ELSE 0
  <1>1. /\ wout[t] \in Seq(Banks) /\ fly[t] \in Seq(WriteReq) /\ fin[t] \in Seq(WriteReq)
        /\ cbq \in Seq(Callback) /\ vcb \in Callback \cup {None}
    BY DEF TypeOK, BankTypes, IOTypes
  <1>2. Cardinality({i \in DOMAIN wout[t] : wout[t][i] = b}) = One("queued")
    <2>1. Once(wout[t], {b}) /\ (In("queued", t, b) <=> Holds(wout[t], {b}))
      BY DEF BankInv, QueuedBankOnce, In
    <2>2. {i \in DOMAIN wout[t] : wout[t][i] = b} = {i \in DOMAIN wout[t] : wout[t][i] \in {b}}
      OBVIOUS
    <2>3. Cardinality({i \in DOMAIN wout[t] : wout[t][i] \in {b}})
            = IF Holds(wout[t], {b}) THEN 1 ELSE 0
      BY ONLY <1>1, <2>1, HeldCounts
    <2> QED BY <2>1, <2>2, <2>3
  <1>3. ASSUME NEW s \in Seq(WriteReq), Once(s, WriteOf(b))
        PROVE  Cardinality({i \in DOMAIN s : s[i].b = b}) = IF Holds(s, WriteOf(b)) THEN 1 ELSE 0
    <2>1. \A i \in DOMAIN s : s[i] \in WriteReq
      BY LenProperties, ElementOfSeq
    <2>2. {i \in DOMAIN s : s[i].b = b} = {i \in DOMAIN s : s[i] \in WriteOf(b)}
      BY <2>1 DEF WriteOf
    <2> QED BY <1>3, <2>2, HeldCounts
  <1>4. /\ Cardinality({i \in DOMAIN fly[t] : fly[t][i].b = b}) = One("flying")
        /\ Cardinality({i \in DOMAIN fin[t] : fin[t][i].b = b}) = One("written")
    <2>1. /\ Once(fly[t], WriteOf(b)) /\ (In("flying", t, b) <=> Holds(fly[t], WriteOf(b)))
          /\ Once(fin[t], WriteOf(b)) /\ (In("written", t, b) <=> Holds(fin[t], WriteOf(b)))
      BY DEF BankInv, FlyingOnce, WrittenOnce, In
    <2> QED BY <1>1, <1>3, <2>1
  <1>5. Cardinality({x \in Threads : ft[x] = t /\ fb[x] = b}) = One("flushing")
    <2> DEFINE H == {x \in Threads : ft[x] = t /\ fb[x] = b}
    <2>1. CASE In("flushing", t, b)
      <3>1. PICK x \in Threads : ft[x] = t /\ fb[x] = b
        BY <2>1 DEF In
      <3>2. H = {x}
        BY <3>1 DEF BankInv, FlushingOnce
      <3> QED BY <2>1, <3>2, FS_Singleton
    <2>2. CASE ~In("flushing", t, b)
      <3>1. H = {}
        BY <2>2 DEF In
      <3> QED BY <2>2, <3>1, FS_EmptySet
    <2> QED BY <2>1, <2>2
  <1>6. Cardinality({i \in DOMAIN cbq : cbq[i].t = t /\ cbq[i].b = b}) = One("waiting")
    <2>1. \A i \in DOMAIN cbq : cbq[i] \in Callback
      BY <1>1, LenProperties, ElementOfSeq
    <2>2. {i \in DOMAIN cbq : cbq[i].t = t /\ cbq[i].b = b} = {i \in DOMAIN cbq : cbq[i] \in CallOf(t, b)}
      BY <2>1 DEF CallOf
    <2>3. Once(cbq, CallOf(t, b)) /\ (In("waiting", t, b) <=> Holds(cbq, CallOf(t, b)))
      BY DEF BankInv, WaitingOnce, In
    <2> QED BY <1>1, <2>2, <2>3, HeldCounts
  <1>7. /\ cur[t] = b <=> In("current", t, b)
        /\ b \in avail[t] <=> In("free", t, b)
        /\ (vcb # None /\ vcb.t = t /\ vcb.b = b) <=> In("inside", t, b)
    BY <1>1, PipelineAssumption DEF In, CallOf
  <1>8. BankHolders(t, b) = One("current") + One("free") + One("queued") + One("flying")
                            + One("written") + One("flushing") + One("waiting") + One("inside")
    BY <1>2, <1>4, <1>5, <1>6, <1>7 DEF BankHolders
  <1>9. PICK k \in Kinds : \A j \in Kinds : In(j, t, b) <=> j = k
    BY DEF BankInv, OneKind
  <1>10. \A j \in Kinds : One(j) = IF j = k THEN 1 ELSE 0
    BY <1>9
  <1> HIDE DEF One
  <1> QED BY ONLY <1>8, <1>10, k \in Kinds DEF Kinds

LEMMA BankInvariant == Spec => [](TypeOK /\ BankInv)
  <1>1. Init => TypeOK /\ BankInv
    BY InitTypes, InitBanks
  <1>2. TypeOK /\ BankInv /\ [Next]_vars => TypeOK' /\ BankInv'
    BY NextTypes, NextBanks
  <1> QED BY <1>1, <1>2, PTL DEF Spec

\* Every bank of every target is in exactly one place, whatever producers, the grease
\* thread, libuv and flush() of the V8 thread do (rotate, flushAll, returnBuffer,
\* finalizeV8Callback): no text is written while it is overwritten, no bank disappears.
THEOREM BanksInOnePlace == Spec => []BankInOnePlace
  <1>1. TypeOK /\ BankInv => BankInOnePlace
    BY BankCounted
  <1> QED BY <1>1, BankInvariant, PTL

\* rotate() finds a free slot in writeOutBuffers whenever it finds a free bank: the banks
\* queued there are all different, and neither the current nor the free one is among them.
THEOREM RotateFindsRoom == Spec => []WriteOutHasRoom
  <1>1. TypeOK /\ BankInv => WriteOutHasRoom
    <2> SUFFICES ASSUME TypeOK, BankInv, NEW t \in Targets, NEW a \in avail[t]
                 PROVE  Len(wout[t]) < NumBanks - 1
      BY DEF WriteOutHasRoom
    <2> DEFINE S == (Banks \ {cur[t]}) \ {a}
    <2>1. /\ wout[t] \in Seq(Banks) /\ Len(wout[t]) \in Nat /\ DOMAIN wout[t] = 1..Len(wout[t])
          /\ wout[t] \in [1..Len(wout[t]) -> Banks] /\ cur[t] \in Banks /\ a \in Banks
          /\ NumBanks \in Nat
      BY LenProperties, PipelineAssumption DEF TypeOK, BankTypes
    <2>2. In("free", t, a) /\ In("current", t, cur[t])
      BY DEF In
    <2>3. a # cur[t] /\ ~In("queued", t, a) /\ ~In("queued", t, cur[t])
      BY <2>1, <2>2 DEF BankInv, OneKind, Kinds
    <2>4. \A i \in 1..Len(wout[t]) : wout[t][i] \in S
      BY <2>1, <2>3 DEF In, Holds
    <2>5. \A i, j \in 1..Len(wout[t]) : wout[t][i] = wout[t][j] => i = j
      BY <2>1 DEF BankInv, QueuedBankOnce, Once
    <2>6. wout[t] \in Injection(1..Len(wout[t]), S)
      <3>1. wout[t] \in [1..Len(wout[t]) -> S]
        BY <2>1, <2>4
      <3> HIDE DEF S
      <3> QED BY <2>5, <3>1 DEF Injection, IsInjective
    <2>7. IsFiniteSet(Banks) /\ Cardinality(Banks) = NumBanks
      BY <2>1, PipelineAssumption, FS_Interval DEF Banks
    <2>8. IsFiniteSet(Banks \ {cur[t]}) /\ Cardinality(Banks \ {cur[t]}) = NumBanks - 1
      BY <2>1, <2>7, FS_RemoveElement
    <2>9. IsFiniteSet(S) /\ Cardinality(S) = NumBanks - 2
      <3>1. a \in Banks \ {cur[t]}
        BY <2>1, <2>3
      <3>2. /\ IsFiniteSet(S)
            /\ Cardinality(S) = IF a \in Banks \ {cur[t]} THEN Cardinality(Banks \ {cur[t]}) - 1
                               ELSE Cardinality(Banks \ {cur[t]})
        BY ONLY <2>8, FS_RemoveElement
      <3> QED BY ONLY <2>1, <2>8, <3>1, <3>2
    <2>10. Cardinality(1..Len(wout[t])) <= Cardinality(S)
      <3> HIDE DEF S
      <3>1. IsFiniteSet(S) /\ Injection(1..Len(wout[t]), S) # {}
        BY ONLY <2>6, <2>9
      <3> QED BY ONLY <3>1, FS_Injection
    <2>11. Cardinality(1..Len(wout[t])) = Len(wout[t])
      BY <2>1, FS_Interval
    <2> QED BY <2>1, <2>9, <2>10, <2>11
  <1> QED BY <1>1, BankInvariant, PTL

-----------------------------------------------------------------------------
(* No copy goes past the end of a bank                                      *)

\* What write() has found out about the bank it is about to fill, and has not used yet.
FreeBanksEmpty == \A t \in Targets : \A b \in avail[t] : used[t][b] = 0
FitsNow == gpc \in {"ref", "copy"} => Fits(T, gmsg)
RoomInEmpty == gpc \in {"rotate", "request", "refcopy"} => BankSpace >= Size[gmsg] + HeaderRoom
RotatedIn == gpc \in {"request", "refcopy"} => used[T][cur[T]] = 0
FitInv == BufferFits /\ FreeBanksEmpty /\ FitsNow /\ RoomInEmpty /\ RotatedIn

\* What a step other than a copy does to the banks: none gets fuller, nor does the current
\* one when another takes its place, and what is free is empty.
BanksShrink == \A t \in Targets : /\ \A b \in Banks : used'[t][b] <= used[t][b]
                                  /\ used'[t][cur'[t]] <= used[t][cur[t]]
                                  /\ \A b \in avail'[t] : used'[t][b] = 0

LEMMA ShrinkKeepsFit ==
  ASSUME TypeOK, TypeOK', FitInv, BanksShrink,
         gpc' \in WritePcs \ {"write"} => UNCHANGED <<gpc, gmsg, groute>>
  PROVE  FitInv'
  <1>1. /\ used \in [Targets -> [Banks -> Nat]] /\ used' \in [Targets -> [Banks -> Nat]]
        /\ cur \in [Targets -> Banks] /\ cur' \in [Targets -> Banks]
        /\ BankSpace \in Nat /\ Delim \in Nat /\ Header \in Nat
    BY PipelineAssumption DEF TypeOK, BankTypes
  <1>2. BufferFits'
    <2> SUFFICES ASSUME NEW t \in Targets, NEW b \in Banks PROVE used'[t][b] <= BankSpace
      BY DEF BufferFits
    <2>1. used[t][b] <= BankSpace /\ used'[t][b] <= used[t][b]
      BY DEF FitInv, BufferFits, BanksShrink
    <2>2. used[t][b] \in Nat /\ used'[t][b] \in Nat
      BY <1>1
    <2> QED BY ONLY <1>1, <2>1, <2>2
  <1>3. FreeBanksEmpty'
    BY DEF BanksShrink, FreeBanksEmpty
  <1>4. ASSUME gpc' \in WritePcs \ {"write"}
        PROVE  /\ UNCHANGED <<gpc, gmsg, groute>> /\ T' = T /\ T \in Targets /\ gmsg \in Msgs
               /\ used[T][cur[T]] \in Nat /\ used'[T][cur'[T]] \in Nat
               /\ used'[T][cur'[T]] <= used[T][cur[T]]
    <2>1. UNCHANGED <<gpc, gmsg, groute>> /\ gmsg \in Msgs /\ groute # <<>>
      BY <1>4 DEF TypeOK, GreaseTypes
    <2>2. T' = T /\ T \in Targets
      <3>1. T' = T
        BY ONLY <2>1 DEF T
      <3> QED BY <2>1, <3>1, WriteTarget
    <2> QED BY <1>1, <2>1, <2>2 DEF BanksShrink
  <1>5. FitsNow'
    <2> SUFFICES ASSUME gpc' \in {"ref", "copy"} PROVE Fits(T, gmsg)'
      BY DEF FitsNow
    <2>1. gpc' \in WritePcs \ {"write"}
      BY DEF WritePcs
    <2>2. Fits(T, gmsg) /\ Size[gmsg] \in Nat
      BY <1>4, <2>1, PipelineAssumption DEF FitInv, FitsNow
    <2> QED BY ONLY <1>1, <1>4, <2>1, <2>2 DEF Fits
  <1>6. RoomInEmpty' /\ RotatedIn'
    <2>1. gpc' \in {"rotate", "request", "refcopy"} => gpc' \in WritePcs \ {"write"}
      BY DEF WritePcs
    <2>2. RoomInEmpty'
      BY <1>4, <2>1 DEF FitInv, RoomInEmpty
    <2>3. RotatedIn'
      <3> SUFFICES ASSUME gpc' \in {"request", "refcopy"} PROVE used'[T'][cur'[T']] = 0
        BY DEF RotatedIn
      <3>1. used[T][cur[T]] = 0
        BY <1>4, <2>1 DEF FitInv, RotatedIn
      <3> QED BY ONLY <1>4, <2>1, <3>1, gpc' \in {"request", "refcopy"}
    <2> QED BY <2>2, <2>3
  <1> QED BY <1>2, <1>3, <1>5, <1>6 DEF FitInv

LEMMA StillShrinks ==
  ASSUME TypeOK, FitInv, UNCHANGED <<cur, avail, used>>
  PROVE  BanksShrink
  BY DEF TypeOK, BankTypes, FitInv, FreeBanksEmpty, BanksShrink

\* Clearing a bank, and setting it free.
LEMMA ClearShrinks ==
  ASSUME TypeOK, FitInv, NEW t0 \in Targets, NEW b0 \in Banks, Cleared(t0, b0),
         UNCHANGED cur,
         avail' = avail \/ avail' = [avail EXCEPT ![t0] = @ \cup {b0}]
  PROVE  BanksShrink
  <1>1. /\ used \in [Targets -> [Banks -> Nat]] /\ cur \in [Targets -> Banks]
        /\ avail \in [Targets -> SUBSET Banks]
    BY DEF TypeOK, BankTypes
  <1>2. \A t \in Targets, b \in Banks :
          used'[t][b] = IF t = t0 /\ b = b0 THEN 0 ELSE used[t][b]
    BY <1>1 DEF Cleared
  <1>3. \A t \in Targets : avail'[t] \subseteq Banks
                           /\ \A b \in avail'[t] : b \in avail[t] \/ (t = t0 /\ b = b0)
    BY <1>1
  <1> QED BY <1>1, <1>2, <1>3 DEF BanksShrink, FitInv, FreeBanksEmpty

LEMMA RotateShrinks ==
  ASSUME TypeOK, FitInv, NEW t0 \in Targets, Rotate(t0)
  PROVE  /\ BanksShrink
         /\ RotateSucceeds(t0) => used'[t0][cur'[t0]] = 0
  <1>1. /\ used \in [Targets -> [Banks -> Nat]] /\ cur \in [Targets -> Banks]
        /\ avail \in [Targets -> SUBSET Banks]
    BY DEF TypeOK, BankTypes
  <1>2. CASE /\ RotateSucceeds(t0)
             /\ \E next \in avail[t0] :
                  /\ avail' = [avail EXCEPT ![t0] = FreeAfterRotate(t0, next)]
                  /\ cur' = [cur EXCEPT ![t0] = next]
             /\ UNCHANGED used
    <2>1. PICK next \in avail[t0] : /\ avail' = [avail EXCEPT ![t0] = avail[t0] \ {next}]
                                    /\ cur' = [cur EXCEPT ![t0] = next]
      BY <1>2 DEF FreeAfterRotate
    <2>2. used[t0][next] = 0 /\ next \in Banks
      BY <1>1 DEF FitInv, FreeBanksEmpty
    <2>3. \A t \in Targets : /\ cur'[t] = IF t = t0 THEN next ELSE cur[t]
                             /\ avail'[t] \subseteq avail[t]
      BY <1>1, <2>1
    <2>4. BanksShrink
      <3> SUFFICES ASSUME NEW t \in Targets
                   PROVE  /\ \A b \in Banks : used'[t][b] <= used[t][b]
                          /\ used'[t][cur'[t]] <= used[t][cur[t]]
                          /\ \A b \in avail'[t] : used'[t][b] = 0
        BY DEF BanksShrink
      <3>1. \A b \in Banks : used[t][b] \in Nat /\ used'[t][b] = used[t][b]
        BY <1>1, <1>2
      <3>2. cur[t] \in Banks /\ \A b \in avail[t] : used[t][b] = 0 /\ b \in Banks
        BY <1>1 DEF FitInv, FreeBanksEmpty
      <3> QED BY ONLY <2>2, <2>3, <3>1, <3>2, t \in Targets
    <2> QED BY <1>2, <2>2, <2>3, <2>4
  <1>3. CASE ~RotateSucceeds(t0) /\ Cleared(t0, cur[t0]) /\ UNCHANGED <<cur, avail, wout>>
    BY <1>1, <1>3, ClearShrinks
  <1>4. CASE used[t0][cur[t0]] = 0 /\ UNCHANGED bankVars
    <2>1. ~RotateSucceeds(t0)
      BY <1>4 DEF RotateSucceeds
    <2> QED BY <1>4, <2>1, StillShrinks DEF bankVars
  <1> QED BY <1>2, <1>3, <1>4 DEF Rotate

LEMMA ReturnShrinks ==
  ASSUME TypeOK, FitInv, NEW t0 \in Targets, NEW b0 \in Banks, ReturnBank(t0, b0)
  PROVE  BanksShrink
  <1>1. CASE UNCHANGED <<cur, avail, used>>
    BY <1>1, StillShrinks
  <1>2. CASE Cleared(t0, b0) /\ avail' = [avail EXCEPT ![t0] = @ \cup {b0}] /\ UNCHANGED cur
    BY <1>2, ClearShrinks
  <1> QED BY <1>1, <1>2 DEF ReturnBank

\* The copy of write(): the current bank holds what it held and the message.
LEMMA CopyInFits ==
  ASSUME TypeOK, BankInv, FitInv, NEW t0 \in Targets, NEW m \in Msgs, CopyIn(t0, m),
         UNCHANGED <<cur, avail>>,
         used[t0][cur[t0]] + Size[m] + Header + Delim <= BankSpace
  PROVE  BufferFits' /\ FreeBanksEmpty'
  <1>1. /\ used \in [Targets -> [Banks -> Nat]] /\ cur[t0] \in Banks
        /\ avail \in [Targets -> SUBSET Banks]
    BY DEF TypeOK, BankTypes
  <1>2. \A t \in Targets, b \in Banks :
          used'[t][b] = IF t = t0 /\ b = cur[t0]
                        THEN used[t0][cur[t0]] + Size[m] + Header + Delim ELSE used[t][b]
    BY <1>1 DEF CopyIn
  <1>3. BufferFits'
    BY <1>2 DEF FitInv, BufferFits
  <1>4. cur[t0] \notin avail[t0]
    <2>1. In("current", t0, cur[t0])
      BY DEF In
    <2>2. ~In("free", t0, cur[t0])
      BY <1>1, <2>1 DEF BankInv, OneKind, Kinds
    <2> QED BY <2>2 DEF In
  <1>5. FreeBanksEmpty'
    BY <1>1, <1>2, <1>4 DEF FitInv, FreeBanksEmpty
  <1> QED BY <1>3, <1>5

\* The steps of write() itself.
LEMMA WriteFits ==
  ASSUME TypeOK, TypeOK', BankInv, FitInv, WriteStep, Header + Delim <= HeaderRoom
  PROVE  FitInv'
  <1>1. groute # <<>> /\ gpc \in WritePcs /\ UNCHANGED gmsg
    BY DEF WriteStep, WriteTest, WriteRef, WriteCopy, WriteRotate, WriteRequest,
           WriteRefCopy, TypeOK, GreaseTypes, WritePcs
  <1>2. /\ T \in Targets /\ gmsg \in Msgs
        /\ used[T][cur[T]] \in Nat /\ Size[gmsg] \in Nat /\ BankSpace \in Nat
        /\ Header \in Nat /\ Delim \in Nat /\ HeaderRoom \in Nat
    <2>1. T \in Targets /\ gmsg \in Msgs
      BY <1>1, WriteTarget DEF TypeOK, GreaseTypes
    <2> QED BY <2>1, PipelineAssumption DEF TypeOK, BankTypes
  <1>3. ASSUME UNCHANGED <<cur, avail, used>> PROVE BufferFits' /\ FreeBanksEmpty'
    BY <1>3 DEF FitInv, BufferFits, FreeBanksEmpty
  <1>4. gpc' = "write" => FitsNow' /\ RoomInEmpty' /\ RotatedIn'
    BY DEF FitsNow, RoomInEmpty, RotatedIn
  <1>5. ASSUME UNCHANGED <<groute, cur, used>>
        PROVE  /\ T' = T
               /\ Fits(T, gmsg)' <=> Fits(T, gmsg)
    <2>1. T' = T
      BY <1>5 DEF T
    <2> QED BY ONLY <1>1, <1>5, <2>1 DEF Fits
  <1>6. CASE WriteTest
    <2>1. UNCHANGED <<cur, avail, used>>
      BY <1>6 DEF WriteTest, bankVars
    <2>2. CASE gpc' = "write"
      BY <1>3, <1>4, <2>1, <2>2 DEF FitInv
    <2>3. CASE /\ BankSpace >= Size[gmsg] + HeaderRoom /\ UNCHANGED groute
               /\ gpc' = IF Fits(T, gmsg) THEN "ref" ELSE "rotate"
      <3>1. RoomInEmpty' /\ RotatedIn' /\ FitsNow'
        BY <1>1, <1>5, <2>1, <2>3 DEF RoomInEmpty, RotatedIn, FitsNow
      <3> QED BY <1>3, <2>1, <3>1 DEF FitInv
    <2> QED BY <1>6, <2>2, <2>3 DEF WriteTest, WriteReturns
  <1>7. CASE WriteRef
    <2>1. UNCHANGED <<cur, avail, used, groute>> /\ gpc = "ref" /\ gpc' = "copy"
      BY <1>7 DEF WriteRef, bankVars
    <2>2. FitsNow' /\ RoomInEmpty' /\ RotatedIn'
      BY <1>5, <2>1 DEF FitInv, FitsNow, RoomInEmpty, RotatedIn
    <2> QED BY <1>3, <2>1, <2>2 DEF FitInv
  <1>8. CASE WriteCopy
    <2>1. CopyIn(T, gmsg) /\ UNCHANGED <<cur, avail>> /\ gpc' = "write" /\ gpc = "copy"
      BY <1>8 DEF WriteCopy, WriteReturns
    <2>2. used[T][cur[T]] + Size[gmsg] + Header + Delim <= BankSpace
      <3>1. Fits(T, gmsg)
        BY <2>1 DEF FitInv, FitsNow
      <3> QED BY ONLY <1>2, <3>1 DEF Fits
    <2>3. BufferFits' /\ FreeBanksEmpty'
      BY <1>2, <2>1, <2>2, CopyInFits
    <2> QED BY <1>4, <2>1, <2>3 DEF FitInv
  <1>9. CASE WriteRotate
    <2>1. /\ Rotate(T) /\ gpc = "rotate"
          /\ \/ RotateSucceeds(T) /\ gpc' = "request" /\ UNCHANGED groute
             \/ gpc' = "write"
      BY <1>9 DEF WriteRotate, WriteReturns
    <2>2. BanksShrink /\ (RotateSucceeds(T) => used'[T][cur'[T]] = 0)
      BY <1>2, <2>1, RotateShrinks
    <2>3. BufferFits' /\ FreeBanksEmpty'
      <3>1. BufferFits'
        <4> SUFFICES ASSUME NEW t \in Targets, NEW b \in Banks PROVE used'[t][b] <= BankSpace
          BY DEF BufferFits
        <4>1. used[t][b] <= BankSpace /\ used'[t][b] <= used[t][b]
          BY <2>2 DEF FitInv, BufferFits, BanksShrink
        <4>2. used[t][b] \in Nat /\ used'[t][b] \in Nat
          BY DEF TypeOK, BankTypes
        <4> QED BY ONLY <1>2, <4>1, <4>2
      <3> QED BY <2>2, <3>1 DEF BanksShrink, FreeBanksEmpty
    <2>4. CASE gpc' = "write"
      BY <1>4, <2>3, <2>4 DEF FitInv
    <2>5. CASE RotateSucceeds(T) /\ gpc' = "request" /\ UNCHANGED groute
      <3>1. T' = T
        BY <2>5 DEF T
      <3>2. FitsNow' /\ RoomInEmpty' /\ RotatedIn'
        BY <1>1, <2>1, <2>2, <2>5, <3>1 DEF FitInv, FitsNow, RoomInEmpty, RotatedIn
      <3> QED BY <2>3, <3>2 DEF FitInv
    <2> QED BY <2>1, <2>4, <2>5
  <1>10. CASE WriteRequest
    <2>1. /\ UNCHANGED <<cur, avail, used>> /\ gpc = "request"
          /\ (gpc' = "refcopy" /\ UNCHANGED groute) \/ gpc' = "write"
      BY <1>10 DEF WriteRequest, WriteReturns, bankVars
    <2>2. CASE gpc' = "write"
      BY <1>3, <1>4, <2>1, <2>2 DEF FitInv
    <2>3. CASE gpc' = "refcopy" /\ UNCHANGED groute
      <3>1. T' = T
        BY <2>3 DEF T
      <3>2. FitsNow' /\ RoomInEmpty' /\ RotatedIn'
        BY <1>1, <2>1, <2>3, <3>1 DEF FitInv, FitsNow, RoomInEmpty, RotatedIn
      <3> QED BY <1>3, <2>1, <3>2 DEF FitInv
    <2> QED BY <2>1, <2>2, <2>3
  <1>11. CASE WriteRefCopy
    <2>1. CopyIn(T, gmsg) /\ UNCHANGED <<cur, avail>> /\ gpc' = "write" /\ gpc = "refcopy"
      BY <1>11 DEF WriteRefCopy, WriteReturns
    <2>2. used[T][cur[T]] + Size[gmsg] + Header + Delim <= BankSpace
      <3>1. used[T][cur[T]] = 0 /\ BankSpace >= Size[gmsg] + HeaderRoom
        BY <2>1 DEF FitInv, RotatedIn, RoomInEmpty
      <3> QED BY ONLY <1>2, <3>1, Header + Delim <= HeaderRoom
    <2>3. BufferFits' /\ FreeBanksEmpty'
      BY <1>2, <2>1, <2>2, CopyInFits
    <2> QED BY <1>4, <2>1, <2>3 DEF FitInv
  <1> QED BY <1>6, <1>7, <1>8, <1>9, <1>10, <1>11 DEF WriteStep

LEMMA NextFits ==
  ASSUME TypeOK, TypeOK', BankInv, FitInv, [Next]_vars, Header + Delim <= HeaderRoom
  PROVE  FitInv'
  <1>1. ASSUME UNCHANGED <<cur, avail, used>>,
               gpc' \in WritePcs \ {"write"} => UNCHANGED <<gpc, gmsg, groute>>
        PROVE  FitInv'
    BY <1>1, StillShrinks, ShrinkKeepsFit
  <1>2. ASSUME NEW p \in Producers, ProducerStep(p) PROVE FitInv'
    BY <1>1, <1>2 DEF ProducerStep, LogStart, LogEnqueue, LogSend, bankVars, gVars
  <1>3. ASSUME NEW x \in Threads, FlushStep(x) PROVE FitInv'
    <2>1. UNCHANGED <<gpc, gmsg, groute>>
      BY <1>3 DEF FlushStep, FlushRotate, FlushTake, FlushSubmit, gVars
    <2>2. CASE FlushRotate(x)
      <3>1. PICK t0 \in fset[x] : Rotate(t0)
        BY <2>2 DEF FlushRotate
      <3>2. t0 \in Targets
        BY DEF TypeOK, FlushTypes
      <3> QED BY <2>1, <3>1, <3>2, RotateShrinks, ShrinkKeepsFit
    <2>3. CASE FlushTake(x)
      BY <1>1, <2>1, <2>3 DEF FlushTake
    <2>4. CASE FlushSubmit(x)
      <3>1. ft[x] \in Targets /\ fb[x] \in Banks
        BY <2>4 DEF FlushSubmit, TypeOK, FlushTypes
      <3>2. UNCHANGED bankVars \/ ReturnBank(ft[x], fb[x])
        BY <2>4 DEF FlushSubmit
      <3>3. CASE UNCHANGED bankVars
        BY <1>1, <2>1, <3>3 DEF bankVars
      <3>4. CASE ReturnBank(ft[x], fb[x])
        BY <2>1, <3>1, <3>4, ReturnShrinks, ShrinkKeepsFit
      <3> QED BY <3>2, <3>3, <3>4
    <2> QED BY <1>3, <2>2, <2>3, <2>4 DEF FlushStep
  <1>4. ASSUME NEW t \in Targets, WriteCb(t) \/ PerformWrite(t) PROVE FitInv'
    <2>1. UNCHANGED <<gpc, gmsg, groute>>
      BY <1>4 DEF WriteCb, PerformWrite, gVars
    <2>2. CASE UNCHANGED bankVars
      BY <1>1, <2>1, <2>2 DEF bankVars
    <2>3. CASE WriteCb(t) /\ Head(fin[t]).b # None /\ ReturnBank(t, Head(fin[t]).b)
      <3>1. Head(fin[t]) \in WriteReq
        BY <2>3, HeadTailProperties DEF WriteCb, TypeOK, IOTypes
      <3>2. Head(fin[t]).b \in Banks
        BY <2>3, <3>1 DEF WriteReq
      <3> QED BY <2>1, <2>3, <3>2, ReturnShrinks, ShrinkKeepsFit
    <2> QED BY <1>4, <2>2, <2>3 DEF WriteCb, PerformWrite
  <1>5. CASE HandleInternalCmd \/ Dequeue \/ EndCmd \/ OverflowFlush \/ OverflowWrite
    <2>1. UNCHANGED <<cur, avail, used>> /\ gpc' \notin WritePcs \ {"write"}
      BY <1>5 DEF HandleInternalCmd, Dequeue, EndCmd, OverflowFlush, OverflowWrite, bankVars,
           gVars, WritePcs
    <2> QED BY <1>1, <2>1
  <1>6. CASE FlushTimer \/ Flush \/ DisableWrites \/ CallV8LogCallbacks
    BY <1>1, <1>6 DEF FlushTimer, Flush, DisableWrites, CallV8LogCallbacks, bankVars, gVars
  <1>7. CASE DoV8Callback
    <2>1. UNCHANGED <<gpc, gmsg, groute, cur>>
      BY <1>7 DEF DoV8Callback, gVars
    <2>2. CASE UNCHANGED <<used, avail>>
      BY <1>1, <2>1, <2>2
    <2>3. CASE /\ vcb.b # None /\ Cleared(vcb.t, vcb.b)
               /\ avail' = [avail EXCEPT ![vcb.t] = @ \cup {vcb.b}]
      <3>1. vcb.b \in Banks /\ vcb.t \in Targets
        BY <1>7, <2>3 DEF DoV8Callback, TypeOK, IOTypes, Callback
      <3> QED BY <2>1, <2>3, <3>1, ClearShrinks, ShrinkKeepsFit
    <2> QED BY <1>7, <2>2, <2>3 DEF DoV8Callback
  <1>8. CASE UNCHANGED vars
    BY <1>1, <1>8 DEF vars, bankVars, gVars
  <1>9. "grease" \in Threads /\ "v8" \in Threads
    BY DEF Threads
  <1>10. CASE GreaseStep
    BY <1>3, <1>5, <1>9, <1>10, WriteFits DEF GreaseStep
  <1>11. CASE V8Step
    BY <1>3, <1>6, <1>7, <1>9, <1>11 DEF V8Step
  <1> QED BY <1>2, <1>4, <1>6, <1>8, <1>10, <1>11 DEF Next

LEMMA FitInvariant ==
  ASSUME Header + Delim <= HeaderRoom
  PROVE  Spec => []FitInv
  <1>1. Init => FitInv
    <2> SUFFICES ASSUME Init PROVE FitInv
      OBVIOUS
    <2>1. \A t \in Targets, b \in Banks : used[t][b] = 0
      BY DEF Init
    <2>2. FreeBanksEmpty
      BY <2>1, InitTypes DEF FreeBanksEmpty, TypeOK, BankTypes
    <2>3. BufferFits
      BY <2>1, PipelineAssumption DEF BufferFits
    <2> QED BY <2>2, <2>3 DEF Init, FitInv, FitsNow, RoomInEmpty, RotatedIn
  <1>2. TypeOK /\ TypeOK' /\ BankInv /\ FitInv /\ [Next]_vars => FitInv'
    BY NextFits
  <1> QED BY <1>1, <1>2, BankInvariant, PTL DEF Spec

\* assert(handle.len <= space) in logBuf::copyIn never fails, provided the header of a line
\* and its delimiter fit in the GREASE_MAX_PREFIX_HEADER bytes write() sets aside: between
\* the test of remain() and the copy the V8 thread may rotate or clear the bank, but it only
\* ever leaves more room.
THEOREM CopiesFit ==
  ASSUME Header + Delim <= HeaderRoom
  PROVE  Spec => []BufferFits
  <1>1. FitInv => BufferFits
    BY DEF FitInv
  <1> QED BY <1>1, FitInvariant, PTL

-----------------------------------------------------------------------------
(* rotate() is not called on an empty bank                                  *)

\* Without flush(), only the grease thread rotates, and never inside write().
OneFlusher == /\ fpc["v8"] = "none"
              /\ gpc \in WritePcs => fpc["grease"] = "none"
NotSkippedInv == OneFlusher /\ RotateNotSkipped

LEMMA NextOneFlusher ==
  ASSUME TypeOK, OneFlusher, ~V8Flushes, [Next]_vars
  PROVE  OneFlusher'
  <1>1. fpc \in [Threads -> {"none", "rotate", "take", "submit"}]
    BY DEF TypeOK, FlushTypes
  <1>2. "grease" \in Threads /\ "v8" \in Threads
    BY DEF Threads
  <1>3. ASSUME NEW p \in Producers, ProducerStep(p) PROVE OneFlusher'
    BY <1>3 DEF ProducerStep, LogStart, LogEnqueue, LogSend, gVars, fVars, OneFlusher
  <1>4. CASE FlushStep("grease")
    BY <1>1, <1>2, <1>4 DEF FlushStep, FlushRotate, FlushTake, FlushSubmit, gVars, OneFlusher
  <1>5. CASE FlushStep("v8")
    BY <1>5 DEF FlushStep, FlushRotate, FlushTake, FlushSubmit, OneFlusher
  <1>6. ASSUME NEW t \in Targets, WriteCb(t) \/ PerformWrite(t) PROVE OneFlusher'
    BY <1>6 DEF WriteCb, PerformWrite, gVars, fVars, OneFlusher
  <1>7. CASE HandleInternalCmd \/ Dequeue \/ EndCmd
    BY <1>1, <1>2, <1>7 DEF HandleInternalCmd, Dequeue, EndCmd, gVars, fVars, WritePcs, OneFlusher
  <1>8. CASE FlushTimer \/ OverflowFlush \/ OverflowWrite
    BY <1>1, <1>2, <1>8 DEF FlushTimer, OverflowFlush, OverflowWrite, BeginFlush, LoopIdle, gVars,
                            fVars, WritePcs, OneFlusher
  <1>9. CASE Flush \/ DisableWrites \/ CallV8LogCallbacks \/ DoV8Callback
    BY <1>9 DEF Flush, DisableWrites, CallV8LogCallbacks, DoV8Callback, gVars, fVars, OneFlusher
  <1>10. CASE WriteStep
    <2>1. gpc \in WritePcs /\ UNCHANGED fpc
      BY <1>10 DEF WriteStep, WriteTest, WriteRef, WriteCopy, WriteRotate, WriteRequest,
                   WriteRefCopy, WritePcs, fVars
    <2> QED BY <2>1 DEF OneFlusher
  <1>11. CASE UNCHANGED vars
    BY <1>11 DEF vars, gVars, fVars, OneFlusher
  <1>12. CASE GreaseStep
    BY <1>4, <1>7, <1>8, <1>10, <1>12 DEF GreaseStep
  <1>13. CASE V8Step
    BY <1>5, <1>9, <1>13 DEF V8Step
  <1> QED BY <1>3, <1>6, <1>8, <1>9, <1>11, <1>12, <1>13 DEF Next

\* The bank a JS callback gives back is not the one write() looks at.
LEMMA CallbackLeavesCurrent ==
  ASSUME TypeOK, BankInv, DoV8Callback, NEW t \in Targets
  PROVE  used'[t][cur'[t]] = used[t][cur[t]]
  <1>1. vcb \in Callback /\ vcb # None /\ UNCHANGED cur
    BY DEF DoV8Callback, TypeOK, IOTypes
  <1>2. CASE UNCHANGED used
    BY <1>1, <1>2
  <1>3. CASE vcb.b # None /\ Cleared(vcb.t, vcb.b)
    <2>1. vcb.t \in Targets /\ vcb.b \in Banks
      BY <1>1, <1>3 DEF Callback
    <2>2. In("inside", vcb.t, vcb.b)
      BY <1>1 DEF In, CallOf
    <2>3. ~In("current", vcb.t, vcb.b)
      BY <2>1, <2>2 DEF BankInv, OneKind, Kinds
    <2>4. t = vcb.t => cur[t] # vcb.b
      BY <2>3 DEF In
    <2>5. used \in [Targets -> [Banks -> Nat]] /\ cur[t] \in Banks
      BY DEF TypeOK, BankTypes
    <2> QED BY <1>1, <1>3, <2>1, <2>4, <2>5 DEF Cleared
  <1> QED BY <1>2, <1>3 DEF DoV8Callback

LEMMA NextNotSkipped ==
  ASSUME TypeOK, BankInv, NotSkippedInv, ~V8Flushes, Header + Delim <= HeaderRoom, [Next]_vars
  PROVE  NotSkippedInv'
  <1>1. OneFlusher'
    BY NextOneFlusher DEF NotSkippedInv
  <1>2. RotateNotSkipped'
    <2> SUFFICES ASSUME gpc' = "rotate" PROVE used'[T'][cur'[T']] > 0
      BY DEF RotateNotSkipped
    <2>1. CASE WriteTest
      <3>1. /\ UNCHANGED <<groute, cur, used, gmsg>> /\ gpc = "write" /\ groute # <<>>
            /\ BankSpace >= Size[gmsg] + HeaderRoom /\ ~Fits(T, gmsg)
        BY <2>1 DEF WriteTest, WriteReturns, bankVars
      <3>2. T \in Targets /\ gmsg \in Msgs
        BY <3>1, WriteTarget DEF TypeOK, GreaseTypes, WritePcs
      <3>3. used[T][cur[T]] \in Nat /\ Size[gmsg] \in Nat
        BY <3>2, PipelineAssumption DEF TypeOK, BankTypes
      <3>4. BankSpace \in Nat /\ Header \in Nat /\ Delim \in Nat /\ HeaderRoom \in Nat
        BY PipelineAssumption
      <3>5. used[T][cur[T]] > 0
        BY ONLY <3>1, <3>3, <3>4, Header + Delim <= HeaderRoom DEF Fits
      <3>6. T' = T
        BY <3>1 DEF T
      <3> QED BY <3>1, <3>5, <3>6
    <2>2. ASSUME gpc = "rotate", UNCHANGED groute,
                 T \in Targets => used'[T][cur'[T]] = used[T][cur[T]]
          PROVE  used'[T'][cur'[T']] > 0
      <3>1. T' = T /\ T \in Targets
        <4>1. groute # <<>>
          BY <2>2 DEF TypeOK, GreaseTypes, WritePcs
        <4> QED BY <2>2, <4>1, WriteTarget DEF T
      <3>2. used[T][cur[T]] > 0
        BY <2>2 DEF NotSkippedInv, RotateNotSkipped
      <3> QED BY <2>2, <3>1, <3>2
    <2>3. CASE DoV8Callback
      <3>1. UNCHANGED gVars
        BY <2>3 DEF DoV8Callback
      <3> QED BY <2>2, <2>3, <3>1, CallbackLeavesCurrent DEF gVars
    <2>4. ASSUME UNCHANGED <<cur, used, gpc, groute>> PROVE used'[T'][cur'[T']] > 0
      BY <2>2, <2>4
    <2>5. ASSUME NEW p \in Producers, ProducerStep(p) PROVE UNCHANGED <<cur, used, gpc, groute>>
      BY <2>5 DEF ProducerStep, LogStart, LogEnqueue, LogSend, gVars, bankVars
    <2>6. ~FlushStep("v8")
      BY DEF NotSkippedInv, OneFlusher, FlushStep, FlushRotate, FlushTake, FlushSubmit
    <2>7. ~FlushStep("grease")
      <3> SUFFICES ASSUME FlushStep("grease") PROVE FALSE
        OBVIOUS
      <3>1. UNCHANGED gpc /\ fpc["grease"] # "none"
        BY DEF FlushStep, FlushRotate, FlushTake, FlushSubmit, gVars
      <3> QED BY <3>1 DEF NotSkippedInv, OneFlusher, WritePcs
    <2>8. ~HandleInternalCmd /\ ~Dequeue /\ ~EndCmd /\ ~OverflowFlush /\ ~OverflowWrite
      BY DEF HandleInternalCmd, Dequeue, EndCmd, OverflowFlush, OverflowWrite, gVars
    <2>9. CASE WriteStep
      BY <2>1, <2>9 DEF WriteStep, WriteRef, WriteCopy, WriteRotate, WriteRequest, WriteRefCopy,
                        WriteReturns
    <2>10. ASSUME NEW t \in Targets PROVE /\ ~WriteCb(t)
                                          /\ PerformWrite(t) => UNCHANGED <<cur, used, gpc, groute>>
      BY DEF WriteCb, PerformWrite, LoopIdle, gVars, bankVars
    <2>11. ~FlushTimer
      BY DEF FlushTimer, LoopIdle, gVars
    <2>12. CASE Flush \/ DisableWrites \/ CallV8LogCallbacks
      BY <2>4, <2>12 DEF Flush, DisableWrites, CallV8LogCallbacks, gVars, bankVars
    <2>13. CASE UNCHANGED vars
      BY <2>4, <2>13 DEF vars, gVars, bankVars
    <2> QED BY <2>3, <2>4, <2>5, <2>6, <2>7, <2>8, <2>9, <2>10, <2>11, <2>12, <2>13
            DEF Next, GreaseStep, V8Step
  <1> QED BY <1>1, <1>2 DEF NotSkippedInv

\* write() calls rotate() only on a bank that holds something, so rotate() does not fail for
\* the reason that there is nothing to rotate and the message is not dropped: without flush()
\* of the V8 thread nobody clears or replaces the current bank between the test of remain()
\* and rotate(), and the bank a JS callback frees is never the current one.
THEOREM WriteRotatesSomething ==
  ASSUME ~V8Flushes, Header + Delim <= HeaderRoom
  PROVE  Spec => []RotateNotSkipped
  <1>1. Init => NotSkippedInv
    BY DEF Init, NotSkippedInv, OneFlusher, RotateNotSkipped, Threads, WritePcs
  <1>2. TypeOK /\ BankInv /\ NotSkippedInv /\ [Next]_vars => NotSkippedInv'
    BY NextNotSkipped
  <1>3. NotSkippedInv => RotateNotSkipped
    BY DEF NotSkippedInv
  <1> QED BY <1>1, <1>2, <1>3, BankInvariant, PTL DEF Spec

-----------------------------------------------------------------------------
(* refGreaseInGrease and unrefGreaseInGrease: while anything waits to be      *)
(* written, the grease thread holds a reference for it and the flush timer    *)
(* runs, as long as the application does not call flush() on its own thread.  *)

\* The banks a reference is owed for: what write() has taken one for and not yet filled
\* counts, what waits for its JS callback does not.
PendingRef(t, b) == gpc = "copy" /\ t = T /\ b = cur[T]
Owed(t, b) == (used[t][b] > 0 \/ PendingRef(t, b)) /\ ~AtCallback(t, b)
OwedBanks == {h \in Targets \X Banks : Owed(h[1], h[2])}

\* The places of the overflow messages in a list of writes.
Slots(q) == {w \in Targets \X Nat : w[2] \in DOMAIN q[w[1]] /\ q[w[1]][w[2]].b = None}

Debt == Cardinality(OwedBanks) + Cardinality(Slots(fly)) + Cardinality(Slots(fin))
DebtInv == /\ IsFiniteSet(OwedBanks) /\ IsFiniteSet(Slots(fly)) /\ IsFiniteSet(Slots(fin))
           /\ Debt <= needGrease

-----------------------------------------------------------------------------
(* Counting                                                                 *)

\* A set that gains at most one element, or loses one.
LEMMA AddOne ==
  ASSUME NEW S, IsFiniteSet(S), NEW x, NEW R, R \subseteq S \cup {x}
  PROVE  IsFiniteSet(R) /\ Cardinality(R) \in Nat /\ Cardinality(R) <= Cardinality(S) + 1
  <1>1. /\ IsFiniteSet(S \cup {x}) /\ Cardinality(S) \in Nat
        /\ Cardinality(S \cup {x}) = IF x \in S THEN Cardinality(S) ELSE Cardinality(S) + 1
    BY FS_AddElement, FS_CardinalityType
  <1>2. IsFiniteSet(R) /\ Cardinality(R) <= Cardinality(S \cup {x})
    BY <1>1, FS_Subset
  <1>3. Cardinality(R) \in Nat
    BY <1>2, FS_CardinalityType
  <1> QED BY <1>1, <1>2, <1>3

LEMMA LoseOne ==
  ASSUME NEW S, IsFiniteSet(S), NEW x \in S, NEW R, R \subseteq S \ {x}
  PROVE  IsFiniteSet(R) /\ Cardinality(R) \in Nat /\ Cardinality(R) <= Cardinality(S) - 1
  <1>1. /\ IsFiniteSet(S \ {x}) /\ Cardinality(S) \in Nat
        /\ Cardinality(S \ {x}) = Cardinality(S) - 1
    BY FS_RemoveElement, FS_CardinalityType
  <1>2. IsFiniteSet(R) /\ Cardinality(R) <= Cardinality(S \ {x})
    BY <1>1, FS_Subset
  <1>3. Cardinality(R) \in Nat
    BY <1>2, FS_CardinalityType
  <1> QED BY <1>1, <1>2, <1>3

LEMMA Fewer ==
  ASSUME NEW S, IsFiniteSet(S), NEW R, R \subseteq S
  PROVE  IsFiniteSet(R) /\ Cardinality(R) \in Nat /\ Cardinality(R) <= Cardinality(S)
  <1>1. IsFiniteSet(R) /\ Cardinality(R) <= Cardinality(S)
    BY FS_Subset
  <1> QED BY <1>1, FS_CardinalityType

\* A write is added to a list.
LEMMA AppendSlot ==
  ASSUME NEW q \in [Targets -> Seq(WriteReq)], IsFiniteSet(Slots(q)), NEW t \in Targets,
         NEW x \in WriteReq, NEW r, r = [q EXCEPT ![t] = Append(@, x)]
  PROVE  /\ IsFiniteSet(Slots(r)) /\ Cardinality(Slots(r)) \in Nat
         /\ Cardinality(Slots(r)) <= Cardinality(Slots(q)) + (IF x.b = None THEN 1 ELSE 0)
  <1> DEFINE n == Len(q[t]) + 1
             s == Append(q[t], x)
  <1>1. /\ DOMAIN s = 1..n /\ DOMAIN q[t] = 1..(n - 1) /\ n \in Nat
        /\ \A i \in 1..(n - 1) : s[i] = q[t][i]
        /\ s[n] = x
    BY AppendProperties, LenProperties
  <1>2. \A u \in Targets : r[u] = IF u = t THEN s ELSE q[u]
    OBVIOUS
  <1> HIDE DEF n, s
  <1>3. \A i \in DOMAIN s : (i \in DOMAIN q[t] /\ s[i] = q[t][i]) \/ (i = n /\ s[i] = x)
    BY ONLY <1>1
  <1>4. Slots(r) \subseteq Slots(q) \cup {<<t, n>>}
    BY ONLY <1>2, <1>3 DEF Slots
  <1>5. x.b # None => Slots(r) \subseteq Slots(q)
    BY ONLY <1>2, <1>3 DEF Slots
  <1> HIDE DEF Slots
  <1>6. CASE x.b = None
    BY <1>4, <1>6, AddOne
  <1>7. CASE x.b # None
    <2>1. Cardinality(Slots(q)) \in Nat
      BY FS_CardinalityType
    <2>2. /\ IsFiniteSet(Slots(r)) /\ Cardinality(Slots(r)) \in Nat
          /\ Cardinality(Slots(r)) <= Cardinality(Slots(q))
      BY <1>5, <1>7, Fewer
    <2> QED BY ONLY <1>7, <2>1, <2>2
  <1> QED BY <1>6, <1>7

\* The write at place i leaves a list, and those after it move up.
LEMMA RemoveSlot ==
  ASSUME NEW q \in [Targets -> Seq(WriteReq)], IsFiniteSet(Slots(q)), NEW t \in Targets,
         NEW i \in DOMAIN q[t], NEW s, NEW r, r = [q EXCEPT ![t] = s],
         DOMAIN s = 1..(Len(q[t]) - 1),
         \A j \in 1..(Len(q[t]) - 1) : s[j] = IF j < i THEN q[t][j] ELSE q[t][j + 1]
  PROVE  /\ IsFiniteSet(Slots(r)) /\ Cardinality(Slots(r)) \in Nat
         /\ Cardinality(Slots(r)) <= Cardinality(Slots(q)) - (IF q[t][i].b = None THEN 1 ELSE 0)
  <1> DEFINE from(w) == IF w[1] = t /\ w[2] >= i THEN <<t, w[2] + 1>> ELSE w
             f == [w \in Slots(r) |-> from(w)]
             Rest == Slots(q) \ {<<t, i>>}
  <1>1. Len(q[t]) \in Nat /\ DOMAIN q[t] = 1..Len(q[t]) /\ i \in 1..Len(q[t])
    BY LenProperties
  <1>2. \A u \in Targets : r[u] = IF u = t THEN s ELSE q[u]
    OBVIOUS
  <1>3. \A w \in Slots(r) : /\ w \in Targets \X Nat /\ w = <<w[1], w[2]>>
                            /\ w[2] \in DOMAIN r[w[1]] /\ r[w[1]][w[2]].b = None
    BY DEF Slots
  <1>4. ASSUME NEW w \in Slots(r) PROVE from(w) \in Rest
    <2>1. CASE w[1] = t
      <3>1. w[2] \in 1..(Len(q[t]) - 1) /\ s[w[2]].b = None
        BY <1>2, <1>3, <2>1
      <3>2. CASE w[2] < i
        <4>1. w[2] \in 1..Len(q[t]) /\ q[t][w[2]].b = None /\ w[2] # i /\ ~(w[2] >= i)
          BY ONLY <1>1, <3>1, <3>2,
             \A j \in 1..(Len(q[t]) - 1) : s[j] = IF j < i THEN q[t][j] ELSE q[t][j + 1]
        <4> QED BY <1>1, <1>3, <2>1, <4>1 DEF Slots
      <3>3. CASE w[2] >= i
        <4>1. w[2] + 1 \in 1..Len(q[t]) /\ q[t][w[2] + 1].b = None /\ w[2] + 1 # i /\ w[2] + 1 \in Nat
          BY ONLY <1>1, <3>1, <3>3,
             \A j \in 1..(Len(q[t]) - 1) : s[j] = IF j < i THEN q[t][j] ELSE q[t][j + 1]
        <4> QED BY <1>1, <2>1, <3>3, <4>1 DEF Slots
      <3> QED BY <1>1, <3>1, <3>2, <3>3
    <2>2. CASE w[1] # t
      BY <1>2, <1>3, <2>2 DEF Slots
    <2> QED BY <2>1, <2>2
  <1>5. ASSUME NEW v \in Slots(r), NEW w \in Slots(r), from(v) = from(w) PROVE v = w
    <2>1. /\ v = <<v[1], v[2]>> /\ w = <<w[1], w[2]>> /\ v[2] \in Nat /\ w[2] \in Nat
          /\ i \in Nat
      <3>1. v \in Targets \X Nat /\ w \in Targets \X Nat
        BY <1>3
      <3> QED BY ONLY <1>1, <3>1
    <2>2. v[1] = w[1]
      BY <1>5, <2>1
    <2>3. v[2] = w[2]
      BY <1>5, <2>1, <2>2
    <2> QED BY <2>1, <2>2, <2>3
  <1>6. f \in Injection(Slots(r), Rest)
    <2>1. f \in [Slots(r) -> Rest]
      BY <1>4
    <2>2. \A v, w \in Slots(r) : f[v] = f[w] => v = w
      BY <1>5
    <2> HIDE DEF f, Rest
    <2> QED BY <2>1, <2>2 DEF Injection, IsInjective
  <1>7. <<t, i>> \in Slots(q) <=> q[t][i].b = None
    BY <1>1 DEF Slots
  <1> HIDE DEF Slots, f
  <1>8. /\ IsFiniteSet(Rest) /\ Cardinality(Slots(q)) \in Nat
        /\ Cardinality(Rest) = Cardinality(Slots(q)) - (IF q[t][i].b = None THEN 1 ELSE 0)
    <2>1. /\ IsFiniteSet(Rest) /\ Cardinality(Slots(q)) \in Nat
          /\ Cardinality(Rest) = IF <<t, i>> \in Slots(q) THEN Cardinality(Slots(q)) - 1
                                ELSE Cardinality(Slots(q))
      BY FS_RemoveElement, FS_CardinalityType
    <2> HIDE DEF Rest
    <2> QED BY ONLY <1>7, <2>1
  <1> HIDE DEF Rest
  <1>9. IsFiniteSet(Slots(r)) /\ Cardinality(Slots(r)) <= Cardinality(Rest)
    BY ONLY <1>6, <1>8, FS_Injection
  <1>10. Cardinality(Slots(r)) \in Nat
    BY <1>9, FS_CardinalityType
  <1> QED BY <1>8, <1>9, <1>10

-----------------------------------------------------------------------------
(* What a step does to the banks a reference is owed for                    *)

LEMMA OwedFewer ==
  ASSUME DebtInv, \A t \in Targets, b \in Banks : Owed(t, b)' => Owed(t, b)
  PROVE  /\ IsFiniteSet(OwedBanks') /\ Cardinality(OwedBanks') \in Nat
         /\ Cardinality(OwedBanks') <= Cardinality(OwedBanks)
  <1>1. OwedBanks' \subseteq OwedBanks
    BY DEF OwedBanks
  <1> QED BY <1>1, Fewer DEF DebtInv

LEMMA OwedLess ==
  ASSUME DebtInv, NEW t0 \in Targets, NEW b0 \in Banks, Owed(t0, b0),
         \A t \in Targets, b \in Banks : Owed(t, b)' => Owed(t, b) /\ ~(t = t0 /\ b = b0)
  PROVE  /\ IsFiniteSet(OwedBanks') /\ Cardinality(OwedBanks') \in Nat
         /\ Cardinality(OwedBanks') <= Cardinality(OwedBanks) - 1
  <1>1. <<t0, b0>> \in OwedBanks
    BY DEF OwedBanks
  <1>2. OwedBanks' \subseteq OwedBanks \ {<<t0, b0>>}
    BY DEF OwedBanks
  <1> QED BY <1>1, <1>2, LoseOne DEF DebtInv

LEMMA OwedMore ==
  ASSUME DebtInv, NEW t0 \in Targets, NEW b0 \in Banks,
         \A t \in Targets, b \in Banks : Owed(t, b)' => Owed(t, b) \/ (t = t0 /\ b = b0)
  PROVE  /\ IsFiniteSet(OwedBanks') /\ Cardinality(OwedBanks') \in Nat
         /\ Cardinality(OwedBanks') <= Cardinality(OwedBanks) + 1
  <1>1. OwedBanks' \subseteq OwedBanks \cup {<<t0, b0>>}
    BY DEF OwedBanks
  <1> QED BY <1>1, AddOne DEF DebtInv

\* A step that touches no list of writes and gives no reference back.
LEMMA QuietStep ==
  ASSUME TypeOK, TypeOK', DebtInv, UNCHANGED <<fly, fin>>, needGrease' >= needGrease,
         \A t \in Targets, b \in Banks : Owed(t, b)' => Owed(t, b)
  PROVE  DebtInv'
  <1>1. /\ IsFiniteSet(OwedBanks') /\ Cardinality(OwedBanks') \in Nat
        /\ Cardinality(OwedBanks') <= Cardinality(OwedBanks)
    BY OwedFewer
  <1>2. Slots(fly)' = Slots(fly) /\ Slots(fin)' = Slots(fin)
    BY DEF Slots
  <1>3. /\ IsFiniteSet(OwedBanks) /\ IsFiniteSet(Slots(fly)) /\ IsFiniteSet(Slots(fin))
        /\ Cardinality(OwedBanks) + Cardinality(Slots(fly)) + Cardinality(Slots(fin)) <= needGrease
    BY DEF DebtInv, Debt
  <1>4. /\ Cardinality(OwedBanks) \in Nat /\ Cardinality(Slots(fly)) \in Nat
        /\ Cardinality(Slots(fin)) \in Nat /\ needGrease \in Int /\ needGrease' \in Int
    BY <1>3, FS_CardinalityType DEF TypeOK, IOTypes
  <1>5. Cardinality(OwedBanks') + Cardinality(Slots(fly)) + Cardinality(Slots(fin)) <= needGrease'
    BY ONLY <1>1, <1>3, <1>4, needGrease' >= needGrease
  <1> QED BY <1>1, <1>2, <1>3, <1>5 DEF DebtInv, Debt

\* Any other step: what each of the three sets gains or loses is what needGreaseThread does.
LEMMA DebtStep ==
  ASSUME TypeOK, TypeOK', DebtInv, NEW d1 \in Int, NEW d2 \in Int, NEW d3 \in Int,
         IsFiniteSet(OwedBanks'), Cardinality(OwedBanks') \in Nat,
         Cardinality(OwedBanks') <= Cardinality(OwedBanks) + d1,
         IsFiniteSet(Slots(fly')), Cardinality(Slots(fly')) \in Nat,
         Cardinality(Slots(fly')) <= Cardinality(Slots(fly)) + d2,
         IsFiniteSet(Slots(fin')), Cardinality(Slots(fin')) \in Nat,
         Cardinality(Slots(fin')) <= Cardinality(Slots(fin)) + d3,
         needGrease' = needGrease + d1 + d2 + d3
  PROVE  DebtInv'
  <1>1. Slots(fly)' = Slots(fly') /\ Slots(fin)' = Slots(fin')
    BY DEF Slots
  <1>2. /\ IsFiniteSet(OwedBanks) /\ IsFiniteSet(Slots(fly)) /\ IsFiniteSet(Slots(fin))
        /\ Cardinality(OwedBanks) + Cardinality(Slots(fly)) + Cardinality(Slots(fin)) <= needGrease
    BY DEF DebtInv, Debt
  <1>3. /\ Cardinality(OwedBanks) \in Nat /\ Cardinality(Slots(fly)) \in Nat
        /\ Cardinality(Slots(fin)) \in Nat /\ needGrease \in Int
    BY <1>2, FS_CardinalityType DEF TypeOK, IOTypes
  <1>4. Cardinality(OwedBanks') + Cardinality(Slots(fly')) + Cardinality(Slots(fin')) <= needGrease'
    BY ONLY <1>2, <1>3, d1 \in Int, d2 \in Int, d3 \in Int,
       Cardinality(OwedBanks') \in Nat, Cardinality(OwedBanks') <= Cardinality(OwedBanks) + d1,
       Cardinality(Slots(fly')) \in Nat, Cardinality(Slots(fly')) <= Cardinality(Slots(fly)) + d2,
       Cardinality(Slots(fin')) \in Nat, Cardinality(Slots(fin')) <= Cardinality(Slots(fin)) + d3,
       needGrease' = needGrease + d1 + d2 + d3
  <1> QED BY <1>1, <1>4 DEF DebtInv, Debt

\* The slots of a list that a step leaves alone.
LEMMA SameSlots ==
  ASSUME DebtInv
  PROVE  /\ UNCHANGED fly => /\ IsFiniteSet(Slots(fly')) /\ Cardinality(Slots(fly')) \in Nat
                             /\ Cardinality(Slots(fly')) <= Cardinality(Slots(fly)) + 0
         /\ UNCHANGED fin => /\ IsFiniteSet(Slots(fin')) /\ Cardinality(Slots(fin')) \in Nat
                             /\ Cardinality(Slots(fin')) <= Cardinality(Slots(fin)) + 0
  <1>1. ASSUME NEW q, NEW r, r = q, IsFiniteSet(Slots(q))
        PROVE  /\ IsFiniteSet(Slots(r)) /\ Cardinality(Slots(r)) \in Nat
               /\ Cardinality(Slots(r)) <= Cardinality(Slots(q)) + 0
    <2>1. Cardinality(Slots(q)) \in Nat
      BY <1>1, FS_CardinalityType
    <2> QED BY ONLY <1>1, <2>1
  <1> QED BY <1>1 DEF DebtInv

LEMMA AtCallbackIs ==
  ASSUME TypeOK, NEW t \in Targets, NEW b \in Banks
  PROVE  AtCallback(t, b) <=> In("waiting", t, b) \/ In("inside", t, b)
  <1>1. cbq \in Seq(Callback) /\ vcb \in Callback \cup {None}
    BY DEF TypeOK, IOTypes
  <1>2. \A i \in DOMAIN cbq : cbq[i] \in Callback
    BY <1>1, LenProperties, ElementOfSeq
  <1>3. (\E i \in DOMAIN cbq : cbq[i].t = t /\ cbq[i].b = b) <=> In("waiting", t, b)
    BY <1>2 DEF In, Holds, CallOf
  <1>4. (vcb # None /\ vcb.t = t /\ vcb.b = b) <=> In("inside", t, b)
    <2>1. None \notin Callback
      BY PipelineAssumption
    <2> QED BY <1>1, <2>1 DEF In, CallOf
  <1> QED BY <1>3, <1>4 DEF AtCallback

\* A bank that is neither waiting for its callback nor inside it before a step and after.
LEMMA AtCallbackFrame ==
  ASSUME UNCHANGED vcb,
         NEW t, NEW b
  PROVE  /\ UNCHANGED cbq => (AtCallback(t, b)' <=> AtCallback(t, b))
         /\ \A c \in Callback : cbq \in Seq(Callback) /\ cbq' = Append(cbq, c) =>
              (AtCallback(t, b)' <=> AtCallback(t, b) \/ (t = c.t /\ b = c.b))
  <1>1. UNCHANGED cbq => (AtCallback(t, b)' <=> AtCallback(t, b))
    BY DEF AtCallback
  <1>2. ASSUME NEW c \in Callback, cbq \in Seq(Callback), cbq' = Append(cbq, c)
        PROVE  AtCallback(t, b)' <=> AtCallback(t, b) \/ (t = c.t /\ b = c.b)
    <2>1. /\ DOMAIN cbq = 1..Len(cbq) /\ Len(cbq) \in Nat
          /\ DOMAIN cbq' = 1..(Len(cbq) + 1)
          /\ \A i \in 1..Len(cbq) : cbq'[i] = cbq[i]
          /\ cbq'[Len(cbq) + 1] = c
      BY <1>2, AppendProperties, LenProperties
    <2>2. /\ DOMAIN cbq \subseteq DOMAIN cbq' /\ Len(cbq) + 1 \in DOMAIN cbq'
          /\ \A i \in DOMAIN cbq' : i \in DOMAIN cbq \/ i = Len(cbq) + 1
          /\ \A i \in DOMAIN cbq : cbq'[i] = cbq[i]
      BY ONLY <2>1
    <2> QED BY ONLY <2>1, <2>2, UNCHANGED vcb DEF AtCallback
  <1> QED BY <1>1, <1>2

-----------------------------------------------------------------------------
(* The steps                                                                *)

\* A step outside write() that fills no bank and starts no callback.
LEMMA NoBankFilled ==
  ASSUME gpc' # "copy", UNCHANGED <<cbq, vcb>>,
         \A t \in Targets, b \in Banks : used'[t][b] > 0 => used[t][b] > 0
  PROVE  \A t \in Targets, b \in Banks : Owed(t, b)' => Owed(t, b)
  BY AtCallbackFrame DEF Owed, PendingRef

LEMMA SameOwed ==
  ASSUME UNCHANGED <<used, cur, cbq, vcb>>, gpc' = "copy" => UNCHANGED <<gpc, groute>>
  PROVE  \A t \in Targets, b \in Banks : Owed(t, b)' => Owed(t, b)
  <1>1. gpc' = "copy" => gpc = "copy" /\ T' = T
    BY DEF T
  <1> QED BY <1>1, AtCallbackFrame DEF Owed, PendingRef

LEMMA RotateOwed ==
  ASSUME TypeOK, NEW t0 \in Targets, Rotate(t0)
  PROVE  \A t \in Targets, b \in Banks : used'[t][b] > 0 => used[t][b] > 0
  <1>1. used \in [Targets -> [Banks -> Nat]] /\ cur[t0] \in Banks
    BY DEF TypeOK, BankTypes
  <1>2. CASE UNCHANGED used
    BY <1>2
  <1>3. CASE Cleared(t0, cur[t0])
    BY <1>1, <1>3 DEF Cleared
  <1> QED BY <1>2, <1>3 DEF Rotate, bankVars

\* returnBuffer() gives the reference of a bank back, and that of no other.
LEMMA ReturnOwed ==
  ASSUME TypeOK, BankInv, DebtInv, NEW t0 \in Targets, NEW b0 \in Banks, ReturnBank(t0, b0),
         gpc' # "copy", UNCHANGED vcb, NEW k \in {"flushing", "written"}, In(k, t0, b0)
  PROVE  \E d \in Int : /\ IsFiniteSet(OwedBanks') /\ Cardinality(OwedBanks') \in Nat
                        /\ Cardinality(OwedBanks') <= Cardinality(OwedBanks) + d
                        /\ needGrease' = needGrease + d
  <1>1. /\ used \in [Targets -> [Banks -> Nat]] /\ needGrease \in Int /\ cbq \in Seq(Callback)
    BY DEF TypeOK, BankTypes, IOTypes
  <1>2. ~AtCallback(t0, b0)
    BY AtCallbackIs DEF BankInv, OneKind, Kinds
  <1>3. \A t \in Targets, b \in Banks : Owed(t, b)' <=> used'[t][b] > 0 /\ ~AtCallback(t, b)'
    BY DEF Owed, PendingRef
  <1>4. \A t \in Targets, b \in Banks :
          Owed(t, b)' => used[t][b] > 0 /\ ~AtCallback(t, b) /\ ~(t = t0 /\ b = b0)
    <2>1. CASE Cleared(t0, b0) /\ UNCHANGED cbq
      <3>1. \A t \in Targets, b \in Banks : used'[t][b] = IF t = t0 /\ b = b0 THEN 0 ELSE used[t][b]
        BY <1>1, <2>1 DEF Cleared
      <3> QED BY <1>3, <2>1, <3>1, AtCallbackFrame
    <2>2. CASE cbq' = Append(cbq, [t |-> t0, b |-> b0, m |-> None]) /\ UNCHANGED used
      <3> DEFINE c == [t |-> t0, b |-> b0, m |-> None]
      <3>1. c \in Callback /\ c.t = t0 /\ c.b = b0 /\ cbq' = Append(cbq, c)
        BY <2>2 DEF Callback
      <3> HIDE DEF c
      <3>2. \A t \in Targets, b \in Banks : AtCallback(t, b)' <=> AtCallback(t, b) \/ (t = t0 /\ b = b0)
        BY <1>1, <3>1, AtCallbackFrame
      <3> QED BY <1>3, <2>2, <3>2
    <2> QED BY <2>1, <2>2 DEF ReturnBank
  <1>5. \A t \in Targets, b \in Banks : Owed(t, b)' => Owed(t, b) /\ ~(t = t0 /\ b = b0)
    BY <1>4 DEF Owed
  <1>6. CASE used[t0][b0] > 0
    <2>1. Owed(t0, b0)
      BY <1>2, <1>6 DEF Owed
    <2>2. /\ IsFiniteSet(OwedBanks') /\ Cardinality(OwedBanks') \in Nat
          /\ Cardinality(OwedBanks') <= Cardinality(OwedBanks) - 1
      BY <1>5, <2>1, OwedLess
    <2>3. needGrease' = needGrease - 1 /\ Cardinality(OwedBanks) \in Nat
      BY <1>6, FS_CardinalityType DEF ReturnBank, DebtInv
    <2>4. /\ Cardinality(OwedBanks') <= Cardinality(OwedBanks) + (-1)
          /\ needGrease' = needGrease + (-1) /\ -1 \in Int
      BY ONLY <1>1, <2>2, <2>3
    <2> QED BY <2>2, <2>4
  <1>7. CASE ~(used[t0][b0] > 0)
    <2>1. /\ IsFiniteSet(OwedBanks') /\ Cardinality(OwedBanks') \in Nat
          /\ Cardinality(OwedBanks') <= Cardinality(OwedBanks)
      BY <1>5, OwedFewer
    <2>2. needGrease' = needGrease /\ Cardinality(OwedBanks) \in Nat
      BY <1>7, FS_CardinalityType DEF ReturnBank, DebtInv
    <2>3. /\ Cardinality(OwedBanks') <= Cardinality(OwedBanks) + 0
          /\ needGrease' = needGrease + 0 /\ 0 \in Int
      BY ONLY <1>1, <2>1, <2>2
    <2> QED BY <2>1, <2>3
  <1> QED BY <1>6, <1>7

\* flushAll() of the grease thread.
LEMMA FlushDebt ==
  ASSUME TypeOK, TypeOK', BankInv, DebtInv, OneFlusher, FlushStep("grease")
  PROVE  DebtInv'
  <1>1. "grease" \in Threads
    BY DEF Threads
  <1>2. gpc' = gpc /\ gpc # "copy" /\ UNCHANGED vcb
    <2>1. fpc["grease"] # "none" /\ UNCHANGED gVars /\ UNCHANGED vcb
      BY DEF FlushStep, FlushRotate, FlushTake, FlushSubmit
    <2> QED BY <2>1 DEF OneFlusher, WritePcs, gVars
  <1>3. needGrease \in Int /\ fly \in [Targets -> Seq(WriteReq)]
    BY DEF TypeOK, IOTypes
  <1>4. CASE FlushRotate("grease")
    <2>1. PICK t0 \in fset["grease"] : Rotate(t0)
      BY <1>4 DEF FlushRotate
    <2>2. t0 \in Targets
      BY <1>1 DEF TypeOK, FlushTypes
    <2>3. UNCHANGED <<fly, fin, cbq, vcb, needGrease>>
      BY <1>4 DEF FlushRotate, ioVars
    <2>4. \A t \in Targets, b \in Banks : Owed(t, b)' => Owed(t, b)
      BY <1>2, <2>1, <2>2, <2>3, RotateOwed, NoBankFilled
    <2> QED BY <1>3, <2>3, <2>4, QuietStep
  <1>5. CASE FlushTake("grease")
    <2>1. UNCHANGED <<used, cur, fly, fin, cbq, vcb, needGrease>>
      BY <1>5 DEF FlushTake, ioVars
    <2> QED BY <1>2, <1>3, <2>1, SameOwed, QuietStep
  <1>6. CASE FlushSubmit("grease")
    <2> DEFINE t0 == ft["grease"]
               b0 == fb["grease"]
    <2>1. t0 \in Targets /\ b0 \in Banks /\ UNCHANGED fin
      BY <1>1, <1>6 DEF FlushSubmit, TypeOK, FlushTypes
    <2>2. In("flushing", t0, b0)
      BY <1>1 DEF In
    <2>3. CASE ReturnBank(t0, b0) /\ UNCHANGED fly
      <3> HIDE DEF t0, b0
      <3>1. PICK d \in Int : /\ IsFiniteSet(OwedBanks') /\ Cardinality(OwedBanks') \in Nat
                             /\ Cardinality(OwedBanks') <= Cardinality(OwedBanks) + d
                             /\ needGrease' = needGrease + d
        BY <1>2, <2>1, <2>2, <2>3, ReturnOwed
      <3>2. needGrease' = needGrease + d + 0 + 0
        BY <1>3, <3>1
      <3> QED BY <2>1, <2>3, <3>1, <3>2, SameSlots, DebtStep
    <2>4. CASE /\ fly' = [fly EXCEPT ![t0] = Append(@, [b |-> b0, m |-> None])]
               /\ UNCHANGED <<bankVars, cbq, needGrease>>
      <3> DEFINE x == [b |-> b0, m |-> None]
      <3>1. x \in WriteReq /\ x.b # None /\ fly' = [fly EXCEPT ![t0] = Append(@, x)]
        BY <2>1, <2>4, PipelineAssumption DEF WriteReq
      <3> HIDE DEF x, t0
      <3>2. /\ IsFiniteSet(Slots(fly')) /\ Cardinality(Slots(fly')) \in Nat
            /\ Cardinality(Slots(fly')) <= Cardinality(Slots(fly)) + 0
        BY <1>3, <2>1, <3>1, AppendSlot DEF DebtInv
      <3>3. /\ IsFiniteSet(OwedBanks') /\ Cardinality(OwedBanks') \in Nat
            /\ Cardinality(OwedBanks') <= Cardinality(OwedBanks) + 0
        <4>1. \A t \in Targets, b \in Banks : Owed(t, b)' => Owed(t, b)
          BY <1>2, <2>4, SameOwed DEF bankVars
        <4>2. /\ IsFiniteSet(OwedBanks') /\ Cardinality(OwedBanks') \in Nat
              /\ Cardinality(OwedBanks') <= Cardinality(OwedBanks)
              /\ Cardinality(OwedBanks) \in Nat
          BY <4>1, OwedFewer, FS_CardinalityType DEF DebtInv
        <4> QED BY ONLY <4>2
      <3>4. needGrease' = needGrease + 0 + 0 + 0
        BY <1>3, <2>4
      <3> QED BY <2>1, <3>2, <3>3, <3>4, SameSlots, DebtStep
    <2> QED BY <1>6, <2>3, <2>4 DEF FlushSubmit
  <1> QED BY <1>4, <1>5, <1>6 DEF FlushStep

\* A write_cb gives the reference of its bank or its overflow message back.
LEMMA WriteCbDebt ==
  ASSUME TypeOK, TypeOK', BankInv, DebtInv, NEW t0 \in Targets, WriteCb(t0)
  PROVE  DebtInv'
  <1> DEFINE r == Head(fin[t0])
  <1>1. /\ needGrease \in Int /\ fin \in [Targets -> Seq(WriteReq)] /\ cbq \in Seq(Callback)
    BY DEF TypeOK, IOTypes
  <1>2. /\ UNCHANGED <<fly, vcb>> /\ gpc' # "copy" /\ fin[t0] # <<>>
        /\ fin' = [fin EXCEPT ![t0] = Tail(@)]
    BY DEF WriteCb, LoopIdle, gVars
  <1>3. /\ r \in WriteReq /\ 1 \in DOMAIN fin[t0] /\ fin[t0][1] = r
        /\ DOMAIN Tail(fin[t0]) = 1..(Len(fin[t0]) - 1)
        /\ \A j \in 1..(Len(fin[t0]) - 1) :
             Tail(fin[t0])[j] = IF j < 1 THEN fin[t0][j] ELSE fin[t0][j + 1]
    BY <1>1, <1>2, EmptySeq, HeadTailProperties, LenProperties
  <1> HIDE DEF r
  <1>4. /\ IsFiniteSet(Slots(fin')) /\ Cardinality(Slots(fin')) \in Nat
        /\ Cardinality(Slots(fin')) <= Cardinality(Slots(fin)) - (IF r.b = None THEN 1 ELSE 0)
        /\ Cardinality(Slots(fin)) \in Nat
    <2>1. IsFiniteSet(Slots(fin)) /\ Cardinality(Slots(fin)) \in Nat
      BY FS_CardinalityType DEF DebtInv
    <2>2. fin' = [fin EXCEPT ![t0] = Tail(fin[t0])]
      BY <1>2
    <2> QED BY ONLY <1>1, <1>3, <2>1, <2>2, t0 \in Targets, RemoveSlot
  <1>5. /\ IsFiniteSet(Slots(fly')) /\ Cardinality(Slots(fly')) \in Nat
        /\ Cardinality(Slots(fly')) <= Cardinality(Slots(fly)) + 0
    BY <1>2, SameSlots
  <1>6. CASE r.b # None /\ ReturnBank(t0, r.b)
    <2>1. r.b \in Banks
      BY <1>3, <1>6 DEF WriteReq
    <2>2. In("written", t0, r.b)
      <3>1. r \in WriteOf(r.b)
        BY <1>3 DEF WriteOf
      <3> QED BY <1>3, <3>1 DEF In, Holds
    <2>3. PICK d \in Int : /\ IsFiniteSet(OwedBanks') /\ Cardinality(OwedBanks') \in Nat
                           /\ Cardinality(OwedBanks') <= Cardinality(OwedBanks) + d
                           /\ needGrease' = needGrease + d
      BY <1>2, <1>6, <2>1, <2>2, ReturnOwed
    <2>4. needGrease' = needGrease + d + 0 + 0
      BY <1>1, <2>3
    <2>5. Cardinality(Slots(fin')) <= Cardinality(Slots(fin)) + 0
      BY ONLY <1>4, <1>6
    <2> QED BY ONLY TypeOK, TypeOK', DebtInv, <1>4, <1>5, <2>3, <2>4, <2>5, 0 \in Int, DebtStep
  <1>7. CASE /\ r.b = None /\ needGrease' = needGrease - 1 /\ QueueOverflowCallback(t0, r.m)
             /\ UNCHANGED bankVars
    <2>1. \A t \in Targets, b \in Banks : AtCallback(t, b) => AtCallback(t, b)'
      <3>1. CASE UNCHANGED cbq
        BY <1>2, <3>1, AtCallbackFrame
      <3>2. CASE cbq' = Append(cbq, [t |-> t0, b |-> None, m |-> r.m])
        <4>1. r.m \in Msgs
          BY <1>3, <1>7, PipelineAssumption DEF WriteReq
        <4>2. [t |-> t0, b |-> None, m |-> r.m] \in Callback
          BY <4>1 DEF Callback
        <4> QED BY <1>1, <1>2, <3>2, <4>2, AtCallbackFrame
      <3> QED BY <1>7, <3>1, <3>2 DEF QueueOverflowCallback
    <2>2. \A t \in Targets, b \in Banks : Owed(t, b)' => Owed(t, b)
      BY <1>2, <1>7, <2>1 DEF Owed, PendingRef, bankVars
    <2>3. /\ IsFiniteSet(OwedBanks') /\ Cardinality(OwedBanks') \in Nat
          /\ Cardinality(OwedBanks') <= Cardinality(OwedBanks)
          /\ Cardinality(OwedBanks) \in Nat
      BY <2>2, OwedFewer, FS_CardinalityType DEF DebtInv
    <2>4. /\ Cardinality(OwedBanks') <= Cardinality(OwedBanks) + 0
          /\ Cardinality(Slots(fin')) <= Cardinality(Slots(fin)) + (-1)
          /\ needGrease' = needGrease + 0 + 0 + (-1) /\ -1 \in Int
      BY ONLY <1>1, <1>4, <1>7, <2>3
    <2> QED BY ONLY TypeOK, TypeOK', DebtInv, <1>4, <1>5, <2>3, <2>4, 0 \in Int, DebtStep
  <1> QED BY <1>6, <1>7 DEF WriteCb, r

\* A write is performed: it goes from one list to the other.
LEMMA PerformWriteDebt ==
  ASSUME TypeOK, TypeOK', DebtInv, NEW t0 \in Targets, PerformWrite(t0)
  PROVE  DebtInv'
  <1>1. PICK i \in DOMAIN fly[t0] :
               /\ fin' = [fin EXCEPT ![t0] = Append(@, fly[t0][i])]
               /\ fly' = [fly EXCEPT ![t0] = Without(fly[t0], i)]
    BY DEF PerformWrite, Without
  <1>2. /\ UNCHANGED <<used, cur, cbq, vcb, gpc, groute, needGrease>>
        /\ needGrease \in Int
        /\ fly \in [Targets -> Seq(WriteReq)] /\ fin \in [Targets -> Seq(WriteReq)]
    BY DEF PerformWrite, bankVars, gVars, TypeOK, IOTypes
  <1>3. /\ IsFiniteSet(OwedBanks) /\ Cardinality(OwedBanks) \in Nat
        /\ IsFiniteSet(Slots(fly)) /\ Cardinality(Slots(fly)) \in Nat
        /\ IsFiniteSet(Slots(fin)) /\ Cardinality(Slots(fin)) \in Nat
    BY FS_CardinalityType DEF DebtInv
  <1>4. /\ IsFiniteSet(OwedBanks') /\ Cardinality(OwedBanks') \in Nat
        /\ Cardinality(OwedBanks') <= Cardinality(OwedBanks)
    BY <1>2, SameOwed, OwedFewer
  <1> DEFINE x == fly[t0][i]
             d == IF x.b = None THEN 1 ELSE 0
  <1>5. /\ fly[t0] \in Seq(WriteReq) /\ x \in WriteReq
        /\ DOMAIN Without(fly[t0], i) = 1..(Len(fly[t0]) - 1)
        /\ \A j \in 1..(Len(fly[t0]) - 1) :
             Without(fly[t0], i)[j] = IF j < i THEN fly[t0][j] ELSE fly[t0][j + 1]
    <2>1. fly[t0] \in Seq(WriteReq)
      BY <1>2
    <2>2. x \in WriteReq
      BY <2>1, LenProperties, ElementOfSeq
    <2> QED BY <2>1, <2>2, WithoutIs
  <1>6. /\ IsFiniteSet(Slots(fly')) /\ Cardinality(Slots(fly')) \in Nat
        /\ Cardinality(Slots(fly')) <= Cardinality(Slots(fly)) - d
    BY ONLY <1>1, <1>2, <1>3, <1>5, t0 \in Targets, RemoveSlot
  <1>7. /\ IsFiniteSet(Slots(fin')) /\ Cardinality(Slots(fin')) \in Nat
        /\ Cardinality(Slots(fin')) <= Cardinality(Slots(fin)) + d
    <2>1. fin' = [fin EXCEPT ![t0] = Append(@, x)]
      BY <1>1
    <2> HIDE DEF x
    <2> QED BY ONLY <1>2, <1>3, <1>5, <2>1, t0 \in Targets, AppendSlot
  <1>8. d \in Int
    OBVIOUS
  <1> HIDE DEF d
  <1>9. /\ Cardinality(OwedBanks') <= Cardinality(OwedBanks) + 0
        /\ Cardinality(Slots(fly')) <= Cardinality(Slots(fly)) + (-d)
        /\ needGrease' = needGrease + 0 + (-d) + d /\ -d \in Int
    BY ONLY <1>2, <1>3, <1>4, <1>6, <1>8
  <1> QED BY ONLY TypeOK, TypeOK', DebtInv, <1>4, <1>6, <1>7, <1>8, <1>9, 0 \in Int, DebtStep

\* write() takes a reference for a bank it is about to put the first message into.
LEMMA WriteDebt ==
  ASSUME TypeOK, TypeOK', DebtInv, WriteStep
  PROVE  DebtInv'
  <1>1. groute # <<>> /\ needGrease \in Int /\ UNCHANGED <<fly, fin, cbq, vcb>>
    BY DEF WriteStep, WriteTest, WriteRef, WriteCopy, WriteRotate, WriteRequest,
           WriteRefCopy, TypeOK, GreaseTypes, IOTypes, WritePcs, ioVars
  <1>2. T \in Targets /\ cur[T] \in Banks /\ used \in [Targets -> [Banks -> Nat]] /\ gmsg \in Msgs
    <2>1. T \in Targets /\ gmsg \in Msgs
      BY <1>1, WriteTarget DEF WriteStep, WriteTest, WriteRef, WriteCopy, WriteRotate,
         WriteRequest, WriteRefCopy, TypeOK, GreaseTypes, WritePcs
    <2> QED BY <2>1 DEF TypeOK, BankTypes
  <1>3. ASSUME needGrease' = needGrease, \A t \in Targets, b \in Banks : Owed(t, b)' => Owed(t, b)
        PROVE  DebtInv'
    BY <1>1, <1>3, QuietStep
  <1>4. ASSUME needGrease' = needGrease + 1,
               \A t \in Targets, b \in Banks : Owed(t, b)' => Owed(t, b) \/ (t = T /\ b = cur[T])
        PROVE  DebtInv'
    <2>1. /\ IsFiniteSet(OwedBanks') /\ Cardinality(OwedBanks') \in Nat
          /\ Cardinality(OwedBanks') <= Cardinality(OwedBanks) + 1
      BY <1>2, <1>4, OwedMore
    <2>2. needGrease' = needGrease + 1 + 0 + 0 /\ 1 \in Int /\ 0 \in Int
      BY <1>1, <1>4
    <2>3. /\ IsFiniteSet(Slots(fly')) /\ Cardinality(Slots(fly')) \in Nat
          /\ Cardinality(Slots(fly')) <= Cardinality(Slots(fly)) + 0
          /\ IsFiniteSet(Slots(fin')) /\ Cardinality(Slots(fin')) \in Nat
          /\ Cardinality(Slots(fin')) <= Cardinality(Slots(fin)) + 0
      BY <1>1, SameSlots
    <2> QED BY ONLY TypeOK, TypeOK', DebtInv, <2>1, <2>2, <2>3, DebtStep
  <1>5. ASSUME NEW t \in Targets, NEW b \in Banks PROVE AtCallback(t, b)' <=> AtCallback(t, b)
    BY <1>1, AtCallbackFrame
  <1>6. ASSUME CopyIn(T, gmsg)
        PROVE  \A t \in Targets, b \in Banks : used'[t][b] > 0 => used[t][b] > 0 \/ (t = T /\ b = cur[T])
    BY <1>2, <1>6 DEF CopyIn
  <1>7. CASE WriteTest \/ WriteRequest
    BY <1>1, <1>3, <1>7, SameOwed DEF WriteTest, WriteRequest, WriteReturns, bankVars
  <1>8. CASE WriteRotate
    <2>1. Rotate(T) /\ gpc' # "copy" /\ UNCHANGED needGrease
      BY <1>8 DEF WriteRotate, WriteReturns
    <2> QED BY <1>1, <1>2, <1>3, <2>1, RotateOwed, NoBankFilled
  <1>9. CASE WriteRef
    <2>1. UNCHANGED <<used, cur, groute>> /\ needGrease' = RefIfEmpty /\ T' = T
      BY <1>9 DEF WriteRef, bankVars, T
    <2>2. \A t \in Targets, b \in Banks : Owed(t, b)' => Owed(t, b) \/ (t = T /\ b = cur[T])
      BY <1>5, <2>1 DEF Owed, PendingRef
    <2>3. CASE used[T][cur[T]] = 0
      BY <1>4, <2>1, <2>2, <2>3 DEF RefIfEmpty
    <2>4. CASE used[T][cur[T]] # 0
      <3>1. used[T][cur[T]] > 0
        BY <1>2, <2>4
      <3>2. \A t \in Targets, b \in Banks : Owed(t, b)' => Owed(t, b)
        BY <1>5, <2>1, <3>1 DEF Owed, PendingRef
      <3> QED BY <1>3, <2>1, <2>4, <3>2 DEF RefIfEmpty
    <2> QED BY <2>3, <2>4
  <1>10. CASE WriteCopy
    <2>1. CopyIn(T, gmsg) /\ gpc = "copy" /\ gpc' # "copy" /\ UNCHANGED needGrease
      BY <1>10 DEF WriteCopy, WriteReturns
    <2>2. \A t \in Targets, b \in Banks : Owed(t, b)' => Owed(t, b)
      BY <1>5, <1>6, <2>1 DEF Owed, PendingRef
    <2> QED BY <1>3, <2>1, <2>2
  <1>11. CASE WriteRefCopy
    <2>1. CopyIn(T, gmsg) /\ gpc' # "copy" /\ needGrease' = needGrease + 1
      BY <1>11 DEF WriteRefCopy, WriteReturns
    <2>2. \A t \in Targets, b \in Banks : Owed(t, b)' => Owed(t, b) \/ (t = T /\ b = cur[T])
      BY <1>5, <1>6, <2>1 DEF Owed, PendingRef
    <2> QED BY <1>4, <2>1, <2>2
  <1> QED BY <1>7, <1>8, <1>9, <1>10, <1>11 DEF WriteStep

\* A terminal takes a reference for an overflow message, one that nothing gives back is
\* taken for a callback target.
LEMMA OverflowDebt ==
  ASSUME TypeOK, TypeOK', DebtInv, OverflowWrite
  PROVE  DebtInv'
  <1>1. /\ T \in Targets /\ gmsg \in Msgs /\ needGrease \in Int
        /\ fly \in [Targets -> Seq(WriteReq)] /\ cbq \in Seq(Callback)
    <2>1. groute # <<>> /\ gmsg \in Msgs
      BY DEF OverflowWrite, TypeOK, GreaseTypes
    <2> QED BY <2>1, WriteTarget DEF TypeOK, IOTypes
  <1>2. UNCHANGED <<used, cur, vcb, fin>> /\ gpc' # "copy"
    BY DEF OverflowWrite, bankVars, ioVars
  <1>3. \A t \in Targets, b \in Banks : AtCallback(t, b) => AtCallback(t, b)'
    <2>1. CASE UNCHANGED cbq
      BY <1>2, <2>1, AtCallbackFrame
    <2>2. CASE cbq' = Append(cbq, [t |-> T, b |-> None, m |-> gmsg])
      <3>1. [t |-> T, b |-> None, m |-> gmsg] \in Callback
        BY <1>1 DEF Callback
      <3> QED BY <1>1, <1>2, <2>2, <3>1, AtCallbackFrame
    <2> QED BY <2>1, <2>2 DEF OverflowWrite, QueueOverflowCallback
  <1>4. \A t \in Targets, b \in Banks : Owed(t, b)' => Owed(t, b)
    BY <1>2, <1>3 DEF Owed, PendingRef
  <1>5. CASE UNCHANGED fly
    <2>1. needGrease' >= needGrease
      BY <1>1, <1>5 DEF OverflowWrite
    <2> QED BY <1>2, <1>4, <1>5, <2>1, QuietStep
  <1>6. CASE fly' = [fly EXCEPT ![T] = Append(@, [b |-> None, m |-> gmsg])] /\ needGrease' = needGrease + 1
    <2> DEFINE x == [b |-> None, m |-> gmsg]
    <2>1. x \in WriteReq /\ x.b = None /\ fly' = [fly EXCEPT ![T] = Append(@, x)]
      BY <1>1, <1>6 DEF WriteReq
    <2> HIDE DEF x
    <2>2. /\ IsFiniteSet(Slots(fly')) /\ Cardinality(Slots(fly')) \in Nat
          /\ Cardinality(Slots(fly')) <= Cardinality(Slots(fly)) + 1
      BY <1>1, <2>1, AppendSlot DEF DebtInv
    <2>3. /\ IsFiniteSet(OwedBanks') /\ Cardinality(OwedBanks') \in Nat
          /\ Cardinality(OwedBanks') <= Cardinality(OwedBanks) /\ Cardinality(OwedBanks) \in Nat
      BY <1>4, OwedFewer, FS_CardinalityType DEF DebtInv
    <2>4. /\ IsFiniteSet(Slots(fin')) /\ Cardinality(Slots(fin')) \in Nat
          /\ Cardinality(Slots(fin')) <= Cardinality(Slots(fin)) + 0
      BY <1>2, SameSlots
    <2>5. /\ Cardinality(OwedBanks') <= Cardinality(OwedBanks) + 0
          /\ needGrease' = needGrease + 0 + 1 + 0 /\ 1 \in Int /\ 0 \in Int
      BY ONLY <1>1, <1>6, <2>3
    <2> QED BY ONLY TypeOK, TypeOK', DebtInv, <2>2, <2>3, <2>4, <2>5, DebtStep
  <1> QED BY <1>5, <1>6 DEF OverflowWrite, ioVars

\* The V8 thread takes a bank to its callback and then frees it.
LEMMA V8Debt ==
  ASSUME TypeOK, TypeOK', BankInv, DebtInv, CallV8LogCallbacks \/ DoV8Callback
  PROVE  DebtInv'
  <1>1. UNCHANGED <<cur, gpc, groute, fly, fin, needGrease>> /\ needGrease \in Int /\ T' = T
    <2>1. UNCHANGED <<cur, gpc, groute, fly, fin, needGrease>>
      BY DEF CallV8LogCallbacks, DoV8Callback, bankVars, ioVars, gVars
    <2> QED BY <2>1 DEF T, TypeOK, IOTypes
  <1>2. CASE CallV8LogCallbacks
    <2>1. UNCHANGED used /\ cbq # <<>> /\ cbq' = Tail(cbq) /\ vcb' = Head(cbq) /\ vcb = None
      BY <1>2 DEF CallV8LogCallbacks, bankVars, V8Idle
    <2>2. Head(cbq) \in Callback /\ Head(cbq) # None
      BY <2>1, HeadTailProperties, PipelineAssumption DEF TypeOK, IOTypes
    <2>3. ASSUME NEW t \in Targets, NEW b \in Banks, AtCallback(t, b) PROVE AtCallback(t, b)'
      <3>1. PICK i \in DOMAIN cbq : cbq[i].t = t /\ cbq[i].b = b
        BY <2>1, <2>3 DEF AtCallback
      <3>2. /\ Len(cbq) \in Nat /\ DOMAIN cbq = 1..Len(cbq) /\ Head(cbq) = cbq[1]
            /\ DOMAIN cbq' = 1..(Len(cbq) - 1)
            /\ \A j \in 1..(Len(cbq) - 1) : cbq'[j] = cbq[j + 1]
        BY <2>1, EmptySeq, HeadTailProperties, LenProperties DEF TypeOK, IOTypes
      <3>3. CASE i = 1
        BY <2>1, <2>2, <3>1, <3>2, <3>3 DEF AtCallback
      <3>4. CASE i # 1
        <4>1. i - 1 \in DOMAIN cbq' /\ cbq'[i - 1] = cbq[i]
          <5>1. i - 1 \in 1..(Len(cbq) - 1) /\ (i - 1) + 1 = i
            BY <3>1, <3>2, <3>4
          <5> QED BY <3>2, <5>1
        <4> QED BY <3>1, <4>1 DEF AtCallback
      <3> QED BY <3>3, <3>4
    <2>4. \A t \in Targets, b \in Banks : Owed(t, b)' => Owed(t, b)
      BY <1>1, <2>1, <2>3 DEF Owed, PendingRef
    <2> QED BY <1>1, <2>4, QuietStep
  <1>3. CASE DoV8Callback
    <2>1. UNCHANGED cbq /\ vcb' = None /\ vcb # None /\ vcb \in Callback
      BY <1>3 DEF DoV8Callback, TypeOK, IOTypes
    <2>2. used \in [Targets -> [Banks -> Nat]]
      BY DEF TypeOK, BankTypes
    <2>3. ASSUME NEW t \in Targets, NEW b \in Banks, Owed(t, b)' PROVE Owed(t, b)
      <3>1. CASE t = vcb.t /\ b = vcb.b
        <4>1. Cleared(t, b)
          <5>1. b # None
            BY PipelineAssumption
          <5> QED BY <1>3, <3>1, <5>1 DEF DoV8Callback
        <4>2. used'[t][b] = 0
          BY <2>2, <4>1 DEF Cleared
        <4>3. In("inside", t, b)
          BY <2>1, <3>1 DEF In, CallOf
        <4>4. ~In("current", t, b)
          BY <4>3 DEF BankInv, OneKind, Kinds
        <4>5. PendingRef(t, b)' => t = T /\ b = cur[T]
          BY <1>1 DEF PendingRef
        <4> QED BY <2>3, <4>2, <4>4, <4>5 DEF Owed, In
      <3>2. CASE ~(t = vcb.t /\ b = vcb.b)
        <4>1. used'[t][b] = used[t][b]
          BY <1>3, <2>2, <3>2 DEF DoV8Callback, Cleared
        <4>2. AtCallback(t, b) => AtCallback(t, b)'
          BY <2>1, <3>2 DEF AtCallback
        <4> QED BY <1>1, <2>3, <4>1, <4>2 DEF Owed, PendingRef
      <3> QED BY <3>1, <3>2
    <2> QED BY <1>1, <2>3, QuietStep
  <1> QED BY <1>2, <1>3

LEMMA NextDebt ==
  ASSUME TypeOK, TypeOK', BankInv, OneFlusher, DebtInv, [Next]_vars
  PROVE  DebtInv'
  <1>1. needGrease \in Int
    BY DEF TypeOK, IOTypes
  <1>2. ASSUME UNCHANGED <<used, cur, cbq, vcb, fly, fin, needGrease>>,
               gpc' = "copy" => UNCHANGED <<gpc, groute>>
        PROVE  DebtInv'
    BY <1>1, <1>2, SameOwed, QuietStep
  <1>3. ASSUME NEW p \in Producers, ProducerStep(p) PROVE DebtInv'
    BY <1>2, <1>3 DEF ProducerStep, LogStart, LogEnqueue, LogSend, bankVars, ioVars, gVars
  <1>4. CASE HandleInternalCmd \/ Dequeue \/ EndCmd \/ OverflowFlush \/ FlushTimer \/ Flush \/ DisableWrites
    BY <1>2, <1>4 DEF HandleInternalCmd, Dequeue, EndCmd, OverflowFlush, FlushTimer, Flush,
                      DisableWrites, bankVars, ioVars, gVars
  <1>5. CASE UNCHANGED vars
    BY <1>2, <1>5 DEF vars, bankVars, ioVars, gVars
  <1>6. ~FlushStep("v8")
    BY DEF OneFlusher, FlushStep, FlushRotate, FlushTake, FlushSubmit
  <1>7. CASE GreaseStep
    BY <1>4, <1>7, FlushDebt, WriteDebt, OverflowDebt DEF GreaseStep
  <1>8. CASE V8Step
    BY <1>6, <1>8, V8Debt DEF V8Step
  <1> QED BY <1>3, <1>4, <1>5, <1>7, <1>8, WriteCbDebt, PerformWriteDebt DEF Next

LEMMA DebtInvariant ==
  ASSUME ~V8Flushes
  PROVE  Spec => [](TypeOK /\ DebtInv)
  <1>1. Init => OneFlusher /\ DebtInv
    <2> SUFFICES ASSUME Init PROVE OneFlusher /\ DebtInv
      OBVIOUS
    <2>1. OneFlusher
      BY DEF Init, OneFlusher, Threads, WritePcs
    <2>2. OwedBanks = {}
      BY DEF OwedBanks, Owed, PendingRef, Init
    <2>3. DOMAIN <<>> = {}
      BY EmptySeq, LenProperties
    <2>4. Slots(fly) = {} /\ Slots(fin) = {}
      BY <2>3 DEF Slots, Init
    <2>5. needGrease = 0
      BY DEF Init
    <2> QED BY <2>1, <2>2, <2>4, <2>5, FS_EmptySet DEF DebtInv, Debt
  <1>2. TypeOK /\ OneFlusher /\ [Next]_vars => OneFlusher'
    BY NextOneFlusher
  <1>3. TypeOK /\ TypeOK' /\ BankInv /\ OneFlusher /\ DebtInv /\ [Next]_vars => DebtInv'
    BY NextDebt
  <1> QED BY <1>1, <1>2, <1>3, BankInvariant, PTL DEF Spec

-----------------------------------------------------------------------------
(* The reference covers what waits                                          *)

\* The overflow messages in a list of writes are no more than its slots.
Overflows(q) == {h \in Targets \X Msgs : \E i \in DOMAIN q[h[1]] : q[h[1]][i].m = h[2]}

LEMMA OverflowsCounted ==
  ASSUME NEW q \in [Targets -> Seq(WriteReq)], IsFiniteSet(Slots(q))
  PROVE  /\ IsFiniteSet(Overflows(q)) /\ Cardinality(Overflows(q)) \in Nat
         /\ Cardinality(Overflows(q)) <= Cardinality(Slots(q))
  <1> DEFINE at(h) == CHOOSE i \in DOMAIN q[h[1]] : q[h[1]][i].m = h[2]
             f == [h \in Overflows(q) |-> <<h[1], at(h)>>]
  <1>1. ASSUME NEW h \in Overflows(q)
        PROVE  h = <<h[1], h[2]>> /\ <<h[1], at(h)>> \in Slots(q) /\ q[h[1]][at(h)].m = h[2]
    <2>1. h \in Targets \X Msgs /\ h = <<h[1], h[2]>>
      BY DEF Overflows
    <2>2. at(h) \in DOMAIN q[h[1]] /\ q[h[1]][at(h)].m = h[2]
      BY DEF Overflows
    <2> HIDE DEF at
    <2>3. q[h[1]] \in Seq(WriteReq)
      BY <2>1
    <2>4. at(h) \in Nat /\ q[h[1]][at(h)] \in WriteReq
      BY <2>2, <2>3, LenProperties, ElementOfSeq
    <2>5. q[h[1]][at(h)].b = None
      BY <2>1, <2>2, <2>4, PipelineAssumption DEF WriteReq
    <2> QED BY <2>1, <2>2, <2>4, <2>5 DEF Slots
  <1> HIDE DEF at
  <1>2. f \in Injection(Overflows(q), Slots(q))
    <2>1. f \in [Overflows(q) -> Slots(q)]
      BY <1>1
    <2>2. ASSUME NEW g \in Overflows(q), NEW h \in Overflows(q), f[g] = f[h] PROVE g = h
      <3>1. g[1] = h[1] /\ at(g) = at(h)
        BY <2>2
      <3>2. g[2] = h[2]
        BY <1>1, <3>1
      <3> QED BY <1>1, <3>1, <3>2
    <2> HIDE DEF f
    <2> QED BY <2>1, <2>2 DEF Injection, IsInjective
  <1> HIDE DEF f, Slots, Overflows
  <1>3. IsFiniteSet(Overflows(q)) /\ Cardinality(Overflows(q)) <= Cardinality(Slots(q))
    BY ONLY <1>2, IsFiniteSet(Slots(q)), FS_Injection
  <1> QED BY <1>3, FS_CardinalityType

LEMMA DebtCovers ==
  ASSUME TypeOK, DebtInv
  PROVE  GreaseRefCovers /\ GreaseRefAssert
  <1>1. fly \in [Targets -> Seq(WriteReq)] /\ fin \in [Targets -> Seq(WriteReq)] /\ needGrease \in Int
    BY DEF TypeOK, IOTypes
  <1>2. /\ IsFiniteSet(OwedBanks) /\ Cardinality(OwedBanks) \in Nat
        /\ IsFiniteSet(Slots(fly)) /\ Cardinality(Slots(fly)) \in Nat
        /\ IsFiniteSet(Slots(fin)) /\ Cardinality(Slots(fin)) \in Nat
        /\ Cardinality(OwedBanks) + Cardinality(Slots(fly)) + Cardinality(Slots(fin)) <= needGrease
    BY FS_CardinalityType DEF DebtInv, Debt
  <1>3. /\ Cardinality(UnreturnedBanks) \in Nat
        /\ Cardinality(UnreturnedBanks) <= Cardinality(OwedBanks)
    <2>1. UnreturnedBanks \subseteq OwedBanks
      BY DEF UnreturnedBanks, OwedBanks, Owed
    <2> QED BY <1>2, <2>1, Fewer
  <1> DEFINE A == Overflows(fly)
             B == Overflows(fin)
  <1>4. /\ IsFiniteSet(A) /\ Cardinality(A) \in Nat /\ Cardinality(A) <= Cardinality(Slots(fly))
        /\ IsFiniteSet(B) /\ Cardinality(B) \in Nat /\ Cardinality(B) <= Cardinality(Slots(fin))
    BY <1>1, <1>2, OverflowsCounted
  <1>5. UnreturnedOverflows = A \cup B
    BY DEF UnreturnedOverflows, Overflows
  <1> HIDE DEF A, B
  <1>6. /\ IsFiniteSet(A \cup B)
        /\ Cardinality(A \cup B) = Cardinality(A) + Cardinality(B) - Cardinality(A \cap B)
    BY <1>4, FS_Union
  <1>7. Cardinality(A \cap B) \in Nat
    BY <1>4, Fewer, A \cap B \subseteq A
  <1>8. Cardinality(A \cup B) <= Cardinality(A) + Cardinality(B) /\ Cardinality(A \cup B) \in Nat
    BY ONLY <1>4, <1>6, <1>7, FS_CardinalityType
  <1>9. Cardinality(UnreturnedBanks) + Cardinality(A \cup B) <= needGrease /\ needGrease >= 0
    BY ONLY <1>1, <1>2, <1>3, <1>4, <1>8
  <1> QED BY <1>5, <1>9 DEF GreaseRefCovers, GreaseRefAssert

\* Without flush() of the V8 thread, the grease thread holds a reference for every bank and
\* every overflow message that waits to be written, so the flush timer does not stop while
\* text is in memory: refGreaseInGrease, called before the message is in the bank, is in time,
\* and returnBuffer() and write_overflow_cb give back one reference each and never another's.
THEOREM ReferencesCover ==
  ASSUME ~V8Flushes
  PROVE  Spec => []GreaseRefCovers
  <1>1. TypeOK /\ DebtInv => GreaseRefCovers
    BY DebtCovers
  <1> QED BY <1>1, DebtInvariant, PTL

\* assert(needGreaseThread > 0) never fails without flush(): it is the flush() of the V8
\* thread that makes it fail.
THEOREM ReferencesNotNegative ==
  ASSUME ~V8Flushes
  PROVE  Spec => []GreaseRefAssert
  <1>1. TypeOK /\ DebtInv => GreaseRefAssert
    BY DebtCovers
  <1> QED BY <1>1, DebtInvariant, PTL
=============================================================================
