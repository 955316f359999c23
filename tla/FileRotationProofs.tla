------------------------- MODULE FileRotationProofs -------------------------
(***************************************************************************)
(* The rotation of a file target, for every number of names, files, writes,  *)
(* crashes and failures.                                                    *)
(***************************************************************************)
EXTENDS FileRotation, SequenceTheorems, FiniteSetTheorems, NaturalsInduction, TLAPS

-----------------------------------------------------------------------------
(* What check_files finds                                                   *)

LEMMA Least ==
  ASSUME NEW S \in SUBSET Nat, S # {}
  PROVE  \E n \in S : \A m \in S : n <= m
  <1> DEFINE R == {ss \in Nat \X Nat : ss[1] < ss[2]}
  <1>1. IsWellFoundedOn(R, Nat)
    BY NatLessThanWellFounded DEF OpToRel
  <1> HIDE DEF R
  <1>2. PICK n \in S : \A m \in S : ~(<<m, n>> \in R)
    BY <1>1, WFMin
  <1>3. ASSUME NEW m \in S PROVE n <= m
    <2>1. m \in Nat /\ n \in Nat /\ <<m, n>> \in Nat \X Nat
      OBVIOUS
    <2>2. ~(m < n)
      BY <1>2, <2>1 DEF R
    <2> QED BY <2>1, <2>2
  <1> QED BY <1>3

\* The list holds the numbers from the last one found down to 1.
LEMMA FoundIs ==
  \E last \in Names : /\ Found = [i \in 1..last |-> last + 1 - i]
                      /\ last \in Nat
  <1> DEFINE UpTo(k) == /\ \A n \in 1..k : Exists(n)
                        /\ k + 1 \in Names => ~Exists(k + 1)
             Gaps == {n \in Nat : n > 0 /\ (n \in Names => ~Exists(n))}
  <1>1. MaxRotated \in Nat /\ MaxRotated > 1
    BY RotationAssumption
  <1>2. MaxRotated \in Gaps
    BY <1>1 DEF Names
  <1>3. PICK g \in Gaps : \A m \in Gaps : g <= m
    BY <1>2, Least
  <1>4. g - 1 \in Names /\ g \in Nat /\ g <= MaxRotated
    BY <1>1, <1>2, <1>3 DEF Names
  <1>5. UpTo(g - 1)
    <2>1. \A n \in 1..(g - 1) : n \notin Gaps
      BY <1>3, <1>4
    <2>2. \A n \in 1..(g - 1) : n \in Names /\ n > 0 /\ n \in Nat
      BY <1>1, <1>4 DEF Names
    <2>3. \A n \in 1..(g - 1) : Exists(n)
      BY <2>1, <2>2
    <2> QED BY <1>3, <1>4, <2>3
  <1> DEFINE last == CHOOSE k \in Names : UpTo(k)
  <1>6. last \in Names
    BY <1>4, <1>5
  <1>7. Found = [i \in 1..last |-> last + 1 - i]
    BY DEF Found
  <1>8. last \in Nat
    BY <1>1, <1>6 DEF Names
  <1> QED BY <1>6, <1>7, <1>8

-----------------------------------------------------------------------------
(* Types, and the writes under way                                          *)

\* submittedWrites is the number of writes in the thread pool and of write_cbs to come; a
\* file is closed, and no write is under way, whenever the target is not ready.
Counted == /\ fly \subseteq 1..written /\ IsFiniteSet(fly)
           /\ submitted = Cardinality(fly) + fin
OnlyWhenReady == /\ pc # "ready" => submitted = 0
                 /\ isOpen => pc = "ready" /\ Exists(0)
SizeAtOpen == pc = "open" => SizeOf(0) <= size
WritesInv == Counted /\ OnlyWhenReady /\ SizeAtOpen /\ SizeCovers

LEMMA Constants ==
  /\ MaxRotated \in Nat /\ MaxRotated > 1 /\ MaxFiles \in Nat /\ MaxSize \in Nat
  /\ MaxWrites \in Nat /\ MaxCrashes \in Nat /\ MaxFailures \in Nat
  /\ OldFiles \subseteq Names /\ Names = 0..(MaxRotated - 1) /\ Names \subseteq Nat
  /\ 0 \in Names /\ 1 \in Names
  /\ Absent \notin Seq(Int)
  BY RotationAssumption DEF Names

\* What the files hold after a rename, an unlink, an open or a write.
LEMMA RenamedIs ==
  ASSUME TypeOK, NEW from \in Nat, NEW to \in Nat, from # to, disk' = Renamed(from, to)
  PROVE  /\ disk' \in [Names -> Seq(Int) \cup {Absent}]
         /\ \/ disk' = disk /\ (Named(from) /\ Named(to) => ~Exists(from))
            \/ /\ from \in Names /\ to \in Names /\ Exists(from)
               /\ \A n \in Names : disk'[n] = IF n = from THEN Absent
                                              ELSE IF n = to THEN disk[from] ELSE disk[n]
  <1>1. disk \in [Names -> Seq(Int) \cup {Absent}]
    BY DEF TypeOK
  <1>2. CASE Named(from) /\ Named(to) /\ Exists(from)
    BY <1>1, <1>2 DEF Renamed, Named
  <1>3. CASE ~(Named(from) /\ Named(to) /\ Exists(from))
    BY <1>1, <1>3 DEF Renamed
  <1> QED BY <1>2, <1>3

LEMMA WrittenIs ==
  ASSUME TypeOK, Exists(0), NEW w \in Int, disk' = [disk EXCEPT ![0] = Append(@, w)]
  PROVE  /\ disk' \in [Names -> Seq(Int) \cup {Absent}]
         /\ \A n \in Names \ {0} : disk'[n] = disk[n]
         /\ disk[0] \in Seq(Int) /\ disk'[0] = Append(disk[0], w)
         /\ Exists(0)' /\ SizeOf(0)' = SizeOf(0) + 1
  <1>1. disk \in [Names -> Seq(Int) \cup {Absent}] /\ disk[0] # Absent
    BY DEF TypeOK, Exists
  <1>2. disk[0] \in Seq(Int) /\ disk'[0] = Append(disk[0], w) /\ \A n \in Names \ {0} : disk'[n] = disk[n]
    BY <1>1, Constants
  <1>3. Append(disk[0], w) \in Seq(Int) /\ Len(Append(disk[0], w)) = Len(disk[0]) + 1
    BY <1>2, AppendProperties
  <1>4. disk' \in [Names -> Seq(Int) \cup {Absent}]
    BY <1>1, <1>2, <1>3
  <1>5. Exists(0)' /\ SizeOf(0)' = SizeOf(0) + 1
    BY <1>2, <1>3, Constants DEF Exists, SizeOf
  <1> QED BY <1>2, <1>4, <1>5

LEMMA SizeType ==
  ASSUME TypeOK, NEW n \in Names
  PROVE  SizeOf(n) \in Nat /\ (~Exists(n) => SizeOf(n) = 0)
  <1>1. Exists(n) => disk[n] \in Seq(Int)
    BY DEF TypeOK, Exists
  <1> QED BY <1>1, LenProperties DEF SizeOf

LEMMA FoundType == Found \in Seq(Nat)
  <1>1. PICK last \in Names : Found = [i \in 1..last |-> last + 1 - i] /\ last \in Nat
    BY FoundIs
  <1>2. \A i \in 1..last : last + 1 - i \in Nat
    BY <1>1
  <1> QED BY <1>1, <1>2, IsASeq

LEMMA NextTypes ==
  ASSUME TypeOK, WritesInv, [Next]_vars
  PROVE  TypeOK'
  <1>1. /\ disk \in [Names -> Seq(Int) \cup {Absent}] /\ rotated \in Seq(Nat) /\ temp \in Seq(Nat)
        /\ size \in Nat /\ submitted \in Nat /\ fin \in Nat /\ fly \subseteq 1..MaxWrites
        /\ written \in 0..MaxWrites /\ crashes \in 0..MaxCrashes /\ failures \in 0..MaxFailures
        /\ started \in BOOLEAN /\ isOpen \in BOOLEAN
        /\ pc \in {"down", "open", "ready", "rotate"}
    BY DEF TypeOK
  <1>2. <<>> \in Seq(Nat) /\ <<>> \in Seq(Int)
    BY EmptySeq
  <1>3. CASE Start
    <2>1. size' \in Nat
      BY <1>3, SizeType, Constants DEF Start, SizeAtStart
    <2> QED BY <1>1, <1>3, <2>1, FoundType DEF Start, TypeOK, ioVars, counters
  <1>4. CASE Open
    BY <1>1, <1>2, <1>4, Constants DEF Open, TypeOK, ioVars, counters
  <1>5. CASE OpenFails
    BY <1>1, <1>5, Constants DEF OpenFails, TypeOK, ioVars, counters
  <1>6. CASE RotateOne
    <2>1. Head(rotated) \in Nat /\ Tail(rotated) \in Seq(Nat)
      BY <1>1, <1>6, HeadTailProperties DEF RotateOne
    <2>2. disk' \in [Names -> Seq(Int) \cup {Absent}]
      <3>1. Head(rotated) + 1 \in Nat /\ Head(rotated) # Head(rotated) + 1
        BY <2>1
      <3> QED BY <1>1, <1>6, <2>1, <3>1, RenamedIs DEF RotateOne
    <2>3. temp' \in Seq(Nat)
      <3>1. temp' = temp \/ temp' = Append(temp, Head(rotated) + 1)
        BY <1>6 DEF RotateOne
      <3>2. Append(temp, Head(rotated) + 1) \in Seq(Nat)
        <4>1. Head(rotated) + 1 \in Nat
          BY <2>1
        <4> QED BY <1>1, <4>1, AppendProperties
      <3> QED BY ONLY <1>1, <3>1, <3>2
    <2> QED BY <1>1, <1>6, <2>1, <2>2, <2>3 DEF RotateOne, TypeOK, ioVars, counters
  <1>7. CASE RotateCurrent
    <2>1. disk' \in [Names -> Seq(Int) \cup {Absent}]
      BY <1>7, RenamedIs DEF RotateCurrent
    <2>2. rotated' \in Seq(Nat)
      <3>1. rotated' = temp \/ rotated' = Append(temp, 1)
        BY <1>7 DEF RotateCurrent
      <3>2. Append(temp, 1) \in Seq(Nat)
        BY <1>1, 1 \in Nat, AppendProperties
      <3> QED BY ONLY <1>1, <3>1, <3>2
    <2> QED BY <1>1, <1>2, <1>7, <2>1, <2>2 DEF RotateCurrent, TypeOK, ioVars, counters
  <1>8. CASE Flush
    <2>1. written + 1 \in 1..MaxWrites /\ written' \in 0..MaxWrites
      BY <1>1, <1>8, Constants DEF Flush
    <2> QED BY <1>1, <1>8, <2>1 DEF Flush, TypeOK
  <1>9. CASE PerformWrite
    <2>1. disk' \in [Names -> Seq(Int) \cup {Absent}]
      <3>1. PICK w \in fly : (isOpen /\ disk' = [disk EXCEPT ![0] = Append(@, w)]) \/ UNCHANGED disk
        BY <1>9 DEF PerformWrite
      <3>2. isOpen => Exists(0)
        BY DEF WritesInv, OnlyWhenReady
      <3> QED BY <1>1, <3>1, <3>2, WrittenIs
    <2> QED BY <1>1, <1>9, <2>1 DEF PerformWrite, TypeOK, counters
  <1>10. CASE WriteCb
    <2>1. submitted - 1 \in Nat
      <3>1. Cardinality(fly) \in Nat /\ submitted = Cardinality(fly) + fin /\ fin > 0
        BY <1>10, FS_CardinalityType DEF WriteCb, WritesInv, Counted
      <3> QED BY <1>1, <3>1
    <2>2. fin - 1 \in Nat
      BY <1>1, <1>10 DEF WriteCb
    <2> QED BY <1>1, <1>10, <2>1, <2>2 DEF WriteCb, CheckAndMaybeRotate, TypeOK, counters
  <1>11. CASE OverflowWrite
    <2>1. written' \in 0..MaxWrites /\ written + 1 \in Int /\ size + 1 \in Nat
      BY <1>1, <1>11, Constants DEF OverflowWrite
    <2>2. disk' \in [Names -> Seq(Int) \cup {Absent}]
      <3>1. isOpen => Exists(0)
        BY DEF WritesInv, OnlyWhenReady
      <3> QED BY <1>1, <1>11, <2>1, <3>1, WrittenIs DEF OverflowWrite
    <2>3. submitted' \in Nat
      BY <1>1, <1>11 DEF OverflowWrite, CountOverflow, CheckAndMaybeRotate
    <2> QED BY <1>1, <1>11, <2>1, <2>2, <2>3 DEF OverflowWrite, CheckAndMaybeRotate, TypeOK
  <1>12. CASE Crash
    <2>1. /\ crashes' \in 0..MaxCrashes /\ UNCHANGED <<disk, written, failures>>
          /\ pc' = "down" /\ started' = FALSE /\ isOpen' = FALSE /\ rotated' = <<>> /\ temp' = <<>>
          /\ size' = 0 /\ submitted' = 0 /\ fly' = {} /\ fin' = 0
      BY <1>1, <1>12, Constants DEF Crash
    <2> QED BY ONLY <1>1, <1>2, <2>1 DEF TypeOK
  <1>13. CASE UNCHANGED vars
    BY <1>13 DEF vars, ioVars, counters, TypeOK
  <1> QED BY <1>3, <1>4, <1>5, <1>6, <1>7, <1>8, <1>9, <1>10, <1>11, <1>12, <1>13 DEF Next

LEMMA NextWrites ==
  ASSUME TypeOK, WritesInv, [Next]_vars
  PROVE  WritesInv'
  <1>1. /\ size \in Nat /\ submitted \in Nat /\ fin \in Nat /\ written \in Nat
        /\ fly \subseteq 1..written /\ IsFiniteSet(fly) /\ Cardinality(fly) \in Nat
        /\ submitted = Cardinality(fly) + fin
    BY FS_CardinalityType, Constants DEF TypeOK, WritesInv, Counted
  <1>2. pc \in {"down", "open", "ready", "rotate"} /\ SizeOf(0) \in Nat
    BY SizeType, Constants DEF TypeOK
  <1>3. /\ pc # "ready" => Cardinality(fly) = 0 /\ fin = 0
        /\ pc # "ready" => ~isOpen
        /\ isOpen => Exists(0)
        /\ pc = "open" => SizeOf(0) <= size
        /\ pc = "ready" => SizeOf(0) + Cardinality(fly) <= size
    BY <1>1 DEF WritesInv, OnlyWhenReady, SizeAtOpen, SizeCovers
  <1>4. UNCHANGED disk => (Exists(0)' <=> Exists(0)) /\ SizeOf(0)' = SizeOf(0)
    BY DEF Exists, SizeOf
  <1>5. UNCHANGED <<submitted, fly, fin, written>> => Counted'
    BY DEF WritesInv, Counted
  <1>6. CASE Start
    <2>1. UNCHANGED <<disk, submitted, fly, fin, written, isOpen>> /\ pc = "down" /\ pc' \in {"rotate", "open"}
          /\ size' = SizeOf(0)
      BY <1>6 DEF Start, ioVars, counters, SizeAtStart
    <2>2. OnlyWhenReady' /\ SizeAtOpen' /\ SizeCovers'
      BY <1>1, <1>2, <1>3, <1>4, <2>1 DEF OnlyWhenReady, SizeAtOpen, SizeCovers
    <2> QED BY <1>5, <2>1, <2>2 DEF WritesInv
  <1>7. CASE Open
    <2>1. /\ UNCHANGED <<submitted, fly, fin, written, size>> /\ pc = "open" /\ pc' = "ready"
          /\ disk' = [disk EXCEPT ![0] = IF Exists(0) THEN @ ELSE <<>>]
      BY <1>7 DEF Open, ioVars, counters
    <2>2. Exists(0)' /\ SizeOf(0)' = SizeOf(0)
      <3>1. disk \in [Names -> Seq(Int) \cup {Absent}]
        BY DEF TypeOK
      <3>2. disk'[0] = IF Exists(0) THEN disk[0] ELSE <<>>
        BY <2>1, <3>1, Constants
      <3>3. <<>> # Absent /\ Len(<<>>) = 0
        BY Constants, EmptySeq
      <3> QED BY <3>2, <3>3 DEF Exists, SizeOf
    <2>3. OnlyWhenReady' /\ SizeAtOpen' /\ SizeCovers'
      BY <1>1, <1>2, <1>3, <2>1, <2>2 DEF OnlyWhenReady, SizeAtOpen, SizeCovers
    <2> QED BY <1>5, <2>1, <2>3 DEF WritesInv
  <1>8. CASE OpenFails
    <2>1. /\ UNCHANGED <<disk, submitted, fly, fin, written, size, isOpen>> /\ pc = "open"
          /\ pc' \in {"ready", "down"}
      BY <1>8 DEF OpenFails, ioVars
    <2>2. OnlyWhenReady' /\ SizeAtOpen' /\ SizeCovers'
      BY <1>1, <1>2, <1>3, <1>4, <2>1 DEF OnlyWhenReady, SizeAtOpen, SizeCovers
    <2> QED BY <1>5, <2>1, <2>2 DEF WritesInv
  <1>9. CASE RotateOne
    <2>1. UNCHANGED <<submitted, fly, fin, written, isOpen>> /\ pc = "rotate" /\ pc' = "rotate"
      BY <1>9 DEF RotateOne, ioVars, counters
    <2>2. OnlyWhenReady' /\ SizeAtOpen' /\ SizeCovers'
      BY <1>1, <1>3, <2>1 DEF OnlyWhenReady, SizeAtOpen, SizeCovers
    <2> QED BY <1>5, <2>1, <2>2 DEF WritesInv
  <1>10. CASE RotateCurrent
    <2>1. /\ UNCHANGED <<submitted, fly, fin, written, isOpen>> /\ pc = "rotate" /\ pc' = "open"
          /\ size' = 0 /\ disk' = Renamed(0, 1)
      BY <1>10 DEF RotateCurrent, ioVars, counters
    <2>2. ~Exists(0)'
      <3>1. \/ disk' = disk /\ ~Exists(0)
            \/ \A n \in Names : disk'[n] = IF n = 0 THEN Absent ELSE IF n = 1 THEN disk[0] ELSE disk[n]
        BY <2>1, RenamedIs, Constants DEF Named
      <3> QED BY <3>1, Constants DEF Exists
    <2>3. SizeOf(0)' = 0
      BY <2>2 DEF SizeOf
    <2>4. OnlyWhenReady' /\ SizeAtOpen' /\ SizeCovers'
      BY <1>1, <1>3, <2>1, <2>3 DEF OnlyWhenReady, SizeAtOpen, SizeCovers
    <2> QED BY <1>5, <2>1, <2>4 DEF WritesInv
  <1>11. CASE Flush
    <2>1. /\ UNCHANGED <<disk, fin, isOpen, pc>> /\ pc = "ready" /\ written' = written + 1 /\ size' = size + 1
          /\ submitted' = submitted + 1 /\ fly' = fly \cup {written + 1}
      BY <1>11 DEF Flush
    <2>2. written + 1 \notin fly
      BY <1>1
    <2>3. IsFiniteSet(fly') /\ Cardinality(fly') = Cardinality(fly) + 1
      BY <1>1, <2>1, <2>2, FS_AddElement
    <2>4. Counted'
      <3>1. fly' \subseteq 1..written'
        BY <1>1, <2>1
      <3> QED BY <1>1, <2>1, <2>3, <3>1 DEF Counted
    <2>5. OnlyWhenReady' /\ SizeAtOpen' /\ SizeCovers'
      BY <1>1, <1>2, <1>3, <1>4, <2>1, <2>3 DEF OnlyWhenReady, SizeAtOpen, SizeCovers
    <2> QED BY <2>4, <2>5 DEF WritesInv
  <1>12. CASE PerformWrite
    <2>1. PICK w \in fly : /\ fly' = fly \ {w}
                           /\ \/ isOpen /\ disk' = [disk EXCEPT ![0] = Append(@, w)]
                              \/ UNCHANGED disk
      BY <1>12 DEF PerformWrite
    <2>2. fin' = fin + 1 /\ UNCHANGED <<pc, isOpen, size, submitted, written>>
      BY <1>12 DEF PerformWrite, counters
    <2>3. IsFiniteSet(fly') /\ Cardinality(fly') = Cardinality(fly) - 1 /\ Cardinality(fly') \in Nat
      <3>1. IsFiniteSet(fly') /\ Cardinality(fly') = Cardinality(fly) - 1
        BY <1>1, <2>1, FS_RemoveElement
      <3> QED BY <3>1, FS_CardinalityType
    <2>4. Counted'
      <3>1. fly' \subseteq 1..written'
        BY <1>1, <2>1, <2>2
      <3> QED BY <1>1, <2>2, <2>3, <3>1 DEF Counted
    <2>5. /\ Exists(0) => Exists(0)'
          /\ SizeOf(0)' \in Nat /\ SizeOf(0)' <= SizeOf(0) + 1
      <3>1. CASE isOpen /\ disk' = [disk EXCEPT ![0] = Append(@, w)]
        <4>1. w \in Int
          BY <1>1
        <4>2. Exists(0)' /\ SizeOf(0)' = SizeOf(0) + 1
          BY <1>3, <3>1, <4>1, WrittenIs
        <4> QED BY ONLY <1>2, <4>2
      <3>2. CASE UNCHANGED disk
        BY <1>2, <1>4, <3>2
      <3> QED BY <2>1, <3>1, <3>2
    <2>6. pc = "ready"
      BY <1>1, <1>3, <2>3
    <2>7. OnlyWhenReady' /\ SizeAtOpen' /\ SizeCovers'
      BY <1>1, <1>2, <1>3, <2>2, <2>3, <2>5, <2>6 DEF OnlyWhenReady, SizeAtOpen, SizeCovers
    <2> QED BY <2>4, <2>7 DEF WritesInv
  <1>13. CASE WriteCb
    <2>1. /\ UNCHANGED <<disk, size, fly, written>> /\ pc = "ready" /\ fin > 0 /\ fin' = fin - 1
          /\ submitted' = submitted - 1
          /\ \/ pc' = "rotate" /\ isOpen' = FALSE /\ submitted' < 1
             \/ UNCHANGED <<pc, isOpen>>
      BY <1>13 DEF WriteCb, CheckAndMaybeRotate, MayRotate, counters
    <2>2. Counted'
      BY <1>1, <2>1 DEF Counted
    <2>3. OnlyWhenReady' /\ SizeAtOpen' /\ SizeCovers'
      BY <1>1, <1>2, <1>3, <1>4, <2>1 DEF OnlyWhenReady, SizeAtOpen, SizeCovers
    <2> QED BY <2>2, <2>3 DEF WritesInv
  <1>14. CASE OverflowWrite
    <2>1. /\ UNCHANGED <<fly, fin>> /\ pc = "ready" /\ written' = written + 1 /\ submitted' = submitted
          /\ \/ pc' = "rotate" /\ isOpen' = FALSE /\ submitted' < 1
             \/ UNCHANGED <<pc, isOpen>>
          /\ \/ isOpen /\ disk' = [disk EXCEPT ![0] = Append(@, written + 1)] /\ size' = size + 1
             \/ UNCHANGED <<disk, size>>
      BY <1>1, <1>14 DEF OverflowWrite, CountOverflow, CheckAndMaybeRotate, MayRotate
    <2>2. Counted'
      BY <1>1, <2>1 DEF Counted
    <2>3. /\ Exists(0) => Exists(0)'
          /\ \/ SizeOf(0)' = SizeOf(0) + 1 /\ size' = size + 1
             \/ SizeOf(0)' = SizeOf(0) /\ size' = size
      <3>1. written + 1 \in Int
        BY <1>1
      <3> QED BY <1>3, <1>4, <2>1, <3>1, WrittenIs
    <2>4. OnlyWhenReady' /\ SizeAtOpen' /\ SizeCovers'
      BY <1>1, <1>2, <1>3, <2>1, <2>3 DEF OnlyWhenReady, SizeAtOpen, SizeCovers
    <2> QED BY <2>2, <2>4 DEF WritesInv
  <1>15. CASE Crash
    <2>1. /\ pc' = "down" /\ isOpen' = FALSE /\ submitted' = 0 /\ fly' = {} /\ fin' = 0
      BY <1>15 DEF Crash
    <2>2. Counted'
      BY <2>1, FS_EmptySet DEF Counted
    <2>3. OnlyWhenReady' /\ SizeAtOpen' /\ SizeCovers'
      BY <2>1 DEF OnlyWhenReady, SizeAtOpen, SizeCovers
    <2> QED BY <2>2, <2>3 DEF WritesInv
  <1>16. CASE UNCHANGED vars
    <2>1. UNCHANGED <<disk, pc, isOpen, size, submitted, fly, fin, written>>
      BY <1>16 DEF vars, ioVars, counters
    <2>2. OnlyWhenReady' /\ SizeAtOpen' /\ SizeCovers'
      BY <1>3, <1>4, <2>1 DEF WritesInv, OnlyWhenReady, SizeAtOpen, SizeCovers
    <2> QED BY <1>5, <2>1, <2>2 DEF WritesInv
  <1> QED BY <1>6, <1>7, <1>8, <1>9, <1>10, <1>11, <1>12, <1>13, <1>14, <1>15, <1>16 DEF Next

LEMMA InitWrites == ASSUME Init PROVE TypeOK /\ WritesInv
  <1>1. PICK k \in OldFiles, c \in BOOLEAN :
          disk = [n \in Names |-> IF n \in 1..k \/ (n = 0 /\ c) THEN <<-n>> ELSE Absent]
    BY DEF Init
  <1>2. \A n \in Names : <<-n>> \in Seq(Int)
    BY Constants
  <1>3. disk \in [Names -> Seq(Int) \cup {Absent}]
    BY <1>1, <1>2
  <1>4. <<>> \in Seq(Nat)
    BY EmptySeq
  <1>5. TypeOK
    <2>1. /\ pc = "down" /\ started = FALSE /\ isOpen = FALSE /\ rotated = <<>> /\ temp = <<>>
          /\ size = 0 /\ submitted = 0 /\ fly = {} /\ fin = 0
          /\ written = 0 /\ crashes = 0 /\ failures = 0
      BY DEF Init
    <2>2. 0 \in 0..MaxWrites /\ 0 \in 0..MaxCrashes /\ 0 \in 0..MaxFailures
      BY Constants
    <2> QED BY ONLY <1>3, <1>4, <2>1, <2>2 DEF TypeOK
  <1> QED BY <1>5, FS_EmptySet DEF Init, WritesInv, Counted, OnlyWhenReady, SizeAtOpen, SizeCovers

\* Type correctness: submittedWrites is never negative, every number on the lists is one.
THEOREM RotationTypes == Spec => []TypeOK
  <1>1. Init => TypeOK /\ WritesInv
    BY InitWrites
  <1>2. TypeOK /\ WritesInv /\ [Next]_vars => TypeOK' /\ WritesInv'
    BY NextTypes, NextWrites
  <1> QED BY <1>1, <1>2, PTL DEF Spec

\* current_size is never behind the file and what is on its way to it: the file is closed
\* and renamed only when submittedWrites says that nothing is in flight.
THEOREM SizeNeverBehind == Spec => []SizeCovers
  <1>1. Init => TypeOK /\ WritesInv
    BY InitWrites
  <1>2. TypeOK /\ WritesInv /\ [Next]_vars => TypeOK' /\ WritesInv'
    BY NextTypes, NextWrites
  <1>3. WritesInv => SizeCovers
    BY DEF WritesInv
  <1> QED BY <1>1, <1>2, <1>3, PTL DEF Spec

-----------------------------------------------------------------------------
(* A higher number is an older file                                         *)

\* Everything in a file was submitted; what the thread pool holds is newer than any rotated
\* file.
Submitted == \A n \in Names : Exists(n) => \A x \in ToSet(disk[n]) : x <= written
FlyNewer == \A w \in fly, n \in Names \ {0} : Exists(n) => \A y \in ToSet(disk[n]) : y < w
AgeInv == Submitted /\ FlyNewer /\ OlderHaveHigherNumbers

LEMMA AppendSet ==
  ASSUME NEW S, NEW s \in Seq(S), NEW x \in S
  PROVE  ToSet(Append(s, x)) = ToSet(s) \cup {x}
  <1>1. /\ Len(s) \in Nat /\ DOMAIN s = 1..Len(s) /\ DOMAIN Append(s, x) = 1..(Len(s) + 1)
        /\ \A i \in 1..Len(s) : Append(s, x)[i] = s[i]
        /\ Append(s, x)[Len(s) + 1] = x
    BY AppendProperties, LenProperties
  <1> DEFINE r == Append(s, x)
  <1> HIDE DEF r
  <1>2. /\ DOMAIN s \subseteq DOMAIN r /\ Len(s) + 1 \in DOMAIN r
        /\ \A i \in DOMAIN r : i \in DOMAIN s \/ i = Len(s) + 1
        /\ \A i \in DOMAIN s : r[i] = s[i]
        /\ r[Len(s) + 1] = x
    BY ONLY <1>1 DEF r
  <1>3. ToSet(r) = ToSet(s) \cup {x}
    BY ONLY <1>2 DEF ToSet
  <1> QED BY <1>3 DEF r

LEMMA EmptySet == ToSet(<<>>) = {}
  BY EmptySeq, LenProperties DEF ToSet

\* What is in a file is a number.
LEMMA FileNumbers ==
  ASSUME TypeOK, NEW n \in Names, Exists(n)
  PROVE  disk[n] \in Seq(Int) /\ ToSet(disk[n]) \subseteq Int
  <1>1. disk[n] \in Seq(Int)
    BY DEF TypeOK, Exists
  <1>2. \A i \in DOMAIN disk[n] : disk[n][i] \in Int
    BY <1>1, LenProperties, ElementOfSeq
  <1> QED BY <1>1, <1>2 DEF ToSet

\* One number up is between what was there and what is higher still.
LEMMA RenameKeepsAge ==
  ASSUME TypeOK, AgeInv, NEW from \in Nat, disk' = Renamed(from, from + 1), fly = {},
         UNCHANGED <<fly, written>>
  PROVE  AgeInv'
  <1>1. \/ disk' = disk
        \/ /\ from \in Names /\ from + 1 \in Names /\ Exists(from)
           /\ \A n \in Names : disk'[n] = IF n = from THEN Absent
                                          ELSE IF n = from + 1 THEN disk[from] ELSE disk[n]
    BY RenamedIs
  <1>2. CASE disk' = disk
    BY <1>2 DEF AgeInv, Submitted, FlyNewer, OlderHaveHigherNumbers, Exists
  <1>3. CASE /\ from \in Names /\ from + 1 \in Names /\ Exists(from)
             /\ \A n \in Names : disk'[n] = IF n = from THEN Absent
                                            ELSE IF n = from + 1 THEN disk[from] ELSE disk[n]
    <2> DEFINE was(n) == IF n = from + 1 THEN from ELSE n
    <2>1. \A n \in Names : Exists(n)' => /\ n # from /\ was(n) \in Names /\ Exists(was(n))
                                         /\ disk'[n] = disk[was(n)]
      BY <1>3 DEF Exists
    <2>2. \A i, j \in Names : i < j /\ i # from /\ j # from => was(i) < was(j)
      BY Constants
    <2> HIDE DEF was
    <2>3. Submitted'
      BY <2>1 DEF AgeInv, Submitted
    <2>4. OlderHaveHigherNumbers'
      BY <2>1, <2>2 DEF AgeInv, OlderHaveHigherNumbers
    <2>5. FlyNewer'
      BY DEF FlyNewer
    <2> QED BY <2>3, <2>4, <2>5 DEF AgeInv
  <1> QED BY <1>1, <1>2, <1>3

\* What reaches the current file is newer than every rotated one.
LEMMA WriteKeepsAge ==
  ASSUME TypeOK, AgeInv, Exists(0), NEW w \in Int, disk' = [disk EXCEPT ![0] = Append(@, w)],
         \A n \in Names \ {0} : Exists(n) => \A y \in ToSet(disk[n]) : y < w,
         written' \in Int, w <= written', written \in Int, written <= written', fly' \subseteq fly
  PROVE  AgeInv'
  <1>0. /\ \A n \in Names \ {0} : disk'[n] = disk[n]
        /\ disk[0] \in Seq(Int) /\ disk'[0] = Append(disk[0], w)
    BY WrittenIs
  <1>1. /\ \A n \in Names \ {0} : disk'[n] = disk[n] /\ (Exists(n)' <=> Exists(n))
        /\ ToSet(disk'[0]) = ToSet(disk[0]) \cup {w}
    <2>1. ToSet(Append(disk[0], w)) = ToSet(disk[0]) \cup {w}
      BY <1>0, AppendSet
    <2> QED BY ONLY <1>0, <2>1 DEF Exists
  <1>2. \A n \in Names : Exists(n) => ToSet(disk[n]) \subseteq Int
    BY FileNumbers
  <1>3. FlyNewer'
    BY <1>1 DEF AgeInv, FlyNewer
  <1>4. Submitted'
    <2> SUFFICES ASSUME NEW n \in Names, Exists(n)', NEW x \in ToSet(disk'[n])
                 PROVE  x <= written'
      BY DEF Submitted
    <2>1. CASE x = w
      BY <2>1
    <2>2. CASE Exists(n) /\ x \in ToSet(disk[n])
      <3>1. x <= written /\ x \in Int
        BY <1>2, <2>2 DEF AgeInv, Submitted
      <3> QED BY ONLY <3>1, written \in Int, written' \in Int, written <= written'
    <2> QED BY <1>1, <2>1, <2>2
  <1>5. OlderHaveHigherNumbers'
    <2> SUFFICES ASSUME NEW i \in Names, NEW j \in Names, i < j, Exists(i)', Exists(j)',
                        NEW x \in ToSet(disk'[i]), NEW y \in ToSet(disk'[j])
                 PROVE  y < x
      BY DEF OlderHaveHigherNumbers
    <2>1. j # 0 /\ j \in Names \ {0} /\ Exists(j) /\ y \in ToSet(disk[j])
      BY <1>1, Constants
    <2>2. CASE x = w
      BY <2>1, <2>2
    <2>3. CASE Exists(i) /\ x \in ToSet(disk[i])
      BY <2>1, <2>3 DEF AgeInv, OlderHaveHigherNumbers
    <2> QED BY <1>1, <2>2, <2>3
  <1> QED BY <1>3, <1>4, <1>5 DEF AgeInv

LEMMA NextAge ==
  ASSUME TypeOK, TypeOK', WritesInv, AgeInv, [Next]_vars
  PROVE  AgeInv'
  <1>1. /\ written \in Nat /\ written' \in Nat /\ fly \subseteq 1..written
        /\ isOpen => Exists(0)
    BY Constants DEF TypeOK, WritesInv, Counted, OnlyWhenReady
  <1>2. pc # "ready" => fly = {}
    <2>1. IsFiniteSet(fly) /\ Cardinality(fly) \in Nat /\ fin \in Nat /\ submitted = Cardinality(fly) + fin
      BY FS_CardinalityType DEF TypeOK, WritesInv, Counted
    <2>2. pc # "ready" => Cardinality(fly) = 0
      BY <2>1 DEF WritesInv, OnlyWhenReady
    <2> QED BY <2>1, <2>2, FS_EmptySet
  <1>3. ASSUME UNCHANGED <<disk, written>>, fly' \subseteq fly PROVE AgeInv'
    BY <1>3 DEF AgeInv, Submitted, FlyNewer, OlderHaveHigherNumbers, Exists
  <1>4. CASE Start \/ OpenFails \/ WriteCb \/ Crash
    BY <1>3, <1>4 DEF Start, OpenFails, WriteCb, Crash, ioVars, counters
  <1>5. CASE Open
    <2>1. /\ UNCHANGED <<fly, written>>
          /\ disk' = [disk EXCEPT ![0] = IF Exists(0) THEN @ ELSE <<>>]
      BY <1>5 DEF Open, ioVars, counters
    <2>2. CASE Exists(0)
      <3>1. disk' = disk
        BY <2>1, <2>2 DEF TypeOK
      <3> QED BY <1>3, <2>1, <3>1
    <2>3. CASE ~Exists(0)
      <3>1. /\ \A n \in Names \ {0} : disk'[n] = disk[n] /\ (Exists(n)' <=> Exists(n))
            /\ ToSet(disk'[0]) = {}
        BY <2>1, <2>3, EmptySet, Constants DEF TypeOK, Exists
      <3>2. Submitted' /\ FlyNewer'
        BY <2>1, <3>1 DEF AgeInv, Submitted, FlyNewer
      <3>3. OlderHaveHigherNumbers'
        BY <3>1 DEF AgeInv, OlderHaveHigherNumbers
      <3> QED BY <3>2, <3>3 DEF AgeInv
    <2> QED BY <2>2, <2>3
  <1>6. CASE RotateOne
    <2>1. Head(rotated) \in Nat /\ fly = {} /\ UNCHANGED <<fly, written>>
      BY <1>2, <1>6, HeadTailProperties DEF RotateOne, TypeOK, ioVars, counters
    <2>2. CASE disk' = Renamed(Head(rotated), Head(rotated) + 1)
      BY <2>1, <2>2, RenameKeepsAge
    <2>3. CASE disk' = disk
      BY <1>3, <2>1, <2>3
    <2>4. CASE disk' = [disk EXCEPT ![Head(rotated)] = Absent]
      <3>1. \A n \in Names : Exists(n)' => Exists(n) /\ disk'[n] = disk[n]
        BY <2>4 DEF TypeOK, Exists
      <3> QED BY <2>1, <3>1 DEF AgeInv, Submitted, FlyNewer, OlderHaveHigherNumbers
    <2> QED BY <1>6, <2>2, <2>3, <2>4 DEF RotateOne
  <1>7. CASE RotateCurrent
    <2>1. fly = {} /\ UNCHANGED <<fly, written>> /\ disk' = Renamed(0, 0 + 1)
      BY <1>2, <1>7 DEF RotateCurrent, ioVars, counters
    <2> QED BY <2>1, RenameKeepsAge
  <1>8. CASE Flush
    <2>1. UNCHANGED disk /\ written' = written + 1 /\ fly' = fly \cup {written + 1}
      BY <1>8 DEF Flush
    <2>2. ASSUME NEW n \in Names, Exists(n), NEW x \in ToSet(disk[n]) PROVE x <= written /\ x \in Int
      BY <2>2, FileNumbers DEF AgeInv, Submitted
    <2>3. Submitted'
      BY <1>1, <2>1, <2>2 DEF Submitted, Exists
    <2>4. FlyNewer'
      BY <1>1, <2>1, <2>2 DEF AgeInv, FlyNewer, Exists
    <2> QED BY <2>1, <2>3, <2>4 DEF AgeInv, OlderHaveHigherNumbers, Exists
  <1>9. CASE PerformWrite
    <2>1. PICK w \in fly : /\ fly' = fly \ {w}
                           /\ \/ isOpen /\ disk' = [disk EXCEPT ![0] = Append(@, w)]
                              \/ UNCHANGED disk
      BY <1>9 DEF PerformWrite
    <2>2. UNCHANGED written
      BY <1>9 DEF PerformWrite, counters
    <2>3. CASE UNCHANGED disk
      BY <1>3, <2>1, <2>2, <2>3
    <2>4. CASE isOpen /\ disk' = [disk EXCEPT ![0] = Append(@, w)]
      <3>1. w \in Int /\ w <= written'
        BY <1>1, <2>2
      <3>2. \A n \in Names \ {0} : Exists(n) => \A y \in ToSet(disk[n]) : y < w
        BY DEF AgeInv, FlyNewer
      <3>3. written \in Int /\ written' \in Int /\ written <= written' /\ fly' \subseteq fly
        BY <1>1, <2>1, <2>2
      <3> QED BY <1>1, <2>4, <3>1, <3>2, <3>3, WriteKeepsAge
    <2> QED BY <2>1, <2>3, <2>4
  <1>10. CASE OverflowWrite
    <2>1. /\ UNCHANGED fly /\ written' = written + 1
          /\ \/ isOpen /\ disk' = [disk EXCEPT ![0] = Append(@, written + 1)]
             \/ UNCHANGED disk
      BY <1>10 DEF OverflowWrite
    <2>2. ASSUME NEW n \in Names, Exists(n), NEW y \in ToSet(disk[n])
          PROVE  y \in Int /\ y < written + 1 /\ y <= written + 1
      <3>1. y \in Int /\ y <= written
        BY <2>2, FileNumbers DEF AgeInv, Submitted
      <3> QED BY <1>1, <3>1
    <2>3. CASE UNCHANGED disk
      <3>1. Submitted'
        BY <2>1, <2>2, <2>3 DEF Submitted, Exists
      <3> QED BY <2>1, <2>3, <3>1 DEF AgeInv, FlyNewer, OlderHaveHigherNumbers, Exists
    <2>4. CASE isOpen /\ disk' = [disk EXCEPT ![0] = Append(@, written + 1)]
      <3>1. /\ written + 1 \in Int /\ written + 1 <= written' /\ written \in Int /\ written' \in Int
            /\ written <= written' /\ fly' \subseteq fly
        BY <1>1, <2>1
      <3> QED BY <1>1, <2>2, <2>4, <3>1, WriteKeepsAge
    <2> QED BY <2>1, <2>3, <2>4
  <1>11. CASE UNCHANGED vars
    BY <1>3, <1>11 DEF vars, ioVars, counters
  <1> QED BY <1>4, <1>5, <1>6, <1>7, <1>8, <1>9, <1>10, <1>11 DEF Next

LEMMA InitAge == ASSUME Init PROVE AgeInv
  <1>1. PICK k \in OldFiles, c \in BOOLEAN :
          disk = [n \in Names |-> IF n \in 1..k \/ (n = 0 /\ c) THEN <<-n>> ELSE Absent]
    BY DEF Init
  <1>2. ASSUME NEW n \in Names, Exists(n) PROVE ToSet(disk[n]) = {-n} /\ n \in Nat
    <2>1. disk[n] = <<-n>> /\ n \in Nat
      BY <1>1, <1>2, Constants DEF Exists
    <2>2. DOMAIN <<-n>> = {1} /\ <<-n>>[1] = -n
      OBVIOUS
    <2> QED BY <2>1, <2>2 DEF ToSet
  <1>3. Submitted
    <2>1. \A n \in Nat : -n <= 0
      OBVIOUS
    <2>2. written = 0
      BY DEF Init
    <2>3. ASSUME NEW n \in Names, Exists(n), NEW x \in ToSet(disk[n]) PROVE x <= written
      <3>1. x = -n /\ n \in Nat
        BY <1>2, <2>3
      <3> QED BY ONLY <2>1, <2>2, <3>1
    <2> QED BY <2>3 DEF Submitted
  <1>4. OlderHaveHigherNumbers
    <2> SUFFICES ASSUME NEW i \in Names, NEW j \in Names, i < j, Exists(i), Exists(j),
                        NEW x \in ToSet(disk[i]), NEW y \in ToSet(disk[j])
                 PROVE  y < x
      BY DEF OlderHaveHigherNumbers
    <2>1. x = -i /\ y = -j /\ i \in Nat /\ j \in Nat
      BY <1>2
    <2> QED BY ONLY <2>1, i < j
  <1> QED BY <1>3, <1>4 DEF Init, AgeInv, FlyNewer

\* A higher number is an older file, in every state: also with a crash between two renames,
\* with writes the thread pool performs in any order, and after a restart that continues
\* where the renames stopped. Nothing of a rotated file is still in flight, since a file is
\* renamed only when submittedWrites is zero.
THEOREM NumbersFollowAge == Spec => []OlderHaveHigherNumbers
  <1>1. Init => TypeOK /\ WritesInv /\ AgeInv
    BY InitWrites, InitAge
  <1>2. TypeOK /\ WritesInv /\ AgeInv /\ [Next]_vars => TypeOK' /\ WritesInv' /\ AgeInv'
    BY NextTypes, NextWrites, NextAge
  <1>3. AgeInv => OlderHaveHigherNumbers
    BY DEF AgeInv
  <1> QED BY <1>1, <1>2, <1>3, PTL DEF Spec

-----------------------------------------------------------------------------
(* The lists of rotate_files                                                *)

Descending(s) == \A i, j \in DOMAIN s : i < j => s[j] < s[i]

\* Both lists run from the oldest file to the newest, tempFiles is all older than what is
\* left of rotatedFiles, with the number above it free, and once a file was renamed none is
\* removed any more.
ListsInv == /\ Descending(rotated) /\ Descending(temp)
            /\ \A x \in ToSet(rotated) : x >= 1
            /\ \A y \in ToSet(temp) : y >= 2 /\ \A x \in ToSet(rotated) : x + 1 < y
            /\ pc # "rotate" => temp = <<>>
            /\ temp # <<>> => ~TooMany

LEMMA TailDescends ==
  ASSUME NEW s \in Seq(Nat), s # <<>>, Descending(s)
  PROVE  /\ Head(s) \in Nat /\ Head(s) \in ToSet(s) /\ Tail(s) \in Seq(Nat)
         /\ Len(Tail(s)) = Len(s) - 1 /\ Len(s) \in Nat
         /\ Descending(Tail(s))
         /\ \A x \in ToSet(Tail(s)) : x \in ToSet(s) /\ x \in Nat /\ x < Head(s)
         /\ ToSet(s) = {Head(s)} \cup ToSet(Tail(s))
  <1>1. /\ Head(s) \in Nat /\ Tail(s) \in Seq(Nat) /\ Len(Tail(s)) = Len(s) - 1
        /\ \A i \in 1..Len(Tail(s)) : Tail(s)[i] = s[i + 1]
    BY HeadTailProperties
  <1>2. Len(s) \in Nat /\ Len(s) >= 1 /\ DOMAIN s = 1..Len(s) /\ s[1] = Head(s)
    BY EmptySeq, LenProperties
  <1>3. DOMAIN Tail(s) = 1..(Len(s) - 1)
    BY <1>1, LenProperties
  <1>4. \A i \in DOMAIN s : s[i] \in Nat
    BY <1>2, ElementOfSeq
  <1> DEFINE t == Tail(s)
  <1> HIDE DEF t
  <1>5. /\ \A i \in DOMAIN t : i + 1 \in DOMAIN s /\ i \in Nat /\ t[i] = s[i + 1]
        /\ \A j \in DOMAIN s : j = 1 \/ (j - 1 \in DOMAIN t /\ t[j - 1] = s[j])
    BY ONLY <1>1, <1>2, <1>3 DEF t
  <1>6. Descending(t)
    BY ONLY <1>5, Descending(s) DEF Descending
  <1>7. \A x \in ToSet(t) : x \in ToSet(s) /\ x \in Nat /\ x < Head(s)
    <2> SUFFICES ASSUME NEW i \in DOMAIN t
                 PROVE  t[i] \in ToSet(s) /\ t[i] \in Nat /\ t[i] < Head(s)
      BY DEF ToSet
    <2>1. i + 1 \in DOMAIN s /\ 1 < i + 1 /\ 1 \in DOMAIN s /\ t[i] = s[i + 1]
      BY <1>2, <1>5
    <2> QED BY <1>2, <1>4, <2>1 DEF Descending, ToSet
  <1>8. Head(s) \in ToSet(s)
    BY <1>2 DEF ToSet
  <1>9. ToSet(s) = {Head(s)} \cup ToSet(t)
    <2>1. \A x \in ToSet(s) : x = Head(s) \/ x \in ToSet(t)
      BY ONLY <1>2, <1>5 DEF ToSet
    <2> QED BY <1>7, <1>8, <2>1
  <1> QED BY <1>1, <1>2, <1>6, <1>7, <1>8, <1>9 DEF t

LEMMA AppendDescends ==
  ASSUME NEW s \in Seq(Nat), NEW n \in Nat, Descending(s), \A x \in ToSet(s) : n < x
  PROVE  Descending(Append(s, n)) /\ ToSet(Append(s, n)) = ToSet(s) \cup {n}
  <1>1. /\ Len(s) \in Nat /\ DOMAIN s = 1..Len(s) /\ DOMAIN Append(s, n) = 1..(Len(s) + 1)
        /\ \A i \in 1..Len(s) : Append(s, n)[i] = s[i]
        /\ Append(s, n)[Len(s) + 1] = n
    BY AppendProperties, LenProperties
  <1> DEFINE r == Append(s, n)
  <1> HIDE DEF r
  <1>2. \A i \in 1..Len(s) : r[i] = s[i] /\ n < s[i]
    BY <1>1 DEF r, ToSet
  <1>3. Descending(r)
    <2> SUFFICES ASSUME NEW i \in 1..(Len(s) + 1), NEW j \in 1..(Len(s) + 1), i < j
                 PROVE  r[j] < r[i]
      BY <1>1 DEF Descending, r
    <2>1. i \in 1..Len(s) /\ (j \in 1..Len(s) \/ j = Len(s) + 1)
      BY <1>1
    <2>2. CASE j \in 1..Len(s)
      BY <1>1, <1>2, <2>1, <2>2 DEF Descending
    <2>3. CASE j = Len(s) + 1
      BY <1>1, <1>2, <2>1, <2>3 DEF r
    <2> QED BY <2>1, <2>2, <2>3
  <1> QED BY <1>3, AppendSet DEF r

LEMMA EmptyDescends == Descending(<<>>)
  BY EmptySeq, LenProperties DEF Descending

LEMMA FoundDescends == Descending(Found) /\ \A x \in ToSet(Found) : x >= 1
  <1>1. PICK last \in Names : Found = [i \in 1..last |-> last + 1 - i] /\ last \in Nat
    BY FoundIs
  <1>2. DOMAIN Found = 1..last /\ \A i \in 1..last : Found[i] = last + 1 - i
    BY <1>1
  <1>3. \A i, j \in DOMAIN Found : i < j => Found[j] < Found[i]
    BY <1>1, <1>2
  <1>4. \A i \in DOMAIN Found : Found[i] >= 1
    BY <1>1, <1>2
  <1> QED BY <1>3, <1>4 DEF Descending, ToSet

LEMMA NextLists ==
  ASSUME TypeOK, ListsInv, [Next]_vars
  PROVE  ListsInv'
  <1>1. rotated \in Seq(Nat) /\ temp \in Seq(Nat) /\ MaxFiles \in Nat
    BY Constants DEF TypeOK
  <1>2. ASSUME UNCHANGED <<rotated, temp>>, pc' # "rotate" => temp = <<>>
        PROVE  ListsInv'
    BY <1>2 DEF ListsInv, TooMany
  <1>3. CASE Start
    <2>1. rotated' = Found /\ temp' = temp /\ temp = <<>>
      BY <1>3 DEF Start, ListsInv
    <2> QED BY <2>1, FoundDescends, EmptyDescends, EmptySet DEF ListsInv
  <1>4. CASE Open \/ OpenFails \/ Flush \/ PerformWrite \/ WriteCb \/ OverflowWrite
    <2>1. UNCHANGED <<rotated, temp>> /\ (pc # "rotate" \/ UNCHANGED pc)
      BY <1>4 DEF Open, OpenFails, Flush, PerformWrite, WriteCb, OverflowWrite
    <2> QED BY <1>2, <2>1 DEF ListsInv
  <1>5. CASE RotateOne
    <2>1. /\ rotated # <<>> /\ rotated' = Tail(rotated) /\ UNCHANGED pc /\ pc = "rotate"
          /\ \/ TooMany /\ UNCHANGED temp
             \/ ~TooMany /\ temp' = Append(temp, Head(rotated) + 1)
      BY <1>5 DEF RotateOne
    <2> DEFINE num == Head(rotated)
    <2>2. /\ num \in Nat /\ num \in ToSet(rotated) /\ Tail(rotated) \in Seq(Nat)
          /\ Len(Tail(rotated)) = Len(rotated) - 1 /\ Len(rotated) \in Nat
          /\ Descending(Tail(rotated))
          /\ \A x \in ToSet(Tail(rotated)) : x \in ToSet(rotated) /\ x \in Nat /\ x < num
      BY <1>1, <2>1, TailDescends DEF ListsInv
    <2> HIDE DEF num
    <2>3. /\ \A x \in ToSet(rotated) : x >= 1
          /\ \A y \in ToSet(temp) : y >= 2 /\ \A x \in ToSet(rotated) : x + 1 < y
          /\ Descending(temp) /\ (temp # <<>> => ~TooMany)
      BY DEF ListsInv
    <2>4. ~TooMany => ~TooMany'
      BY <1>1, <2>1, <2>2 DEF TooMany
    <2>5. CASE TooMany /\ UNCHANGED temp
      <3>1. temp = <<>>
        BY <2>3, <2>5
      <3> QED BY <2>1, <2>2, <2>3, <2>5, <3>1 DEF ListsInv
    <2>6. CASE ~TooMany /\ temp' = Append(temp, num + 1)
      <3>1. num + 1 \in Nat /\ num + 1 >= 2 /\ \A y \in ToSet(temp) : num + 1 < y
        BY <2>2, <2>3
      <3>2. Descending(temp') /\ ToSet(temp') = ToSet(temp) \cup {num + 1}
        BY <1>1, <2>3, <2>6, <3>1, AppendDescends
      <3>3. \A y \in ToSet(temp') : y >= 2 /\ \A x \in ToSet(rotated') : x + 1 < y
        BY <2>1, <2>2, <2>3, <3>1, <3>2
      <3> QED BY <2>1, <2>2, <2>3, <2>4, <2>6, <3>2, <3>3 DEF ListsInv
    <2> QED BY <2>1, <2>5, <2>6 DEF num
  <1>6. CASE RotateCurrent
    <2>1. temp' = <<>> /\ (rotated' = Append(temp, 1) \/ rotated' = temp)
      BY <1>6 DEF RotateCurrent
    <2>2. Descending(temp) /\ \A y \in ToSet(temp) : y \in Nat /\ y >= 2 /\ 1 < y /\ y >= 1
      <3>1. \A y \in ToSet(temp) : y \in Nat
        BY <1>1, LenProperties, ElementOfSeq DEF ToSet
      <3> QED BY <3>1 DEF ListsInv
    <2>3. Descending(Append(temp, 1)) /\ ToSet(Append(temp, 1)) = ToSet(temp) \cup {1}
      BY <1>1, <2>2, 1 \in Nat, AppendDescends
    <2>4. Descending(rotated') /\ \A x \in ToSet(rotated') : x >= 1
      <3>1. CASE rotated' = Append(temp, 1)
        <4>1. \A x \in ToSet(Append(temp, 1)) : x >= 1
          BY ONLY <2>2, <2>3
        <4> QED BY ONLY <2>3, <3>1, <4>1
      <3>2. CASE rotated' = temp
        BY ONLY <2>2, <3>2
      <3> QED BY <2>1, <3>1, <3>2
    <2> QED BY <2>1, <2>4, EmptyDescends, EmptySet DEF ListsInv
  <1>7. CASE Crash
    <2>1. rotated' = <<>> /\ temp' = <<>>
      BY <1>7 DEF Crash
    <2> QED BY <2>1, EmptyDescends, EmptySet DEF ListsInv
  <1>8. CASE UNCHANGED vars
    BY <1>2, <1>8 DEF vars, ListsInv
  <1> QED BY <1>3, <1>4, <1>5, <1>6, <1>7, <1>8 DEF Next

LEMMA InitLists == ASSUME Init PROVE ListsInv
  BY EmptyDescends, EmptySet DEF Init, ListsInv

\* What is written under the names after a step is written there before it or is lost.
LEMMA TextStays ==
  ASSUME NEW w \in TextOf(Listed),
         \A n \in Listed : Exists(n) /\ w \in ToSet(disk[n]) =>
           \E m \in Names : Exists(m)' /\ w \in ToSet(disk'[m])
  PROVE  w \in TextOf(Names)'
  <1>1. PICK n \in Listed : Exists(n) /\ w \in ToSet(disk[n])
    BY DEF TextOf
  <1> QED BY <1>1 DEF TextOf

LEMMA ListedNames == Listed \subseteq Names
  BY Constants DEF Listed, Named

\* Text that is lost was in the file unlink() removed, older than all the others.
LEMMA NextKeepsText ==
  ASSUME TypeOK, WritesInv, AgeInv, ListsInv, [Next]_vars,
         NEW w \in TextOf(Listed), w \notin TextOf(Names)'
  PROVE  pc = "rotate" /\ TooMany /\ \A v \in TextOf(Listed)' : w < v
  <1>0. rotated \in Seq(Nat) /\ temp \in Seq(Nat)
    BY DEF TypeOK
  <1>1. ASSUME \A n \in Names : Exists(n) => Exists(n)' /\ ToSet(disk[n]) \subseteq ToSet(disk'[n])
        PROVE  FALSE
    BY <1>1, ListedNames, TextStays
  <1>2. ASSUME UNCHANGED disk PROVE FALSE
    BY <1>1, <1>2 DEF Exists
  <1>3. ASSUME Exists(0), NEW x \in Int, disk' = [disk EXCEPT ![0] = Append(@, x)] PROVE FALSE
    <2>1. /\ \A n \in Names \ {0} : disk'[n] = disk[n]
          /\ disk[0] \in Seq(Int) /\ disk'[0] = Append(disk[0], x) /\ Exists(0)'
      BY <1>3, WrittenIs
    <2>2. ToSet(disk[0]) \subseteq ToSet(disk'[0])
      BY <2>1, AppendSet
    <2> QED BY <1>1, <2>1, <2>2 DEF Exists
  <1>4. CASE Start \/ OpenFails \/ Flush \/ WriteCb \/ Crash
    BY <1>2, <1>4 DEF Start, OpenFails, Flush, WriteCb, Crash
  <1>5. CASE Open
    <2>1. disk' = [disk EXCEPT ![0] = IF Exists(0) THEN @ ELSE <<>>]
      BY <1>5 DEF Open
    <2>2. \A n \in Names : Exists(n) => disk'[n] = disk[n]
      BY <2>1 DEF TypeOK
    <2> QED BY <1>1, <2>2 DEF Exists
  <1>6. ASSUME NEW from \in Nat, disk' = Renamed(from, from + 1), from + 1 \notin Listed
        PROVE  FALSE
    <2>1. \/ disk' = disk
          \/ /\ from \in Names /\ from + 1 \in Names /\ Exists(from)
             /\ \A n \in Names : disk'[n] = IF n = from THEN Absent
                                            ELSE IF n = from + 1 THEN disk[from] ELSE disk[n]
      BY <1>6, RenamedIs
    <2>2. CASE /\ from \in Names /\ from + 1 \in Names /\ Exists(from)
               /\ \A n \in Names : disk'[n] = IF n = from THEN Absent
                                              ELSE IF n = from + 1 THEN disk[from] ELSE disk[n]
      <3>1. \A n \in Listed : n \in Names /\ n # from + 1
        BY <1>6, ListedNames
      <3>2. from # from + 1
        BY <1>6
      <3>3. ASSUME NEW n \in Listed, Exists(n), w \in ToSet(disk[n])
            PROVE  \E m \in Names : Exists(m)' /\ w \in ToSet(disk'[m])
        <4>1. CASE n = from
          BY <2>2, <3>2, <3>3, <4>1 DEF Exists
        <4>2. CASE n # from
          BY <2>2, <3>1, <3>3, <4>2 DEF Exists
        <4> QED BY <4>1, <4>2
      <3> QED BY <3>3, TextStays
    <2> QED BY <1>2, <2>1, <2>2
  <1>7. CASE RotateOne
    <2>1. rotated # <<>> /\ rotated' = Tail(rotated) /\ pc = "rotate"
      BY <1>7 DEF RotateOne
    <2> DEFINE num == Head(rotated)
    <2>2. /\ num \in Nat /\ num \in ToSet(rotated)
          /\ \A x \in ToSet(Tail(rotated)) : x \in ToSet(rotated) /\ x \in Nat /\ x < num
          /\ ToSet(rotated) = {num} \cup ToSet(Tail(rotated))
      BY <1>0, <2>1, TailDescends DEF ListsInv
    <2>3. \/ /\ TooMany /\ UNCHANGED temp
             /\ disk' = IF Named(num) THEN [disk EXCEPT ![num] = Absent] ELSE disk
          \/ disk' = Renamed(num, num + 1)
      BY <1>7 DEF RotateOne
    <2> HIDE DEF num
    <2>4. CASE disk' = Renamed(num, num + 1)
      <3>1. num + 1 # 0 /\ \A x \in ToSet(rotated) : x # num + 1
        BY <2>2
      <3>2. \A y \in ToSet(temp) : num + 1 # y
        <4>1. \A y \in ToSet(temp) : y \in Nat /\ num + 1 < y
          <5>1. \A y \in ToSet(temp) : y \in Nat
            BY <1>0, LenProperties, ElementOfSeq DEF ToSet
          <5> QED BY <2>2, <5>1 DEF ListsInv
        <4> QED BY <2>2, <4>1
      <3>3. num + 1 \notin Listed
        BY <3>1, <3>2 DEF Listed
      <3> QED BY <1>6, <2>2, <2>4, <3>3
    <2>5. CASE /\ TooMany /\ UNCHANGED temp /\ Named(num)
               /\ disk' = [disk EXCEPT ![num] = Absent]
      <3>1. num \in Names /\ num >= 1 /\ temp = <<>> /\ num # 0
        BY <2>2, <2>5 DEF ListsInv, Named
      <3>2. disk'[num] = Absent /\ \A n \in Names \ {num} : disk'[n] = disk[n]
        BY <2>5, <3>1 DEF TypeOK
      <3>3. Exists(num) /\ w \in ToSet(disk[num])
        <4>1. ASSUME ~(Exists(num) /\ w \in ToSet(disk[num])) PROVE FALSE
          <5>1. ASSUME NEW n \in Listed, Exists(n), w \in ToSet(disk[n])
                PROVE  \E m \in Names : Exists(m)' /\ w \in ToSet(disk'[m])
            <6>1. n \in Names \ {num}
              BY <4>1, <5>1, ListedNames
            <6> QED BY <3>2, <5>1, <6>1 DEF Exists
          <5> QED BY <5>1, TextStays
        <4> QED BY <4>1
      <3>4. ASSUME NEW v \in TextOf(Listed)' PROVE w < v
        <4>1. PICK m \in Listed' : Exists(m)' /\ v \in ToSet(disk'[m])
          BY DEF TextOf
        <4>2. m \in Names /\ (m = 0 \/ m \in ToSet(Tail(rotated)))
          <5>1. ToSet(temp') = {}
            BY <2>5, <3>1, EmptySet
          <5> QED BY <2>1, <4>1, <5>1, Constants DEF Listed, Named
        <4>3. m < num
          BY <2>2, <3>1, <4>2
        <4>4. m \in Names \ {num}
          BY <2>2, <4>2, <4>3, Constants
        <4>5. Exists(m) /\ v \in ToSet(disk[m])
          BY <3>2, <4>1, <4>4 DEF Exists
        <4> QED BY <3>1, <3>3, <4>2, <4>3, <4>5 DEF AgeInv, OlderHaveHigherNumbers
      <3> QED BY <2>1, <2>5, <3>4
    <2> QED BY <1>2, <2>3, <2>4, <2>5
  <1>8. CASE RotateCurrent
    <2>1. rotated = <<>> /\ disk' = Renamed(0, 0 + 1)
      BY <1>8 DEF RotateCurrent
    <2>2. 0 + 1 \notin Listed
      <3>1. ToSet(rotated) = {} /\ \A y \in ToSet(temp) : y >= 2
        BY <2>1, EmptySet DEF ListsInv
      <3> QED BY <3>1 DEF Listed
    <2> QED BY <1>6, <2>1, <2>2
  <1>9. CASE PerformWrite
    <2>1. PICK x \in fly : \/ isOpen /\ disk' = [disk EXCEPT ![0] = Append(@, x)]
                           \/ UNCHANGED disk
      BY <1>9 DEF PerformWrite
    <2>2. x \in Int /\ (isOpen => Exists(0))
      BY Constants DEF TypeOK, WritesInv, OnlyWhenReady
    <2> QED BY <1>2, <1>3, <2>1, <2>2
  <1>10. CASE OverflowWrite
    <2>1. \/ isOpen /\ disk' = [disk EXCEPT ![0] = Append(@, written + 1)]
          \/ UNCHANGED disk
      BY <1>10 DEF OverflowWrite
    <2>2. written + 1 \in Int /\ (isOpen => Exists(0))
      BY Constants DEF TypeOK, WritesInv, OnlyWhenReady
    <2> QED BY <1>2, <1>3, <2>1, <2>2
  <1>11. CASE UNCHANGED vars
    BY <1>2, <1>11 DEF vars
  <1> QED BY <1>4, <1>5, <1>7, <1>8, <1>9, <1>10, <1>11 DEF Next

\* No rename lands on a file rotate_files has on its lists: what it knows of goes only by
\* the unlink of max_files, and then the oldest first.
THEOREM RotationKeepsKnownText == Spec => KnownTextKept
  <1>1. Init => TypeOK /\ WritesInv /\ AgeInv /\ ListsInv
    BY InitWrites, InitAge, InitLists
  <1>2. TypeOK /\ WritesInv /\ AgeInv /\ ListsInv /\ [Next]_vars
          => TypeOK' /\ WritesInv' /\ AgeInv' /\ ListsInv'
    BY NextTypes, NextWrites, NextAge, NextLists
  <1>3. TypeOK /\ WritesInv /\ AgeInv /\ ListsInv /\ [Next]_vars
          => [\A w \in TextOf(Listed) : w \notin TextOf(Names)' =>
                pc = "rotate" /\ TooMany /\ \A v \in TextOf(Listed)' : w < v]_vars
    BY NextKeepsText
  <1> QED BY <1>1, <1>2, <1>3, PTL DEF Spec, KnownTextKept

-----------------------------------------------------------------------------
(* The room of tempFiles                                                    *)

\* Once a file was renamed, max_files bounds what both lists hold together.
RoomInv == /\ pc # "rotate" => temp = <<>>
           /\ temp # <<>> => Len(temp) + Len(rotated) + 1 <= MaxFiles

\* With a max_files that is set and not above MAX_ROTATED_FILES, addMv() of tempFiles always
\* has room: rotate_files never blocks the grease thread.
THEOREM RotationFindsRoom ==
  ASSUME MaxFiles \in 1..MaxRotated
  PROVE  Spec => []RotationNeverBlocks
  <1>1. Init => TypeOK /\ WritesInv /\ RoomInv
    BY InitWrites DEF Init, RoomInv
  <1>2. ASSUME TypeOK, RoomInv, [Next]_vars PROVE RoomInv'
    <2>1. rotated \in Seq(Nat) /\ temp \in Seq(Nat) /\ Len(temp) \in Nat /\ Len(rotated) \in Nat
      BY <1>2, LenProperties DEF TypeOK
    <2>2. CASE Start
      BY <1>2, <2>2 DEF Start, RoomInv
    <2>3. CASE RotateOne
      <3>1. /\ rotated # <<>> /\ rotated' = Tail(rotated) /\ pc = "rotate" /\ UNCHANGED pc
            /\ \/ TooMany /\ UNCHANGED temp
               \/ ~TooMany /\ temp' = Append(temp, Head(rotated) + 1)
        BY <2>3 DEF RotateOne
      <3>2. Len(rotated') = Len(rotated) - 1 /\ Head(rotated) + 1 \in Nat
        BY <2>1, <3>1, HeadTailProperties
      <3>3. CASE TooMany /\ UNCHANGED temp
        BY <1>2, <2>1, <3>1, <3>2, <3>3 DEF RoomInv
      <3>4. CASE ~TooMany /\ temp' = Append(temp, Head(rotated) + 1)
        <4>1. Len(temp') = Len(temp) + 1
          BY <2>1, <3>2, <3>4, AppendProperties
        <4>2. Len(rotated) + 1 <= MaxFiles
          BY <3>4, <2>1 DEF TooMany
        <4>3. Len(temp) + Len(rotated) + 1 <= MaxFiles
          <5>1. CASE temp = <<>>
            BY <2>1, <4>2, <5>1, EmptySeq
          <5>2. CASE temp # <<>>
            BY <1>2, <5>2 DEF RoomInv
          <5> QED BY <5>1, <5>2
        <4> QED BY <2>1, <3>1, <3>2, <4>1, <4>3 DEF RoomInv
      <3> QED BY <3>1, <3>3, <3>4
    <2>4. CASE RotateCurrent \/ Crash
      BY <2>4 DEF RotateCurrent, Crash, RoomInv
    <2>5. CASE \/ Open \/ OpenFails \/ Flush \/ PerformWrite \/ WriteCb \/ OverflowWrite
               \/ UNCHANGED vars
      <3>1. UNCHANGED <<rotated, temp>> /\ (pc # "rotate" \/ UNCHANGED pc)
        BY <2>5 DEF Open, OpenFails, Flush, PerformWrite, WriteCb, OverflowWrite, vars
      <3> QED BY <1>2, <3>1 DEF RoomInv
    <2> QED BY <1>2, <2>2, <2>3, <2>4, <2>5 DEF Next
  <1>3. ASSUME TypeOK, RoomInv PROVE RotationNeverBlocks
    <2>1. rotated \in Seq(Nat) /\ temp \in Seq(Nat) /\ Len(temp) \in Nat /\ Len(rotated) \in Nat
          /\ MaxRotated \in Nat /\ MaxFiles \in Nat /\ MaxRotated > 1
      BY <1>3, LenProperties, Constants DEF TypeOK
    <2>2. temp = <<>> => Len(temp) = 0
      BY EmptySeq
    <2>3. Len(temp) < MaxRotated
      BY <1>3, <2>1, <2>2 DEF RoomInv
    <2> QED BY <2>3 DEF RotationNeverBlocks
  <1>4. TypeOK /\ WritesInv /\ RoomInv /\ [Next]_vars => TypeOK' /\ WritesInv' /\ RoomInv'
    BY <1>2, NextTypes, NextWrites
  <1>5. TypeOK /\ RoomInv => RotationNeverBlocks
    BY <1>3
  <1> QED BY <1>1, <1>4, <1>5, PTL DEF Spec
=============================================================================
