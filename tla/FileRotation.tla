---------------------------- MODULE FileRotation ----------------------------
(***************************************************************************)
(* The rotation of a file target: fileTarget::check_files, rotate_files and *)
(* check_and_maybe_rotate, with the writes that are in flight around them.   *)
(* The grease thread runs all of it; the thread pool performs writes while   *)
(* it does, and the process may die between any two calls to the file        *)
(* system, which keeps what it was told, and start again.                   *)
(*                                                                         *)
(* A file is the sequence of the writes it holds, numbered in the order they *)
(* were submitted; each counts as one unit of size.  The file without a      *)
(* number has the name 0.  Rotation is enabled, the flags open for appending, *)
(* and a rename fails only for a name that is not there.                    *)
(*                                                                         *)
(* A definition X_Y is X with the mistake Y, which some property must catch. *)
(***************************************************************************)
EXTENDS Integers, Sequences, FiniteSets, SequencesExt

CONSTANTS
  MaxRotated,    \* MAX_ROTATED_FILES
  MaxFiles,      \* max_files
  MaxSize,       \* max_file_size
  MaxTotal,      \* max_total_size
  RotateOnStart, \* rotate_on_start
  Absent,        \* no file of that name
  OldFiles,      \* how many rotated files earlier runs may have left
  MaxWrites, MaxCrashes, MaxFailures \* bounds of a run

Names == 0..(MaxRotated - 1)

ASSUME RotationAssumption ==
  /\ MaxRotated \in Nat \ {0, 1} /\ MaxFiles \in Nat
  /\ MaxSize \in Nat /\ MaxTotal \in Nat /\ RotateOnStart \in BOOLEAN
  /\ OldFiles \subseteq Names
  /\ MaxWrites \in Nat /\ MaxCrashes \in Nat /\ MaxFailures \in Nat
  /\ Absent \notin Seq(Int)

VARIABLES
  disk,       \* what each name holds
  pc,         \* where the grease thread stands
  started,    \* has the target reported ready?
  isOpen,     \* is fileHandle open (on the file of name 0)?
  rotated,    \* rotatedFiles: the numbers, in the order removeMv() gives them
  temp,       \* tempFiles of rotate_files
  size,       \* current_size
  submitted,  \* submittedWrites
  fly, fin,   \* writes in the thread pool; write_cb()s not yet called
  written, crashes, failures \* how much of each bound is used up

counters == <<written, crashes, failures>>
ioVars == <<submitted, fly, fin>>
vars == <<disk, pc, started, isOpen, rotated, temp, size, ioVars, counters>>

Exists(n) == disk[n] # Absent
SizeOf(n) == IF Exists(n) THEN Len(disk[n]) ELSE 0

\* Earlier runs left the numbers 1..k, older ones higher, and maybe a current file.
Init ==
  /\ \E k \in OldFiles, c \in BOOLEAN :
       disk = [n \in Names |-> IF n \in 1..k \/ (n = 0 /\ c) THEN <<-n>> ELSE Absent]
  /\ pc = "down" /\ started = FALSE /\ isOpen = FALSE
  /\ rotated = <<>> /\ temp = <<>> /\ size = 0
  /\ submitted = 0 /\ fly = {} /\ fin = 0
  /\ written = 0 /\ crashes = 0 /\ failures = 0

-----------------------------------------------------------------------------
(* The target starts: post_cstor and check_files                            *)

\* The numbers found from 1 up to the first that is missing, turned by reverse().
Found_NotReversed ==
  LET last == CHOOSE k \in Names : /\ \A n \in 1..k : Exists(n)
                                   /\ k + 1 \in Names => ~Exists(k + 1)
  IN [i \in 1..last |-> i]
Found ==
  LET last == CHOOSE k \in Names : /\ \A n \in 1..k : Exists(n)
                                   /\ k + 1 \in Names => ~Exists(k + 1)
  IN [i \in 1..last |-> last + 1 - i]

TotalSize == FoldLeft(LAMBDA sum, n : sum + SizeOf(n), SizeOf(0), Found)

NeedsRotation == \/ MaxSize > 0 /\ MaxSize < SizeOf(0)
                 \/ TotalSize > MaxTotal
                 \/ RotateOnStart

SizeAtStart_Zero == 0
SizeAtStart == SizeOf(0)

Start ==
  /\ pc = "down"
  /\ rotated' = Found
  /\ size' = SizeAtStart
  /\ pc' = IF NeedsRotation THEN "rotate" ELSE "open"
  /\ UNCHANGED <<disk, started, isOpen, temp, ioVars, counters>>

\* uv_fs_open, with O_CREAT and O_APPEND; on_open or on_open_for_rotate.  When it
\* fails at the start the target is given up; after a rotation it goes on without a
\* file.
Open ==
  /\ pc = "open"
  /\ disk' = [disk EXCEPT ![0] = IF Exists(0) THEN @ ELSE <<>>]
  /\ isOpen' = TRUE /\ started' = TRUE /\ pc' = "ready"
  /\ UNCHANGED <<rotated, temp, size, ioVars, counters>>

OpenFails ==
  /\ pc = "open" /\ failures < MaxFailures
  /\ failures' = failures + 1
  /\ pc' = IF started THEN "ready" ELSE "down"
  /\ UNCHANGED <<disk, started, isOpen, rotated, temp, size, ioVars, written,
                 crashes>>

-----------------------------------------------------------------------------
(* rotate_files                                                             *)

\* strRotateName has no name for MAX_ROTATED_FILES and more; a rename from or to no
\* name fails, as one of a missing file does.
Named(n) == n \in Names
Renamed(from, to) ==
  IF Named(from) /\ Named(to) /\ Exists(from)
  THEN [disk EXCEPT ![to] = disk[from], ![from] = Absent] ELSE disk

TooMany_Never == FALSE
TooMany == MaxFiles > 0 /\ Len(rotated) + 1 > MaxFiles

\* One turn of the loop: the oldest file left is removed or moved one number up.
RotateOne ==
  /\ pc = "rotate" /\ rotated # <<>>
  /\ LET num == Head(rotated) IN
       \/ /\ TooMany
          /\ disk' = IF Named(num) THEN [disk EXCEPT ![num] = Absent] ELSE disk
          /\ UNCHANGED temp
       \/ /\ ~TooMany /\ Len(temp) < MaxRotated  \* else addMv() blocks
          /\ disk' = Renamed(num, num + 1)
          /\ temp' = Append(temp, num + 1)
  /\ rotated' = Tail(rotated)
  /\ UNCHANGED <<pc, started, isOpen, size, ioVars, counters>>

\* The current file gets the number 1, and transferFrom() makes the list the new one.
RotateCurrent ==
  /\ pc = "rotate" /\ rotated = <<>>
  /\ \/ /\ Exists(0) /\ Len(temp) < MaxRotated
        /\ rotated' = Append(temp, 1)
     \/ /\ ~Exists(0)
        /\ rotated' = temp
  /\ disk' = Renamed(0, 1)
  /\ temp' = <<>> /\ size' = 0
  /\ pc' = "open"
  /\ UNCHANGED <<started, isOpen, ioVars, counters>>

-----------------------------------------------------------------------------
(* Writes                                                                   *)

\* check_and_maybe_rotate: the file is closed, and rotate_files begins.
MayRotate_InFlight(sub) == TRUE
MayRotate(sub) == sub < 1
CheckAndMaybeRotate(sub, sz) ==
  /\ submitted' = sub
  /\ IF MayRotate(sub) /\ sz > MaxSize THEN pc' = "rotate" /\ isOpen' = FALSE
                                       ELSE UNCHANGED <<pc, isOpen>>

\* flush(): the size counts the bank as soon as its write is submitted.
Flush ==
  /\ pc = "ready" /\ written < MaxWrites
  /\ written' = written + 1
  /\ size' = size + 1
  /\ submitted' = submitted + 1 /\ fly' = fly \cup {written + 1}
  /\ UNCHANGED <<disk, pc, started, isOpen, rotated, temp, fin, crashes, failures>>

\* The thread pool performs a write, which may fail and does if no file is open.
PerformWrite ==
  /\ \E w \in fly :
       /\ fly' = fly \ {w}
       /\ \/ isOpen /\ disk' = [disk EXCEPT ![0] = Append(@, w)]
          \/ UNCHANGED disk
  /\ fin' = fin + 1
  /\ UNCHANGED <<pc, started, isOpen, rotated, temp, size, submitted, counters>>

WriteCb ==
  /\ pc = "ready" /\ fin > 0
  /\ fin' = fin - 1
  /\ CheckAndMaybeRotate(submitted - 1, size)
  /\ UNCHANGED <<disk, started, rotated, temp, size, fly, counters>>

\* writeAsyncOverflow: writev() on the spot, between submittedWrites++ and --.
CountOverflow_Forgotten == submitted
CountOverflow == submitted + 1

OverflowWrite ==
  /\ pc = "ready" /\ written < MaxWrites
  /\ written' = written + 1
  /\ \/ /\ isOpen
        /\ disk' = [disk EXCEPT ![0] = Append(@, written + 1)]
        /\ size' = size + 1
        /\ CheckAndMaybeRotate(CountOverflow - 1, size + 1)
     \/ /\ submitted' = CountOverflow - 1
        /\ UNCHANGED <<disk, size, pc, isOpen>>  \* writev() fails: no check
  /\ UNCHANGED <<started, rotated, temp, fly, fin, crashes, failures>>

-----------------------------------------------------------------------------
\* The process ends; what the thread pool has not performed is gone.
Crash ==
  /\ pc # "down" /\ crashes < MaxCrashes
  /\ crashes' = crashes + 1
  /\ pc' = "down" /\ started' = FALSE /\ isOpen' = FALSE
  /\ rotated' = <<>> /\ temp' = <<>> /\ size' = 0
  /\ submitted' = 0 /\ fly' = {} /\ fin' = 0
  /\ UNCHANGED <<disk, written, failures>>

Next == \/ Start \/ Open \/ OpenFails \/ RotateOne \/ RotateCurrent
        \/ Flush \/ PerformWrite \/ WriteCb \/ OverflowWrite \/ Crash

Spec == Init /\ [][Next]_vars

-----------------------------------------------------------------------------
(* Properties                                                               *)

\* The types of the variables.  submittedWrites counts the writes whose write_cb is
\* still to come, and so is never negative.
TypeOK ==
  /\ disk \in [Names -> Seq(Int) \cup {Absent}]
  /\ pc \in {"down", "open", "ready", "rotate"}
  /\ started \in BOOLEAN /\ isOpen \in BOOLEAN
  /\ rotated \in Seq(Nat) /\ temp \in Seq(Nat)
  /\ size \in Nat /\ submitted \in Nat /\ fin \in Nat
  /\ fly \subseteq 1..MaxWrites
  /\ written \in 0..MaxWrites
  /\ crashes \in 0..MaxCrashes /\ failures \in 0..MaxFailures

\* A higher number is an older file: everything in it was submitted before anything
\* in a lower one or in the current file, whatever crash came between two renames
\* and in whatever order the thread pool performed the writes ("When it's zero ...
\* it's safe to rotate").
OlderHaveHigherNumbers ==
  \A i, j \in Names : i < j /\ Exists(i) /\ Exists(j) =>
    \A x \in ToSet(disk[i]), y \in ToSet(disk[j]) : y < x

\* What the file system holds under a name rotate_files has on its lists.
Listed == {0} \cup {n \in ToSet(rotated) \cup ToSet(temp) : Named(n)}
TextOf(S) == UNION {ToSet(disk[n]) : n \in {i \in S : Exists(i)}}

\* Text in a file the target knows of goes only by the unlink of max_files, the oldest
\* first: no rename of rotate_files lands on another file it has on its lists.
KnownTextKept ==
  [][\A w \in TextOf(Listed) : w \notin TextOf(Names)' =>
       pc = "rotate" /\ TooMany /\ \A v \in TextOf(Listed)' : w < v]_vars

\* current_size never falls behind the file and the writes on their way to it,
\* across restarts, overflow writes and rotations: rotation is never late by more
\* than what is in flight.
SizeCovers == pc = "ready" => SizeOf(0) + Cardinality(fly) <= size

\* The grease thread never blocks in addMv() of tempFiles, a ring of its own that
\* nobody else removes from ("max files, including current, 0 - no setting").
RotationNeverBlocks ==
  pc = "rotate" => \/ Len(temp) < MaxRotated
                   \/ rotated # <<>> /\ TooMany
                   \/ rotated = <<>> /\ ~Exists(0)
=============================================================================
