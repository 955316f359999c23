--------------------------- MODULE LifecycleProofs ---------------------------
(***************************************************************************)
(* What holds of the references of the V8 thread for any targets, banks and  *)
(* queue sizes.                                                            *)
(***************************************************************************)
EXTENDS Lifecycle, TLAPS

-----------------------------------------------------------------------------
(* The types                                                                *)

TypeFlags == /\ busy \in BOOLEAN /\ started \in BOOLEAN /\ targetRef \in BOOLEAN
             /\ targetSent \in BOOLEAN /\ logSent \in BOOLEAN /\ loggerRef \in BOOLEAN
             /\ refSent \in BOOLEAN

TypePlaces ==
  /\ v8 \in {"app", "starts", "start_cb", "look_logs", "logs", "log_cb", "look_ref"}
  /\ ended \in {"no", "exit", "abort"}
  /\ start \in [Targets -> {"new", "opening", "opening_default", "opened", "not_opened",
                            "started", "failed", "silent", "dropped"}]
  /\ defaultTarget \in Targets \cup {"none", "tty"} /\ targets \subseteq Targets
  /\ inHand \in Targets \cup Banks \cup {"overflow", "none"}
  /\ grease \in {"idle", "queue_start", "send_start", "ref", "send_log"}
  /\ work \in Targets \cup Banks \cup {"overflow", "none"}
  /\ grease = "queue_start" => work \in Targets
  /\ bank \in [Banks -> {"avail", "writing", "queued"}]

TypeQueues ==
  /\ targetCallbackQueue \in Seq(Targets) /\ Len(targetCallbackQueue) <= MaxStarts
  /\ v8LogCallbacks \in Seq(Banks \cup {"overflow"}) /\ Len(v8LogCallbacks) <= MaxCallbacks
  /\ needV8 \in Nat /\ leaked \in Nat /\ writes \in 0..MaxWrites

\* TypeOK in three parts, which different provers are good at.
LEMMA TypeParts == TypeOK <=> TypeFlags /\ TypePlaces /\ TypeQueues
  BY DEF TypeOK, TypeFlags, TypePlaces, TypeQueues

LEMMA TypeInit == Init => TypeOK
  <1> SUFFICES ASSUME Init PROVE TypeFlags /\ TypePlaces /\ TypeQueues
    BY TypeParts
  <1>1. TypeFlags
    BY Zenon DEF Init, TypeFlags
  <1>2. TypePlaces
    BY DEF Init, TypePlaces
  <1>3. TypeQueues
    BY LifecycleAssumption DEF Init, TypeQueues
  <1> QED BY <1>1, <1>2, <1>3

LEMMA TypeNext == TypeOK /\ [Next]_vars => TypeOK'
  <1> SUFFICES ASSUME TypeOK, [Next]_vars PROVE TypeOK'
    OBVIOUS
  <1> USE LifecycleAssumption DEF TypeOK, Running, threads, app, starting, logging, refs
  <1>1. CASE Poll
    <2>1. TypeFlags'
      BY <1>1, Zenon DEF Poll, InV8, TypeFlags
    <2>2. TypePlaces'
      BY <1>1 DEF Poll, InV8, TypePlaces
    <2>3. TypeQueues'
      BY <1>1 DEF Poll, InV8, TypeQueues
    <2> QED BY <2>1, <2>2, <2>3 DEF TypeFlags, TypePlaces, TypeQueues
  <1>2. CASE TakeStart
    BY <1>2 DEF TakeStart, InV8, Answer
  <1>3. CASE StartDone
    BY <1>3 DEF StartDone, InV8
  <1>4. CASE NoMoreStarts
    <2>1. TypeFlags'
      BY <1>4, Zenon DEF NoMoreStarts, InV8, TypeFlags
    <2>2. TypePlaces'
      BY <1>4 DEF NoMoreStarts, InV8, TypePlaces
    <2>3. TypeQueues'
      BY <1>4 DEF NoMoreStarts, InV8, TypeQueues
    <2> QED BY <2>1, <2>2, <2>3 DEF TypeFlags, TypePlaces, TypeQueues
  <1>5. CASE LookLogs
    <2>1. TypeFlags'
      BY <1>5, Zenon DEF LookLogs, InV8, TypeFlags
    <2>2. TypePlaces'
      BY <1>5 DEF LookLogs, InV8, TypePlaces
    <2>3. TypeQueues'
      BY <1>5 DEF LookLogs, InV8, TypeQueues
    <2> QED BY <2>1, <2>2, <2>3 DEF TypeFlags, TypePlaces, TypeQueues
  <1>6. CASE TakeLog
    BY <1>6 DEF TakeLog, InV8
  <1>7. CASE LogDone
    <2>1. TypeFlags'
      BY <1>7, Zenon DEF LogDone, InV8, MayGo, TypeFlags
    <2>2. TypePlaces'
      BY <1>7 DEF LogDone, InV8, MayGo, TypePlaces
    <2>3. TypeQueues'
      BY <1>7 DEF LogDone, InV8, MayGo, TypeQueues
    <2> QED BY <2>1, <2>2, <2>3 DEF TypeFlags, TypePlaces, TypeQueues
  <1>8. CASE NoMoreLogs
    BY <1>8 DEF NoMoreLogs, InV8
  <1>9. CASE LookRef
    <2>1. TypeFlags'
      BY <1>9, Zenon DEF LookRef, InV8, TypeFlags
    <2>2. TypePlaces'
      BY <1>9 DEF LookRef, InV8, TypePlaces
    <2>3. TypeQueues'
      BY <1>9 DEF LookRef, InV8, TypeQueues
    <2> QED BY <2>1, <2>2, <2>3 DEF TypeFlags, TypePlaces, TypeQueues
  <1>10. CASE Exit
    BY <1>10 DEF Exit, InV8
  <1>11. CASE Start
    BY <1>11 DEF Start, InJs
  <1>12. CASE ModifyDefaultTty
    BY <1>12 DEF ModifyDefaultTty, InJs
  <1>13. CASE Finish
    <2>1. TypeFlags'
      BY <1>13, Zenon DEF Finish, InV8, TypeFlags
    <2>2. TypePlaces'
      BY <1>13 DEF Finish, InV8, TypePlaces
    <2>3. TypeQueues'
      BY <1>13 DEF Finish, InV8, TypeQueues
    <2> QED BY <2>1, <2>2, <2>3 DEF TypeFlags, TypePlaces, TypeQueues
  <1>14. ASSUME NEW t \in Targets, AddFile(t)
        PROVE  TypeOK'
    BY <1>14 DEF AddFile, InJs, RefForStart
  <1>15. ASSUME NEW t \in Targets, ModifyDefaultFile(t)
        PROVE  TypeOK'
    BY <1>15 DEF ModifyDefaultFile, InJs
  <1>16. ASSUME NEW t \in Targets, NEW ok \in BOOLEAN, AddTty(t, ok)
        PROVE  TypeOK'
    BY <1>16 DEF AddTty, InJs, Registered, Answer
  <1>17. ASSUME NEW t \in Targets, NEW ok \in BOOLEAN, Opened(t, ok)
        PROVE  TypeOK'
    BY <1>17 DEF Opened, InGrease, Registered
  <1>18. ASSUME NEW t \in Targets, NEW ok \in BOOLEAN, DefaultOpened(t, ok)
        PROVE  TypeOK'
    BY <1>18 DEF DefaultOpened, InGrease
  <1>19. ASSUME NEW b \in Banks, ReturnBank(b)
        PROVE  TypeOK'
    <2>1. TypeFlags'
      BY <1>19 DEF ReturnBank, InGrease, TypeFlags
    <2>2. TypePlaces'
      BY <1>19 DEF ReturnBank, InGrease, TypePlaces
    <2>3. TypeQueues'
      BY <1>19 DEF ReturnBank, InGrease, CallbackRoom, TypeQueues
    <2> QED BY <2>1, <2>2, <2>3 DEF TypeFlags, TypePlaces, TypeQueues
  <1>20. CASE QueueStart
    <2>1. TypeFlags'
      BY <1>20, Zenon DEF QueueStart, InGrease, StartRoom, TypeFlags
    <2>2. TypePlaces'
      BY <1>20 DEF QueueStart, InGrease, StartRoom, TypePlaces
    <2>3. TypeQueues'
      <3>1. work \in Targets /\ targetCallbackQueue \in Seq(Targets)
            /\ Len(targetCallbackQueue) <= MaxStarts
        BY <1>20 DEF QueueStart, InGrease
      <3>2. targetCallbackQueue' \in Seq(Targets) /\ Len(targetCallbackQueue') <= MaxStarts
        <4>1. CASE StartRoom /\ targetCallbackQueue' = Append(targetCallbackQueue, work)
          BY ONLY <3>1, <4>1, LifecycleAssumption DEF StartRoom
        <4>2. CASE UNCHANGED targetCallbackQueue
          BY ONLY <3>1, <4>2
        <4> QED BY ONLY <1>20, <4>1, <4>2 DEF QueueStart
      <3>3. UNCHANGED <<v8LogCallbacks, needV8, leaked, writes>>
        BY ONLY <1>20 DEF QueueStart, logging, refs
      <3> QED BY <3>2, <3>3 DEF TypeQueues
    <2> QED BY <2>1, <2>2, <2>3 DEF TypeFlags, TypePlaces, TypeQueues
  <1>21. CASE SendStart
    BY <1>21 DEF SendStart, InGrease
  <1>22. CASE RefFromV8
    BY <1>22 DEF RefFromV8, InGrease, Counted
  <1>23. CASE SendLog
    BY <1>23 DEF SendLog, InGrease, LogSignal
  <1>24. CASE ReturnOverflow
    <2>1. TypeFlags'
      BY <1>24 DEF ReturnOverflow, InGrease, TypeFlags
    <2>2. TypePlaces'
      BY <1>24 DEF ReturnOverflow, InGrease, TypePlaces
    <2>3. writes' \in 0..MaxWrites /\ needV8' = needV8 /\ leaked' \in Nat
      BY <1>24 DEF ReturnOverflow, InGrease
    <2>4. targetCallbackQueue' = targetCallbackQueue
      BY <1>24 DEF ReturnOverflow
    <2>5. /\ v8LogCallbacks' \in Seq(Banks \cup {"overflow"})
          /\ Len(v8LogCallbacks') <= MaxCallbacks
      <3>1. v8LogCallbacks \in Seq(Banks \cup {"overflow"})
            /\ Len(v8LogCallbacks) <= MaxCallbacks
        BY DEF TypeQueues
      <3>2. CASE CallbackRoom /\ v8LogCallbacks' = Append(v8LogCallbacks, "overflow")
        BY ONLY <3>1, <3>2, LifecycleAssumption DEF CallbackRoom
      <3>3. CASE UNCHANGED v8LogCallbacks
        BY ONLY <3>1, <3>3
      <3> QED BY ONLY <1>24, <3>2, <3>3 DEF ReturnOverflow
    <2> QED BY <2>1, <2>2, <2>3, <2>4, <2>5 DEF TypeFlags, TypePlaces
  <1>25. ASSUME NEW b \in Banks, Write(b)
        PROVE  TypeOK'
    BY <1>25 DEF Write, InGrease
  <1>26. CASE UNCHANGED vars
    BY <1>26 DEF vars
  <1> QED BY <1>1, <1>2, <1>3, <1>4, <1>5, <1>6, <1>7, <1>8, <1>9, <1>10, <1>11, <1>12,
      <1>13, <1>14, <1>15, <1>16, <1>17, <1>18, <1>19, <1>20, <1>21, <1>22, <1>23, <1>24,
      <1>25, <1>26
    DEF Next, Loop, Js, Completions, Signals

\* Every reachable state has the types of TypeOK; in particular neither queue outgrows its
\* limit (targetCallbackQueue, v8LogCallbacks).
THEOREM LifecycleTypes == Spec => []TypeOK
  BY TypeInit, TypeNext, PTL DEF Spec

-----------------------------------------------------------------------------
(* The count                                                                *)

\* The two properties need each other's variables and the types.
RefInv == TypeOK /\ RefsCounted /\ V8RefCovers

LEMMA RefInit == Init => RefInv
  BY TypeInit, LifecycleAssumption DEF RefInv, Init, RefsCounted, V8RefCovers, One, Running

LEMMA RefNext == RefInv /\ [Next]_vars => RefInv'
  <1> SUFFICES ASSUME RefInv, [Next]_vars PROVE (RefsCounted /\ V8RefCovers)'
    BY TypeNext DEF RefInv
  <1> USE LifecycleAssumption DEF RefInv, TypeOK, RefsCounted, V8RefCovers, One, Running,
        threads, app, starting, logging, refs
  <1>1. CASE Poll
    BY <1>1 DEF Poll, InV8
  <1>2. CASE TakeStart
    BY <1>2 DEF TakeStart, InV8, Answer
  <1>3. CASE StartDone
    BY <1>3 DEF StartDone, InV8
  <1>4. CASE NoMoreStarts
    BY <1>4 DEF NoMoreStarts, InV8
  <1>5. CASE LookLogs
    BY <1>5 DEF LookLogs, InV8
  <1>6. CASE TakeLog
    BY <1>6 DEF TakeLog, InV8
  <1>7. CASE LogDone
    <2>1. RefsCounted'
      <3>1. UNCHANGED <<grease, v8LogCallbacks, leaked>> /\ v8 = "log_cb"
        BY ONLY <1>7 DEF LogDone, InV8, threads, logging
      <3>2. CASE needV8 = 0 /\ ended' = "abort"
        BY ONLY <3>2 DEF RefsCounted, Running
      <3>3. CASE needV8' = needV8 - 1 /\ v8' = "logs" /\ UNCHANGED ended
        <4>1. needV8 \in Nat /\ leaked \in Nat /\ Len(v8LogCallbacks) \in Nat
          BY DEF TypeOK
        <4>2. One(v8 = "log_cb") = 1 /\ One(v8' = "log_cb") = 0
          BY ONLY <3>1, <3>3 DEF One
        <4> QED BY ONLY <3>1, <3>3, <4>1, <4>2, RefsCounted DEF RefsCounted, Running, One
      <3> QED BY ONLY <1>7, <3>2, <3>3 DEF LogDone
    <2>2. V8RefCovers'
      <3>1. CASE needV8 = 0
        BY <1>7, <3>1 DEF LogDone, InV8
      <3>2. CASE needV8 > 0 /\ needV8 - 1 > 0
        <4>1. /\ needV8' = needV8 - 1 /\ loggerRef' = (loggerRef /\ ~MayGo(needV8'))
              /\ refSent' = refSent
          BY <1>7, <3>2 DEF LogDone, InV8
        <4>2. ~MayGo(needV8')
          BY <3>2, <4>1 DEF MayGo
        <4>3. loggerRef \/ refSent
          BY <3>2
        <4>4. loggerRef' \/ refSent'
          BY <4>1, <4>2, <4>3, Zenon
        <4> QED BY <4>4
      <3>3. CASE needV8 = 1
        BY <1>7, <3>3 DEF LogDone, InV8
      <3> QED BY <3>1, <3>2, <3>3
    <2> QED BY <2>1, <2>2
  <1>8. CASE NoMoreLogs
    BY <1>8 DEF NoMoreLogs, InV8
  <1>9. CASE LookRef
    BY <1>9 DEF LookRef, InV8
  <1>10. CASE Exit
    BY <1>10 DEF Exit, InV8
  <1>11. CASE Start
    BY <1>11 DEF Start, InJs
  <1>12. CASE ModifyDefaultTty
    BY <1>12 DEF ModifyDefaultTty, InJs
  <1>13. CASE Finish
    BY <1>13 DEF Finish, InV8
  <1>14. ASSUME NEW t \in Targets, AddFile(t)
        PROVE  (RefsCounted /\ V8RefCovers)'
    BY <1>14 DEF AddFile, InJs, RefForStart
  <1>15. ASSUME NEW t \in Targets, ModifyDefaultFile(t)
        PROVE  (RefsCounted /\ V8RefCovers)'
    BY <1>15 DEF ModifyDefaultFile, InJs
  <1>16. ASSUME NEW t \in Targets, NEW ok \in BOOLEAN, AddTty(t, ok)
        PROVE  (RefsCounted /\ V8RefCovers)'
    BY <1>16 DEF AddTty, InJs, Registered, Answer
  <1>17. ASSUME NEW t \in Targets, NEW ok \in BOOLEAN, Opened(t, ok)
        PROVE  (RefsCounted /\ V8RefCovers)'
    BY <1>17 DEF Opened, InGrease, Registered
  <1>18. ASSUME NEW t \in Targets, NEW ok \in BOOLEAN, DefaultOpened(t, ok)
        PROVE  (RefsCounted /\ V8RefCovers)'
    BY <1>18 DEF DefaultOpened, InGrease
  <1>19. ASSUME NEW b \in Banks, ReturnBank(b)
        PROVE  (RefsCounted /\ V8RefCovers)'
    <2>1. needV8' = needV8 /\ leaked' = leaked /\ v8' = v8 /\ grease = "idle" /\ ended = "no"
      BY <1>19 DEF ReturnBank, InGrease
    <2>2. needV8 = Len(v8LogCallbacks) + One(v8 = "log_cb") + leaked
      BY <2>1
    <2>3. RefsCounted'
      <3>1. CASE CallbackRoom
        <4>1. grease' = "ref" /\ v8LogCallbacks' = Append(v8LogCallbacks, b)
          BY <1>19, <3>1 DEF ReturnBank
        <4>2. Len(v8LogCallbacks') = Len(v8LogCallbacks) + 1
          BY <4>1
        <4> QED BY <2>1, <2>2, <4>1, <4>2
      <3>2. CASE ~CallbackRoom
        BY <1>19, <2>1, <2>2, <3>2 DEF ReturnBank
      <3> QED BY <3>1, <3>2
    <2>4. V8RefCovers'
      BY <1>19 DEF ReturnBank
    <2> QED BY <2>3, <2>4
  <1>20. CASE QueueStart
    BY <1>20 DEF QueueStart, InGrease, StartRoom
  <1>21. CASE SendStart
    BY <1>21 DEF SendStart, InGrease
  <1>22. CASE RefFromV8
    <2>1. RefsCounted'
      BY <1>22 DEF RefFromV8, InGrease, Counted
    <2>2. refSent' = (refSent \/ needV8 = 0) /\ loggerRef' = loggerRef
      BY <1>22 DEF RefFromV8
    <2>3. loggerRef \/ refSent \/ needV8 = 0
      OBVIOUS
    <2>4. loggerRef' \/ refSent'
      BY <2>2, <2>3, Zenon
    <2> QED BY <2>1, <2>4
  <1>23. CASE SendLog
    BY <1>23 DEF SendLog, InGrease, LogSignal
  <1>24. CASE ReturnOverflow
    <2>1. /\ needV8' = needV8 /\ v8' = v8 /\ grease = "idle" /\ grease' = "ref"
          /\ Len(v8LogCallbacks') + leaked' = Len(v8LogCallbacks) + leaked + 1
      BY <1>24 DEF ReturnOverflow, InGrease
    <2>2. Len(v8LogCallbacks) \in Nat /\ Len(v8LogCallbacks') \in Nat /\ leaked' \in Nat
          /\ ended = "no"
      BY <1>24 DEF ReturnOverflow, InGrease
    <2>3. RefsCounted'
      <3>1. needV8 = Len(v8LogCallbacks) + One(v8 = "log_cb") + leaked
        BY <2>1, <2>2
      <3>2. CASE v8 = "log_cb"
        <4>1. needV8 + 1 = Len(v8LogCallbacks') + 1 + leaked'
          BY <2>1, <2>2, <3>1, <3>2
        <4> QED BY <2>1, <4>1, <3>2
      <3>3. CASE v8 # "log_cb"
        <4>1. needV8 + 1 = Len(v8LogCallbacks') + leaked'
          BY <2>1, <2>2, <3>1, <3>3
        <4> QED BY <2>1, <4>1, <3>3
      <3> QED BY <3>2, <3>3
    <2>4. V8RefCovers'
      BY <1>24 DEF ReturnOverflow
    <2> QED BY <2>3, <2>4
  <1>25. ASSUME NEW b \in Banks, Write(b)
        PROVE  (RefsCounted /\ V8RefCovers)'
    BY <1>25 DEF Write, InGrease
  <1>26. CASE UNCHANGED vars
    BY <1>26 DEF vars
  <1> QED BY <1>1, <1>2, <1>3, <1>4, <1>5, <1>6, <1>7, <1>8, <1>9, <1>10, <1>11, <1>12,
      <1>13, <1>14, <1>15, <1>16, <1>17, <1>18, <1>19, <1>20, <1>21, <1>22, <1>23, <1>24,
      <1>25, <1>26
    DEF Next, Loop, Js, Completions, Signals

\* needV8 counts the log callbacks that are queued or being made and those skipped by
\* returnBuffer() of an overflow message, but for one that is about to be added (refFromV8).
THEOREM NeedV8Counts == Spec => []RefsCounted
  <1>1. Spec => []RefInv
    BY RefInit, RefNext, PTL DEF Spec
  <1>2. RefInv => RefsCounted
    BY DEF RefInv
  <1> QED BY <1>1, <1>2, PTL

\* As long as needV8 is positive the handle is referenced or refCb_Logger() is to come.
THEOREM NeedV8Holds == Spec => []V8RefCovers
  <1>1. Spec => []RefInv
    BY RefInit, RefNext, PTL DEF Spec
  <1>2. RefInv => V8RefCovers
    BY DEF RefInv
  <1> QED BY <1>1, <1>2, PTL
-----------------------------------------------------------------------------
(* The answers                                                              *)

\* What a start has come to agrees with the table; a target is not in it before it is opened.
StartsTrue ==
  \A t \in Targets : /\ start[t] \in {"opened", "started"} => t \in targets
                     /\ start[t] \in {"new", "opening", "not_opened", "failed"} => t \notin targets

\* A target whose answer is queued is there once, and not in the grease thread's hand too.
QueuedOnce ==
  LET q == targetCallbackQueue IN
  /\ \A i \in 1..Len(q) : start[q[i]] \in {"opened", "not_opened"}
  /\ \A i, j \in 1..Len(q) : q[i] = q[j] => i = j
  /\ grease = "queue_start" => /\ start[work] \in {"opened", "not_opened"}
                              /\ \A i \in 1..Len(q) : q[i] # work

LEMMA AnswersInit == Init => StartsTrue /\ QueuedOnce
  BY DEF Init, StartsTrue, QueuedOnce

\* A step that neither answers a start nor takes one up.
LEMMA AnswersSame ==
  ASSUME StartsTrue, QueuedOnce, UNCHANGED <<start, targets, targetCallbackQueue>>,
         grease' = "queue_start" => grease = "queue_start" /\ UNCHANGED work
  PROVE  (StartsTrue /\ QueuedOnce)'
  BY DEF StartsTrue, QueuedOnce

LEMMA AnswersNext == TypeOK /\ StartsTrue /\ QueuedOnce /\ [Next]_vars
                       => (StartsTrue /\ QueuedOnce)'
  <1> SUFFICES ASSUME TypeOK, StartsTrue, QueuedOnce, [Next]_vars
               PROVE  (StartsTrue /\ QueuedOnce)'
    OBVIOUS
  <1>1. CASE Poll
    BY <1>1, AnswersSame DEF Poll, InV8, threads, app, starting, logging, refs
  <1>2. CASE TakeStart
    <2>1. /\ targetCallbackQueue # <<>> /\ targetCallbackQueue' = Tail(targetCallbackQueue)
          /\ start' = [start EXCEPT ![Head(targetCallbackQueue)] = Answer(@ = "opened")]
          /\ UNCHANGED <<grease, work, targets>>
      BY <1>2 DEF TakeStart, starting, logging, refs
    <2>2. /\ Head(targetCallbackQueue) \in Targets
          /\ Head(targetCallbackQueue) = targetCallbackQueue[1]
          /\ Len(targetCallbackQueue') = Len(targetCallbackQueue) - 1
          /\ \A i \in 1..Len(targetCallbackQueue') :
               /\ targetCallbackQueue'[i] = targetCallbackQueue[i + 1]
               /\ i + 1 \in 1..Len(targetCallbackQueue) /\ targetCallbackQueue[i + 1] \in Targets
      BY <2>1 DEF TypeOK
    <2>3. start[Head(targetCallbackQueue)] \in {"opened", "not_opened"}
      BY <2>1, <2>2 DEF QueuedOnce, TypeOK
    <2>4. StartsTrue'
      BY <2>1, <2>2, <2>3 DEF StartsTrue, Answer, TypeOK
    <2>5. \A i \in 1..Len(targetCallbackQueue') :
            targetCallbackQueue'[i] # Head(targetCallbackQueue)
      BY <2>1, <2>2 DEF QueuedOnce
    <2>6. grease = "queue_start" => work # Head(targetCallbackQueue) /\ work \in Targets
      BY <2>1, <2>2 DEF QueuedOnce, TypeOK
    <2>7. QueuedOnce'
      BY <2>1, <2>2, <2>5, <2>6 DEF QueuedOnce, TypeOK
    <2> QED BY <2>4, <2>7
  <1>3. CASE StartDone
    BY <1>3, AnswersSame DEF StartDone, threads, app, starting, logging, refs
  <1>4. CASE NoMoreStarts
    BY <1>4, AnswersSame DEF NoMoreStarts, threads, app, starting, logging, refs
  <1>5. CASE LookLogs
    BY <1>5, AnswersSame DEF LookLogs, threads, app, starting, logging, refs
  <1>6. CASE TakeLog
    BY <1>6, AnswersSame DEF TakeLog, threads, app, starting, logging, refs
  <1>7. CASE LogDone
    BY <1>7, AnswersSame DEF LogDone, threads, app, starting, logging, refs
  <1>8. CASE NoMoreLogs
    BY <1>8, AnswersSame DEF NoMoreLogs, threads, app, starting, logging, refs
  <1>9. CASE LookRef
    BY <1>9, AnswersSame DEF LookRef, threads, app, starting, logging, refs
  <1>10. CASE Exit
    BY <1>10, AnswersSame DEF Exit, threads, app, starting, logging, refs
  <1>11. CASE Start
    BY <1>11, AnswersSame DEF Start, threads, app, starting, logging, refs
  <1>12. CASE ModifyDefaultTty
    BY <1>12, AnswersSame DEF ModifyDefaultTty, threads, app, starting, logging, refs
  <1>13. CASE Finish
    BY <1>13, AnswersSame DEF Finish, threads, app, starting, logging, refs
  <1>14. ASSUME NEW t \in Targets, AddFile(t)
        PROVE  (StartsTrue /\ QueuedOnce)'
    <2>1. /\ start[t] = "new" /\ start' = [start EXCEPT ![t] = "opening"]
          /\ UNCHANGED <<targetCallbackQueue, grease, work>>
          /\ targets' = targets
      BY <1>14 DEF AddFile, threads, app, starting, logging, refs
    <2>2. StartsTrue'
      BY <2>1 DEF StartsTrue, TypeOK
    <2>3. QueuedOnce'
      BY <2>1 DEF QueuedOnce, TypeOK
    <2> QED BY <2>2, <2>3
  <1>15. ASSUME NEW t \in Targets, ModifyDefaultFile(t)
        PROVE  (StartsTrue /\ QueuedOnce)'
    <2>1. /\ start[t] = "new" /\ start' = [start EXCEPT ![t] = "opening_default"]
          /\ UNCHANGED <<targetCallbackQueue, grease, work>>
          /\ targets' = targets
      BY <1>15 DEF ModifyDefaultFile, threads, app, starting, logging, refs
    <2>2. StartsTrue'
      BY <2>1 DEF StartsTrue, TypeOK
    <2>3. QueuedOnce'
      BY <2>1 DEF QueuedOnce, TypeOK
    <2> QED BY <2>2, <2>3
  <1>16. ASSUME NEW t \in Targets, NEW ok \in BOOLEAN, AddTty(t, ok)
        PROVE  (StartsTrue /\ QueuedOnce)'
    <2>1. /\ start[t] = "new" /\ start' = [start EXCEPT ![t] = Answer(ok)]
          /\ UNCHANGED <<targetCallbackQueue, grease, work>>
          /\ targets' = Registered(t, ok)
      BY <1>16 DEF AddTty, threads, app, starting, logging, refs
    <2>2. StartsTrue'
      BY <2>1 DEF StartsTrue, TypeOK, Answer, Registered
    <2>3. QueuedOnce'
      BY <2>1 DEF QueuedOnce, TypeOK, Answer
    <2> QED BY <2>2, <2>3
  <1>17. ASSUME NEW t \in Targets, NEW ok \in BOOLEAN, Opened(t, ok)
        PROVE  (StartsTrue /\ QueuedOnce)'
    <2>1. /\ start[t] = "opening"
          /\ start' = [start EXCEPT ![t] = IF ok THEN "opened" ELSE "not_opened"]
          /\ UNCHANGED targetCallbackQueue /\ grease' = "queue_start" /\ work' = t
          /\ targets' = Registered(t, ok)
      BY <1>17 DEF Opened
    <2>2. StartsTrue'
      BY <2>1 DEF StartsTrue, TypeOK, Registered
    <2>3. QueuedOnce'
      BY <2>1 DEF QueuedOnce, TypeOK
    <2> QED BY <2>2, <2>3
  <1>18. ASSUME NEW t \in Targets, NEW ok \in BOOLEAN, DefaultOpened(t, ok)
        PROVE  (StartsTrue /\ QueuedOnce)'
    <2>1. /\ start[t] = "opening_default" /\ start' = [start EXCEPT ![t] = "silent"]
          /\ UNCHANGED <<targetCallbackQueue, grease, work>>
          /\ targets' = targets
      BY <1>18 DEF DefaultOpened, threads, app, starting, logging, refs
    <2>2. StartsTrue'
      BY <2>1 DEF StartsTrue, TypeOK
    <2>3. QueuedOnce'
      BY <2>1 DEF QueuedOnce, TypeOK
    <2> QED BY <2>2, <2>3
  <1>19. ASSUME NEW b \in Banks, ReturnBank(b)
        PROVE  (StartsTrue /\ QueuedOnce)'
    BY <1>19, AnswersSame DEF ReturnBank, InGrease, threads, app, starting, logging, refs
  <1>20. CASE QueueStart
    <2>1. /\ grease = "queue_start" /\ grease' = "send_start" /\ UNCHANGED targets
          /\ work \in Targets
      BY <1>20 DEF QueueStart, InGrease, TypeOK
    <2>2. CASE targetCallbackQueue' = Append(targetCallbackQueue, work) /\ UNCHANGED start
      BY <2>1, <2>2 DEF StartsTrue, QueuedOnce, TypeOK
    <2>3. CASE UNCHANGED targetCallbackQueue /\ start' = [start EXCEPT ![work] = "dropped"]
      BY <2>1, <2>3 DEF StartsTrue, QueuedOnce, TypeOK
    <2> QED BY <1>20, <2>2, <2>3 DEF QueueStart
  <1>21. CASE SendStart
    BY <1>21, AnswersSame DEF SendStart, InGrease, threads, app, starting, logging, refs
  <1>22. CASE RefFromV8
    BY <1>22, AnswersSame DEF RefFromV8, InGrease, threads, app, starting, logging, refs
  <1>23. CASE SendLog
    BY <1>23, AnswersSame DEF SendLog, InGrease, threads, app, starting, logging, refs
  <1>24. CASE ReturnOverflow
    BY <1>24, AnswersSame DEF ReturnOverflow, InGrease, threads, app, starting, logging, refs
  <1>25. ASSUME NEW b \in Banks, Write(b)
        PROVE  (StartsTrue /\ QueuedOnce)'
    BY <1>25, AnswersSame DEF Write, InGrease, threads, app, starting, logging, refs
  <1>26. CASE UNCHANGED vars
    BY <1>26, AnswersSame DEF vars, threads, app, starting, logging, refs
  <1> QED BY <1>1, <1>2, <1>3, <1>4, <1>5, <1>6, <1>7, <1>8, <1>9, <1>10, <1>11,
      <1>12, <1>13, <1>14, <1>15, <1>16, <1>17, <1>18, <1>19, <1>20, <1>21, <1>22,
      <1>23, <1>24, <1>25, <1>26
    DEF Next, Loop, Js, Completions, Signals

\* The finish callback of addTarget() tells the truth: an id is that of a target in the table,
\* an error that of none, and no start is answered a second time (callTargetCallback).
THEOREM AnswersAreTrue == Spec => []AnswersTrue
  <1>1. Init => TypeOK /\ StartsTrue /\ QueuedOnce
    BY TypeInit, AnswersInit
  <1>2. TypeOK /\ StartsTrue /\ QueuedOnce /\ [Next]_vars => (TypeOK /\ StartsTrue /\ QueuedOnce)'
    BY TypeNext, AnswersNext
  <1>3. TypeOK /\ StartsTrue /\ QueuedOnce => AnswersTrue
    BY DEF TypeOK, StartsTrue, QueuedOnce, AnswersTrue, Outstanding
  <1> QED BY <1>1, <1>2, <1>3, PTL DEF Spec

-----------------------------------------------------------------------------
(* The reference that the finish callbacks hold                              *)

Answered == \E t \in Targets : start[t] \in {"started", "failed"}

\* Until the first answer the reference stays: a turn of the loop that could take it away
\* finds an answer in the queue, since one was queued, or dropped for a full queue, before
\* every signal.
FirstAnswer ==
  /\ (\E t \in Targets : Outstanding(t)) => targetRef
  /\ targetSent \/ v8 = "starts" \/ grease = "send_start" => targetCallbackQueue # <<>>
  /\ v8 # "start_cb"

ReferenceInv == (Answered \/ FirstAnswer) /\ (ended = "exit" => ~targetRef)

\* Some start was answered, and stays so, or none is answered yet.
LEMMA AnsweredStays ==
  ASSUME TypeOK, QueuedOnce, [Next]_vars, Answered
  PROVE  Answered'
  <1>1. start \in [Targets -> {"new", "opening", "opening_default", "opened", "not_opened",
                               "started", "failed", "silent", "dropped"}]
    BY DEF TypeOK
  <1>2. ASSUME UNCHANGED start PROVE Answered'
    BY <1>2 DEF Answered
  <1>3. ASSUME NEW t \in Targets, NEW s, start' = [start EXCEPT ![t] = s],
               start[t] \notin {"started", "failed"} \/ s \in {"started", "failed"}
        PROVE  Answered'
    BY <1>1, <1>3 DEF Answered
  <1>4. CASE \/ Poll \/ StartDone \/ NoMoreStarts \/ LookLogs \/ TakeLog \/ LogDone \/ NoMoreLogs
             \/ LookRef \/ Exit
    BY <1>2, <1>4 DEF Poll, StartDone, NoMoreStarts, LookLogs, TakeLog, LogDone, NoMoreLogs, LookRef,
       Exit, starting
  <1>5. CASE TakeStart
    <2>1. Head(targetCallbackQueue) \in Targets
      BY <1>5 DEF TakeStart, TypeOK
    <2>2. \E ok \in BOOLEAN : start' = [start EXCEPT ![Head(targetCallbackQueue)] = Answer(ok)]
      <3>1. start' = [start EXCEPT ![Head(targetCallbackQueue)] =
                        Answer(start[Head(targetCallbackQueue)] = "opened")]
        BY <1>1, <1>5, <2>1 DEF TakeStart
      <3> QED BY <3>1
    <2> QED BY <1>3, <2>1, <2>2 DEF Answer
  <1>6. CASE Start \/ ModifyDefaultTty \/ Finish \/ SendStart \/ RefFromV8 \/ SendLog \/ ReturnOverflow
    BY <1>2, <1>6 DEF Start, ModifyDefaultTty, Finish, SendStart, RefFromV8, SendLog,
       ReturnOverflow, starting
  <1>7. ASSUME NEW t \in Targets, NEW ok \in BOOLEAN, AddFile(t) \/ ModifyDefaultFile(t)
               \/ AddTty(t, ok) \/ Opened(t, ok) \/ DefaultOpened(t, ok)
        PROVE  Answered'
    BY <1>3, <1>7 DEF AddFile, ModifyDefaultFile, AddTty, Opened, DefaultOpened
  <1>8. ASSUME NEW b \in Banks, ReturnBank(b) \/ Write(b) PROVE Answered'
    BY <1>2, <1>8 DEF ReturnBank, Write, starting
  <1>9. CASE QueueStart
    <2>1. CASE UNCHANGED start
      BY <1>2, <2>1
    <2>2. CASE start' = [start EXCEPT ![work] = "dropped"]
      <3>1. work \in Targets
        BY <1>9 DEF QueueStart, InGrease, TypeOK
      <3>2. start[work] \in {"opened", "not_opened"}
        BY <1>9 DEF QueueStart, InGrease, QueuedOnce
      <3> QED BY <1>3, <2>2, <3>1, <3>2
    <2> QED BY <1>9, <2>1, <2>2 DEF QueueStart
  <1>10. CASE UNCHANGED vars
    BY <1>2, <1>10 DEF vars, starting
  <1> QED BY <1>4, <1>5, <1>6, <1>7, <1>8, <1>9, <1>10 DEF Next, Loop, Js, Completions, Signals

LEMMA ReferenceInit == Init => ReferenceInv
  BY DEF Init, ReferenceInv, FirstAnswer, Outstanding

LEMMA FirstAnswerStays ==
  ASSUME TypeOK, QueuedOnce, ReferenceInv, [Next]_vars, ~Answered, ~Answered'
  PROVE  FirstAnswer'
  <1>1. /\ start \in [Targets -> {"new", "opening", "opening_default", "opened", "not_opened",
                                  "started", "failed", "silent", "dropped"}]
        /\ targetCallbackQueue \in Seq(Targets)
        /\ grease = "queue_start" => work \in Targets
    BY DEF TypeOK
  <1>2. /\ \A t \in Targets : Outstanding(t) => targetRef
        /\ targetSent \/ v8 = "starts" \/ grease = "send_start" => targetCallbackQueue # <<>>
        /\ v8 # "start_cb"
    BY DEF ReferenceInv, FirstAnswer
  <1>3. ASSUME UNCHANGED <<start, targetRef, targetCallbackQueue>>,
               v8' # "start_cb",
               targetSent' \/ v8' = "starts" \/ grease' = "send_start" =>
                 targetSent \/ v8 = "starts" \/ grease = "send_start"
        PROVE  FirstAnswer'
    BY <1>2, <1>3 DEF FirstAnswer, Outstanding
  <1>4. CASE Poll \/ LookLogs \/ TakeLog \/ LogDone \/ NoMoreLogs \/ LookRef \/ Exit
    BY <1>2, <1>3, <1>4 DEF Poll, LookLogs, TakeLog, LogDone, NoMoreLogs, LookRef, Exit, InV8, starting
  <1>5. CASE TakeStart
    <2>1. Head(targetCallbackQueue) \in Targets
      BY <1>1, <1>5 DEF TakeStart
    <2>2. start'[Head(targetCallbackQueue)] \in {"started", "failed"}
      BY <1>1, <1>5, <2>1 DEF TakeStart, Answer
    <2> QED BY <2>1, <2>2 DEF Answered
  <1>6. CASE StartDone
    BY <1>2, <1>6 DEF StartDone, InV8
  <1>7. CASE NoMoreStarts
    BY <1>2, <1>7 DEF NoMoreStarts, InV8
  <1>8. CASE Start \/ ModifyDefaultTty \/ Finish \/ RefFromV8 \/ SendLog \/ ReturnOverflow
    BY <1>2, <1>3, <1>8 DEF Start, ModifyDefaultTty, Finish, RefFromV8, SendLog, ReturnOverflow,
       threads, starting
  <1>9. CASE SendStart
    <2>1. /\ grease = "send_start" /\ targetSent' = TRUE /\ UNCHANGED v8
          /\ UNCHANGED <<start, targetRef, targetCallbackQueue>>
      BY <1>9 DEF SendStart, InGrease
    <2> QED BY <1>2, <1>3, <2>1
  <1>10. ASSUME NEW b \in Banks, ReturnBank(b) \/ Write(b) PROVE FirstAnswer'
    BY <1>2, <1>3, <1>10 DEF ReturnBank, Write, InGrease, threads, starting
  <1>11. ASSUME NEW t \in Targets, NEW ok \in BOOLEAN,
                AddFile(t) \/ ModifyDefaultFile(t) \/ AddTty(t, ok)
         PROVE  FirstAnswer'
    <2>1. /\ UNCHANGED <<targetCallbackQueue, targetSent, grease, v8>>
          /\ targetRef' = TRUE \/ (targetRef' = targetRef /\ ModifyDefaultFile(t))
      BY <1>11 DEF AddFile, ModifyDefaultFile, AddTty, threads, RefForStart
    <2>2. CASE targetRef' = TRUE
      BY <1>2, <2>1, <2>2 DEF FirstAnswer
    <2>3. CASE targetRef' = targetRef /\ ModifyDefaultFile(t)
      <3>1. \A u \in Targets : Outstanding(u)' => Outstanding(u)
        BY <1>1, <2>3 DEF ModifyDefaultFile, Outstanding
      <3> QED BY <1>2, <2>1, <2>3, <3>1 DEF FirstAnswer
    <2> QED BY <2>1, <2>2, <2>3
  <1>12. ASSUME NEW t \in Targets, NEW ok \in BOOLEAN, Opened(t, ok) \/ DefaultOpened(t, ok)
         PROVE  FirstAnswer'
    <2>1. /\ UNCHANGED <<targetCallbackQueue, targetSent, targetRef, v8>>
          /\ UNCHANGED grease \/ grease' = "queue_start"
      BY <1>12 DEF Opened, DefaultOpened, threads
    <2>2. \A u \in Targets : Outstanding(u)' => Outstanding(u)
      BY <1>1, <1>12 DEF Opened, DefaultOpened, Outstanding
    <2> QED BY <1>2, <2>1, <2>2 DEF FirstAnswer
  <1>13. CASE QueueStart
    <2>1. /\ UNCHANGED <<targetSent, targetRef, v8>> /\ work \in Targets
          /\ \/ /\ targetCallbackQueue' = Append(targetCallbackQueue, work) /\ UNCHANGED start
             \/ /\ ~StartRoom /\ UNCHANGED targetCallbackQueue
                /\ start' = [start EXCEPT ![work] = "dropped"]
      BY <1>1, <1>13 DEF QueueStart, InGrease
    <2>2. \A u \in Targets : Outstanding(u)' => Outstanding(u)
      BY <1>1, <2>1 DEF Outstanding
    <2>3. targetCallbackQueue' # <<>>
      <3>1. CASE targetCallbackQueue' = Append(targetCallbackQueue, work)
        BY <1>1, <2>1, <3>1
      <3>2. CASE ~StartRoom /\ UNCHANGED targetCallbackQueue
        BY <3>2, LifecycleAssumption DEF StartRoom
      <3> QED BY <2>1, <3>1, <3>2
    <2> QED BY <1>2, <2>1, <2>2, <2>3 DEF FirstAnswer
  <1>14. CASE UNCHANGED vars
    BY <1>2, <1>3, <1>14 DEF vars, threads, starting
  <1> QED BY <1>4, <1>5, <1>6, <1>7, <1>8, <1>9, <1>10, <1>11, <1>12, <1>13, <1>14
      DEF Next, Loop, Js, Completions, Signals

\* A process that has ended does nothing; one that ends has let go of the reference.
LEMMA ExitStays ==
  ASSUME [Next]_vars, ended = "exit" => ~targetRef
  PROVE  ended' = "exit" => ~targetRef'
  <1>1. CASE ended = "exit"
    <2>1. ~Running
      BY <1>1 DEF Running
    <2>2. UNCHANGED vars
      <3>1. ~Loop
        BY <2>1 DEF Loop, Poll, TakeStart, StartDone, NoMoreStarts, LookLogs, TakeLog, LogDone,
           NoMoreLogs, LookRef, Exit, InV8
      <3>2. ~Js
        BY <2>1 DEF Js, Start, ModifyDefaultTty, Finish, AddFile, ModifyDefaultFile, AddTty, InJs,
           InV8
      <3>3. ~Completions /\ ~Signals /\ ~ReturnOverflow /\ ~\E b \in Banks : Write(b)
        BY <2>1 DEF Completions, Signals, Opened, DefaultOpened, ReturnBank, QueueStart, SendStart,
           RefFromV8, SendLog, ReturnOverflow, Write, InGrease
      <3> QED BY <3>1, <3>2, <3>3 DEF Next
    <2> QED BY <1>1, <2>2 DEF vars, threads, starting
  <1>2. CASE ended # "exit"
    <2>1. ASSUME UNCHANGED ended PROVE ended' # "exit"
      BY <1>2, <2>1
    <2>2. CASE Exit
      BY <2>2 DEF Exit, Alive, starting
    <2>3. CASE LogDone
      BY <1>2, <2>3 DEF LogDone
    <2>4. CASE \/ Poll \/ TakeStart \/ StartDone \/ NoMoreStarts \/ LookLogs \/ TakeLog
               \/ NoMoreLogs \/ LookRef
      BY <2>1, <2>4 DEF Poll, TakeStart, StartDone, NoMoreStarts, LookLogs, TakeLog, NoMoreLogs,
         LookRef
    <2>5. CASE Js
      BY <2>1, <2>5 DEF Js, Start, ModifyDefaultTty, Finish, AddFile, ModifyDefaultFile, AddTty,
         threads
    <2>6. CASE Completions \/ Signals \/ ReturnOverflow \/ \E b \in Banks : Write(b)
      BY <2>1, <2>6 DEF Completions, Signals, Opened, DefaultOpened, ReturnBank, QueueStart,
         SendStart, RefFromV8, SendLog, ReturnOverflow, Write, threads
    <2>7. CASE UNCHANGED vars
      BY <2>1, <2>7 DEF vars, threads
    <2> QED BY <2>2, <2>3, <2>4, <2>5, <2>6, <2>7 DEF Next, Loop
  <1> QED BY <1>1, <1>2

\* The process does not end by itself with a finish callback to come before it made the
\* first one: the uv_ref() of asyncTargetCallback that a start takes is undone only by a turn
\* of callTargetCallback() that found an answer.
THEOREM NoExitBeforeAny == Spec => []ExitNotBeforeAny
  <1>1. Init => TypeOK /\ StartsTrue /\ QueuedOnce /\ ReferenceInv
    BY TypeInit, AnswersInit, ReferenceInit
  <1>2. TypeOK /\ StartsTrue /\ QueuedOnce /\ ReferenceInv /\ [Next]_vars
          => (TypeOK /\ StartsTrue /\ QueuedOnce /\ ReferenceInv)'
    <2> SUFFICES ASSUME TypeOK, StartsTrue, QueuedOnce, ReferenceInv, [Next]_vars
                 PROVE  TypeOK' /\ StartsTrue' /\ QueuedOnce' /\ ReferenceInv'
      OBVIOUS
    <2>1. Answered' \/ FirstAnswer'
      BY AnsweredStays, FirstAnswerStays
    <2>2. (ended = "exit" => ~targetRef)'
      BY ExitStays DEF ReferenceInv
    <2> QED BY TypeNext, AnswersNext, <2>1, <2>2 DEF ReferenceInv
  <1>3. ReferenceInv => ExitNotBeforeAny
    BY DEF ReferenceInv, FirstAnswer, Answered, ExitNotBeforeAny
  <1> QED BY <1>1, <1>2, <1>3, PTL DEF Spec
=============================================================================
