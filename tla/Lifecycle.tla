------------------------------ MODULE Lifecycle ------------------------------
(***************************************************************************)
(* What keeps the node process alive for the logger, and how the V8 thread   *)
(* hears from the grease thread: the start of targets, which ends in the     *)
(* finish callback of addTarget(), and the banks and overflow messages of a  *)
(* target with a log callback.  Both come through a bounded queue and a      *)
(* uv_async_t; both hold a reference on a uv handle, without which the       *)
(* process may end.                                                        *)
(*                                                                         *)
(* Every target is added with a finish callback.  A definition X_Y is X with *)
(* the mistake Y.                                                          *)
(***************************************************************************)
EXTENDS Integers, FiniteSets, Sequences

CONSTANTS
  Targets,             \* the targets the application adds
  Banks,               \* the banks of the targets with a log callback
  MaxStarts,           \* MAX_TARGET_CALLBACK_STACK
  MaxCallbacks,        \* V8_LOG_CALLBACK_QUEUE_SIZE
  MaxWrites            \* bound

ASSUME LifecycleAssumption ==
  /\ MaxStarts \in Nat \ {0} /\ MaxCallbacks \in Nat \ {0} /\ MaxWrites \in Nat
  /\ Targets \cap Banks = {} /\ "overflow" \notin Banks /\ "none" \notin Targets \cup Banks

VARIABLES
  v8, ended,           \* where the V8 thread stands; "no", or how the process ended
  busy,                \* the application has work of its own that keeps the loop alive
  started,             \* start() was called: the grease thread runs
  start, defaultTarget, targets,   \* how far a start is; the tables of logger.h
  targetCallbackQueue, targetRef, targetSent,   \* asyncTargetCallback: referenced, pending
  v8LogCallbacks, logSent,             \* asyncV8LogCallback: pending
  needV8, loggerRef, refSent,          \* asyncRefLogger: referenced, pending
  inHand,              \* what JavaScript is being called with
  grease, work,        \* where the grease thread stands, and what it works on
  bank,                \* where each bank is
  writes, leaked       \* history: banks and overflow messages written; overflow messages
                       \* whose callback was skipped

threads == <<v8, inHand, grease, work, ended>>
app == <<busy, started>>
starting == <<start, defaultTarget, targets, targetCallbackQueue, targetRef, targetSent>>
logging == <<v8LogCallbacks, logSent, bank, writes, leaked>>
refs == <<needV8, loggerRef, refSent>>
vars == <<threads, app, starting, logging, refs>>

Init ==
  /\ v8 = "app" /\ ended = "no" /\ busy = TRUE /\ started = FALSE
  /\ start = [t \in Targets |-> "new"] /\ defaultTarget = "none" /\ targets = {}
  /\ targetCallbackQueue = <<>> /\ targetRef = FALSE /\ targetSent = FALSE
  /\ v8LogCallbacks = <<>> /\ logSent = FALSE
  /\ needV8 = 0 /\ loggerRef = FALSE /\ refSent = FALSE
  /\ inHand = "none" /\ grease = "idle" /\ work = "none"
  /\ bank = [b \in Banks |-> "avail"] /\ writes = 0 /\ leaked = 0

Running == ended = "no"
InV8(where) == Running /\ v8 = where
InGrease(where) == Running /\ started /\ grease = where

-----------------------------------------------------------------------------
(* JavaScript: start(), addTarget(), modifyDefaultTarget()                   *)

\* JavaScript runs between the callbacks of the loop and in those of the logger.
InJs == Running /\ ((v8 = "app" /\ busy) \/ v8 \in {"start_cb", "log_cb"})

\* targetReady(): the table gets a target that could be opened.
Registered_Always(t, ok) == targets \cup {t}
Registered(t, ok) == IF ok THEN targets \cup {t} ELSE targets

Answer(ok) == IF ok THEN "started" ELSE "failed"

\* The default target is a terminal; its start callback is called at once.
Start ==
  /\ InJs /\ ~started /\ started' = TRUE
  /\ defaultTarget' \in {defaultTarget, "tty"}
  /\ UNCHANGED <<threads, busy, start, targets, targetCallbackQueue, targetRef, targetSent,
                 logging, refs>>

\* A terminal is opened, and its callback called, before addTarget() returns; nothing
\* undoes the uv_ref().
AddTty(t, ok) ==
  /\ InJs /\ start[t] = "new"
  /\ start' = [start EXCEPT ![t] = Answer(ok)]
  /\ targets' = Registered(t, ok)
  /\ targetRef' = TRUE
  /\ UNCHANGED <<threads, app, defaultTarget, targetCallbackQueue, targetSent, logging, refs>>

\* A file is opened in the thread pool of the grease thread's loop.
RefForStart_Forgotten == targetRef
RefForStart == TRUE
AddFile(t) ==
  /\ InJs /\ start[t] = "new"
  /\ start' = [start EXCEPT ![t] = "opening"]
  /\ targetRef' = RefForStart
  /\ UNCHANGED <<threads, app, defaultTarget, targets, targetCallbackQueue, targetSent,
                 logging, refs>>

\* modifyDefaultTarget({file: ...}) keeps the callback it is given and never calls it.
ModifyDefaultFile(t) ==
  /\ InJs /\ start[t] = "new"
  /\ start' = [start EXCEPT ![t] = "opening_default"]
  /\ UNCHANGED <<threads, app, defaultTarget, targets, targetCallbackQueue, targetRef,
                 targetSent, logging, refs>>

ModifyDefaultTty ==
  /\ InJs /\ defaultTarget' \in {defaultTarget, "tty"}
  /\ UNCHANGED <<threads, app, start, targets, targetCallbackQueue, targetRef, targetSent,
                 logging, refs>>

\* The application has nothing more to do of its own.
Finish ==
  /\ InV8("app") /\ busy /\ busy' = FALSE
  /\ UNCHANGED <<threads, started, starting, logging, refs>>

-----------------------------------------------------------------------------
(* The grease thread                                                        *)

\* on_open(), targetReady()
Opened(t, ok) ==
  /\ InGrease("idle") /\ start[t] = "opening"
  /\ targets' = Registered(t, ok)
  /\ start' = [start EXCEPT ![t] = IF ok THEN "opened" ELSE "not_opened"]
  /\ grease' = "queue_start" /\ work' = t
  /\ UNCHANGED <<v8, inHand, ended, app, defaultTarget, targetCallbackQueue, targetRef,
                 targetSent, logging, refs>>

DefaultOpened(t, ok) ==
  /\ InGrease("idle") /\ start[t] = "opening_default"
  /\ start' = [start EXCEPT ![t] = "silent"]
  /\ defaultTarget' = IF ok THEN t ELSE defaultTarget
  /\ UNCHANGED <<threads, app, targets, targetCallbackQueue, targetRef, targetSent, logging,
                 refs>>

\* start_target_cb() waits two seconds for room.
StartRoom_OneMore == Len(targetCallbackQueue) <= MaxStarts
StartRoom == Len(targetCallbackQueue) < MaxStarts
QueueStart ==
  /\ InGrease("queue_start")
  /\ \/ /\ StartRoom
        /\ targetCallbackQueue' = Append(targetCallbackQueue, work) /\ UNCHANGED start
     \/ /\ ~StartRoom
        /\ start' = [start EXCEPT ![work] = "dropped"] /\ UNCHANGED targetCallbackQueue
  /\ grease' = "send_start"
  /\ UNCHANGED <<v8, inHand, work, ended, app, defaultTarget, targets, targetRef, targetSent,
                 logging, refs>>

SendStart ==
  /\ InGrease("send_start") /\ targetSent' = TRUE
  /\ grease' = "idle" /\ work' = "none"
  /\ UNCHANGED <<v8, inHand, ended, app, start, defaultTarget, targets, targetCallbackQueue,
                 targetRef, logging, refs>>

\* A bank of a target with a log callback goes to be written.
Write(b) ==
  /\ InGrease("idle") /\ targets # {} /\ bank[b] = "avail"
  /\ writes < MaxWrites /\ writes' = writes + 1
  /\ bank' = [bank EXCEPT ![b] = "writing"]
  /\ UNCHANGED <<threads, app, starting, v8LogCallbacks, logSent, leaked, refs>>

CallbackRoom == Len(v8LogCallbacks) < MaxCallbacks

\* returnBuffer() of a bank: if the queue is full the callback is skipped.
ReturnBank(b) ==
  /\ InGrease("idle") /\ bank[b] = "writing"
  /\ \/ /\ CallbackRoom /\ v8LogCallbacks' = Append(v8LogCallbacks, b)
        /\ bank' = [bank EXCEPT ![b] = "queued"]
        /\ grease' = "ref" /\ work' = b
     \/ /\ ~CallbackRoom /\ bank' = [bank EXCEPT ![b] = "avail"]
        /\ UNCHANGED <<v8LogCallbacks, grease, work>>
  /\ UNCHANGED <<v8, inHand, ended, app, starting, logSent, writes, leaked, refs>>

\* returnBuffer() of an overflow message takes its reference in any case.
ReturnOverflow ==
  /\ InGrease("idle") /\ targets # {} /\ writes < MaxWrites
  /\ writes' = writes + 1
  /\ \/ CallbackRoom /\ v8LogCallbacks' = Append(v8LogCallbacks, "overflow")
        /\ UNCHANGED leaked
     \/ ~CallbackRoom /\ leaked' = leaked + 1 /\ UNCHANGED v8LogCallbacks
  /\ grease' = "ref" /\ work' = "overflow"
  /\ UNCHANGED <<v8, inHand, ended, app, starting, logSent, bank, refs>>

\* refFromV8()
Counted_Once == IF needV8 = 0 THEN 1 ELSE needV8
Counted == needV8 + 1
RefFromV8 ==
  /\ InGrease("ref")
  /\ needV8' = Counted /\ refSent' = (refSent \/ needV8 = 0)
  /\ grease' = "send_log"
  /\ UNCHANGED <<v8, inHand, work, ended, app, starting, logging, loggerRef>>

LogSignal_Never == logSent
LogSignal == TRUE
SendLog ==
  /\ InGrease("send_log") /\ logSent' = LogSignal
  /\ grease' = "idle" /\ work' = "none"
  /\ UNCHANGED <<v8, inHand, ended, app, starting, v8LogCallbacks, bank, writes, leaked,
                 refs>>

-----------------------------------------------------------------------------
(* The loop of the V8 thread.  Each turn looks at the async handles in the    *)
(* order of their uv_async_init().                                          *)

Alive == busy \/ targetRef \/ loggerRef

Poll ==
  /\ InV8("app") /\ Alive /\ (targetSent \/ logSent \/ refSent)
  /\ v8' = IF targetSent THEN "starts" ELSE "look_logs"
  /\ targetSent' = FALSE
  /\ UNCHANGED <<inHand, grease, work, ended, app, start, defaultTarget, targets,
                 targetCallbackQueue, targetRef, logging, refs>>

\* callTargetCallback()
TakeStart ==
  /\ InV8("starts") /\ targetCallbackQueue # <<>>
  /\ LET t == Head(targetCallbackQueue) IN
       /\ start' = [start EXCEPT ![t] = Answer(@ = "opened")] /\ inHand' = t
  /\ targetCallbackQueue' = Tail(targetCallbackQueue) /\ v8' = "start_cb"
  /\ UNCHANGED <<grease, work, ended, app, defaultTarget, targets, targetRef, targetSent,
                 logging, refs>>

StartDone ==
  /\ InV8("start_cb") /\ v8' = "starts" /\ inHand' = "none"
  /\ UNCHANGED <<grease, work, ended, app, starting, logging, refs>>

NoMoreStarts ==
  /\ InV8("starts") /\ targetCallbackQueue = <<>>
  /\ targetRef' = FALSE /\ v8' = "look_logs"
  /\ UNCHANGED <<inHand, grease, work, ended, app, start, defaultTarget, targets,
                 targetCallbackQueue, targetSent, logging, refs>>

LookLogs ==
  /\ InV8("look_logs") /\ v8' = IF logSent THEN "logs" ELSE "look_ref"
  /\ logSent' = FALSE
  /\ UNCHANGED <<inHand, grease, work, ended, app, starting, v8LogCallbacks, bank, writes,
                 leaked, refs>>

\* callV8LogCallbacks(), _doV8Callback()
TakeLog ==
  /\ InV8("logs") /\ v8LogCallbacks # <<>>
  /\ inHand' = Head(v8LogCallbacks) /\ v8LogCallbacks' = Tail(v8LogCallbacks)
  /\ v8' = "log_cb"
  /\ UNCHANGED <<grease, work, ended, app, starting, logSent, bank, writes, leaked, refs>>

\* unrefFromV8_inV8(), after finalizeV8Callback() for a bank.
MayGo_OneEarly(n) == n <= 1
MayGo(n) == n = 0
LogDone ==
  /\ InV8("log_cb") /\ inHand' = "none"
  /\ bank' = IF inHand \in Banks THEN [bank EXCEPT ![inHand] = "avail"] ELSE bank
  /\ \/ /\ needV8 = 0 /\ ended' = "abort" /\ UNCHANGED <<v8, needV8, loggerRef>>
     \/ /\ needV8 > 0 /\ needV8' = needV8 - 1 /\ v8' = "logs" /\ UNCHANGED ended
        /\ loggerRef' = (loggerRef /\ ~MayGo(needV8'))
  /\ UNCHANGED <<grease, work, app, starting, v8LogCallbacks, logSent, writes, leaked,
                 refSent>>

NoMoreLogs ==
  /\ InV8("logs") /\ v8LogCallbacks = <<>> /\ v8' = "look_ref"
  /\ UNCHANGED <<inHand, grease, work, ended, app, starting, logging, refs>>

\* refCb_Logger() does not look at needV8.
LookRef ==
  /\ InV8("look_ref") /\ v8' = "app"
  /\ loggerRef' = (loggerRef \/ refSent) /\ refSent' = FALSE
  /\ UNCHANGED <<inHand, grease, work, ended, app, starting, logging, needV8>>

\* Nothing keeps the loop: the process ends, whatever the grease thread is doing.
Exit ==
  /\ InV8("app") /\ ~Alive /\ ended' = "exit"
  /\ UNCHANGED <<v8, inHand, grease, work, app, starting, logging, refs>>

-----------------------------------------------------------------------------
Loop == \/ Poll \/ TakeStart \/ StartDone \/ NoMoreStarts \/ LookLogs \/ TakeLog \/ LogDone
        \/ NoMoreLogs \/ LookRef \/ Exit

Js == \/ Start \/ ModifyDefaultTty \/ Finish
      \/ \E t \in Targets : \/ AddFile(t) \/ ModifyDefaultFile(t)
                            \/ \E ok \in BOOLEAN : AddTty(t, ok)

\* What the thread pool and the terminals finish, and what follows from it.
Completions == \/ \E t \in Targets, ok \in BOOLEAN : Opened(t, ok) \/ DefaultOpened(t, ok)
               \/ \E b \in Banks : ReturnBank(b)
Signals == QueueStart \/ SendStart \/ RefFromV8 \/ SendLog

Next == Loop \/ Js \/ Completions \/ Signals \/ ReturnOverflow \/ \E b \in Banks : Write(b)

Spec == Init /\ [][Next]_vars

\* The loop turns, JavaScript callbacks return, opens and writes end, the grease thread runs.
FairSpec == Spec /\ WF_vars(Loop) /\ WF_vars(Completions \/ Signals)

-----------------------------------------------------------------------------
(* Properties                                                               *)

\* The types of the variables.
TypeOK ==
  /\ v8 \in {"app", "starts", "start_cb", "look_logs", "logs", "log_cb", "look_ref"}
  /\ ended \in {"no", "exit", "abort"} /\ busy \in BOOLEAN /\ started \in BOOLEAN
  /\ start \in [Targets -> {"new", "opening", "opening_default", "opened", "not_opened",
                            "started", "failed", "silent", "dropped"}]
  /\ defaultTarget \in Targets \cup {"none", "tty"} /\ targets \subseteq Targets
  /\ targetCallbackQueue \in Seq(Targets) /\ Len(targetCallbackQueue) <= MaxStarts
  /\ targetRef \in BOOLEAN /\ targetSent \in BOOLEAN
  /\ v8LogCallbacks \in Seq(Banks \cup {"overflow"}) /\ Len(v8LogCallbacks) <= MaxCallbacks
  /\ logSent \in BOOLEAN /\ loggerRef \in BOOLEAN /\ refSent \in BOOLEAN
  /\ needV8 \in Nat /\ leaked \in Nat /\ writes \in 0..MaxWrites
  /\ inHand \in Targets \cup Banks \cup {"overflow", "none"}
  /\ grease \in {"idle", "queue_start", "send_start", "ref", "send_log"}
  /\ work \in Targets \cup Banks \cup {"overflow", "none"}
  /\ grease = "queue_start" => work \in Targets
  /\ bank \in [Banks -> {"avail", "writing", "queued"}]

One(condition) == IF condition THEN 1 ELSE 0

\* While the process runs, needV8 is the number of log callbacks that are queued or being
\* made, and of those skipped for a full queue that nobody will ever give back, but for
\* one whose reference the grease thread is about to take.
RefsCounted ==
  Running =>
    needV8 + One(grease = "ref") = Len(v8LogCallbacks) + One(v8 = "log_cb") + leaked

\* When JavaScript is needed the handle is referenced, or the request to do so is on its
\* way: the process ends with a callback in the queue only between the two.
V8RefCovers == needV8 > 0 => loggerRef \/ refSent

Outstanding(t) == start[t] \in {"opening", "opened", "not_opened"}

\* A finish callback that got the id of a target belongs to one that messages are routed
\* to, and one that got an error does not; an answer that is still queued is that of a
\* target which was opened.
AnswersTrue ==
  /\ \A t \in Targets : /\ start[t] \in {"opened", "started"} => t \in targets
                        /\ start[t] \in {"not_opened", "failed"} => t \notin targets
  /\ \A i \in DOMAIN targetCallbackQueue : Outstanding(targetCallbackQueue[i])

\* The process does not end by itself while a finish callback is to come, unless the
\* answer of another start has taken away the reference.
ExitNotBeforeAny ==
  ended = "exit" /\ (\E t \in Targets : Outstanding(t)) =>
    \E t \in Targets : start[t] \in {"started", "failed"}

\* Whatever is given to the grease thread comes back, unless the process ends: each start
\* is answered, or dropped for a full queue, and each bank is free again.
AllComesBack ==
  /\ \A t \in Targets : Outstanding(t) /\ started ~> ~Outstanding(t) \/ ~Running
  /\ \A b \in Banks : bank[b] # "avail" ~> bank[b] = "avail" \/ ~Running
=============================================================================
