--------------------------- MODULE GreasePipeline ---------------------------
(***************************************************************************)
(* The logging pipeline of greaseLog: a message enters through a producer  *)
(* thread (the V8 thread, a native caller, a sink listener), is copied into *)
(* a master buffer, travels through internalCmdQueue to the grease thread,  *)
(* is written by it into the current bank of every target its filters name, *)
(* and leaves a bank through an asynchronous write (TTY, file) or a JS      *)
(* callback.  The V8 thread may call flush() while all this goes on.        *)
(*                                                                         *)
(* One action is one stretch of code the other threads cannot see inside:   *)
(* a section under one mutex, one operation on a tw_safeCircular (TwCircular *)
(* models those), one libuv callback.  The filters a message matches are     *)
(* fixed here (Route); free banks and free master buffers are sets, because *)
(* nothing depends on the order in which they are used again.               *)
(*                                                                         *)
(* A definition X_Y is X with the mistake Y, which some property must catch. *)
(***************************************************************************)
EXTENDS Integers, Sequences, FiniteSets

CONSTANTS
  Producers,     \* threads that call log()
  Msgs,          \* the messages logged, each at most once: the bound of a run
  Masters,       \* the singleLogs of masterBufferAvail (PRIMARY_BUFFER_ENTRIES)
  Targets,       \* the log targets, the default one included
  None,          \* no message, buffer, bank or target
  NumBanks,      \* NUM_BANKS
  QueueSize,     \* INTERNAL_QUEUE_SIZE
  CbQueueSize,   \* V8_LOG_CALLBACK_QUEUE_SIZE
  BankSpace,     \* bankSize of a target
  BufferSize,    \* Opts.bufferSize, the space of a master buffer
  Header, Delim, \* what putsHeader/putsFooter and the delimiter add to a message
  HeaderRoom,    \* GREASE_MAX_PREFIX_HEADER, what write() reserves for them
  Size,          \* length of each message
  Route,         \* the targets each message is written to, in filter order
  Kind,          \* "tty", "file" or "callback"
  HasCallback,   \* the targets with logCallbackSet
  Switchable,    \* the targets the application disables and enables
  V8Flushes      \* does the application call flush()?

Banks == 0..(NumBanks - 1)
Threads == {"grease", "v8"}

\* A write under way carries a bank or an overflow message, a callback likewise.
WriteReq == [b : Banks, m : {None}] \cup [b : {None}, m : Msgs]
Callback == [t : Targets, b : Banks, m : {None}]
            \cup [t : Targets, b : {None}, m : Msgs]

ASSUME PipelineAssumption ==
  /\ NumBanks \in Nat \ {0, 1}
  /\ QueueSize \in Nat \ {0} /\ CbQueueSize \in Nat
  /\ BankSpace \in Nat \ {0} /\ BufferSize \in Nat /\ Delim \in Nat
  /\ HeaderRoom \in Nat /\ Header \in 0..HeaderRoom
  /\ Size \in [Msgs -> Nat \ {0}]
  /\ Route \in [Msgs -> Seq(Targets)]
  /\ Kind \in [Targets -> {"tty", "file", "callback"}]
  /\ HasCallback \subseteq Targets /\ Switchable \subseteq Targets
  /\ V8Flushes \in BOOLEAN
  /\ None \notin Msgs \cup Masters \cup Targets \cup Banks \cup Callback

VARIABLES
  \* producers, master buffers, command queue
  unlogged,     \* messages not yet handed to log()
  ppc, pmsg, pbuf,
  masterAvail,
  cmdq,         \* internalCmdQueue
  wake,         \* asyncInternalCommand is pending
  \* the targets
  cur, avail, wout, \* currentBuffer, availBuffers, writeOutBuffers
  data, used,   \* the messages in a bank, and its handle.len
  disabled,     \* targets with _disabled
  fly,          \* writes given to libuv, not yet performed
  fin,          \* writes performed, write_cb not yet run
  cbq,          \* v8LogCallbacks
  needGrease,   \* needGreaseThread: the flush timer runs while it is positive
  \* the threads
  gpc, gmsg, gbuf, groute,  \* handleInternalCmd and logTarget::write
  fpc, fset, ft, fb,        \* flushAll, run by the grease thread or by V8
  vcb,          \* the log callback V8 is running
  out           \* history: what each file, terminal or JS callback got, in order

prodVars == <<unlogged, ppc, pmsg, pbuf>>
bankVars == <<cur, avail, wout, data, used>>
ioVars   == <<fly, fin, out>>
gVars    == <<gpc, gmsg, gbuf, groute>>
fVars    == <<fpc, fset, ft, fb>>
vars == <<prodVars, masterAvail, cmdq, wake, bankVars, disabled, ioVars, cbq,
          needGrease, gVars, fVars, vcb>>

Cmd == [c : {"NEW_LOG"}, m : Msgs, buf : Masters, t : {None}]
       \cup [c : {"ROTATE"}, m : {None}, buf : {None}, t : Targets]
       \cup [c : {"OVERFLOW"}, m : Msgs, buf : {None}, t : {None}]
NewLog(m, buf) == [c |-> "NEW_LOG", m |-> m, buf |-> buf, t |-> None]
RotateCmd(t)   == [c |-> "ROTATE", m |-> None, buf |-> None, t |-> t]
Overflow(m)    == [c |-> "OVERFLOW", m |-> m, buf |-> None, t |-> None]

Init ==
  /\ unlogged = Msgs
  /\ ppc = [p \in Producers |-> "idle"]
  /\ pmsg = [p \in Producers |-> None] /\ pbuf = [p \in Producers |-> None]
  /\ masterAvail = Masters
  /\ cmdq = <<>> /\ wake = FALSE
  /\ cur = [t \in Targets |-> 0] /\ avail = [t \in Targets |-> Banks \ {0}]
  /\ wout = [t \in Targets |-> <<>>]
  /\ data = [t \in Targets |-> [b \in Banks |-> <<>>]]
  /\ used = [t \in Targets |-> [b \in Banks |-> 0]]
  /\ disabled = {}
  /\ fly = [t \in Targets |-> <<>>] /\ fin = [t \in Targets |-> <<>>]
  /\ cbq = <<>> /\ needGrease = 0
  /\ gpc = "idle" /\ gmsg = None /\ gbuf = None /\ groute = <<>>
  /\ fpc = [x \in Threads |-> "none"] /\ fset = [x \in Threads |-> {}]
  /\ ft = [x \in Threads |-> None] /\ fb = [x \in Threads |-> None]
  /\ vcb = None
  /\ out = [t \in Targets |-> <<>>]

QueueHasRoom_OffByOne == Len(cmdq) <= QueueSize
QueueHasRoom == Len(cmdq) < QueueSize

-----------------------------------------------------------------------------
(* Producers: GreaseLogger::_log                                            *)

\* masterBufferAvail.remove()
MastersWithout_Kept(l) == masterAvail
MastersWithout(l) == masterAvail \ {l}

\* A message longer than a master buffer gets a singleLog of its own; any other
\* takes a master buffer, and is dropped when there is none.
LogStart(p) ==
  /\ ppc[p] = "idle"
  /\ \E m \in unlogged :
       /\ unlogged' = unlogged \ {m}
       /\ \/ /\ Size[m] > BufferSize
             /\ ppc' = [ppc EXCEPT ![p] = "enqueue"]
             /\ pmsg' = [pmsg EXCEPT ![p] = m]
             /\ UNCHANGED <<pbuf, masterAvail>>
          \/ /\ Size[m] <= BufferSize
             /\ \E l \in masterAvail :
                  /\ masterAvail' = MastersWithout(l)
                  /\ pbuf' = [pbuf EXCEPT ![p] = l]
             /\ ppc' = [ppc EXCEPT ![p] = "enqueue"]
             /\ pmsg' = [pmsg EXCEPT ![p] = m]
          \/ /\ Size[m] <= BufferSize /\ masterAvail = {}
             /\ UNCHANGED <<ppc, pmsg, pbuf, masterAvail>>
  /\ UNCHANGED <<cmdq, wake, bankVars, disabled, ioVars, cbq, needGrease, gVars,
                 fVars, vcb>>

\* When internalCmdQueue is full the message is dropped, and nothing puts its
\* master buffer back into masterBufferAvail.
LogEnqueue(p) ==
  /\ ppc[p] = "enqueue"
  /\ \/ /\ QueueHasRoom
        /\ cmdq' = Append(cmdq, IF pbuf[p] = None THEN Overflow(pmsg[p])
                                ELSE NewLog(pmsg[p], pbuf[p]))
        /\ ppc' = [ppc EXCEPT ![p] = "send"]
     \/ /\ ~QueueHasRoom
        /\ ppc' = [ppc EXCEPT ![p] = "idle"]
        /\ UNCHANGED cmdq
  /\ pmsg' = [pmsg EXCEPT ![p] = None]
  /\ pbuf' = [pbuf EXCEPT ![p] = None]
  /\ UNCHANGED <<unlogged, masterAvail, wake, bankVars, disabled, ioVars, cbq,
                 needGrease, gVars, fVars, vcb>>

LogSend_Silent(p) ==
  /\ ppc[p] = "send"
  /\ ppc' = [ppc EXCEPT ![p] = "idle"]
  /\ UNCHANGED <<unlogged, pmsg, pbuf, masterAvail, cmdq, wake, bankVars, disabled,
                 ioVars, cbq, needGrease, gVars, fVars, vcb>>

LogSend(p) ==
  /\ ppc[p] = "send"
  /\ ppc' = [ppc EXCEPT ![p] = "idle"]
  /\ wake' = TRUE
  /\ UNCHANGED <<unlogged, pmsg, pbuf, masterAvail, cmdq, bankVars, disabled,
                 ioVars, cbq, needGrease, gVars, fVars, vcb>>

-----------------------------------------------------------------------------
(* The banks of a target                                                    *)

Cleared_NotReset(t, b) == UNCHANGED <<data, used>>
Cleared(t, b) == /\ data' = [data EXCEPT ![t][b] = <<>>]
                 /\ used' = [used EXCEPT ![t][b] = 0]

RotateSucceeds_OneSlotLess(t) == /\ used[t][cur[t]] > 0 /\ avail[t] # {}
                                 /\ Len(wout[t]) < NumBanks - 2
RotateSucceeds(t) == /\ used[t][cur[t]] > 0 /\ avail[t] # {}
                     /\ Len(wout[t]) < NumBanks - 1

FreeAfterRotate_Kept(t, next) == avail[t]
FreeAfterRotate(t, next) == avail[t] \ {next}

\* logTarget::rotate, under writeMutex.  Without a free bank the current one is
\* cleared, and what it held is lost.
Rotate(t) ==
  \/ /\ RotateSucceeds(t)
     /\ \E next \in avail[t] :
          /\ avail' = [avail EXCEPT ![t] = FreeAfterRotate(t, next)]
          /\ cur' = [cur EXCEPT ![t] = next]
     /\ wout' = [wout EXCEPT ![t] = Append(@, cur[t])]
     /\ UNCHANGED <<data, used>>
  \/ /\ ~RotateSucceeds(t) /\ used[t][cur[t]] > 0
     /\ Cleared(t, cur[t])
     /\ UNCHANGED <<cur, avail, wout>>
  \/ /\ used[t][cur[t]] = 0
     /\ UNCHANGED bankVars

\* logBuf::copyIn of header, message, footer and delimiter into the current bank.
CopyIn(t, m) ==
  /\ data' = [data EXCEPT ![t][cur[t]] = Append(@, m)]
  /\ used' = [used EXCEPT ![t][cur[t]] = @ + Size[m] + Header + Delim]

\* logBuf::remain() of the current bank, against what write() wants to copy.
Fits_NoDelim(t, m) == BankSpace - used[t][cur[t]] >= Size[m] + Header
Fits_Strict(t, m) == BankSpace - used[t][cur[t]] - Delim > Size[m] + Header
Fits(t, m) == BankSpace - used[t][cur[t]] - Delim >= Size[m] + Header

\* returnBuffer(logBuf *): the grease reference goes, then the bank waits for its
\* JS callback or is free again.
ReturnBank(t, b) ==
  /\ needGrease' = IF used[t][b] > 0 THEN needGrease - 1 ELSE needGrease
  /\ \/ /\ t \in HasCallback /\ used[t][b] > 0 /\ Len(cbq) < CbQueueSize
        /\ cbq' = Append(cbq, [t |-> t, b |-> b, m |-> None])
        /\ UNCHANGED <<avail, data, used>>
     \/ /\ t \notin HasCallback \/ used[t][b] = 0 \/ Len(cbq) = CbQueueSize
        /\ Cleared(t, b)
        /\ avail' = [avail EXCEPT ![t] = @ \cup {b}]
        /\ UNCHANGED cbq
  /\ UNCHANGED <<cur, wout>>

\* The callback half of returnBuffer(overflowWriteOut *).
QueueOverflowCallback(t, m) ==
  cbq' = IF t \in HasCallback /\ Len(cbq) < CbQueueSize
         THEN Append(cbq, [t |-> t, b |-> None, m |-> m]) ELSE cbq

-----------------------------------------------------------------------------
(* logTarget::flushAll, run by thread x over the targets of fset[x]: by the   *)
(* grease thread for the flush timer, for TARGET_ROTATE_BUFFER and before an  *)
(* overflow write, by the V8 thread for flush().                              *)

\* flushAll() is called on the targets of S, one after the other.
BeginFlush(x, S) ==
  /\ fpc' = [fpc EXCEPT ![x] = "rotate"]
  /\ fset' = [fset EXCEPT ![x] = S]
  /\ UNCHANGED <<ft, fb>>

FlushRotate(x) ==
  /\ fpc[x] = "rotate"
  /\ \E t \in fset[x] :
       /\ Rotate(t)
       /\ ft' = [ft EXCEPT ![x] = t]
       /\ fset' = [fset EXCEPT ![x] = @ \ {t}]
  /\ fpc' = [fpc EXCEPT ![x] = "take"]
  /\ UNCHANGED <<prodVars, masterAvail, cmdq, wake, disabled, ioVars, cbq,
                 needGrease, gVars, fb, vcb>>

FlushTake(x) ==
  /\ fpc[x] = "take"
  /\ LET t == ft[x] IN
       \/ /\ wout[t] # <<>>
          /\ fb' = [fb EXCEPT ![x] = Head(wout[t])]
          /\ wout' = [wout EXCEPT ![t] = Tail(@)]
          /\ fpc' = [fpc EXCEPT ![x] = "submit"]
          /\ UNCHANGED ft
       \/ /\ wout[t] = <<>>
          /\ fpc' = [fpc EXCEPT ![x] = IF fset[x] = {} THEN "none" ELSE "rotate"]
          /\ ft' = [ft EXCEPT ![x] = None]
          /\ UNCHANGED <<fb, wout>>
  /\ UNCHANGED <<prodVars, masterAvail, cmdq, wake, cur, avail, data, used,
                 disabled, ioVars, cbq, needGrease, gVars, fset, vcb>>

\* flush(b): libuv gets the write; a callback target hands the bank to V8.
FlushSubmit(x) ==
  /\ fpc[x] = "submit"
  /\ \/ /\ Kind[ft[x]] # "callback"
        /\ fly' = [fly EXCEPT ![ft[x]] = Append(@, [b |-> fb[x], m |-> None])]
        /\ UNCHANGED <<bankVars, cbq, needGrease>>
     \/ /\ Kind[ft[x]] = "callback"
        /\ ReturnBank(ft[x], fb[x])
        /\ UNCHANGED fly
  /\ fb' = [fb EXCEPT ![x] = None]
  /\ fpc' = [fpc EXCEPT ![x] = "take"]
  /\ UNCHANGED <<prodVars, masterAvail, cmdq, wake, disabled, fin, out, gVars,
                 fset, ft, vcb>>

-----------------------------------------------------------------------------
(* The event loop of the grease thread                                      *)

LoopIdle == gpc = "idle" /\ fpc["grease"] = "none"

\* uv calls handleInternalCmd once for any number of uv_async_sends.
HandleInternalCmd ==
  /\ LoopIdle /\ wake
  /\ wake' = FALSE
  /\ gpc' = "drain"
  /\ UNCHANGED <<prodVars, masterAvail, cmdq, bankVars, disabled, ioVars, cbq,
                 needGrease, gmsg, gbuf, groute, fVars, vcb>>

FlushTimer ==
  /\ LoopIdle /\ needGrease > 0
  /\ BeginFlush("grease", Targets)
  /\ UNCHANGED <<prodVars, masterAvail, cmdq, wake, bankVars, disabled, ioVars,
                 cbq, needGrease, gVars, vcb>>

\* ttyTarget::write_cb, fileTarget::write_cb and ttyTarget::write_overflow_cb.
WriteCb(t) ==
  /\ LoopIdle /\ fin[t] # <<>>
  /\ LET r == Head(fin[t]) IN
       \/ /\ r.b # None
          /\ ReturnBank(t, r.b)
       \/ /\ r.b = None
          /\ needGrease' = needGrease - 1
          /\ QueueOverflowCallback(t, r.m)
          /\ UNCHANGED bankVars
  /\ fin' = [fin EXCEPT ![t] = Tail(@)]
  /\ UNCHANGED <<prodVars, masterAvail, cmdq, wake, disabled, fly, out, gVars,
                 fVars, vcb>>

\* The while loop of handleInternalCmd: one command.
Dequeue ==
  /\ gpc = "drain" /\ fpc["grease"] = "none"
  /\ \/ /\ cmdq = <<>>
        /\ gpc' = "idle"
        /\ UNCHANGED <<cmdq, gmsg, gbuf, groute, fVars>>
     \/ /\ cmdq # <<>> /\ Head(cmdq).c = "ROTATE"
        /\ cmdq' = Tail(cmdq)
        /\ fpc' = [fpc EXCEPT !["grease"] = "take"]  \* flushAll(false)
        /\ ft' = [ft EXCEPT !["grease"] = Head(cmdq).t]
        /\ UNCHANGED <<gVars, fset, fb>>
     \/ /\ cmdq # <<>> /\ Head(cmdq).c # "ROTATE"
        /\ cmdq' = Tail(cmdq)
        /\ gpc' = IF Head(cmdq).c = "NEW_LOG" THEN "write" ELSE "overflow"
        /\ gmsg' = Head(cmdq).m
        /\ gbuf' = Head(cmdq).buf
        /\ groute' = Route[Head(cmdq).m]
        /\ UNCHANGED fVars
  /\ UNCHANGED <<prodVars, masterAvail, wake, bankVars, disabled, ioVars, cbq,
                 needGrease, vcb>>

MastersAfter_Lost == masterAvail
MastersAfter == IF gpc = "write" THEN masterAvail \cup {gbuf} ELSE masterAvail

\* The message has been written to its last target: l->clear() and back with the
\* master buffer, or l->decRef() for an overflow.
EndCmd ==
  /\ gpc \in {"write", "overflow"} /\ groute = <<>>
  /\ gpc' = "drain"
  /\ masterAvail' = MastersAfter
  /\ gmsg' = None /\ gbuf' = None
  /\ UNCHANGED <<prodVars, cmdq, wake, bankVars, disabled, ioVars, cbq,
                 needGrease, groute, fVars, vcb>>

-----------------------------------------------------------------------------
(* logTarget::write of gmsg to target T                                      *)

T == Head(groute)
WriteReturns == gpc' = "write" /\ groute' = Tail(groute)

WriteTest ==
  /\ gpc = "write" /\ groute # <<>>
  /\ \/ /\ T \in disabled
        /\ WriteReturns
        /\ UNCHANGED <<cmdq, wake>>
     \/ /\ T \notin disabled /\ BankSpace < Size[gmsg] + HeaderRoom
        /\ IF QueueHasRoom THEN cmdq' = Append(cmdq, Overflow(gmsg)) /\ wake' = TRUE
                           ELSE UNCHANGED <<cmdq, wake>>
        /\ WriteReturns
     \/ /\ T \notin disabled /\ BankSpace >= Size[gmsg] + HeaderRoom
        /\ gpc' = IF Fits(T, gmsg) THEN "ref" ELSE "rotate"
        /\ UNCHANGED <<cmdq, wake, groute>>
  /\ UNCHANGED <<prodVars, masterAvail, bankVars, disabled, ioVars, cbq,
                 needGrease, gmsg, gbuf, fVars, vcb>>

\* if(currentBuffer->isEmpty()) owner->refGreaseInGrease(), outside writeMutex
RefIfEmpty_NoRef == needGrease
RefIfEmpty == IF used[T][cur[T]] = 0 THEN needGrease + 1 ELSE needGrease

WriteRef ==
  /\ gpc = "ref"
  /\ needGrease' = RefIfEmpty
  /\ gpc' = "copy"
  /\ UNCHANGED <<prodVars, masterAvail, cmdq, wake, bankVars, disabled, ioVars,
                 cbq, gmsg, gbuf, groute, fVars, vcb>>

WriteCopy ==
  /\ gpc = "copy"
  /\ CopyIn(T, gmsg)
  /\ WriteReturns
  /\ UNCHANGED <<prodVars, masterAvail, cmdq, wake, cur, avail, wout, disabled,
                 ioVars, cbq, needGrease, gmsg, gbuf, fVars, vcb>>

\* The message does not fit.  If rotate() fails the message is dropped, whether
\* the current bank has been cleared or not.
WriteRotate ==
  /\ gpc = "rotate"
  /\ Rotate(T)
  /\ IF RotateSucceeds(T) THEN gpc' = "request" /\ UNCHANGED groute
                          ELSE WriteReturns
  /\ UNCHANGED <<prodVars, masterAvail, cmdq, wake, disabled, ioVars, cbq,
                 needGrease, gmsg, gbuf, fVars, vcb>>

\* TARGET_ROTATE_BUFFER is queued; only then is the message copied.
WriteRequest ==
  /\ gpc = "request"
  /\ \/ /\ QueueHasRoom
        /\ cmdq' = Append(cmdq, RotateCmd(T))
        /\ gpc' = "refcopy"
        /\ UNCHANGED groute
     \/ /\ ~QueueHasRoom
        /\ WriteReturns
        /\ UNCHANGED cmdq
  /\ UNCHANGED <<prodVars, masterAvail, wake, bankVars, disabled, ioVars, cbq,
                 needGrease, gmsg, gbuf, fVars, vcb>>

WriteRefCopy ==
  /\ gpc = "refcopy"
  /\ needGrease' = needGrease + 1
  /\ CopyIn(T, gmsg)
  /\ wake' = TRUE
  /\ WriteReturns
  /\ UNCHANGED <<prodVars, masterAvail, cmdq, cur, avail, wout, disabled, ioVars,
                 cbq, gmsg, gbuf, fVars, vcb>>

-----------------------------------------------------------------------------
(* WRITE_TARGET_OVERFLOW: for each target flushAll(), then writeOverflow()   *)

OverflowFlush_Skipped ==
  /\ gpc = "overflow" /\ fpc["grease"] = "none" /\ groute # <<>>
  /\ gpc' = "owrite"
  /\ UNCHANGED <<prodVars, masterAvail, cmdq, wake, bankVars, disabled, ioVars,
                 cbq, needGrease, gmsg, gbuf, groute, fVars, vcb>>

OverflowFlush ==
  /\ gpc = "overflow" /\ fpc["grease"] = "none" /\ groute # <<>>
  /\ BeginFlush("grease", {T})
  /\ gpc' = "owrite"
  /\ UNCHANGED <<prodVars, masterAvail, cmdq, wake, bankVars, disabled, ioVars,
                 cbq, needGrease, gmsg, gbuf, groute, vcb>>

\* A TTY gets one uv_write; a file a writev() on the spot, with returnBuffer() run
\* at once; a callback target queues the callback and keeps the grease reference.
OverflowWrite ==
  /\ gpc = "owrite" /\ fpc["grease"] = "none"
  /\ \/ /\ T \in disabled
        /\ UNCHANGED <<ioVars, cbq, needGrease>>
     \/ /\ T \notin disabled /\ Kind[T] = "tty"
        /\ fly' = [fly EXCEPT ![T] = Append(@, [b |-> None, m |-> gmsg])]
        /\ needGrease' = needGrease + 1
        /\ UNCHANGED <<fin, out, cbq>>
     \/ /\ T \notin disabled /\ Kind[T] = "file"
        /\ out' = [out EXCEPT ![T] = Append(@, gmsg)]
        /\ QueueOverflowCallback(T, gmsg)
        /\ UNCHANGED <<fly, fin, needGrease>>
     \/ /\ T \notin disabled /\ Kind[T] = "callback"
        /\ QueueOverflowCallback(T, gmsg)
        /\ needGrease' = needGrease + 1
        /\ UNCHANGED ioVars
  /\ gpc' = "overflow" /\ groute' = Tail(groute)
  /\ UNCHANGED <<prodVars, masterAvail, cmdq, wake, bankVars, disabled, gmsg,
                 gbuf, fVars, vcb>>

-----------------------------------------------------------------------------
(* libuv and the operating system                                           *)

Content(t, r) == IF r.b = None THEN <<r.m>> ELSE data[t][r.b]

\* A write is performed: a stream keeps the order of uv_write(), the thread pool
\* behind uv_fs_write() runs the writes of a file in any order.
PerformWrite(t) ==
  /\ \E i \in DOMAIN fly[t] :
       /\ Kind[t] = "tty" => i = 1
       /\ out' = [out EXCEPT ![t] = @ \o Content(t, fly[t][i])]
       /\ fin' = [fin EXCEPT ![t] = Append(@, fly[t][i])]
       /\ fly' = [fly EXCEPT ![t] = SubSeq(@, 1, i - 1) \o SubSeq(@, i + 1, Len(@))]
  /\ UNCHANGED <<prodVars, masterAvail, cmdq, wake, bankVars, disabled, cbq,
                 needGrease, gVars, fVars, vcb>>

-----------------------------------------------------------------------------
(* The V8 thread                                                            *)

V8Idle == fpc["v8"] = "none" /\ vcb = None

\* flush(id) and flush()
Flush ==
  /\ V8Flushes /\ V8Idle
  /\ \E S \in {Targets} \cup {{t} : t \in Targets} : BeginFlush("v8", S)
  /\ UNCHANGED <<prodVars, masterAvail, cmdq, wake, bankVars, disabled, ioVars,
                 cbq, needGrease, gVars, vcb>>

\* disableTarget(id), enableTarget(id)
DisableWrites ==
  /\ V8Idle
  /\ \E t \in Switchable :
       disabled' = IF t \in disabled THEN disabled \ {t} ELSE disabled \cup {t}
  /\ UNCHANGED <<prodVars, masterAvail, cmdq, wake, bankVars, ioVars, cbq,
                 needGrease, gVars, fVars, vcb>>

CallV8LogCallbacks ==
  /\ V8Idle /\ cbq # <<>>
  /\ vcb' = Head(cbq)
  /\ cbq' = Tail(cbq)
  /\ UNCHANGED <<prodVars, masterAvail, cmdq, wake, bankVars, disabled, ioVars,
                 needGrease, gVars, fVars>>

\* _doV8Callback: the callback gets the text, then finalizeV8Callback frees the bank.
DoV8Callback ==
  /\ vcb # None
  /\ out' = IF Kind[vcb.t] = "callback"
            THEN [out EXCEPT ![vcb.t] = @ \o Content(vcb.t, vcb)] ELSE out
  /\ IF vcb.b # None
     THEN /\ Cleared(vcb.t, vcb.b)
          /\ avail' = [avail EXCEPT ![vcb.t] = @ \cup {vcb.b}]
     ELSE UNCHANGED <<data, used, avail>>
  /\ vcb' = None
  /\ UNCHANGED <<prodVars, masterAvail, cmdq, wake, cur, wout, disabled, fly, fin,
                 cbq, needGrease, gVars, fVars>>

-----------------------------------------------------------------------------
ProducerStep(p) == LogStart(p) \/ LogEnqueue(p) \/ LogSend(p)
FlushStep(x) == FlushRotate(x) \/ FlushTake(x) \/ FlushSubmit(x)
WriteStep == WriteTest \/ WriteRef \/ WriteCopy \/ WriteRotate \/ WriteRequest
             \/ WriteRefCopy
GreaseStep == \/ HandleInternalCmd \/ Dequeue \/ EndCmd \/ WriteStep
              \/ OverflowFlush \/ OverflowWrite \/ FlushStep("grease")
V8Step == CallV8LogCallbacks \/ DoV8Callback \/ FlushStep("v8")

Next == \/ \E p \in Producers : ProducerStep(p)
        \/ GreaseStep \/ FlushTimer
        \/ \E t \in Targets : WriteCb(t) \/ PerformWrite(t)
        \/ V8Step \/ Flush \/ DisableWrites

Spec == Init /\ [][Next]_vars

\* Every thread runs and libuv performs each write.  The loop polls and runs its
\* timers in every iteration, so it calls each callback that is pending again and
\* again, and the repeating timer fires for as long as it is armed.
Fairness ==
  /\ \A p \in Producers : WF_vars(LogEnqueue(p) \/ LogSend(p))
  /\ WF_vars(GreaseStep) /\ SF_vars(HandleInternalCmd) /\ SF_vars(FlushTimer)
  /\ \A t \in Targets : SF_vars(WriteCb(t)) /\ WF_vars(PerformWrite(t))
  /\ WF_vars(V8Step)

FairSpec == Spec /\ Fairness

-----------------------------------------------------------------------------
(* Properties                                                               *)

WritePcs == {"write", "ref", "copy", "rotate", "request", "refcopy"}

ProducerTypes ==
  /\ unlogged \subseteq Msgs
  /\ ppc \in [Producers -> {"idle", "enqueue", "send"}]
  /\ pmsg \in [Producers -> Msgs \cup {None}]
  /\ pbuf \in [Producers -> Masters \cup {None}]
  /\ \A p \in Producers : ppc[p] = "enqueue" => pmsg[p] \in Msgs

QueueTypes ==
  /\ masterAvail \subseteq Masters
  /\ cmdq \in Seq(Cmd) /\ Len(cmdq) <= QueueSize
  /\ wake \in BOOLEAN

BankTypes ==
  /\ cur \in [Targets -> Banks] /\ avail \in [Targets -> SUBSET Banks]
  /\ wout \in [Targets -> Seq(Banks)]
  /\ data \in [Targets -> [Banks -> Seq(Msgs)]]
  /\ used \in [Targets -> [Banks -> Nat]]

IOTypes ==
  /\ disabled \subseteq Targets
  /\ fly \in [Targets -> Seq(WriteReq)] /\ fin \in [Targets -> Seq(WriteReq)]
  /\ out \in [Targets -> Seq(Msgs)]
  /\ cbq \in Seq(Callback) /\ Len(cbq) <= CbQueueSize
  /\ vcb \in Callback \cup {None}
  /\ needGrease \in Int

GreaseTypes ==
  /\ gpc \in WritePcs \cup {"idle", "drain", "overflow", "owrite"}
  /\ gmsg \in Msgs \cup {None} /\ gbuf \in Masters \cup {None}
  /\ groute \in Seq(Targets)
  /\ gpc \in WritePcs \cup {"overflow", "owrite"} => gmsg \in Msgs
  /\ gpc \in WritePcs <=> gbuf \in Masters
  /\ gpc \in (WritePcs \ {"write"}) \cup {"owrite"} => groute # <<>>

FlushTypes ==
  /\ fpc \in [Threads -> {"none", "rotate", "take", "submit"}]
  /\ fset \in [Threads -> SUBSET Targets]
  /\ ft \in [Threads -> Targets \cup {None}]
  /\ fb \in [Threads -> Banks \cup {None}]
  /\ \A x \in Threads : /\ fpc[x] \in {"take", "submit"} => ft[x] \in Targets
                        /\ fpc[x] = "submit" <=> fb[x] \in Banks

\* Every variable has its type; a thread inside write() holds the message and the
\* master buffer of the NEW_LOG it is handling, and a thread inside flush() a bank.
TypeOK == /\ ProducerTypes /\ QueueTypes /\ BankTypes
          /\ IOTypes /\ GreaseTypes /\ FlushTypes

\* A master buffer is never in two places: free, in a producer's hands, in the
\* command queue or being written by the grease thread (_log, handleInternalCmd).
\* Two producers filling one singleLog would interleave their text.
HeldByProducer(l) == \E p \in Producers : pbuf[p] = l
Queued(l) == \E i \in DOMAIN cmdq : cmdq[i].buf = l
PlacesDisjoint == \A l \in Masters :
  /\ l \in masterAvail => ~HeldByProducer(l) /\ ~Queued(l) /\ gbuf # l
  /\ HeldByProducer(l) => ~Queued(l) /\ gbuf # l
  /\ Queued(l) => gbuf # l
HeldOnce == \A p, q \in Producers : pbuf[p] \in Masters /\ pbuf[p] = pbuf[q] => p = q
QueuedOnce == \A i, j \in DOMAIN cmdq :
                cmdq[i].buf \in Masters /\ cmdq[i].buf = cmdq[j].buf => i = j
MasterInOnePlace == PlacesDisjoint /\ HeldOnce /\ QueuedOnce

\* No master buffer disappears: each is free, held, queued or being written
\* (_log drops a message without returning its buffer when the queue is full).
NoMasterLost ==
  \A l \in Masters : l \in masterAvail \/ HeldByProducer(l) \/ Queued(l) \/ gbuf = l

\* How often bank b of target t is current, free, queued for writing, in the hands
\* of a flushing thread, being written, waiting for or inside its callback.
BankHolders(t, b) ==
  LET Count(S) == Cardinality(S)
      If(p) == IF p THEN 1 ELSE 0
  IN If(cur[t] = b) + If(b \in avail[t])
     + Count({i \in DOMAIN wout[t] : wout[t][i] = b})
     + Count({i \in DOMAIN fly[t] : fly[t][i].b = b})
     + Count({i \in DOMAIN fin[t] : fin[t][i].b = b})
     + Count({x \in Threads : ft[x] = t /\ fb[x] = b})
     + Count({i \in DOMAIN cbq : cbq[i].t = t /\ cbq[i].b = b})
     + If(vcb # None /\ vcb.t = t /\ vcb.b = b)

\* Each bank of a target is in exactly one place, whatever producers, the grease
\* thread, libuv and a flush() of the V8 thread do (rotate, flushAll, returnBuffer,
\* finalizeV8Callback): none is lost, none is filled while it is written out.
BankInOnePlace == \A t \in Targets, b \in Banks : BankHolders(t, b) = 1

\* "there should always be one buffer available for writingTo": writeOutBuffers has
\* one slot less than there are banks, and rotate() never finds it full.
WriteOutHasRoom == \A t \in Targets : avail[t] # {} => Len(wout[t]) < NumBanks - 1

\* assert(handle.len <= space) in logBuf::copyIn: what write() reserved is enough.
BufferFits == \A t \in Targets, b \in Banks : used[t][b] <= BankSpace

\* A bank that holds text and has not been given back yet.
AtCallback(t, b) == \/ \E i \in DOMAIN cbq : cbq[i].t = t /\ cbq[i].b = b
                    \/ vcb # None /\ vcb.t = t /\ vcb.b = b
UnreturnedBanks ==
  {h \in Targets \X Banks : used[h[1]][h[2]] > 0 /\ ~AtCallback(h[1], h[2])}
UnreturnedOverflows ==
  {h \in Targets \X Msgs : \/ \E i \in DOMAIN fly[h[1]] : fly[h[1]][i].m = h[2]
                           \/ \E i \in DOMAIN fin[h[1]] : fin[h[1]][i].m = h[2]}

\* While any bank or overflow message waits to be written, the grease thread holds a
\* reference for it, so the flush timer runs (refGreaseInGrease, unrefGreaseInGrease).
\* Only <=: the reference of a bank rotate() clears is never given back.
GreaseRefCovers ==
  Cardinality(UnreturnedBanks) + Cardinality(UnreturnedOverflows) <= needGrease

\* assert(needGreaseThread > 0) in unrefGreaseInGrease.
GreaseRefAssert == needGrease >= 0

\* write() calls rotate() only because the current bank holds something: a message
\* is never dropped on a target whose current bank is empty.
RotateNotSkipped == gpc = "rotate" => used[T][cur[T]] > 0

\* "too big to fit in buffer... will flush existing target, and then make large
\* write": an overflow message goes to one target once, even if write() re-queued it.
OncePerTarget == \A t \in Targets : \A i, j \in DOMAIN out[t] :
                   out[t][i] = out[t][j] => i = j

\* Every master buffer taken for a message is free again some day: the grease thread
\* serves the queue, and no wakeup is lost between addMvIfRoom and uv_async_send.
MastersReturn == \A l \in Masters : l \notin masterAvail ~> l \in masterAvail

\* The flush timer, rotation and write callbacks empty every bank that has been
\* written to: no message stays in memory for ever (flushTimer_cb "on a timer. this
\* flushed buffers after a while").
BanksFlushed ==
  \A t \in Targets, b \in Banks : used[t][b] > 0 ~> used[t][b] = 0
=============================================================================
