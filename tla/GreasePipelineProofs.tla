------------------------ MODULE GreasePipelineProofs ------------------------
(***************************************************************************)
(* What holds of the pipeline for every number of producers, messages,       *)
(* targets, banks and master buffers, and with the V8 thread flushing at any *)
(* time: the types, and that no two users ever share a master buffer.         *)
(***************************************************************************)
EXTENDS GreasePipeline, SequenceTheorems, TLAPS

-----------------------------------------------------------------------------
(* Lemmas on the operators                                                  *)

\* A group of variables no step touches keeps its types.
LEMMA UnchangedTypes ==
  ASSUME TypeOK
  PROVE  /\ UNCHANGED prodVars => ProducerTypes'
         /\ UNCHANGED <<masterAvail, cmdq, wake>> => QueueTypes'
         /\ UNCHANGED bankVars => BankTypes'
         /\ UNCHANGED <<disabled, ioVars, cbq, vcb, needGrease>> => IOTypes'
         /\ UNCHANGED gVars => GreaseTypes'
         /\ UNCHANGED fVars => FlushTypes'
  <1> USE DEF TypeOK
  <1>1. UNCHANGED prodVars => ProducerTypes'
    BY DEF ProducerTypes, prodVars
  <1>2. UNCHANGED <<masterAvail, cmdq, wake>> => QueueTypes'
    BY DEF QueueTypes
  <1>3. UNCHANGED bankVars => BankTypes'
    BY DEF BankTypes, bankVars
  <1>4. UNCHANGED <<disabled, ioVars, cbq, vcb, needGrease>> => IOTypes'
    BY DEF IOTypes, ioVars
  <1>5. UNCHANGED gVars => GreaseTypes'
    BY DEF GreaseTypes, gVars
  <1>6. UNCHANGED fVars => FlushTypes'
    BY DEF FlushTypes, fVars
  <1> QED BY <1>1, <1>2, <1>3, <1>4, <1>5, <1>6

\* addMvIfRoom on internalCmdQueue.
LEMMA EnqueueTypes ==
  ASSUME QueueTypes, QueueHasRoom, NEW c \in Cmd
  PROVE  Append(cmdq, c) \in Seq(Cmd) /\ Len(Append(cmdq, c)) <= QueueSize
  <1>1. Len(cmdq) \in Nat /\ QueueSize \in Nat
    BY PipelineAssumption, LenProperties DEF QueueTypes
  <1>2. /\ Append(cmdq, c) \in Seq(Cmd)
        /\ Len(Append(cmdq, c)) = Len(cmdq) + 1
    BY AppendProperties DEF QueueTypes
  <1> QED BY <1>1, <1>2 DEF QueueHasRoom

\* The three kinds of command.
LEMMA CommandTypes ==
  /\ \A m \in Msgs, l \in Masters : NewLog(m, l) \in Cmd
  /\ \A t \in Targets : RotateCmd(t) \in Cmd
  /\ \A m \in Msgs : Overflow(m) \in Cmd
  BY DEF NewLog, RotateCmd, Overflow, Cmd

\* Clearing a bank, copying into one, rotating and returning one keep the types of
\* the banks (clear, copyIn, rotate, returnBuffer).
LEMMA ClearedTypes ==
  ASSUME BankTypes, NEW t \in Targets, NEW b \in Banks, Cleared(t, b)
  PROVE  /\ data' \in [Targets -> [Banks -> Seq(Msgs)]]
         /\ used' \in [Targets -> [Banks -> Nat]]
  <1>1. <<>> \in Seq(Msgs)
    BY EmptySeq
  <1> QED BY <1>1 DEF BankTypes, Cleared

LEMMA CopyInTypes ==
  ASSUME BankTypes, NEW t \in Targets, NEW m \in Msgs, CopyIn(t, m),
         UNCHANGED <<cur, avail, wout>>
  PROVE  BankTypes'
  <1>1. /\ cur[t] \in Banks /\ data[t][cur[t]] \in Seq(Msgs)
        /\ used[t][cur[t]] \in Nat
    BY DEF BankTypes
  <1>2. Append(data[t][cur[t]], m) \in Seq(Msgs)
    BY <1>1, AppendProperties
  <1>3. used[t][cur[t]] + Size[m] + Header + Delim \in Nat
    BY <1>1, PipelineAssumption
  <1>4. data' \in [Targets -> [Banks -> Seq(Msgs)]]
    BY ONLY <1>1, <1>2, BankTypes, CopyIn(t, m) DEF BankTypes, CopyIn
  <1>5. used' \in [Targets -> [Banks -> Nat]]
    BY ONLY <1>1, <1>3, BankTypes, CopyIn(t, m) DEF BankTypes, CopyIn
  <1> QED BY <1>4, <1>5 DEF BankTypes

LEMMA RotateTypes ==
  ASSUME BankTypes, NEW t \in Targets, Rotate(t)
  PROVE  BankTypes'
  <1>1. cur[t] \in Banks /\ avail[t] \subseteq Banks /\ wout[t] \in Seq(Banks)
    BY DEF BankTypes
  <1>2. Append(wout[t], cur[t]) \in Seq(Banks)
    BY <1>1, AppendProperties
  <1>3. CASE /\ \E next \in avail[t] :
                  /\ avail' = [avail EXCEPT ![t] = FreeAfterRotate(t, next)]
                  /\ cur' = [cur EXCEPT ![t] = next]
             /\ wout' = [wout EXCEPT ![t] = Append(@, cur[t])]
             /\ UNCHANGED <<data, used>>
    <2>1. PICK next \in avail[t] :
                 /\ avail' = [avail EXCEPT ![t] = FreeAfterRotate(t, next)]
                 /\ cur' = [cur EXCEPT ![t] = next]
      BY <1>3
    <2>2. next \in Banks /\ FreeAfterRotate(t, next) \subseteq Banks
      BY <1>1 DEF FreeAfterRotate
    <2>3. cur' \in [Targets -> Banks] /\ avail' \in [Targets -> SUBSET Banks]
      BY <2>1, <2>2 DEF BankTypes
    <2>4. wout' \in [Targets -> Seq(Banks)]
      BY <1>2, <1>3 DEF BankTypes
    <2> QED BY <1>3, <2>3, <2>4 DEF BankTypes
  <1>4. CASE ~RotateSucceeds(t) /\ Cleared(t, cur[t]) /\ UNCHANGED <<cur, avail, wout>>
    BY <1>1, <1>4, ClearedTypes DEF BankTypes
  <1>5. CASE UNCHANGED bankVars
    BY <1>5 DEF BankTypes, bankVars
  <1> QED BY <1>3, <1>4, <1>5 DEF Rotate

LEMMA ReturnBankTypes ==
  ASSUME TypeOK, NEW t \in Targets, NEW b \in Banks, ReturnBank(t, b)
  PROVE  /\ BankTypes' /\ needGrease' \in Int
         /\ cbq' \in Seq(Callback) /\ Len(cbq') <= CbQueueSize
  <1> DEFINE c == [t |-> t, b |-> b, m |-> None]
  <1>1. needGrease' \in Int
    BY DEF TypeOK, IOTypes, ReturnBank
  <1>2. CASE Len(cbq) < CbQueueSize /\ cbq' = Append(cbq, c) /\ UNCHANGED bankVars
    <2>1. c \in Callback
      BY DEF Callback
    <2>2. /\ Append(cbq, c) \in Seq(Callback) /\ Len(Append(cbq, c)) = Len(cbq) + 1
          /\ Len(cbq) \in Nat
      <3> HIDE DEF c
      <3> QED BY <2>1, AppendProperties, LenProperties DEF TypeOK, IOTypes
    <2> HIDE DEF c
    <2> QED BY <1>1, <1>2, <2>2, UnchangedTypes, PipelineAssumption
  <1>3. CASE /\ Cleared(t, b)
             /\ avail' = [avail EXCEPT ![t] = @ \cup {b}]
             /\ UNCHANGED <<cbq, cur, wout>>
    <2>1. /\ data' \in [Targets -> [Banks -> Seq(Msgs)]]
          /\ used' \in [Targets -> [Banks -> Nat]]
      BY <1>3, ClearedTypes DEF TypeOK
    <2>2. BankTypes'
      BY <1>3, <2>1 DEF TypeOK, BankTypes
    <2> QED BY <1>1, <1>3, <2>2 DEF TypeOK, IOTypes
  <1> QED BY <1>2, <1>3 DEF ReturnBank, bankVars

LEMMA QueueOverflowCallbackTypes ==
  ASSUME TypeOK, NEW t \in Targets, NEW m \in Msgs, QueueOverflowCallback(t, m)
  PROVE  cbq' \in Seq(Callback) /\ Len(cbq') <= CbQueueSize
  <1> DEFINE c == [t |-> t, b |-> None, m |-> m]
  <1>1. c \in Callback
    BY DEF Callback
  <1>2. cbq' = IF t \in HasCallback /\ Len(cbq) < CbQueueSize THEN Append(cbq, c) ELSE cbq
    BY DEF QueueOverflowCallback
  <1> HIDE DEF c
  <1>3. /\ Append(cbq, c) \in Seq(Callback)
        /\ Len(Append(cbq, c)) = Len(cbq) + 1 /\ Len(cbq) \in Nat
    BY <1>1, AppendProperties, LenProperties DEF TypeOK, IOTypes
  <1> QED BY <1>2, <1>3, PipelineAssumption DEF TypeOK, IOTypes

\* What libuv writes, and what a JS callback gets, are messages.
LEMMA ContentTypes ==
  ASSUME BankTypes, NEW t \in Targets, NEW r, r \in WriteReq \/ r \in Callback
  PROVE  Content(t, r) \in Seq(Msgs)
  <1>1. CASE r.b = None
    <2>1. r.m \in Msgs
      BY <1>1, PipelineAssumption DEF WriteReq, Callback
    <2> QED BY <1>1, <2>1 DEF Content
  <1>2. CASE r.b # None
    <2>1. r.b \in Banks
      BY <1>2 DEF WriteReq, Callback
    <2> QED BY <1>2, <2>1 DEF Content, BankTypes
  <1> QED BY <1>1, <1>2

-----------------------------------------------------------------------------
(* Type correctness, action by action                                       *)

LEMMA LogStartTypes ==
  ASSUME TypeOK, NEW p \in Producers, LogStart(p)
  PROVE  TypeOK'
  <1>1. PICK m \in unlogged : /\ unlogged' = unlogged \ {m}
          /\ \/ /\ ppc' = [ppc EXCEPT ![p] = "enqueue"]
                /\ pmsg' = [pmsg EXCEPT ![p] = m]
                /\ UNCHANGED <<pbuf, masterAvail>>
             \/ /\ \E l \in masterAvail : /\ masterAvail' = MastersWithout(l)
                                          /\ pbuf' = [pbuf EXCEPT ![p] = l]
                /\ ppc' = [ppc EXCEPT ![p] = "enqueue"]
                /\ pmsg' = [pmsg EXCEPT ![p] = m]
             \/ UNCHANGED <<ppc, pmsg, pbuf, masterAvail>>
    BY DEF LogStart
  <1>2. m \in Msgs /\ ppc[p] = "idle"
    BY DEF LogStart, TypeOK, ProducerTypes
  <1>3. pbuf' \in [Producers -> Masters \cup {None}] /\ masterAvail' \subseteq Masters
    BY <1>1 DEF TypeOK, ProducerTypes, QueueTypes, MastersWithout
  <1>4. ProducerTypes'
    BY <1>1, <1>2, <1>3 DEF TypeOK, ProducerTypes
  <1>5. QueueTypes'
    BY <1>3 DEF LogStart, TypeOK, QueueTypes
  <1> QED BY <1>4, <1>5, UnchangedTypes DEF LogStart, TypeOK

LEMMA LogEnqueueTypes ==
  ASSUME TypeOK, NEW p \in Producers, LogEnqueue(p)
  PROVE  TypeOK'
  <1>1. pmsg[p] \in Msgs /\ pbuf[p] \in Masters \cup {None}
    BY DEF LogEnqueue, TypeOK, ProducerTypes
  <1>2. (IF pbuf[p] = None THEN Overflow(pmsg[p]) ELSE NewLog(pmsg[p], pbuf[p])) \in Cmd
    BY <1>1, CommandTypes
  <1>3. cmdq' \in Seq(Cmd) /\ Len(cmdq') <= QueueSize
    BY <1>2, EnqueueTypes DEF LogEnqueue, TypeOK, QueueTypes
  <1>4. QueueTypes'
    BY <1>3 DEF LogEnqueue, TypeOK, QueueTypes
  <1>5. ProducerTypes'
    BY DEF LogEnqueue, TypeOK, ProducerTypes
  <1> QED BY <1>4, <1>5, UnchangedTypes DEF LogEnqueue, TypeOK

LEMMA LogSendTypes ==
  ASSUME TypeOK, NEW p \in Producers, LogSend(p)
  PROVE  TypeOK'
  <1>1. ProducerTypes' /\ QueueTypes'
    BY DEF LogSend, TypeOK, ProducerTypes, QueueTypes
  <1> QED BY <1>1, UnchangedTypes DEF LogSend, TypeOK

LEMMA FlushTypesKept ==
  ASSUME TypeOK, NEW x \in Threads, FlushStep(x)
  PROVE  TypeOK'
  <1>1. CASE FlushRotate(x)
    <2>1. PICK t \in fset[x] : /\ Rotate(t)
                               /\ ft' = [ft EXCEPT ![x] = t]
                               /\ fset' = [fset EXCEPT ![x] = @ \ {t}]
      BY <1>1 DEF FlushRotate
    <2>2. t \in Targets /\ fpc[x] = "rotate"
      BY <1>1 DEF FlushRotate, TypeOK, FlushTypes
    <2>3. BankTypes'
      BY <2>1, <2>2, RotateTypes DEF TypeOK
    <2>4. FlushTypes'
      BY <1>1, <2>1, <2>2, PipelineAssumption DEF FlushRotate, TypeOK, FlushTypes
    <2> QED BY <1>1, <2>3, <2>4, UnchangedTypes DEF FlushRotate, TypeOK
  <1>2. CASE FlushTake(x)
    <2>1. ft[x] \in Targets /\ fpc[x] = "take" /\ wout[ft[x]] \in Seq(Banks)
      BY <1>2 DEF FlushTake, TypeOK, FlushTypes, BankTypes
    <2>2. CASE /\ wout[ft[x]] # <<>>
               /\ fb' = [fb EXCEPT ![x] = Head(wout[ft[x]])]
               /\ wout' = [wout EXCEPT ![ft[x]] = Tail(@)]
               /\ fpc' = [fpc EXCEPT ![x] = "submit"]
               /\ UNCHANGED ft
      <3>1. Head(wout[ft[x]]) \in Banks /\ Tail(wout[ft[x]]) \in Seq(Banks)
        BY <2>1, <2>2, HeadTailProperties
      <3>2. BankTypes'
        BY <1>2, <2>1, <2>2, <3>1 DEF FlushTake, TypeOK, BankTypes
      <3>3. FlushTypes'
        BY <1>2, <2>1, <2>2, <3>1 DEF FlushTake, TypeOK, FlushTypes
      <3> QED BY <1>2, <3>2, <3>3, UnchangedTypes DEF FlushTake, TypeOK
    <2>3. CASE /\ fpc' = [fpc EXCEPT ![x] = IF fset[x] = {} THEN "none" ELSE "rotate"]
               /\ ft' = [ft EXCEPT ![x] = None]
               /\ UNCHANGED <<fb, wout>>
      <3>1. BankTypes'
        BY <1>2, <2>3 DEF FlushTake, TypeOK, BankTypes
      <3>2. FlushTypes'
        BY <1>2, <2>1, <2>3 DEF FlushTake, TypeOK, FlushTypes
      <3> QED BY <1>2, <3>1, <3>2, UnchangedTypes DEF FlushTake, TypeOK
    <2> QED BY <1>2, <2>2, <2>3 DEF FlushTake
  <1>3. CASE FlushSubmit(x)
    <2>1. ft[x] \in Targets /\ fb[x] \in Banks
      BY <1>3 DEF FlushSubmit, TypeOK, FlushTypes
    <2>2. FlushTypes'
      BY <1>3, <2>1, PipelineAssumption DEF FlushSubmit, TypeOK, FlushTypes
    <2>3. CASE /\ fly' = [fly EXCEPT ![ft[x]] = Append(@, [b |-> fb[x], m |-> None])]
               /\ UNCHANGED <<bankVars, cbq, needGrease>>
      <3>1. Append(fly[ft[x]], [b |-> fb[x], m |-> None]) \in Seq(WriteReq)
        <4>1. [b |-> fb[x], m |-> None] \in WriteReq /\ fly[ft[x]] \in Seq(WriteReq)
          BY <2>1 DEF WriteReq, TypeOK, IOTypes
        <4> QED BY <4>1, AppendProperties
      <3>2. IOTypes'
        BY <1>3, <2>1, <2>3, <3>1 DEF FlushSubmit, TypeOK, IOTypes
      <3> QED BY <1>3, <2>2, <2>3, <3>2, UnchangedTypes DEF FlushSubmit, TypeOK
    <2>4. CASE ReturnBank(ft[x], fb[x]) /\ UNCHANGED fly
      <3>1. /\ BankTypes' /\ needGrease' \in Int
            /\ cbq' \in Seq(Callback) /\ Len(cbq') <= CbQueueSize
        BY <2>1, <2>4, ReturnBankTypes
      <3>2. IOTypes'
        BY <1>3, <2>4, <3>1 DEF FlushSubmit, TypeOK, IOTypes
      <3> QED BY <1>3, <2>2, <3>1, <3>2, UnchangedTypes DEF FlushSubmit, TypeOK
    <2> QED BY <1>3, <2>3, <2>4 DEF FlushSubmit
  <1> QED BY <1>1, <1>2, <1>3 DEF FlushStep

\* The event loop: HandleInternalCmd, FlushTimer, WriteCb, Dequeue, EndCmd.
LEMMA LoopTypes ==
  ASSUME TypeOK, HandleInternalCmd \/ FlushTimer
  PROVE  TypeOK'
  <1>1. CASE HandleInternalCmd
    <2>1. QueueTypes' /\ GreaseTypes'
      BY <1>1 DEF HandleInternalCmd, LoopIdle, TypeOK, QueueTypes, GreaseTypes, WritePcs
    <2> QED BY <1>1, <2>1, UnchangedTypes DEF HandleInternalCmd, TypeOK
  <1>2. CASE FlushTimer
    <2>1. fpc["grease"] = "none" /\ "grease" \in Threads
      BY <1>2 DEF FlushTimer, LoopIdle, Threads
    <2>2. FlushTypes'
      BY <1>2, <2>1 DEF FlushTimer, BeginFlush, TypeOK, FlushTypes
    <2> QED BY <1>2, <2>2, UnchangedTypes DEF FlushTimer, TypeOK
  <1> QED BY <1>1, <1>2

LEMMA WriteCbTypes ==
  ASSUME TypeOK, NEW t \in Targets, WriteCb(t)
  PROVE  TypeOK'
  <1>1. fin[t] \in Seq(WriteReq) /\ fin[t] # <<>>
    BY DEF WriteCb, TypeOK, IOTypes
  <1>2. Head(fin[t]) \in WriteReq /\ Tail(fin[t]) \in Seq(WriteReq)
    BY <1>1, HeadTailProperties
  <1>3. fin' \in [Targets -> Seq(WriteReq)]
    BY <1>2 DEF WriteCb, TypeOK, IOTypes
  <1>4. /\ BankTypes' /\ needGrease' \in Int
        /\ cbq' \in Seq(Callback) /\ Len(cbq') <= CbQueueSize
    <2>1. CASE Head(fin[t]).b # None /\ ReturnBank(t, Head(fin[t]).b)
      <3>1. Head(fin[t]).b \in Banks
        BY <1>2, <2>1 DEF WriteReq
      <3> QED BY <2>1, <3>1, ReturnBankTypes
    <2>2. CASE /\ Head(fin[t]).b = None
               /\ needGrease' = needGrease - 1
               /\ QueueOverflowCallback(t, Head(fin[t]).m)
               /\ UNCHANGED bankVars
      <3>1. Head(fin[t]).m \in Msgs
        BY <1>2, <2>2, PipelineAssumption DEF WriteReq
      <3>2. cbq' \in Seq(Callback) /\ Len(cbq') <= CbQueueSize
        BY <2>2, <3>1, QueueOverflowCallbackTypes
      <3>3. BankTypes' /\ needGrease' \in Int
        BY <2>2, UnchangedTypes DEF TypeOK, IOTypes
      <3> QED BY <3>2, <3>3
    <2> QED BY <2>1, <2>2 DEF WriteCb
  <1>5. IOTypes'
    BY <1>3, <1>4 DEF WriteCb, TypeOK, IOTypes
  <1> QED BY <1>4, <1>5, UnchangedTypes DEF WriteCb, TypeOK

LEMMA DequeueTypes ==
  ASSUME TypeOK, Dequeue
  PROVE  TypeOK'
  <1>1. gpc = "drain" /\ fpc["grease"] = "none" /\ "grease" \in Threads
    BY DEF Dequeue, Threads
  <1>2. CASE gpc' = "idle" /\ UNCHANGED <<cmdq, gmsg, gbuf, groute, fVars>>
    <2>1. QueueTypes' /\ GreaseTypes'
      BY <1>1, <1>2 DEF Dequeue, TypeOK, QueueTypes, GreaseTypes, WritePcs
    <2> QED BY <1>2, <2>1, UnchangedTypes DEF Dequeue, TypeOK
  <1>3. ASSUME cmdq # <<>>, cmdq' = Tail(cmdq)
        PROVE  Head(cmdq) \in Cmd /\ QueueTypes'
    <2>1. /\ Head(cmdq) \in Cmd /\ Tail(cmdq) \in Seq(Cmd)
          /\ Len(Tail(cmdq)) = Len(cmdq) - 1
      BY <1>3, HeadTailProperties DEF TypeOK, QueueTypes
    <2>2. Len(cmdq) \in Nat /\ QueueSize \in Nat /\ Len(cmdq) <= QueueSize
      BY PipelineAssumption, LenProperties DEF TypeOK, QueueTypes
    <2>3. UNCHANGED <<masterAvail, wake>>
      BY DEF Dequeue
    <2>4. cmdq' \in Seq(Cmd) /\ Len(cmdq') <= QueueSize
      BY <1>3, <2>1, <2>2
    <2> QED BY <2>1, <2>3, <2>4 DEF TypeOK, QueueTypes
  <1>4. CASE /\ cmdq # <<>> /\ Head(cmdq).c = "ROTATE" /\ cmdq' = Tail(cmdq)
             /\ fpc' = [fpc EXCEPT !["grease"] = "take"]
             /\ ft' = [ft EXCEPT !["grease"] = Head(cmdq).t]
             /\ UNCHANGED <<gVars, fset, fb>>
    <2>1. Head(cmdq).t \in Targets
      BY <1>3, <1>4 DEF Cmd
    <2>2. FlushTypes'
      BY <1>1, <1>4, <2>1 DEF TypeOK, FlushTypes
    <2> QED BY <1>3, <1>4, <2>2, UnchangedTypes DEF Dequeue, TypeOK
  <1>5. CASE /\ cmdq # <<>> /\ Head(cmdq).c # "ROTATE" /\ cmdq' = Tail(cmdq)
             /\ gpc' = IF Head(cmdq).c = "NEW_LOG" THEN "write" ELSE "overflow"
             /\ gmsg' = Head(cmdq).m /\ gbuf' = Head(cmdq).buf
             /\ groute' = Route[Head(cmdq).m]
             /\ UNCHANGED fVars
    <2>1. /\ Head(cmdq).m \in Msgs
          /\ Head(cmdq).buf \in Masters \cup {None}
          /\ Head(cmdq).c = "NEW_LOG" <=> Head(cmdq).buf \in Masters
      BY <1>3, <1>5, PipelineAssumption DEF Cmd
    <2>2. groute' \in Seq(Targets)
      BY <1>5, <2>1, PipelineAssumption
    <2>3. GreaseTypes'
      BY <1>5, <2>1, <2>2 DEF GreaseTypes, WritePcs
    <2> QED BY <1>3, <1>5, <2>3, UnchangedTypes DEF Dequeue, TypeOK
  <1> QED BY <1>2, <1>4, <1>5 DEF Dequeue

LEMMA EndCmdTypes ==
  ASSUME TypeOK, EndCmd
  PROVE  TypeOK'
  <1>1. QueueTypes'
    BY DEF EndCmd, MastersAfter, TypeOK, QueueTypes, GreaseTypes, WritePcs
  <1>2. GreaseTypes'
    BY PipelineAssumption DEF EndCmd, TypeOK, GreaseTypes, WritePcs
  <1> QED BY <1>1, <1>2, UnchangedTypes DEF EndCmd, TypeOK

\* logTarget::write: where the thread stands, and the target it writes to.
LEMMA WriteTarget ==
  ASSUME TypeOK, groute # <<>>
  PROVE  T \in Targets /\ Tail(groute) \in Seq(Targets)
  BY HeadTailProperties DEF TypeOK, GreaseTypes, T

LEMMA WriteTypes ==
  ASSUME TypeOK, WriteStep
  PROVE  TypeOK'
  <1>1. groute # <<>> /\ gpc \in WritePcs
    BY DEF WriteStep, WriteTest, WriteRef, WriteCopy, WriteRotate, WriteRequest,
           WriteRefCopy, TypeOK, GreaseTypes, WritePcs
  <1>2. T \in Targets /\ Tail(groute) \in Seq(Targets) /\ gmsg \in Msgs
        /\ gbuf \in Masters
    BY <1>1, WriteTarget DEF TypeOK, GreaseTypes
  <1>3. ASSUME WriteReturns, UNCHANGED <<gmsg, gbuf>> PROVE GreaseTypes'
    BY <1>1, <1>2, <1>3 DEF WriteReturns, TypeOK, GreaseTypes, WritePcs
  <1>4. ASSUME gpc' \in WritePcs, UNCHANGED <<groute, gmsg, gbuf>> PROVE GreaseTypes'
    BY <1>1, <1>2, <1>4 DEF TypeOK, GreaseTypes, WritePcs
  <1>5. CASE WriteTest
    <2>1. GreaseTypes'
      BY <1>3, <1>4, <1>5 DEF WriteTest, WritePcs
    <2>2. QueueTypes'
      <3>1. Overflow(gmsg) \in Cmd
        BY <1>2, CommandTypes
      <3>2. QueueHasRoom => /\ Append(cmdq, Overflow(gmsg)) \in Seq(Cmd)
                            /\ Len(Append(cmdq, Overflow(gmsg))) <= QueueSize
        BY <3>1, EnqueueTypes DEF TypeOK
      <3> QED BY <1>5, <3>2 DEF WriteTest, TypeOK, QueueTypes
    <2> QED BY <1>5, <2>1, <2>2, UnchangedTypes DEF WriteTest, TypeOK
  <1>6. CASE WriteRef
    <2>1. GreaseTypes'
      BY <1>4, <1>6 DEF WriteRef, WritePcs
    <2>2. IOTypes'
      BY <1>6 DEF WriteRef, RefIfEmpty, ioVars, TypeOK, IOTypes
    <2> QED BY <1>6, <2>1, <2>2, UnchangedTypes DEF WriteRef, TypeOK
  <1>7. CASE WriteCopy
    <2>1. GreaseTypes'
      BY <1>3, <1>7 DEF WriteCopy
    <2>2. BankTypes'
      BY <1>2, <1>7, CopyInTypes DEF WriteCopy, TypeOK
    <2> QED BY <1>7, <2>1, <2>2, UnchangedTypes DEF WriteCopy, TypeOK
  <1>8. CASE WriteRotate
    <2>1. GreaseTypes'
      BY <1>3, <1>4, <1>8 DEF WriteRotate, WritePcs
    <2>2. BankTypes'
      BY <1>2, <1>8, RotateTypes DEF WriteRotate, TypeOK
    <2> QED BY <1>8, <2>1, <2>2, UnchangedTypes DEF WriteRotate, TypeOK
  <1>9. CASE WriteRequest
    <2>1. GreaseTypes'
      BY <1>3, <1>4, <1>9 DEF WriteRequest, WritePcs
    <2>2. QueueTypes'
      <3>1. RotateCmd(T) \in Cmd
        BY <1>2, CommandTypes
      <3>2. QueueHasRoom => /\ Append(cmdq, RotateCmd(T)) \in Seq(Cmd)
                            /\ Len(Append(cmdq, RotateCmd(T))) <= QueueSize
        BY <3>1, EnqueueTypes DEF TypeOK
      <3> QED BY <1>9, <3>2 DEF WriteRequest, TypeOK, QueueTypes
    <2> QED BY <1>9, <2>1, <2>2, UnchangedTypes DEF WriteRequest, TypeOK
  <1>10. CASE WriteRefCopy
    <2>1. GreaseTypes'
      BY <1>3, <1>10 DEF WriteRefCopy
    <2>2. BankTypes'
      BY <1>2, <1>10, CopyInTypes DEF WriteRefCopy, TypeOK
    <2>3. QueueTypes' /\ IOTypes'
      BY <1>10 DEF WriteRefCopy, ioVars, TypeOK, QueueTypes, IOTypes
    <2> QED BY <1>10, <2>1, <2>2, <2>3, UnchangedTypes DEF WriteRefCopy, TypeOK
  <1> QED BY <1>5, <1>6, <1>7, <1>8, <1>9, <1>10 DEF WriteStep

\* Overflow messages: OverflowFlush, OverflowWrite.
LEMMA OverflowTypes ==
  ASSUME TypeOK, OverflowFlush \/ OverflowWrite
  PROVE  TypeOK'
  <1>1. CASE OverflowFlush
    <2>1. T \in Targets /\ "grease" \in Threads
      BY <1>1, WriteTarget DEF OverflowFlush, Threads
    <2>2. GreaseTypes'
      BY <1>1 DEF OverflowFlush, TypeOK, GreaseTypes, WritePcs
    <2>3. FlushTypes'
      BY <1>1, <2>1 DEF OverflowFlush, BeginFlush, TypeOK, FlushTypes
    <2> QED BY <1>1, <2>2, <2>3, UnchangedTypes DEF OverflowFlush, TypeOK
  <1>2. CASE OverflowWrite
    <2>1. /\ T \in Targets /\ Tail(groute) \in Seq(Targets) /\ gmsg \in Msgs
          /\ gpc = "owrite"
      BY <1>2, WriteTarget DEF OverflowWrite, TypeOK, GreaseTypes
    <2>2. GreaseTypes'
      BY <1>2, <2>1 DEF OverflowWrite, TypeOK, GreaseTypes, WritePcs
    <2>3. [b |-> None, m |-> gmsg] \in WriteReq
      BY <2>1 DEF WriteReq
    <2>4. Append(fly[T], [b |-> None, m |-> gmsg]) \in Seq(WriteReq)
      BY <2>1, <2>3, AppendProperties DEF TypeOK, IOTypes
    <2>5. Append(out[T], gmsg) \in Seq(Msgs)
      BY <2>1, AppendProperties DEF TypeOK, IOTypes
    <2>6. QueueOverflowCallback(T, gmsg) => cbq' \in Seq(Callback) /\ Len(cbq') <= CbQueueSize
      BY <2>1, QueueOverflowCallbackTypes
    <2>7. cbq' \in Seq(Callback) /\ Len(cbq') <= CbQueueSize
      BY <1>2, <2>6 DEF OverflowWrite, TypeOK, IOTypes
    <2>8. needGrease' \in Int
      BY <1>2 DEF OverflowWrite, TypeOK, IOTypes
    <2>9. fly' \in [Targets -> Seq(WriteReq)]
      BY <1>2, <2>1, <2>4 DEF OverflowWrite, ioVars, TypeOK, IOTypes
    <2>10. out' \in [Targets -> Seq(Msgs)]
      BY <1>2, <2>1, <2>5 DEF OverflowWrite, ioVars, TypeOK, IOTypes
    <2>11. UNCHANGED <<disabled, fin, vcb>>
      BY <1>2 DEF OverflowWrite, ioVars
    <2>12. IOTypes'
      BY <2>7, <2>8, <2>9, <2>10, <2>11 DEF TypeOK, IOTypes
    <2> QED BY <1>2, <2>2, <2>12, UnchangedTypes DEF OverflowWrite, TypeOK
  <1> QED BY <1>1, <1>2

\* libuv performs a write.
LEMMA PerformWriteTypes ==
  ASSUME TypeOK, NEW t \in Targets, PerformWrite(t)
  PROVE  TypeOK'
  <1>1. PICK i \in DOMAIN fly[t] :
          /\ out' = [out EXCEPT ![t] = @ \o Content(t, fly[t][i])]
          /\ fin' = [fin EXCEPT ![t] = Append(@, fly[t][i])]
          /\ fly' = [fly EXCEPT ![t] = SubSeq(@, 1, i - 1) \o SubSeq(@, i + 1, Len(@))]
    BY DEF PerformWrite
  <1>2. fly[t] \in Seq(WriteReq) /\ fin[t] \in Seq(WriteReq) /\ out[t] \in Seq(Msgs)
    BY DEF TypeOK, IOTypes
  <1>3. i \in 1..Len(fly[t]) /\ Len(fly[t]) \in Nat /\ fly[t][i] \in WriteReq
    BY <1>2, LenProperties, ElementOfSeq
  <1>4. out[t] \o Content(t, fly[t][i]) \in Seq(Msgs)
    BY <1>2, <1>3, ContentTypes, ConcatProperties DEF TypeOK
  <1>5. Append(fin[t], fly[t][i]) \in Seq(WriteReq)
    BY <1>2, <1>3, AppendProperties
  <1>6. SubSeq(fly[t], 1, i - 1) \o SubSeq(fly[t], i + 1, Len(fly[t])) \in Seq(WriteReq)
    <2>1. \A j \in 1..Len(fly[t]) : fly[t][j] \in WriteReq
      BY <1>2, ElementOfSeq
    <2>2. SubSeq(fly[t], 1, i - 1) \in Seq(WriteReq)
      BY <1>2, <1>3, <2>1, SubSeqProperties
    <2>3. SubSeq(fly[t], i + 1, Len(fly[t])) \in Seq(WriteReq)
      BY <1>2, <1>3, <2>1, SubSeqProperties
    <2> QED BY <2>2, <2>3, ConcatProperties
  <1>7. IOTypes'
    BY <1>1, <1>4, <1>5, <1>6 DEF PerformWrite, TypeOK, IOTypes
  <1> QED BY <1>7, UnchangedTypes DEF PerformWrite, TypeOK

\* The V8 thread's own steps: Flush, DisableWrites, CallV8LogCallbacks, DoV8Callback.
LEMMA V8Types ==
  ASSUME TypeOK, Flush \/ DisableWrites \/ CallV8LogCallbacks \/ DoV8Callback
  PROVE  TypeOK'
  <1>1. CASE Flush
    <2>1. PICK S \in {Targets} \cup {{t} : t \in Targets} : BeginFlush("v8", S)
      BY <1>1 DEF Flush
    <2>2. S \subseteq Targets /\ fpc["v8"] = "none" /\ "v8" \in Threads
      BY <1>1 DEF Flush, V8Idle, Threads
    <2>3. FlushTypes'
      BY <2>1, <2>2 DEF BeginFlush, TypeOK, FlushTypes
    <2> QED BY <1>1, <2>3, UnchangedTypes DEF Flush, TypeOK
  <1>2. CASE DisableWrites
    <2>1. IOTypes'
      BY <1>2, PipelineAssumption DEF DisableWrites, ioVars, TypeOK, IOTypes
    <2> QED BY <1>2, <2>1, UnchangedTypes DEF DisableWrites, TypeOK
  <1>3. CASE CallV8LogCallbacks
    <2>1. /\ Head(cbq) \in Callback /\ Tail(cbq) \in Seq(Callback)
          /\ Len(Tail(cbq)) = Len(cbq) - 1 /\ Len(cbq) \in Nat /\ CbQueueSize \in Nat
      BY <1>3, HeadTailProperties, LenProperties, PipelineAssumption
         DEF CallV8LogCallbacks, TypeOK, IOTypes
    <2>2. IOTypes'
      BY <1>3, <2>1 DEF CallV8LogCallbacks, ioVars, TypeOK, IOTypes
    <2> QED BY <1>3, <2>2, UnchangedTypes DEF CallV8LogCallbacks, TypeOK
  <1>4. CASE DoV8Callback
    <2>1. vcb \in Callback /\ vcb.t \in Targets
      BY <1>4 DEF DoV8Callback, TypeOK, IOTypes, Callback
    <2>2. out[vcb.t] \o Content(vcb.t, vcb) \in Seq(Msgs)
      BY <2>1, ContentTypes, ConcatProperties DEF TypeOK, IOTypes
    <2>3. IOTypes'
      BY <1>4, <2>1, <2>2 DEF DoV8Callback, TypeOK, IOTypes
    <2>4. BankTypes'
      <3>1. CASE vcb.b # None
        <4>1. vcb.b \in Banks
          BY <2>1, <3>1 DEF Callback
        <4>2. Cleared(vcb.t, vcb.b) /\ UNCHANGED <<cur, wout>>
              /\ avail' = [avail EXCEPT ![vcb.t] = @ \cup {vcb.b}]
          BY <1>4, <3>1 DEF DoV8Callback
        <4>3. /\ data' \in [Targets -> [Banks -> Seq(Msgs)]]
              /\ used' \in [Targets -> [Banks -> Nat]]
          BY <2>1, <4>1, <4>2, ClearedTypes DEF TypeOK
        <4> QED BY <2>1, <4>1, <4>2, <4>3 DEF TypeOK, BankTypes
      <3>2. CASE vcb.b = None
        BY <1>4, <3>2, UnchangedTypes DEF DoV8Callback, bankVars
      <3> QED BY <3>1, <3>2
    <2> QED BY <1>4, <2>3, <2>4, UnchangedTypes DEF DoV8Callback, TypeOK
  <1> QED BY <1>1, <1>2, <1>3, <1>4

LEMMA InitTypes == ASSUME Init PROVE TypeOK
  <1> USE PipelineAssumption
  <1>1. 0 \in Banks /\ None \notin Masters \cup Banks
    BY DEF Banks
  <1>2. ProducerTypes /\ FlushTypes
    BY <1>1 DEF Init, ProducerTypes, FlushTypes
  <1>3. \A S : <<>> \in Seq(S) /\ Len(<<>>) = 0
    BY EmptySeq
  <1>4. QueueTypes /\ IOTypes
    <2>1. QueueTypes
      <3>1. cmdq \in Seq(Cmd) /\ Len(cmdq) <= QueueSize
        BY <1>3 DEF Init
      <3>2. wake \in BOOLEAN /\ masterAvail \subseteq Masters
        BY DEF Init
      <3> QED BY <3>1, <3>2 DEF QueueTypes
    <2>2. cbq \in Seq(Callback) /\ Len(cbq) <= CbQueueSize
      BY <1>3 DEF Init
    <2>3. fly \in [Targets -> Seq(WriteReq)] /\ fin \in [Targets -> Seq(WriteReq)]
      BY <1>3 DEF Init
    <2>4. out \in [Targets -> Seq(Msgs)]
      BY <1>3 DEF Init
    <2>5. disabled \subseteq Targets /\ vcb \in Callback \cup {None} /\ needGrease \in Int
      BY DEF Init
    <2> QED BY <2>1, <2>2, <2>3, <2>4, <2>5 DEF IOTypes
  <1>5. BankTypes
    BY <1>1, <1>3 DEF Init, BankTypes
  <1>6. GreaseTypes
    BY <1>1, <1>3 DEF Init, GreaseTypes, WritePcs
  <1> QED BY <1>2, <1>4, <1>5, <1>6 DEF TypeOK

LEMMA NextTypes == ASSUME TypeOK, [Next]_vars PROVE TypeOK'
  <1>1. ASSUME NEW p \in Producers, ProducerStep(p) PROVE TypeOK'
    BY <1>1, LogStartTypes, LogEnqueueTypes, LogSendTypes DEF ProducerStep
  <1>2. CASE GreaseStep
    <2>1. "grease" \in Threads
      BY DEF Threads
    <2> QED BY <1>2, <2>1, LoopTypes, DequeueTypes, EndCmdTypes, WriteTypes,
               OverflowTypes, FlushTypesKept DEF GreaseStep
  <1>3. CASE FlushTimer \/ Flush \/ DisableWrites
    BY <1>3, LoopTypes, V8Types
  <1>4. ASSUME NEW t \in Targets, WriteCb(t) \/ PerformWrite(t) PROVE TypeOK'
    BY <1>4, WriteCbTypes, PerformWriteTypes
  <1>5. CASE V8Step
    <2>1. "v8" \in Threads
      BY DEF Threads
    <2> QED BY <1>5, <2>1, V8Types, FlushTypesKept DEF V8Step
  <1>6. CASE UNCHANGED vars
    BY <1>6, UnchangedTypes DEF vars, prodVars, bankVars, ioVars, gVars, fVars, TypeOK
  <1> QED BY <1>1, <1>2, <1>3, <1>4, <1>5, <1>6 DEF Next

\* Type correctness for every instance: no step of log(), handleInternalCmd, write(),
\* flushAll(), the libuv callbacks or the V8 thread leaves the types.
THEOREM TypesHold == Spec => []TypeOK
  <1>1. Init => TypeOK
    BY InitTypes
  <1>2. TypeOK /\ [Next]_vars => TypeOK'
    BY NextTypes
  <1> QED BY <1>1, <1>2, PTL DEF Spec

-----------------------------------------------------------------------------
(* Master buffers                                                           *)

masterVars == <<pbuf, masterAvail, cmdq, gbuf>>

\* A command that carries no queued master buffer joins the queue.
LEMMA AppendQueued ==
  ASSUME TypeOK, QueuedOnce, NEW c \in Cmd, cmdq' = Append(cmdq, c),
         c.buf \in Masters => ~Queued(c.buf)
  PROVE  /\ \A l \in Masters : Queued(l)' => Queued(l) \/ c.buf = l
         /\ QueuedOnce'
  <1>1. cmdq \in Seq(Cmd) /\ Len(cmdq) \in Nat
    BY LenProperties DEF TypeOK, QueueTypes
  <1>2. /\ DOMAIN cmdq = 1..Len(cmdq) /\ DOMAIN cmdq' = 1..(Len(cmdq) + 1)
        /\ \A i \in 1..Len(cmdq) : cmdq'[i] = cmdq[i]
        /\ cmdq'[Len(cmdq) + 1] = c
    <2> HIDE DEF Cmd
    <2> QED BY <1>1, AppendProperties, LenProperties
  <1>3. \A i \in DOMAIN cmdq' : i \in DOMAIN cmdq \/ i = Len(cmdq) + 1
    BY <1>1, <1>2
  <1>4. ASSUME NEW l \in Masters, Queued(l)' PROVE Queued(l) \/ c.buf = l
    BY <1>2, <1>3, <1>4 DEF Queued
  <1>5. QueuedOnce'
    <2> SUFFICES ASSUME NEW i \in DOMAIN cmdq', NEW j \in DOMAIN cmdq',
                        cmdq'[i].buf \in Masters, cmdq'[i].buf = cmdq'[j].buf
                 PROVE  i = j
      BY DEF QueuedOnce
    <2>1. CASE i \in DOMAIN cmdq /\ j \in DOMAIN cmdq
      BY <1>2, <2>1 DEF QueuedOnce
    <2>2. CASE i \in DOMAIN cmdq /\ j = Len(cmdq) + 1
      BY <1>2, <2>2 DEF Queued
    <2>3. CASE i = Len(cmdq) + 1 /\ j \in DOMAIN cmdq
      BY <1>2, <2>3 DEF Queued
    <2> QED BY <1>3, <2>1, <2>2, <2>3
  <1> QED BY <1>4, <1>5

\* The head of the queue leaves it, and nothing else carries its master buffer.
LEMMA TailQueued ==
  ASSUME TypeOK, QueuedOnce, cmdq # <<>>, cmdq' = Tail(cmdq)
  PROVE  /\ \A l \in Masters : Queued(l)' => Queued(l) /\ Head(cmdq).buf # l
         /\ \A l \in Masters : Head(cmdq).buf = l => Queued(l)
         /\ QueuedOnce'
  <1>1. cmdq \in Seq(Cmd) /\ Len(cmdq) \in Nat \ {0} /\ Head(cmdq) = cmdq[1]
    BY EmptySeq, LenProperties, HeadTailProperties DEF TypeOK, QueueTypes
  <1>2. /\ DOMAIN cmdq = 1..Len(cmdq) /\ DOMAIN cmdq' = 1..(Len(cmdq) - 1)
        /\ \A i \in 1..(Len(cmdq) - 1) : cmdq'[i] = cmdq[i + 1]
    <2>1. /\ Tail(cmdq) \in Seq(Cmd) /\ Len(Tail(cmdq)) = Len(cmdq) - 1
          /\ \A i \in 1..Len(Tail(cmdq)) : Tail(cmdq)[i] = cmdq[i + 1]
      BY <1>1, HeadTailProperties
    <2> QED BY <1>1, <2>1, LenProperties
  <1>3. \A i \in DOMAIN cmdq' : i + 1 \in DOMAIN cmdq /\ i + 1 # 1 /\ i \in Int
    BY <1>1, <1>2
  <1>4. 1 \in DOMAIN cmdq
    BY <1>1, <1>2
  <1>5. ASSUME NEW l \in Masters, Queued(l)' PROVE Queued(l) /\ Head(cmdq).buf # l
    <2>1. PICK i \in DOMAIN cmdq' : cmdq'[i].buf = l
      BY <1>5 DEF Queued
    <2>2. i + 1 \in DOMAIN cmdq /\ cmdq[i + 1].buf = l /\ i + 1 # 1
      BY <1>2, <1>3, <2>1
    <2> QED BY <1>1, <1>4, <2>2 DEF Queued, QueuedOnce
  <1>6. \A l \in Masters : Head(cmdq).buf = l => Queued(l)
    BY <1>1, <1>4 DEF Queued
  <1>7. QueuedOnce'
    <2> SUFFICES ASSUME NEW i \in DOMAIN cmdq', NEW j \in DOMAIN cmdq',
                        cmdq'[i].buf \in Masters, cmdq'[i].buf = cmdq'[j].buf
                 PROVE  i = j
      BY DEF QueuedOnce
    <2>1. i + 1 \in DOMAIN cmdq /\ j + 1 \in DOMAIN cmdq /\ i \in Int /\ j \in Int
      BY <1>3
    <2>2. cmdq'[i] = cmdq[i + 1] /\ cmdq'[j] = cmdq[j + 1]
      BY <1>2
    <2>3. i + 1 = j + 1
      BY <2>1, <2>2 DEF QueuedOnce
    <2> QED BY <2>1, <2>3
  <1> QED BY <1>5, <1>6, <1>7

LEMMA SameMasters ==
  ASSUME MasterInOnePlace, UNCHANGED masterVars
  PROVE  MasterInOnePlace'
  BY DEF MasterInOnePlace, PlacesDisjoint, HeldOnce, QueuedOnce, HeldByProducer,
         Queued, masterVars

\* write() queues a command without a master buffer.
LEMMA WriteQueues ==
  ASSUME TypeOK, MasterInOnePlace, NEW c \in Cmd, c.buf = None,
         cmdq' = Append(cmdq, c), UNCHANGED <<pbuf, masterAvail, gbuf>>
  PROVE  MasterInOnePlace'
  <1>1. None \notin Masters
    BY PipelineAssumption
  <1>2. (\A l \in Masters : Queued(l)' => Queued(l)) /\ QueuedOnce'
    BY <1>1, AppendQueued DEF MasterInOnePlace
  <1> QED BY <1>2 DEF MasterInOnePlace, PlacesDisjoint, HeldOnce, HeldByProducer

LEMMA ProducerMasters ==
  ASSUME TypeOK, MasterInOnePlace, NEW p \in Producers, ProducerStep(p)
  PROVE  MasterInOnePlace'
  <1>1. CASE LogStart(p)
    <2>1. UNCHANGED <<cmdq, gbuf>>
      BY <1>1 DEF LogStart, gVars
    <2>2. CASE UNCHANGED <<pbuf, masterAvail>>
      BY <2>1, <2>2, SameMasters DEF masterVars
    <2>3. CASE \E l \in masterAvail : /\ masterAvail' = MastersWithout(l)
                                      /\ pbuf' = [pbuf EXCEPT ![p] = l]
      <3>1. PICK l \in masterAvail : /\ masterAvail' = masterAvail \ {l}
                                     /\ pbuf' = [pbuf EXCEPT ![p] = l]
        BY <2>3 DEF MastersWithout
      <3>2. l \in Masters /\ DOMAIN pbuf = Producers
        BY DEF TypeOK, QueueTypes, ProducerTypes
      <3>3. ~HeldByProducer(l) /\ ~Queued(l) /\ gbuf # l
        BY <3>2 DEF MasterInOnePlace, PlacesDisjoint
      <3>4. \A k : HeldByProducer(k)' => HeldByProducer(k) \/ k = l
        BY <3>1, <3>2 DEF HeldByProducer
      <3>5. \A k : Queued(k)' <=> Queued(k)
        BY <2>1 DEF Queued
      <3>6. PlacesDisjoint'
        BY <2>1, <3>1, <3>3, <3>4, <3>5 DEF MasterInOnePlace, PlacesDisjoint
      <3>7. HeldOnce'
        BY <3>1, <3>2, <3>3 DEF MasterInOnePlace, HeldOnce, HeldByProducer
      <3>8. QueuedOnce'
        BY <2>1 DEF MasterInOnePlace, QueuedOnce
      <3> QED BY <3>6, <3>7, <3>8 DEF MasterInOnePlace
    <2> QED BY <1>1, <2>2, <2>3 DEF LogStart
  <1>2. CASE LogEnqueue(p)
    <2>1. UNCHANGED <<masterAvail, gbuf>> /\ pbuf' = [pbuf EXCEPT ![p] = None]
      BY <1>2 DEF LogEnqueue, gVars
    <2>2. DOMAIN pbuf = Producers /\ None \notin Masters
      BY PipelineAssumption DEF TypeOK, ProducerTypes
    <2>3. \A l \in Masters : HeldByProducer(l)' => HeldByProducer(l) /\ pbuf[p] # l
      <3> SUFFICES ASSUME NEW l \in Masters, NEW q \in Producers, pbuf'[q] = l
                   PROVE  HeldByProducer(l) /\ pbuf[p] # l
        BY DEF HeldByProducer
      <3>1. q # p /\ pbuf[q] = l
        BY <2>1, <2>2
      <3> QED BY <3>1 DEF HeldByProducer, MasterInOnePlace, HeldOnce
    <2>4. HeldOnce'
      BY <2>1, <2>2 DEF MasterInOnePlace, HeldOnce
    <2>5. CASE UNCHANGED cmdq
      BY <2>1, <2>3, <2>4, <2>5 DEF MasterInOnePlace, PlacesDisjoint, QueuedOnce, Queued
    <2>6. CASE cmdq' = Append(cmdq, IF pbuf[p] = None THEN Overflow(pmsg[p])
                                    ELSE NewLog(pmsg[p], pbuf[p]))
      <3> DEFINE c == IF pbuf[p] = None THEN Overflow(pmsg[p])
                      ELSE NewLog(pmsg[p], pbuf[p])
      <3>1. pmsg[p] \in Msgs /\ pbuf[p] \in Masters \cup {None}
        BY <1>2 DEF LogEnqueue, TypeOK, ProducerTypes
      <3>2. c \in Cmd /\ c.buf = pbuf[p]
        BY <3>1, CommandTypes DEF Overflow, NewLog
      <3>3. c.buf \in Masters => ~Queued(c.buf) /\ c.buf \notin masterAvail /\ gbuf # c.buf
        BY <3>2 DEF MasterInOnePlace, PlacesDisjoint, HeldByProducer
      <3> HIDE DEF c
      <3>4. /\ \A l \in Masters : Queued(l)' => Queued(l) \/ c.buf = l
            /\ QueuedOnce'
        BY <2>6, <3>2, <3>3, AppendQueued DEF MasterInOnePlace, c
      <3>5. PlacesDisjoint'
        BY <2>1, <2>3, <3>2, <3>3, <3>4 DEF MasterInOnePlace, PlacesDisjoint
      <3> QED BY <2>4, <3>4, <3>5 DEF MasterInOnePlace
    <2> QED BY <1>2, <2>5, <2>6 DEF LogEnqueue
  <1>3. CASE LogSend(p)
    BY <1>3, SameMasters DEF LogSend, masterVars, gVars
  <1> QED BY <1>1, <1>2, <1>3 DEF ProducerStep

\* A NEW_LOG takes its master buffer out of the queue; the end of it frees the buffer.
LEMMA CommandMasters ==
  ASSUME TypeOK, MasterInOnePlace, Dequeue \/ EndCmd
  PROVE  MasterInOnePlace'
  <1>1. CASE Dequeue
    <2>1. UNCHANGED <<pbuf, masterAvail>>
      BY <1>1 DEF Dequeue, prodVars
    <2>2. CASE UNCHANGED <<cmdq, gbuf>>
      BY <2>1, <2>2, SameMasters DEF masterVars
    <2>3. CASE cmdq # <<>> /\ cmdq' = Tail(cmdq) /\ gbuf' \in {gbuf, Head(cmdq).buf}
      <3>1. /\ \A l \in Masters : Queued(l)' => Queued(l) /\ Head(cmdq).buf # l
            /\ \A l \in Masters : Head(cmdq).buf = l => Queued(l)
            /\ QueuedOnce'
        BY <2>3, TailQueued DEF MasterInOnePlace
      <3>2. \A l : HeldByProducer(l)' <=> HeldByProducer(l)
        BY <2>1 DEF HeldByProducer
      <3>3. PlacesDisjoint'
        BY <2>1, <2>3, <3>1, <3>2 DEF MasterInOnePlace, PlacesDisjoint
      <3> QED BY <2>1, <3>1, <3>3 DEF MasterInOnePlace, HeldOnce
    <2> QED BY <1>1, <2>2, <2>3 DEF Dequeue, gVars
  <1>2. CASE EndCmd
    <2>1. UNCHANGED <<pbuf, cmdq>> /\ gbuf' = None
      BY <1>2 DEF EndCmd, prodVars
    <2>2. masterAvail' = masterAvail \/ masterAvail' = masterAvail \cup {gbuf}
      BY <1>2 DEF EndCmd, MastersAfter
    <2>3. PlacesDisjoint'
      <3> SUFFICES ASSUME NEW l \in Masters
                   PROVE  /\ l \in masterAvail' => /\ ~HeldByProducer(l)' /\ ~Queued(l)'
                                                   /\ gbuf' # l
                          /\ HeldByProducer(l)' => ~Queued(l)' /\ gbuf' # l
                          /\ Queued(l)' => gbuf' # l
        BY DEF PlacesDisjoint
      <3>1. gbuf' # l
        BY <2>1, PipelineAssumption
      <3>2. l \in masterAvail' => l \in masterAvail \/ gbuf = l
        BY <2>2
      <3>3. /\ l \in masterAvail => ~HeldByProducer(l) /\ ~Queued(l)
            /\ HeldByProducer(l) => ~Queued(l) /\ gbuf # l
            /\ Queued(l) => gbuf # l
        BY DEF MasterInOnePlace, PlacesDisjoint
      <3>4. /\ HeldByProducer(l)' <=> HeldByProducer(l)
            /\ Queued(l)' <=> Queued(l)
        BY <2>1 DEF HeldByProducer, Queued
      <3> QED BY <3>1, <3>2, <3>3, <3>4, Zenon
    <2> QED BY <2>1, <2>3 DEF MasterInOnePlace, HeldOnce, QueuedOnce
  <1> QED BY <1>1, <1>2

LEMMA WriteMasters ==
  ASSUME TypeOK, MasterInOnePlace, WriteStep
  PROVE  MasterInOnePlace'
  <1>1. CASE WriteTest \/ WriteRequest
    <2>1. UNCHANGED <<pbuf, masterAvail, gbuf>>
      BY <1>1 DEF WriteTest, WriteRequest, prodVars
    <2>2. /\ Overflow(gmsg) \in Cmd /\ Overflow(gmsg).buf = None
          /\ RotateCmd(T) \in Cmd /\ RotateCmd(T).buf = None
      <3>1. groute # <<>> /\ gmsg \in Msgs
        BY <1>1 DEF WriteTest, WriteRequest, TypeOK, GreaseTypes, WritePcs
      <3> QED BY <3>1, WriteTarget, CommandTypes DEF Overflow, RotateCmd
    <2>3. CASE UNCHANGED cmdq
      BY <2>1, <2>3, SameMasters DEF masterVars
    <2>4. CASE cmdq' = Append(cmdq, Overflow(gmsg)) \/ cmdq' = Append(cmdq, RotateCmd(T))
      BY <2>1, <2>2, <2>4, WriteQueues
    <2> QED BY <1>1, <2>3, <2>4 DEF WriteTest, WriteRequest
  <1>2. CASE WriteRef \/ WriteCopy \/ WriteRotate \/ WriteRefCopy
    BY <1>2, SameMasters DEF WriteRef, WriteCopy, WriteRotate, WriteRefCopy,
                             masterVars, prodVars
  <1> QED BY <1>1, <1>2 DEF WriteStep

\* No two users of a master buffer, for every number of producers, buffers, targets
\* and banks, with the V8 thread flushing at any time: the code between remove() and
\* add() of masterBufferAvail never hands the same singleLog to two threads.
THEOREM MastersNeverShared == Spec => []MasterInOnePlace
  <1>1. Init => TypeOK /\ MasterInOnePlace
    <2>1. Init => MasterInOnePlace
      <3> SUFFICES ASSUME Init PROVE MasterInOnePlace
        OBVIOUS
      <3>1. None \notin Masters /\ pbuf = [p \in Producers |-> None] /\ gbuf = None
        BY PipelineAssumption DEF Init
      <3>2. DOMAIN cmdq = {}
        BY EmptySeq, LenProperties DEF Init
      <3> QED BY <3>1, <3>2 DEF MasterInOnePlace, PlacesDisjoint, HeldOnce,
                              QueuedOnce, HeldByProducer, Queued
    <2> QED BY <2>1, InitTypes
  <1>2. ASSUME TypeOK, MasterInOnePlace, [Next]_vars
        PROVE  MasterInOnePlace'
    <2>1. ASSUME NEW p \in Producers, ProducerStep(p) PROVE MasterInOnePlace'
      BY <1>2, <2>1, ProducerMasters
    <2>2. CASE Dequeue \/ EndCmd
      BY <1>2, <2>2, CommandMasters
    <2>3. CASE WriteStep
      BY <1>2, <2>3, WriteMasters
    <2>4. ASSUME NEW x \in Threads, FlushStep(x) PROVE MasterInOnePlace'
      BY <1>2, <2>4, SameMasters DEF FlushStep, FlushRotate, FlushTake, FlushSubmit,
           masterVars, prodVars, gVars
    <2>5. CASE HandleInternalCmd \/ OverflowFlush \/ OverflowWrite
      BY <1>2, <2>5, SameMasters DEF HandleInternalCmd, OverflowFlush, OverflowWrite,
           masterVars, prodVars, gVars
    <2>6. ASSUME NEW t \in Targets, WriteCb(t) \/ PerformWrite(t) PROVE MasterInOnePlace'
      BY <1>2, <2>6, SameMasters DEF WriteCb, PerformWrite, masterVars, prodVars, gVars
    <2>7. CASE FlushTimer \/ Flush \/ DisableWrites \/ CallV8LogCallbacks \/ DoV8Callback
      BY <1>2, <2>7, SameMasters DEF FlushTimer, Flush, DisableWrites,
           CallV8LogCallbacks, DoV8Callback, masterVars, prodVars, gVars
    <2>8. CASE UNCHANGED vars
      BY <1>2, <2>8, SameMasters DEF vars, masterVars, prodVars, gVars
    <2>9. "grease" \in Threads /\ "v8" \in Threads
      BY DEF Threads
    <2>10. CASE Next
      <3>1. CASE GreaseStep
        BY <2>2, <2>3, <2>4, <2>5, <2>9, <3>1 DEF GreaseStep
      <3>2. CASE V8Step
        BY <2>4, <2>7, <2>9, <3>2 DEF V8Step
      <3> QED BY <2>1, <2>6, <2>7, <2>10, <3>1, <3>2 DEF Next
    <2> QED BY <1>2, <2>8, <2>10
  <1>3. TypeOK /\ [Next]_vars => TypeOK'
    BY NextTypes
  <1> QED BY <1>1, <1>2, <1>3, PTL DEF Spec

-----------------------------------------------------------------------------
(* No master buffer disappears while internalCmdQueue has room              *)

\* Only between remove() and addMvIfRoom() does a producer hold a master buffer.
HoldsInside == \A p \in Producers : pbuf[p] \in Masters => ppc[p] = "enqueue"
NotLost(l) == l \in masterAvail \/ HeldByProducer(l) \/ Queued(l) \/ gbuf = l
KeptInv == HoldsInside /\ NoMasterLost

\* What is queued stays queued when a command is added; the head leaves.
LEMMA AppendKeepsQueued ==
  ASSUME TypeOK, NEW c \in Cmd, cmdq' = Append(cmdq, c), NEW l
  PROVE  Queued(l) \/ c.buf = l => Queued(l)'
  <1>1. cmdq \in Seq(Cmd)
    BY DEF TypeOK, QueueTypes
  <1>2. /\ Len(cmdq) \in Nat /\ DOMAIN cmdq = 1..Len(cmdq) /\ DOMAIN cmdq' = 1..(Len(cmdq) + 1)
        /\ \A i \in 1..Len(cmdq) : cmdq'[i] = cmdq[i]
        /\ cmdq'[Len(cmdq) + 1] = c
    <2> HIDE DEF Cmd
    <2> QED BY <1>1, AppendProperties, LenProperties
  <1>3. /\ DOMAIN cmdq \subseteq DOMAIN cmdq' /\ Len(cmdq) + 1 \in DOMAIN cmdq'
        /\ \A i \in DOMAIN cmdq : cmdq'[i] = cmdq[i]
    BY ONLY <1>2
  <1> QED BY ONLY <1>2, <1>3 DEF Queued

LEMMA TailKeepsQueued ==
  ASSUME TypeOK, cmdq # <<>>, cmdq' = Tail(cmdq), NEW l
  PROVE  Queued(l) => Queued(l)' \/ Head(cmdq).buf = l
  <1>1. cmdq \in Seq(Cmd) /\ Len(cmdq) \in Nat \ {0} /\ Head(cmdq) = cmdq[1]
        /\ DOMAIN cmdq = 1..Len(cmdq)
    BY EmptySeq, LenProperties, HeadTailProperties DEF TypeOK, QueueTypes
  <1>2. /\ DOMAIN cmdq' = 1..(Len(cmdq) - 1)
        /\ \A i \in 1..(Len(cmdq) - 1) : cmdq'[i] = cmdq[i + 1]
    <2>1. /\ Tail(cmdq) \in Seq(Cmd) /\ Len(Tail(cmdq)) = Len(cmdq) - 1
          /\ \A i \in 1..Len(Tail(cmdq)) : Tail(cmdq)[i] = cmdq[i + 1]
      BY <1>1, HeadTailProperties
    <2> QED BY <1>1, <2>1, LenProperties
  <1>3. \A i \in DOMAIN cmdq : i = 1 \/ (i - 1 \in DOMAIN cmdq' /\ cmdq'[i - 1] = cmdq[i])
    <2> TAKE i \in DOMAIN cmdq
    <2>1. CASE i # 1
      <3>1. i - 1 \in 1..(Len(cmdq) - 1) /\ (i - 1) + 1 = i
        BY <1>1, <2>1
      <3> QED BY <1>2, <3>1
    <2> QED BY <2>1
  <1> QED BY ONLY <1>1, <1>3 DEF Queued

\* A master buffer is lost only where a producer finds internalCmdQueue full.
LEMMA NextKeepsMasters ==
  ASSUME TypeOK, KeptInv, [Next]_vars,
         ~\E p \in Producers : LogEnqueue(p) /\ ~QueueHasRoom
  PROVE  KeptInv'
  <1>1. ASSUME UNCHANGED <<pbuf, ppc, masterAvail, cmdq, gbuf>> PROVE KeptInv'
    BY <1>1 DEF KeptInv, HoldsInside, NoMasterLost, HeldByProducer, Queued
  <1>2. /\ ppc \in [Producers -> {"idle", "enqueue", "send"}]
        /\ pbuf \in [Producers -> Masters \cup {None}] /\ None \notin Masters
    BY PipelineAssumption DEF TypeOK, ProducerTypes
  <1>3. \A l \in Masters : NotLost(l)
    BY DEF KeptInv, NoMasterLost, NotLost
  <1>4. ASSUME \A l \in Masters : NotLost(l)', HoldsInside' PROVE KeptInv'
    BY <1>4 DEF KeptInv, NoMasterLost, NotLost, HeldByProducer, Queued
  <1>5. ASSUME NEW p \in Producers, LogStart(p) PROVE KeptInv'
    <2>1. UNCHANGED <<cmdq, gbuf>> /\ ppc[p] = "idle" /\ \A l : Queued(l)' <=> Queued(l)
      BY <1>5 DEF LogStart, gVars, Queued
    <2>2. pbuf[p] \notin Masters
      BY <2>1 DEF KeptInv, HoldsInside
    <2>3. /\ pbuf' = pbuf \/ \E l \in masterAvail : pbuf' = [pbuf EXCEPT ![p] = l]
          /\ \A q \in Producers : q # p => pbuf'[q] = pbuf[q] /\ ppc'[q] = ppc[q]
      BY <1>2, <1>5 DEF LogStart
    <2>4. HoldsInside'
      <3>1. pbuf'[p] \in Masters => ppc'[p] = "enqueue"
        BY <1>2, <1>5, <2>2 DEF LogStart
      <3> QED BY <2>3, <3>1 DEF KeptInv, HoldsInside
    <2>5. \A l : HeldByProducer(l) /\ l \in Masters => HeldByProducer(l)'
      BY <2>2, <2>3 DEF HeldByProducer
    <2>6. \A l : l \in masterAvail => l \in masterAvail' \/ HeldByProducer(l)'
      BY <1>2, <1>5 DEF LogStart, MastersWithout, HeldByProducer
    <2> QED BY <1>3, <1>4, <2>1, <2>4, <2>5, <2>6 DEF NotLost
  <1>6. ASSUME NEW p \in Producers, LogEnqueue(p) PROVE KeptInv'
    <2> DEFINE c == IF pbuf[p] = None THEN Overflow(pmsg[p]) ELSE NewLog(pmsg[p], pbuf[p])
    <2>1. /\ QueueHasRoom /\ UNCHANGED <<masterAvail, gbuf>> /\ cmdq' = Append(cmdq, c)
          /\ pbuf' = [pbuf EXCEPT ![p] = None] /\ ppc[p] = "enqueue" /\ ppc' = [ppc EXCEPT ![p] = "send"]
      BY <1>6 DEF LogEnqueue, gVars
    <2>2. c \in Cmd /\ c.buf = pbuf[p]
      <3>1. pmsg[p] \in Msgs /\ pbuf[p] \in Masters \cup {None}
        BY <1>2, <2>1 DEF TypeOK, ProducerTypes
      <3> QED BY <3>1, CommandTypes DEF Overflow, NewLog
    <2> HIDE DEF c
    <2>3. \A l : Queued(l) \/ pbuf[p] = l => Queued(l)'
      BY <2>1, <2>2, AppendKeepsQueued
    <2>4. \A l : HeldByProducer(l) => HeldByProducer(l)' \/ pbuf[p] = l
      BY <1>2, <2>1 DEF HeldByProducer
    <2>5. HoldsInside'
      BY <1>2, <2>1 DEF KeptInv, HoldsInside
    <2> QED BY <1>3, <1>4, <2>1, <2>3, <2>4, <2>5 DEF NotLost
  <1>7. ASSUME NEW p \in Producers, LogSend(p) PROVE KeptInv'
    <2>1. UNCHANGED <<pbuf, masterAvail, cmdq, gbuf>> /\ ppc[p] = "send" /\ ppc' = [ppc EXCEPT ![p] = "idle"]
      BY <1>7 DEF LogSend, gVars
    <2>2. HoldsInside'
      BY <1>2, <2>1 DEF KeptInv, HoldsInside
    <2> QED BY <1>3, <1>4, <2>1, <2>2 DEF NotLost, HeldByProducer, Queued
  <1>8. CASE Dequeue
    <2>1. UNCHANGED <<pbuf, ppc, masterAvail>> /\ gpc = "drain"
      BY <1>8 DEF Dequeue, prodVars
    <2>2. CASE UNCHANGED <<cmdq, gbuf>>
      BY <1>1, <2>1, <2>2
    <2>3. CASE cmdq # <<>> /\ cmdq' = Tail(cmdq)
      <3>1. Head(cmdq) \in Cmd
        BY <2>3, HeadTailProperties DEF TypeOK, QueueTypes
      <3>2. gbuf \notin Masters
        BY <2>1 DEF TypeOK, GreaseTypes, WritePcs
      <3>3. Head(cmdq).buf \in Masters => gbuf' = Head(cmdq).buf
        <4>1. Head(cmdq).c = "ROTATE" => Head(cmdq).buf = None
          BY <3>1 DEF Cmd
        <4> QED BY <1>2, <1>8, <2>3, <4>1 DEF Dequeue
      <3>4. \A l \in Masters : NotLost(l)'
        BY <1>3, <2>1, <2>3, <3>2, <3>3, TailKeepsQueued DEF NotLost, HeldByProducer
      <3> QED BY <1>4, <2>1, <3>4 DEF KeptInv, HoldsInside
    <2> QED BY <1>8, <2>2, <2>3 DEF Dequeue, gVars
  <1>9. CASE EndCmd
    <2>1. UNCHANGED <<pbuf, ppc, cmdq>> /\ gbuf' = None /\ masterAvail' = MastersAfter
      BY <1>9 DEF EndCmd, prodVars
    <2>2. gbuf \in Masters => gpc = "write"
      BY <1>9 DEF EndCmd, TypeOK, GreaseTypes, WritePcs
    <2>3. \A l \in Masters : NotLost(l)'
      BY <1>3, <2>1, <2>2 DEF NotLost, HeldByProducer, Queued, MastersAfter
    <2> QED BY <1>4, <2>1, <2>3 DEF KeptInv, HoldsInside
  <1>10. CASE WriteTest \/ WriteRequest
    <2>1. UNCHANGED <<pbuf, ppc, masterAvail, gbuf>>
      BY <1>10 DEF WriteTest, WriteRequest, prodVars
    <2>2. CASE UNCHANGED cmdq
      BY <1>1, <2>1, <2>2
    <2>3. CASE cmdq' = Append(cmdq, Overflow(gmsg)) \/ cmdq' = Append(cmdq, RotateCmd(T))
      <3>1. Overflow(gmsg) \in Cmd /\ RotateCmd(T) \in Cmd
        <4>1. groute # <<>> /\ gmsg \in Msgs
          BY <1>10 DEF WriteTest, WriteRequest, TypeOK, GreaseTypes, WritePcs
        <4> QED BY <4>1, WriteTarget, CommandTypes DEF Overflow, RotateCmd
      <3>2. \A l : Queued(l) => Queued(l)'
        BY <2>3, <3>1, AppendKeepsQueued
      <3> QED BY <1>3, <1>4, <2>1, <3>2 DEF NotLost, HeldByProducer, KeptInv, HoldsInside
    <2> QED BY <1>10, <2>2, <2>3 DEF WriteTest, WriteRequest
  <1>11. CASE WriteRef \/ WriteCopy \/ WriteRotate \/ WriteRefCopy
    BY <1>1, <1>11 DEF WriteRef, WriteCopy, WriteRotate, WriteRefCopy, prodVars
  <1>12. ASSUME NEW x \in Threads, FlushStep(x) PROVE KeptInv'
    BY <1>1, <1>12 DEF FlushStep, FlushRotate, FlushTake, FlushSubmit, prodVars, gVars
  <1>13. CASE HandleInternalCmd \/ OverflowFlush \/ OverflowWrite
    BY <1>1, <1>13 DEF HandleInternalCmd, OverflowFlush, OverflowWrite, prodVars, gVars
  <1>14. ASSUME NEW t \in Targets, WriteCb(t) \/ PerformWrite(t) PROVE KeptInv'
    BY <1>1, <1>14 DEF WriteCb, PerformWrite, prodVars, gVars
  <1>15. CASE FlushTimer \/ Flush \/ DisableWrites \/ CallV8LogCallbacks \/ DoV8Callback
    BY <1>1, <1>15 DEF FlushTimer, Flush, DisableWrites, CallV8LogCallbacks, DoV8Callback,
         prodVars, gVars
  <1>16. CASE UNCHANGED vars
    BY <1>1, <1>16 DEF vars, prodVars, gVars
  <1>17. "grease" \in Threads /\ "v8" \in Threads
    BY DEF Threads
  <1>18. CASE GreaseStep
    BY <1>8, <1>9, <1>10, <1>11, <1>12, <1>13, <1>17, <1>18 DEF GreaseStep, WriteStep
  <1>19. CASE V8Step
    BY <1>12, <1>15, <1>17, <1>19 DEF V8Step
  <1> QED BY <1>5, <1>6, <1>7, <1>14, <1>15, <1>16, <1>18, <1>19 DEF Next, ProducerStep

\* Every master buffer comes back as long as no producer finds internalCmdQueue full: the
\* return of _log after a failed addMvIfRoom() is the only path that keeps one.
THEOREM MastersLostOnlyWhenFull ==
  Spec /\ [][~\E p \in Producers : LogEnqueue(p) /\ ~QueueHasRoom]_vars => []NoMasterLost
  <1>1. Init => KeptInv
    BY PipelineAssumption DEF Init, KeptInv, HoldsInside, NoMasterLost
  <1>2. TypeOK /\ KeptInv /\ [Next]_vars /\ [~\E p \in Producers : LogEnqueue(p) /\ ~QueueHasRoom]_vars
        => KeptInv'
    <2>1. CASE UNCHANGED vars
      BY <2>1 DEF vars, prodVars, gVars, KeptInv, HoldsInside, NoMasterLost, HeldByProducer, Queued
    <2> QED BY <2>1, NextKeepsMasters
  <1>3. KeptInv => NoMasterLost
    BY DEF KeptInv
  <1> QED BY <1>1, <1>2, <1>3, TypesHold, PTL DEF Spec
=============================================================================
