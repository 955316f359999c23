--------------------------- MODULE PipelineDelivery ---------------------------
(***************************************************************************)
(* GreasePipeline implements LogDelivery: the refinement mapping collects, *)
(* for each target, what is on its way to it, oldest first.  It holds when   *)
(* the instance is InOrder: a V8 thread that does not flush, targets whose    *)
(* writes are performed in order (TTY, callback), messages that either fit a  *)
(* bank or overflow already in log().                                       *)
(***************************************************************************)
EXTENDS GreasePipeline, SequencesExt

\* When the pipeline keeps the order: V8 does not flush, writes are performed in the order of
\* uv_write() or in the JS callback, a message that fits a master buffer fits a bank, and no
\* message has a target twice.
InOrder == /\ ~V8Flushes
           /\ \A t \in Targets : Kind[t] # "file"
           /\ \A m \in Msgs : Size[m] <= BufferSize => Size[m] + HeaderRoom <= BankSpace
           /\ \A m \in Msgs : \A i, j \in DOMAIN Route[m] : Route[m][i] = Route[m][j] => i = j

\* The texts of the things in a queue, one after the other.
Texts(text, queue) == FlattenSeq([i \in DOMAIN queue |-> text[queue[i]]])

\* What waits for the JS callback of a callback target, which is its output.
CallbackText(t) == [c \in Callback |-> IF c.t = t THEN Content(t, c) ELSE <<>>]
AtV8(t) == IF Kind[t] # "callback" THEN <<>>
           ELSE (IF vcb = None THEN <<>> ELSE CallbackText(t)[vcb])
                \o Texts(CallbackText(t), cbq)

WriteText(t) == [r \in WriteReq |-> Content(t, r)]
Flying(t) == Texts(WriteText(t), fly[t])

\* What the grease thread took out of writeOutBuffers and has not submitted.
InHand(t) ==
  IF ft["grease"] = t /\ fb["grease"] # None THEN data[t][fb["grease"]] ELSE <<>>

Waiting(t) == Texts(data[t], wout[t])

BeingWritten(t) == IF gmsg # None /\ t \in Range(groute) THEN <<gmsg>> ELSE <<>>

CommandText(t) ==
  [c \in Cmd |-> IF c.m # None /\ t \in Range(Route[c.m]) THEN <<c.m>> ELSE <<>>]
InQueue(t) == Texts(CommandText(t), cmdq)

OnTheWay == [t \in Targets |->
  AtV8(t) \o Flying(t) \o InHand(t) \o Waiting(t) \o data[t][cur[t]]
    \o BeingWritten(t) \o InQueue(t)]

\* What log() has queued or dropped.
Seen == Msgs \ (unlogged \cup Range(pmsg))

Delivery == INSTANCE LogDelivery WITH seen <- Seen, pending <- OnTheWay, output <- out

\* Every step of the pipeline accepts, refuses, delivers or loses messages, and
\* otherwise changes nothing a user of the log can see: no target's output repeats,
\* invents or reorders a message (_log, write, rotate, flushAll, uv_write).
ImplementsDelivery == Delivery!Spec

\* An accepted message is lost only when its target has no free bank left or the
\* command queue is full (rotate "NO BUFFERS", write "Dropping TARGET_ROTATE_BUFFER").
LossOnlyUnderPressure ==
  [][\A t \in Targets :
       Len(OnTheWay'[t]) + Len(out'[t]) < Len(OnTheWay[t]) + Len(out[t])
         => avail[t] = {} \/ ~QueueHasRoom]_vars
=============================================================================
