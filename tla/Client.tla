------------------------------- MODULE Client -------------------------------
(***************************************************************************)
(* Programs that log to greaseLog from another process (grease_client.c), one  *)
(* of whose threads may run JavaScript (client_logger.cc), and the listener   *)
(* that takes their datagrams from a Unix socket (UnixDgramSink of logger.h). *)
(* Every thread has a socket of its own, but all share the pointer grease_log, *)
(* which is tested and called in two steps.                                 *)
(*                                                                         *)
(* A message is <<thread, number>>.  A definition X_Y is X with the mistake Y. *)
(***************************************************************************)
EXTENDS Integers, FiniteSets, Sequences

CONSTANTS
  Threads, Js,         \* the threads; the one that runs JavaScript
  MaxErrors,           \* SINK_MAX_ERRORS
  MaxJsErrors,         \* Opts.maxSinkErrors
  QLen,                \* datagrams the socket of the listener holds
  MaxMsgs, MaxInits, MaxShutdowns, MaxCrashes   \* bounds

ASSUME ClientAssumption ==
  /\ Js \in Threads /\ QLen \in Nat \ {0} /\ MaxMsgs \in Nat /\ MaxInits \in Nat

VARIABLES
  grease_log,          \* "null", "sink" or "local"
  found_module, loaded,   \* whether greaseLog.node was found; whether it is in the process
  fd, my_tid, err_cnt, \* thread-local: the socket, `was set up', failed sends
  pc, fast, fn,        \* where a thread stands, in which init, the grease_log it read
  ping,                \* number of a thread's init, which names the path of its ping
  method, needsCall, sinkErrors, cb,   \* greaseConnectMethod, sinkFailureNeedsCall,
                                       \* sinkErrorCount, onSinkFailureCB is set
  up, sockq, hand,     \* the listener: its socket's queue, the datagram it works on
  bound, inbox,        \* which ping a path belongs to; the acknowledgement a ping got
  crashes, inits, shutdowns, crashed,
  count, fate, logged, accepted, fails, told   \* history: see the properties

client == <<grease_log, found_module, fd, my_tid, err_cnt, pc, fast, fn, ping, inits,
            shutdowns, crashed>>
js == <<method, needsCall, sinkErrors, cb, told>>
sink == <<up, sockq, hand, crashes, logged>>
net == <<bound, inbox>>
hist == <<count, fate, accepted, fails>>
vars == <<client, js, sink, net, hist, loaded>>

Pings == 1..MaxInits
Msgs == Threads \X (1..MaxMsgs)
Nothing == [kind |-> "none", m |-> <<Js, 0>>, ping |-> 0]
LogDgram(m) == [kind |-> "log", m |-> m, ping |-> 0]
PingDgram(p) == [kind |-> "ping", m |-> <<Js, 0>>, ping |-> p]

Init ==
  /\ grease_log = "null" /\ found_module = -1 /\ loaded = FALSE
  /\ fd = [th \in Threads |-> "none"] /\ my_tid = [th \in Threads |-> FALSE]
  /\ err_cnt = [th \in Threads |-> 0]
  /\ pc = [th \in Threads |-> "idle"] /\ fast = [th \in Threads |-> FALSE]
  /\ fn = [th \in Threads |-> "null"] /\ ping = [th \in Threads |-> 0]
  /\ method = "none" /\ needsCall = FALSE /\ sinkErrors = 0 /\ cb = FALSE
  /\ up \in BOOLEAN /\ sockq = <<>> /\ hand = Nothing
  /\ bound = [p \in Pings |-> 0] /\ inbox = [p \in Pings |-> 0]
  /\ crashes = 0 /\ inits = 0 /\ shutdowns = 0 /\ crashed = FALSE
  /\ count = [th \in Threads |-> 0] /\ fate = [m \in Msgs |-> {}]
  /\ logged = {} /\ accepted = {} /\ fails = [th \in Threads |-> 0] /\ told = FALSE

At(th, where) == ~crashed /\ pc[th] = where
Goto(th, where) == pc' = [pc EXCEPT ![th] = where]

-----------------------------------------------------------------------------
(* grease_initLogger(), grease_fastInitLogger(); Start() of JavaScript       *)

\* What an init function does last.  Start() still has to ask for the method.
Return(th, ok) ==
  /\ Goto(th, IF th = Js THEN "method" ELSE "idle")
  /\ needsCall' = IF th = Js /\ ~ok THEN TRUE ELSE needsCall
  /\ UNCHANGED <<method, sinkErrors, cb>>

UseLocal(th) == grease_log' = "local" /\ Return(th, TRUE)
UseSink(th) ==
  /\ grease_log' = "sink" /\ my_tid' = [my_tid EXCEPT ![th] = TRUE] /\ Return(th, TRUE)
UseStderr(th) == grease_log' = "null" /\ Return(th, FALSE)

\* The first grease_initLogger() searches the loaded objects, later ones rely on
\* found_module; grease_fastInitLogger() searches each time.
BeginInit(th, f) ==
  /\ At(th, "idle") /\ inits < MaxInits /\ inits' = inits + 1
  /\ f => th # Js
  /\ fast' = [fast EXCEPT ![th] = f] /\ ping' = [ping EXCEPT ![th] = inits']
  /\ told' = (th # Js /\ told)
  /\ \/ /\ f \/ found_module = -1
        /\ found_module' = 0
        /\ Goto(th, "scan") /\ UNCHANGED <<grease_log, method, needsCall, sinkErrors, cb>>
     \/ ~f /\ found_module = 1 /\ UseLocal(th) /\ UNCHANGED found_module
     \/ /\ ~f /\ found_module = 0 /\ Goto(th, "setup")
        /\ UNCHANGED <<grease_log, found_module, method, needsCall, sinkErrors, cb>>
  /\ UNCHANGED <<fd, my_tid, err_cnt, fn, shutdowns, crashed, sink, net, hist, loaded>>

\* check_grease_symbols() sets found_module to 0, later to 1, and returns what it then reads.
Scan(th) ==
  /\ At(th, "scan") /\ Goto(th, "scanned")
  /\ found_module' = IF loaded THEN 1 ELSE found_module
  /\ UNCHANGED <<grease_log, fd, my_tid, err_cnt, fast, fn, ping, inits, shutdowns, crashed,
                 js, sink, net, hist, loaded>>

Scanned(th) ==
  /\ At(th, "scanned")
  /\ \/ found_module = 1 /\ UseLocal(th)
     \/ found_module = 0 /\ Goto(th, "setup")
        /\ UNCHANGED <<grease_log, method, needsCall, sinkErrors, cb>>
  /\ UNCHANGED <<found_module, fd, my_tid, err_cnt, fast, fn, ping, inits, shutdowns,
                 crashed, told, sink, net, hist, loaded>>

ErrAfterSetup_Kept(th) == err_cnt
ErrAfterSetup(th) == [err_cnt EXCEPT ![th] = 0]

\* mkdtemp(): no two pings share a path.
Path_Shared(p) == 1
Path(p) == p

\* setup_sink_dgram_socket(); a thread that was set up before is not asked again.
Setup(th) ==
  /\ At(th, "setup") /\ err_cnt' = ErrAfterSetup(th)
  /\ fails' = [fails EXCEPT ![th] = 0]
  /\ \/ my_tid[th] /\ UseSink(th) /\ UNCHANGED <<fd, net>>
     \/ /\ ~my_tid[th] /\ fast[th]
        /\ fd' = [fd EXCEPT ![th] = "open"] /\ UseSink(th) /\ UNCHANGED net
     \/ /\ ~my_tid[th] /\ ~fast[th]
        /\ fd' = [fd EXCEPT ![th] = "open"] /\ Goto(th, "ping")
        /\ bound' = [bound EXCEPT ![Path(ping[th])] = ping[th]]
        /\ UNCHANGED <<grease_log, my_tid, method, needsCall, sinkErrors, cb, inbox>>
  /\ UNCHANGED <<found_module, fast, fn, ping, inits, shutdowns, crashed, told, sink, count,
                 fate, accepted, loaded>>

HasRoom_OneMore == Len(sockq) <= QLen
HasRoom == Len(sockq) < QLen

\* ping_sink(): sendto() waits while the queue is full and fails if nobody listens.
Ping(th) ==
  /\ At(th, "ping")
  /\ \/ /\ up /\ HasRoom
        /\ sockq' = Append(sockq, PingDgram(ping[th])) /\ Goto(th, "wait")
        /\ UNCHANGED <<grease_log, bound, method, needsCall, sinkErrors, cb>>
     \/ /\ ~up /\ UseStderr(th)
        /\ bound' = [bound EXCEPT ![Path(ping[th])] = 0] /\ UNCHANGED sockq
  /\ UNCHANGED <<found_module, fd, my_tid, err_cnt, fast, fn, ping, inits, shutdowns,
                 crashed, told, up, hand, crashes, logged, inbox, hist, loaded>>

Acknowledged(th) ==
  /\ At(th, "wait") /\ inbox[ping[th]] # 0
  /\ UseSink(th)
  /\ bound' = [bound EXCEPT ![Path(ping[th])] = 0]
  /\ accepted' = accepted \cup {<<ping[th], inbox[ping[th]]>>}
  /\ UNCHANGED <<found_module, fd, err_cnt, fast, fn, ping, inits, shutdowns, crashed, told,
                 sink, inbox, count, fate, fails, loaded>>

\* SO_RCVTIMEO, 500 ms.
TimesOut_Never(th) == FALSE
TimesOut(th) == inbox[ping[th]] = 0
PingTimeout(th) ==
  /\ At(th, "wait") /\ TimesOut(th)
  /\ UseStderr(th)
  /\ bound' = [bound EXCEPT ![Path(ping[th])] = 0]
  /\ UNCHANGED <<found_module, fd, my_tid, err_cnt, fast, fn, ping, inits, shutdowns,
                 crashed, told, sink, inbox, hist, loaded>>

\* grease_getConnectivityMethod() at the end of Start().
AskMethod ==
  /\ At(Js, "method") /\ Goto(Js, "idle")
  /\ method' = grease_log
  /\ UNCHANGED <<grease_log, found_module, fd, my_tid, err_cnt, fast, fn, ping, inits,
                 shutdowns, crashed, needsCall, sinkErrors, cb, told, sink, net, hist, loaded>>

\* grease_shutdown() leaves grease_log and my_tid as they are.
Shutdown(th) ==
  /\ At(th, "idle") /\ th # Js /\ grease_log = "sink" /\ shutdowns < MaxShutdowns
  /\ shutdowns' = shutdowns + 1 /\ fd' = [fd EXCEPT ![th] = "closed"]
  /\ UNCHANGED <<grease_log, found_module, my_tid, err_cnt, pc, fast, fn, ping, inits, crashed,
                 js, sink, net, hist, loaded>>

-----------------------------------------------------------------------------
(* grease_printf(); Log() of JavaScript                                     *)

Now(th) == <<th, count[th]>>
Ends(m, how) == fate' = [fate EXCEPT ![m] = @ \cup {how}]

TooMany_OneLater == method = "sink" /\ sinkErrors > MaxJsErrors
TooMany == method = "sink" /\ sinkErrors + 1 > MaxJsErrors

\* A failed Log() of JavaScript is reported, or remembered until there is a callback.
JsFailure ==
  /\ told' = (told \/ (cb /\ (needsCall \/ TooMany)))
  /\ needsCall' = (~cb /\ (needsCall \/ TooMany))
  /\ sinkErrors' = IF method = "sink" THEN sinkErrors + 1 ELSE sinkErrors
  /\ method' = IF TooMany THEN "null" ELSE method
  /\ UNCHANGED cb

\* The message was not taken: stderr, which JavaScript does not fall back to.
Fallback(th, m) ==
  /\ Goto(th, "idle")
  /\ \/ th = Js /\ Ends(m, "lost") /\ JsFailure
     \/ th # Js /\ Ends(m, "stderr") /\ UNCHANGED js

BeginLog(th) ==
  /\ At(th, "idle") /\ count[th] < MaxMsgs
  /\ count' = [count EXCEPT ![th] = @ + 1]
  /\ \/ grease_log = "null" /\ Fallback(th, <<th, count[th] + 1>>) /\ UNCHANGED fn
     \/ /\ grease_log # "null" /\ Goto(th, "call") /\ fn' = [fn EXCEPT ![th] = grease_log]
        /\ UNCHANGED <<fate, js>>
  /\ UNCHANGED <<grease_log, found_module, fd, my_tid, err_cnt, fast, ping, inits, shutdowns,
                 crashed, sink, net, accepted, fails, loaded>>

\* The pointer is read again, unless the compiler kept the value the test read.
Call(th) ==
  /\ At(th, "call") /\ fn' = [fn EXCEPT ![th] = "null"]
  /\ \E f \in {fn[th], grease_log} :
       \/ f = "null" /\ crashed' = TRUE /\ UNCHANGED <<pc, fate>>
       \/ f = "local" /\ Goto(th, "idle") /\ Ends(Now(th), "local") /\ UNCHANGED crashed
       \/ f = "sink" /\ Goto(th, "send") /\ UNCHANGED <<crashed, fate>>
  /\ UNCHANGED <<grease_log, found_module, fd, my_tid, err_cnt, fast, ping, inits, shutdowns,
                 js, sink, net, count, accepted, fails, loaded>>

\* grease_printf() returns once the message is taken.
After_Fallthrough(th, m) == fate' = [fate EXCEPT ![m] = {"sent", "stderr"}]
After(th, m) == Ends(m, "sent")

\* sendmsg(): waits while the queue is full.
Send(th) ==
  /\ At(th, "send") /\ fd[th] = "open" /\ up /\ HasRoom
  /\ sockq' = Append(sockq, LogDgram(Now(th)))
  /\ Goto(th, "idle") /\ After(th, Now(th))
  /\ UNCHANGED <<grease_log, found_module, fd, my_tid, err_cnt, fast, fn, ping, inits,
                 shutdowns, crashed, js, up, hand, crashes, logged, net, count, accepted,
                 fails, loaded>>

\* Nobody listens, the socket was closed, or the thread never had one.  Too many errors of
\* one thread switch the logger off for all.
SendFails(th) ==
  /\ At(th, "send") /\ (fd[th] # "open" \/ ~up)
  /\ err_cnt' = [err_cnt EXCEPT ![th] = @ + 1] /\ fails' = [fails EXCEPT ![th] = @ + 1]
  /\ grease_log' = IF err_cnt[th] + 1 > MaxErrors THEN "null" ELSE grease_log
  /\ Fallback(th, Now(th))
  /\ UNCHANGED <<found_module, fd, my_tid, fast, fn, ping, inits, shutdowns, crashed, sink,
                 net, count, accepted, loaded>>

\* setGlobalOpts({onSinkFailureCB: f})
SetCallback ==
  /\ At(Js, "idle") /\ ~cb /\ cb' = TRUE
  /\ UNCHANGED <<client, method, needsCall, sinkErrors, told, sink, net, hist, loaded>>

-----------------------------------------------------------------------------
(* The other side                                                           *)

\* bind() and start() of a new sink: the socket file is replaced.
Bind ==
  /\ ~up /\ up' = TRUE /\ sockq' = <<>>
  /\ UNCHANGED <<client, js, hand, crashes, logged, net, hist, loaded>>

\* The logger's process ends; what its socket held is gone.
Crash ==
  /\ up /\ crashes < MaxCrashes /\ crashes' = crashes + 1
  /\ up' = FALSE /\ sockq' = <<>> /\ hand' = Nothing
  /\ UNCHANGED <<client, js, logged, net, hist, loaded>>

\* listener_work(): one datagram.
Recv ==
  /\ up /\ hand = Nothing /\ sockq # <<>>
  /\ hand' = Head(sockq) /\ sockq' = Tail(sockq)
  /\ UNCHANGED <<client, js, up, crashes, logged, net, hist, loaded>>

\* NEED_PREAMBLE of a ping: the acknowledgement goes to the path it came from, if a socket
\* is bound to it.
AckPing ==
  /\ hand.kind = "ping" /\ hand' = Nothing
  /\ LET owner == bound[Path(hand.ping)] IN
     inbox' = IF owner = 0 THEN inbox ELSE [inbox EXCEPT ![owner] = hand.ping]
  /\ UNCHANGED <<client, js, up, sockq, crashes, logged, bound, hist, loaded>>

\* IN_LOG: logFromRaw() of the entry.
LogEntry ==
  /\ hand.kind = "log" /\ hand' = Nothing /\ logged' = logged \cup {hand.m}
  /\ UNCHANGED <<client, js, up, sockq, crashes, net, hist, loaded>>

\* greaseLog.node is loaded into the client's process.
Load == ~loaded /\ loaded' = TRUE /\ UNCHANGED <<client, js, sink, net, hist>>

-----------------------------------------------------------------------------
InitStep(th) == Scan(th) \/ Scanned(th) \/ Setup(th) \/ Ping(th) \/ Acknowledged(th)
                \/ PingTimeout(th)
LogStep(th) == Call(th) \/ Send(th) \/ SendFails(th)
Listener == Recv \/ AckPing \/ LogEntry

Next == \/ \E th \in Threads : \/ \E f \in BOOLEAN : BeginInit(th, f)
                               \/ InitStep(th) \/ LogStep(th)
                               \/ BeginLog(th) \/ Shutdown(th)
        \/ AskMethod \/ SetCallback \/ Listener \/ Bind \/ Crash \/ Load

Spec == Init /\ [][Next]_vars

\* Threads run, the listener too, and a timeout expires.
FairSpec ==
  /\ Spec /\ WF_vars(Listener) /\ WF_vars(AskMethod)
  /\ \A th \in Threads : WF_vars(InitStep(th)) /\ WF_vars(LogStep(th))

-----------------------------------------------------------------------------
(* Properties                                                               *)

\* The types of the variables.
TypeOK ==
  /\ grease_log \in {"null", "sink", "local"} /\ found_module \in -1..1
  /\ fd \in [Threads -> {"none", "open", "closed"}] /\ my_tid \in [Threads -> BOOLEAN]
  /\ err_cnt \in [Threads -> 0..MaxMsgs]
  /\ pc \in [Threads -> {"idle", "scan", "scanned", "setup", "ping", "wait", "method",
                         "call", "send"}]
  /\ \A th \in Threads : pc[th] \in {"ping", "wait"} => ping[th] \in Pings /\ fd[th] = "open"
  /\ Len(sockq) <= QLen
  /\ \A p \in Pings : bound[p] \in Pings \cup {0} /\ inbox[p] \in Pings \cup {0}

\* A message whose call has returned went one way: to the sink, to the logger in the
\* process, to stderr, or, from JavaScript only, nowhere; and the sink logs no message
\* that was reported as not taken.
OneFate ==
  /\ \A th \in Threads, i \in 1..MaxMsgs :
       i <= count[th] /\ ~(i = count[th] /\ pc[th] \in {"call", "send"}) =>
         \E how \in {"sent", "local", IF th = Js THEN "lost" ELSE "stderr"} :
           fate[<<th, i>>] = {how}
  /\ \A m \in logged : fate[m] = {"sent"}

\* A logger that is taken for alive has answered this ping, not an earlier one that had
\* been given up.
PingsAnswered == \A a \in accepted : a[1] = a[2]

\* grease_log is switched off only by an init that fails or by a failed send of a thread
\* whose sends have failed more often than SINK_MAX_ERRORS since it last connected, however
\* often other threads have connected since.
SwitchedOffForCause ==
  [][grease_log # "null" /\ grease_log' = "null" =>
       \E th \in Threads : \/ pc[th] \in {"ping", "wait"} /\ pc'[th] # pc[th]
                           \/ fails'[th] > fails[th] /\ fails'[th] > MaxErrors]_vars

JsLost == {m \in Msgs : "lost" \in fate[m]}

\* JavaScript that connected to a sink and has a failure callback is told at the latest
\* with the message that follows maxSinkErrors lost ones.
JsIsTold ==
  [][fate' # fate /\ JsLost' # JsLost /\ method = "sink" /\ cb
     /\ Cardinality(JsLost') > MaxJsErrors /\ sinkErrors = Cardinality(JsLost) => told']_vars

\* Every call returns, or the process has died, although sockets block and acknowledgements
\* get lost.
CallsReturn == \A th \in Threads : pc[th] # "idle" ~> (pc[th] = "idle" \/ crashed)
=============================================================================
