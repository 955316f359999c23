---------------------------- MODULE ClientProofs ----------------------------
(***************************************************************************)
(* What holds of the client library for any threads, queue length and number *)
(* of messages, pings and crashes of the listener.                         *)
(***************************************************************************)
EXTENDS Client, FiniteSetTheorems, TLAPS

-----------------------------------------------------------------------------
(* Where the threads stand                                                  *)

Initialising == {"scan", "scanned", "setup", "ping", "wait"}
Logging == {"call", "send"}

\* A thread inside an init function has a number for its ping; one inside ping_sink() has
\* a socket.
Places ==
  /\ grease_log \in {"null", "sink", "local"} /\ found_module \in -1..1
  /\ inits \in 0..MaxInits
  /\ fd \in [Threads -> {"none", "open", "closed"}] /\ my_tid \in [Threads -> BOOLEAN]
  /\ pc \in [Threads -> {"idle", "scan", "scanned", "setup", "ping", "wait", "method",
                         "call", "send"}]
  /\ ping \in [Threads -> Nat]
  /\ \A th \in Threads : /\ pc[th] \in Initialising => ping[th] \in Pings
                         /\ pc[th] \in {"ping", "wait"} => fd[th] = "open"

LEMMA PlacesInit == Init => Places
  BY ClientAssumption DEF Init, Places, Initialising

LEMMA PlacesNext == Places /\ [Next]_vars => Places'
  <1> SUFFICES ASSUME Places, [Next]_vars PROVE Places'
    OBVIOUS
  <1> USE ClientAssumption DEF Places, Initialising, Pings, At, Goto, client, js, sink, net, hist
  <1>1. ASSUME NEW th \in Threads, NEW f \in BOOLEAN, BeginInit(th, f) PROVE Places'
    BY <1>1 DEF BeginInit, UseLocal, Return
  <1>2. ASSUME NEW th \in Threads, Scan(th) PROVE Places'
    BY <1>2 DEF Scan
  <1>3. ASSUME NEW th \in Threads, Scanned(th) PROVE Places'
    BY <1>3 DEF Scanned, UseLocal, Return
  <1>4. ASSUME NEW th \in Threads, Setup(th) PROVE Places'
    BY <1>4 DEF Setup, UseSink, Return
  <1>5. ASSUME NEW th \in Threads, Ping(th) PROVE Places'
    BY <1>5 DEF Ping, UseStderr, Return
  <1>6. ASSUME NEW th \in Threads, Acknowledged(th) PROVE Places'
    BY <1>6 DEF Acknowledged, UseSink, Return
  <1>7. ASSUME NEW th \in Threads, PingTimeout(th) PROVE Places'
    BY <1>7 DEF PingTimeout, UseStderr, Return
  <1>8. ASSUME NEW th \in Threads, Call(th) PROVE Places'
    BY <1>8 DEF Call
  <1>9. ASSUME NEW th \in Threads, Send(th) PROVE Places'
    BY <1>9 DEF Send
  <1>10. ASSUME NEW th \in Threads, SendFails(th) PROVE Places'
    BY <1>10 DEF SendFails, Fallback
  <1>11. ASSUME NEW th \in Threads, BeginLog(th) PROVE Places'
    BY <1>11 DEF BeginLog, Fallback
  <1>12. ASSUME NEW th \in Threads, Shutdown(th) PROVE Places'
    BY <1>12 DEF Shutdown
  <1>13. CASE AskMethod
    BY <1>13 DEF AskMethod
  <1>14. CASE SetCallback
    BY <1>14 DEF SetCallback
  <1>15. CASE Recv
    BY <1>15 DEF Recv
  <1>16. CASE AckPing
    BY <1>16 DEF AckPing
  <1>17. CASE LogEntry
    BY <1>17 DEF LogEntry
  <1>18. CASE Bind
    BY <1>18 DEF Bind
  <1>19. CASE Crash
    BY <1>19 DEF Crash
  <1>20. CASE Load
    BY <1>20 DEF Load
  <1>21. CASE UNCHANGED vars
    BY <1>21 DEF vars
  <1> QED BY <1>1, <1>2, <1>3, <1>4, <1>5, <1>6, <1>7, <1>8, <1>9, <1>10, <1>11,
      <1>12, <1>13, <1>14, <1>15, <1>16, <1>17, <1>18, <1>19, <1>20, <1>21
    DEF Next, InitStep, LogStep, Listener
-----------------------------------------------------------------------------
(* The datagrams and the acknowledgements                                   *)

Dgrams == {Nothing} \cup {LogDgram(m) : m \in Msgs} \cup {PingDgram(p) : p \in Pings}

LEMMA DgramFields ==
  /\ Nothing.kind = "none" /\ Nothing \in Dgrams
  /\ \A m \in Msgs : LogDgram(m) \in Dgrams /\ LogDgram(m).kind = "log" /\ LogDgram(m).m = m
  /\ \A p \in Pings : /\ PingDgram(p) \in Dgrams /\ PingDgram(p).kind = "ping"
                       /\ PingDgram(p).ping = p
  /\ \A d \in Dgrams : /\ d.kind = "ping" => d.ping \in Pings
                       /\ d.kind = "log" => d.m \in Msgs
  <1>1. /\ Nothing \in Dgrams /\ \A m \in Msgs : LogDgram(m) \in Dgrams
        /\ \A p \in Pings : PingDgram(p) \in Dgrams
    BY Zenon DEF Dgrams
  <1>2. Nothing.kind = "none"
    BY DEF Nothing
  <1>3. ASSUME NEW m \in Msgs PROVE LogDgram(m).kind = "log" /\ LogDgram(m).m = m
    BY DEF LogDgram
  <1>4. ASSUME NEW p \in Pings PROVE PingDgram(p).kind = "ping" /\ PingDgram(p).ping = p
    BY DEF PingDgram
  <1>5. ASSUME NEW d \in Dgrams
        PROVE (d.kind = "ping" => d.ping \in Pings) /\ (d.kind = "log" => d.m \in Msgs)
    <2>1. CASE d = Nothing
      BY <2>1, <1>2
    <2>2. CASE \E m \in Msgs : d = LogDgram(m)
      BY <2>2, <1>3
    <2>3. CASE \E p \in Pings : d = PingDgram(p)
      BY <2>3, <1>4
    <2> QED BY <2>1, <2>2, <2>3, Zenon DEF Dgrams
  <1> QED BY <1>1, <1>2, <1>3, <1>4, <1>5

Queues == /\ sockq \in Seq(Dgrams) /\ Len(sockq) <= QLen
          /\ hand \in Dgrams

\* A path belongs to its own ping or to none, and no other ping's acknowledgement gets there.
Paths == /\ bound \in [Pings -> Pings \cup {0}] /\ inbox \in [Pings -> Pings \cup {0}]
         /\ \A p \in Pings : bound[p] \in {0, p} /\ inbox[p] \in {0, p}
         /\ PingsAnswered

\* A thread has begun more messages than have failed since it last connected.
Counts ==
  /\ count \in [Threads -> 0..MaxMsgs] /\ err_cnt \in [Threads -> 0..MaxMsgs]
  /\ \A th \in Threads : IF pc[th] \in Logging THEN err_cnt[th] < count[th]
                                              ELSE err_cnt[th] <= count[th]

LEMMA CountsInit == Init => Counts
  BY ClientAssumption DEF Init, Counts, Logging

LEMMA CountsNext == Places /\ Counts /\ [Next]_vars => Counts'
  <1> SUFFICES ASSUME Places, Counts, [Next]_vars PROVE Counts'
    OBVIOUS
  <1> USE ClientAssumption DEF Places, Counts, Logging, At, Goto, client, js, sink, net, hist
  <1>1. ASSUME NEW th \in Threads, NEW f \in BOOLEAN, BeginInit(th, f) PROVE Counts'
    BY <1>1 DEF BeginInit, UseLocal, Return
  <1>2. ASSUME NEW th \in Threads, Scan(th) PROVE Counts'
    BY <1>2 DEF Scan
  <1>3. ASSUME NEW th \in Threads, Scanned(th) PROVE Counts'
    BY <1>3 DEF Scanned, UseLocal, Return
  <1>4. ASSUME NEW th \in Threads, Setup(th) PROVE Counts'
    BY <1>4 DEF Setup, UseSink, Return, ErrAfterSetup
  <1>5. ASSUME NEW th \in Threads, Ping(th) PROVE Counts'
    BY <1>5 DEF Ping, UseStderr, Return
  <1>6. ASSUME NEW th \in Threads, Acknowledged(th) PROVE Counts'
    BY <1>6 DEF Acknowledged, UseSink, Return
  <1>7. ASSUME NEW th \in Threads, PingTimeout(th) PROVE Counts'
    BY <1>7 DEF PingTimeout, UseStderr, Return
  <1>8. ASSUME NEW th \in Threads, Call(th) PROVE Counts'
    BY <1>8 DEF Call
  <1>9. ASSUME NEW th \in Threads, Send(th) PROVE Counts'
    BY <1>9 DEF Send
  <1>10. ASSUME NEW th \in Threads, SendFails(th) PROVE Counts'
    BY <1>10 DEF SendFails, Fallback
  <1>11. ASSUME NEW th \in Threads, BeginLog(th) PROVE Counts'
    BY <1>11 DEF BeginLog, Fallback
  <1>12. ASSUME NEW th \in Threads, Shutdown(th) PROVE Counts'
    BY <1>12 DEF Shutdown
  <1>13. CASE AskMethod
    BY <1>13 DEF AskMethod
  <1>14. CASE SetCallback
    BY <1>14 DEF SetCallback
  <1>15. CASE Recv
    BY <1>15 DEF Recv
  <1>16. CASE AckPing
    BY <1>16 DEF AckPing
  <1>17. CASE LogEntry
    BY <1>17 DEF LogEntry
  <1>18. CASE Bind
    BY <1>18 DEF Bind
  <1>19. CASE Crash
    BY <1>19 DEF Crash
  <1>20. CASE Load
    BY <1>20 DEF Load
  <1>21. CASE UNCHANGED vars
    BY <1>21 DEF vars
  <1> QED BY <1>1, <1>2, <1>3, <1>4, <1>5, <1>6, <1>7, <1>8, <1>9, <1>10, <1>11,
      <1>12, <1>13, <1>14, <1>15, <1>16, <1>17, <1>18, <1>19, <1>20, <1>21
    DEF Next, InitStep, LogStep, Listener
LEMMA QueuesInit == Init => Queues
  BY ClientAssumption, DgramFields DEF Init, Queues

LEMMA QueuesNext == Places /\ Counts /\ Queues /\ [Next]_vars => Queues'
  <1> SUFFICES ASSUME Places, Counts, Queues, [Next]_vars PROVE Queues'
    OBVIOUS
  <1> USE ClientAssumption, DgramFields DEF Queues, At, Goto, client, js, sink, net, hist
  <1>1. ASSUME NEW th \in Threads, NEW f \in BOOLEAN, BeginInit(th, f) PROVE Queues'
    BY <1>1 DEF BeginInit, UseLocal, Return
  <1>2. ASSUME NEW th \in Threads, Scan(th) PROVE Queues'
    BY <1>2 DEF Scan
  <1>3. ASSUME NEW th \in Threads, Scanned(th) PROVE Queues'
    BY <1>3 DEF Scanned, UseLocal, Return
  <1>4. ASSUME NEW th \in Threads, Setup(th) PROVE Queues'
    BY <1>4 DEF Setup, UseSink, Return
  <1>5. ASSUME NEW th \in Threads, Ping(th) PROVE Queues'
    <2>1. ping[th] \in Pings
      BY <1>5 DEF Ping, Places, Initialising
    <2> QED BY <1>5, <2>1 DEF Ping, HasRoom
  <1>6. ASSUME NEW th \in Threads, Acknowledged(th) PROVE Queues'
    BY <1>6 DEF Acknowledged, UseSink, Return
  <1>7. ASSUME NEW th \in Threads, PingTimeout(th) PROVE Queues'
    BY <1>7 DEF PingTimeout, UseStderr, Return
  <1>8. ASSUME NEW th \in Threads, Call(th) PROVE Queues'
    BY <1>8 DEF Call, Ends
  <1>9. ASSUME NEW th \in Threads, Send(th) PROVE Queues'
    <2>1. Now(th) \in Msgs
      BY <1>9 DEF Send, Now, Msgs, Places, Counts, Logging
    <2> QED BY <1>9, <2>1 DEF Send, HasRoom
  <1>10. ASSUME NEW th \in Threads, SendFails(th) PROVE Queues'
    BY <1>10 DEF SendFails, Fallback
  <1>11. ASSUME NEW th \in Threads, BeginLog(th) PROVE Queues'
    BY <1>11 DEF BeginLog, Fallback
  <1>12. ASSUME NEW th \in Threads, Shutdown(th) PROVE Queues'
    BY <1>12 DEF Shutdown
  <1>13. CASE AskMethod
    BY <1>13 DEF AskMethod
  <1>14. CASE SetCallback
    BY <1>14 DEF SetCallback
  <1>15. CASE Recv
    BY <1>15 DEF Recv
  <1>16. CASE AckPing
    BY <1>16 DEF AckPing
  <1>17. CASE LogEntry
    BY <1>17 DEF LogEntry
  <1>18. CASE Bind
    BY <1>18 DEF Bind
  <1>19. CASE Crash
    BY <1>19 DEF Crash
  <1>20. CASE Load
    BY <1>20 DEF Load
  <1>21. CASE UNCHANGED vars
    BY <1>21 DEF vars
  <1> QED BY <1>1, <1>2, <1>3, <1>4, <1>5, <1>6, <1>7, <1>8, <1>9, <1>10, <1>11,
      <1>12, <1>13, <1>14, <1>15, <1>16, <1>17, <1>18, <1>19, <1>20, <1>21
    DEF Next, InitStep, LogStep, Listener

LEMMA PathsInit == Init => Paths
  BY DEF Init, Paths, PingsAnswered

LEMMA PathsNext == Places /\ Queues /\ Paths /\ [Next]_vars => Paths'
  <1> SUFFICES ASSUME Places, Queues, Paths, [Next]_vars PROVE Paths'
    OBVIOUS
  <1> USE DEF Paths, PingsAnswered, Path, At, Goto, client, js, sink, net, hist
  <1>1. ASSUME NEW th \in Threads, NEW f \in BOOLEAN, BeginInit(th, f) PROVE Paths'
    BY <1>1 DEF BeginInit
  <1>2. ASSUME NEW th \in Threads, Scan(th) PROVE Paths'
    BY <1>2 DEF Scan
  <1>3. ASSUME NEW th \in Threads, Scanned(th) PROVE Paths'
    BY <1>3 DEF Scanned
  <1>4. ASSUME NEW th \in Threads, Setup(th) PROVE Paths'
    <2>1. ping[th] \in Pings
      BY <1>4 DEF Setup, Places, Initialising
    <2> QED BY <1>4, <2>1 DEF Setup
  <1>5. ASSUME NEW th \in Threads, Ping(th) PROVE Paths'
    <2>1. ping[th] \in Pings
      BY <1>5 DEF Ping, Places, Initialising
    <2> QED BY <1>5, <2>1 DEF Ping
  <1>6. ASSUME NEW th \in Threads, Acknowledged(th) PROVE Paths'
    <2>1. ping[th] \in Pings
      BY <1>6 DEF Acknowledged, Places, Initialising
    <2> QED BY <1>6, <2>1 DEF Acknowledged
  <1>7. ASSUME NEW th \in Threads, PingTimeout(th) PROVE Paths'
    <2>1. ping[th] \in Pings
      BY <1>7 DEF PingTimeout, Places, Initialising
    <2> QED BY <1>7, <2>1 DEF PingTimeout
  <1>8. ASSUME NEW th \in Threads, Call(th) PROVE Paths'
    BY <1>8 DEF Call
  <1>9. ASSUME NEW th \in Threads, Send(th) PROVE Paths'
    BY <1>9 DEF Send
  <1>10. ASSUME NEW th \in Threads, SendFails(th) PROVE Paths'
    BY <1>10 DEF SendFails
  <1>11. ASSUME NEW th \in Threads, BeginLog(th) PROVE Paths'
    BY <1>11 DEF BeginLog
  <1>12. ASSUME NEW th \in Threads, Shutdown(th) PROVE Paths'
    BY <1>12 DEF Shutdown
  <1>13. CASE AskMethod
    BY <1>13 DEF AskMethod
  <1>14. CASE SetCallback
    BY <1>14 DEF SetCallback
  <1>15. CASE Recv
    BY <1>15 DEF Recv
  <1>16. CASE AckPing
    <2>1. hand.ping \in Pings
      BY <1>16, DgramFields DEF AckPing, Queues
    <2> QED BY <1>16, <2>1 DEF AckPing
  <1>17. CASE LogEntry
    BY <1>17 DEF LogEntry
  <1>18. CASE Bind
    BY <1>18 DEF Bind
  <1>19. CASE Crash
    BY <1>19 DEF Crash
  <1>20. CASE Load
    BY <1>20 DEF Load
  <1>21. CASE UNCHANGED vars
    BY <1>21 DEF vars
  <1> QED BY <1>1, <1>2, <1>3, <1>4, <1>5, <1>6, <1>7, <1>8, <1>9, <1>10, <1>11,
      <1>12, <1>13, <1>14, <1>15, <1>16, <1>17, <1>18, <1>19, <1>20, <1>21
    DEF Next, InitStep, LogStep, Listener
-----------------------------------------------------------------------------
(* Where a message goes                                                     *)

Ways(th) == {"sent", "local", IF th = Js THEN "lost" ELSE "stderr"}

\* The call that logs message i of the thread has not begun, or has not returned.
Open(th, i) == i > count[th] \/ (i = count[th] /\ pc[th] \in Logging)

Sent(d) == d.kind = "log" => fate[d.m] = {"sent"}

\* An open message has no fate, another one exactly one; what is on its way to the sink, or
\* logged by it, was sent.
Fates ==
  /\ fate \in [Msgs -> SUBSET {"sent", "local", "lost", "stderr"}]
  /\ \A th \in Threads, i \in 1..MaxMsgs :
       IF Open(th, i) THEN fate[<<th, i>>] = {} ELSE \E how \in Ways(th) : fate[<<th, i>>] = {how}
  /\ \A m \in logged : m \in Msgs /\ fate[m] = {"sent"}
  /\ Sent(hand) /\ \A n \in 1..Len(sockq) : Sent(sockq[n])

LEMMA FatesInit == Init => Fates
  BY ClientAssumption DEF Init, Fates, Open, Sent, Nothing, Msgs

\* The current message of a thread that has called the logger is open.
LEMMA NowOpen ==
  ASSUME Places, Counts, Fates, NEW th \in Threads, pc[th] \in Logging
  PROVE  Now(th) \in Msgs /\ fate[Now(th)] = {} /\ Now(th) = <<th, count[th]>>
  BY ClientAssumption DEF Places, Counts, Fates, Now, Open, Msgs, Logging

\* A datagram that joins the queue of the sink.
LEMMA SentAppend ==
  ASSUME Queues, NEW d \in Dgrams, sockq' = Append(sockq, d),
         \A n \in 1..Len(sockq) : sockq[n].kind = "log" => fate'[sockq[n].m] = {"sent"},
         d.kind = "log" => fate'[d.m] = {"sent"}
  PROVE  \A n \in 1..Len(sockq') : Sent(sockq[n])'
  BY DEF Queues, Sent

\* Ending an open message in one of its ways leaves all others alone.
LEMMA FatesEnds ==
  ASSUME Queues, Fates, NEW th \in Threads, NEW i \in 1..MaxMsgs, fate[<<th, i>>] = {},
         NEW how \in Ways(th), Ends(<<th, i>>, how),
         \A o \in Threads, j \in 1..MaxMsgs :
           IF o = th /\ j = i THEN ~Open(o, j)' ELSE Open(o, j)' = Open(o, j),
         logged' = logged, hand' = hand,
         \/ sockq' = sockq
         \/ how = "sent" /\ sockq' = Append(sockq, LogDgram(<<th, i>>))
  PROVE  Fates'
  <1>1. <<th, i>> \in Msgs
    BY DEF Msgs
  <1>2. fate' = [fate EXCEPT ![<<th, i>>] = {how}]
    BY <1>1 DEF Ends, Fates
  <1>3. \A m \in Msgs : fate[m] = {"sent"} => fate'[m] = {"sent"}
    BY <1>1, <1>2 DEF Fates
  <1>4. how \in {"sent", "local", "lost", "stderr"}
    BY DEF Ways
  <1>5. fate' \in [Msgs -> SUBSET {"sent", "local", "lost", "stderr"}]
    BY <1>2, <1>4 DEF Fates
  <1>6. \A m \in logged' : m \in Msgs /\ fate'[m] = {"sent"}
    BY <1>3 DEF Fates
  <1>7. \A d \in Dgrams : Sent(d) => (d.kind = "log" => fate'[d.m] = {"sent"})
    BY <1>3, DgramFields DEF Sent
  <1>8. ASSUME NEW o \in Threads, NEW j \in 1..MaxMsgs
        PROVE  IF Open(o, j)' THEN fate'[<<o, j>>] = {}
                              ELSE \E w \in Ways(o) : fate'[<<o, j>>] = {w}
    <2>1. <<o, j>> \in Msgs
      BY DEF Msgs
    <2>2. CASE o = th /\ j = i
      BY <2>2, <1>1, <1>2 DEF Fates
    <2>3. CASE ~(o = th /\ j = i)
      <3>1. fate'[<<o, j>>] = fate[<<o, j>>]
        BY <2>1, <2>3, <1>1, <1>2 DEF Fates
      <3> QED BY <3>1, <2>3 DEF Fates
    <2> QED BY <2>2, <2>3
  <1>9. Sent(hand)'
    BY <1>7 DEF Fates, Queues, Sent
  <1>10. \A n \in 1..Len(sockq) : sockq[n] \in Dgrams /\ Sent(sockq[n])
    BY DEF Fates, Queues
  <1>11. \A n \in 1..Len(sockq') : Sent(sockq[n])'
    <2>1. CASE sockq' = sockq
      BY <2>1, <1>7, <1>10 DEF Sent
    <2>2. CASE how = "sent" /\ sockq' = Append(sockq, LogDgram(<<th, i>>))
      <3>1. fate'[<<th, i>>] = {"sent"}
        BY <2>2, <1>1, <1>2 DEF Fates
      <3> QED BY <2>2, <3>1, <1>1, <1>7, <1>10, DgramFields, SentAppend
    <2> QED BY <2>1, <2>2
  <1> QED BY <1>5, <1>6, <1>8, <1>9, <1>11 DEF Fates

\* A step that begins or ends no message.
LEMMA FatesQuiet ==
  ASSUME Fates, fate' = fate, count' = count,
         \A o \in Threads : pc'[o] \in Logging <=> pc[o] \in Logging,
         \A m \in logged' : m \in Msgs /\ fate[m] = {"sent"},
         Sent(hand)' /\ \A n \in 1..Len(sockq') : Sent(sockq[n])'
  PROVE  Fates'
  BY DEF Fates, Open

LEMMA FatesNext == Places /\ Counts /\ Queues /\ Fates /\ [Next]_vars => Fates'
  <1> SUFFICES ASSUME Places, Counts, Queues, Fates, [Next]_vars PROVE Fates'
    OBVIOUS
  <1> USE ClientAssumption DEF At, Goto, client, js, sink, net, hist
  <1>1. ASSUME NEW th \in Threads, NEW f \in BOOLEAN, BeginInit(th, f) PROVE Fates'
    <2>1. /\ fate' = fate /\ count' = count
          /\ \A o \in Threads : pc'[o] \in Logging <=> pc[o] \in Logging
      BY <1>1 DEF BeginInit, UseLocal, UseSink, UseStderr, Return, Places, Logging
    <2>2. \A m \in logged' : m \in Msgs /\ fate[m] = {"sent"}
      BY <1>1 DEF BeginInit, UseLocal, UseSink, UseStderr, Return, Fates, Sent, Queues
    <2>3. Sent(hand)' /\ \A n \in 1..Len(sockq') : Sent(sockq[n])'
      BY <1>1, <2>1, DgramFields DEF BeginInit, UseLocal, UseSink, UseStderr, Return, Fates, Sent, Queues
    <2> QED BY <2>1, <2>2, <2>3, FatesQuiet
  <1>2. ASSUME NEW th \in Threads, Scan(th) PROVE Fates'
    <2>1. /\ fate' = fate /\ count' = count
          /\ \A o \in Threads : pc'[o] \in Logging <=> pc[o] \in Logging
      BY <1>2 DEF Scan, Places, Logging
    <2>2. \A m \in logged' : m \in Msgs /\ fate[m] = {"sent"}
      BY <1>2 DEF Scan, Fates, Sent, Queues
    <2>3. Sent(hand)' /\ \A n \in 1..Len(sockq') : Sent(sockq[n])'
      BY <1>2, <2>1, DgramFields DEF Scan, Fates, Sent, Queues
    <2> QED BY <2>1, <2>2, <2>3, FatesQuiet
  <1>3. ASSUME NEW th \in Threads, Scanned(th) PROVE Fates'
    <2>1. /\ fate' = fate /\ count' = count
          /\ \A o \in Threads : pc'[o] \in Logging <=> pc[o] \in Logging
      BY <1>3 DEF Scanned, UseLocal, UseSink, UseStderr, Return, Places, Logging
    <2>2. \A m \in logged' : m \in Msgs /\ fate[m] = {"sent"}
      BY <1>3 DEF Scanned, UseLocal, UseSink, UseStderr, Return, Fates, Sent, Queues
    <2>3. Sent(hand)' /\ \A n \in 1..Len(sockq') : Sent(sockq[n])'
      BY <1>3, <2>1, DgramFields DEF Scanned, UseLocal, UseSink, UseStderr, Return, Fates, Sent, Queues
    <2> QED BY <2>1, <2>2, <2>3, FatesQuiet
  <1>4. ASSUME NEW th \in Threads, Setup(th) PROVE Fates'
    <2>1. /\ fate' = fate /\ count' = count
          /\ \A o \in Threads : pc'[o] \in Logging <=> pc[o] \in Logging
      BY <1>4 DEF Setup, UseLocal, UseSink, UseStderr, Return, Places, Logging
    <2>2. \A m \in logged' : m \in Msgs /\ fate[m] = {"sent"}
      BY <1>4 DEF Setup, UseLocal, UseSink, UseStderr, Return, Fates, Sent, Queues
    <2>3. Sent(hand)' /\ \A n \in 1..Len(sockq') : Sent(sockq[n])'
      BY <1>4, <2>1, DgramFields DEF Setup, UseLocal, UseSink, UseStderr, Return, Fates, Sent, Queues
    <2> QED BY <2>1, <2>2, <2>3, FatesQuiet
  <1>5. ASSUME NEW th \in Threads, Ping(th) PROVE Fates'
    <2>1. /\ fate' = fate /\ count' = count
          /\ \A o \in Threads : pc'[o] \in Logging <=> pc[o] \in Logging
      BY <1>5 DEF Ping, UseLocal, UseSink, UseStderr, Return, HasRoom, Places, Logging
    <2>2. \A m \in logged' : m \in Msgs /\ fate[m] = {"sent"}
      BY <1>5 DEF Ping, UseLocal, UseSink, UseStderr, Return, HasRoom, Fates, Sent, Queues
    <2>3. Sent(hand)' /\ \A n \in 1..Len(sockq') : Sent(sockq[n])'
      <3>1. ping[th] \in Pings
        BY <1>5 DEF Ping, Places, Initialising
      <3>2. CASE sockq' = Append(sockq, PingDgram(ping[th]))
        <4>1. hand' = hand
          BY <1>5 DEF Ping
        <4>2. /\ Sent(hand)'
              /\ \A n \in 1..Len(sockq) : sockq[n].kind = "log" => fate'[sockq[n].m] = {"sent"}
          BY <2>1, <4>1 DEF Fates, Sent
        <4>3. PingDgram(ping[th]).kind = "ping" /\ PingDgram(ping[th]) \in Dgrams
          BY <3>1, DgramFields
        <4>4. PingDgram(ping[th]).kind # "log"
          BY ONLY <4>3
        <4> QED BY <3>2, <4>2, <4>3, <4>4, SentAppend
      <3>3. CASE UNCHANGED sockq
        BY <1>5, <2>1, <3>3 DEF Ping, Fates, Sent
      <3> QED BY <1>5, <3>2, <3>3 DEF Ping
    <2> QED BY <2>1, <2>2, <2>3, FatesQuiet
  <1>6. ASSUME NEW th \in Threads, Acknowledged(th) PROVE Fates'
    <2>1. /\ fate' = fate /\ count' = count
          /\ \A o \in Threads : pc'[o] \in Logging <=> pc[o] \in Logging
      BY <1>6 DEF Acknowledged, UseLocal, UseSink, UseStderr, Return, Places, Logging
    <2>2. \A m \in logged' : m \in Msgs /\ fate[m] = {"sent"}
      BY <1>6 DEF Acknowledged, UseLocal, UseSink, UseStderr, Return, Fates, Sent, Queues
    <2>3. Sent(hand)' /\ \A n \in 1..Len(sockq') : Sent(sockq[n])'
      BY <1>6, <2>1, DgramFields DEF Acknowledged, UseLocal, UseSink, UseStderr, Return, Fates, Sent, Queues
    <2> QED BY <2>1, <2>2, <2>3, FatesQuiet
  <1>7. ASSUME NEW th \in Threads, PingTimeout(th) PROVE Fates'
    <2>1. /\ fate' = fate /\ count' = count
          /\ \A o \in Threads : pc'[o] \in Logging <=> pc[o] \in Logging
      BY <1>7 DEF PingTimeout, UseLocal, UseSink, UseStderr, Return, Places, Logging
    <2>2. \A m \in logged' : m \in Msgs /\ fate[m] = {"sent"}
      BY <1>7 DEF PingTimeout, UseLocal, UseSink, UseStderr, Return, Fates, Sent, Queues
    <2>3. Sent(hand)' /\ \A n \in 1..Len(sockq') : Sent(sockq[n])'
      BY <1>7, <2>1, DgramFields DEF PingTimeout, UseLocal, UseSink, UseStderr, Return, Fates, Sent, Queues
    <2> QED BY <2>1, <2>2, <2>3, FatesQuiet
  <1>8. ASSUME NEW th \in Threads, Call(th) PROVE Fates'
    <2>1. Now(th) \in Msgs /\ fate[Now(th)] = {} /\ Now(th) = <<th, count[th]>>
          /\ count[th] \in 1..MaxMsgs
      BY <1>8, NowOpen DEF Call, Logging, Msgs
    <2>2. CASE Goto(th, "idle") /\ Ends(Now(th), "local")
      <3>1. \A o \in Threads, j \in 1..MaxMsgs :
              IF o = th /\ j = count[th] THEN ~Open(o, j)' ELSE Open(o, j)' = Open(o, j)
        BY <1>8, <2>1, <2>2 DEF Call, Open, Logging, Places, Counts
      <3>2. "local" \in Ways(th)
        BY DEF Ways
      <3> QED BY <1>8, <2>1, <2>2, <3>1, <3>2, FatesEnds DEF Call
    <2>3. CASE (Goto(th, "send") \/ UNCHANGED pc) /\ UNCHANGED fate
      <3>1. \A o \in Threads : pc'[o] \in Logging <=> pc[o] \in Logging
        BY <1>8, <2>3 DEF Call, Logging, Places
      <3> QED BY <1>8, <2>3, <3>1, FatesQuiet DEF Call, Fates, Sent
    <2> QED BY <1>8, <2>2, <2>3 DEF Call
  <1>9. ASSUME NEW th \in Threads, Send(th) PROVE Fates'
    <2>1. Now(th) \in Msgs /\ fate[Now(th)] = {} /\ Now(th) = <<th, count[th]>>
          /\ count[th] \in 1..MaxMsgs
      BY <1>9, NowOpen DEF Send, Logging, Msgs
    <2>2. \A o \in Threads, j \in 1..MaxMsgs :
            IF o = th /\ j = count[th] THEN ~Open(o, j)' ELSE Open(o, j)' = Open(o, j)
      <3>1. /\ count' = count /\ pc' = [pc EXCEPT ![th] = "idle"] /\ pc[th] = "send"
            /\ \A o \in Threads : count[o] \in Nat
        BY <1>9, ClientAssumption DEF Send, At, Goto, Counts
      <3> QED BY ONLY <3>1, <2>1, Places DEF Open, Logging, Places
    <2>3. "sent" \in Ways(th)
      BY DEF Ways
    <2> QED BY <1>9, <2>1, <2>2, <2>3, FatesEnds DEF Send, After
  <1>10. ASSUME NEW th \in Threads, SendFails(th) PROVE Fates'
    <2>1. Now(th) \in Msgs /\ fate[Now(th)] = {} /\ Now(th) = <<th, count[th]>>
          /\ count[th] \in 1..MaxMsgs
      BY <1>10, NowOpen DEF SendFails, Logging, Msgs
    <2>2. \A o \in Threads, j \in 1..MaxMsgs :
            IF o = th /\ j = count[th] THEN ~Open(o, j)' ELSE Open(o, j)' = Open(o, j)
      BY <1>10, <2>1 DEF SendFails, Fallback, Open, Logging, Places, Counts
    <2>3. PICK how \in Ways(th) : Ends(Now(th), how)
      BY <1>10 DEF SendFails, Fallback, Ways
    <2> QED BY <1>10, <2>1, <2>2, <2>3, FatesEnds DEF SendFails
  <1>11. ASSUME NEW th \in Threads, BeginLog(th) PROVE Fates'
    <2> DEFINE i == count[th] + 1
    <2>1. i \in 1..MaxMsgs /\ fate[<<th, i>>] = {} /\ pc[th] = "idle"
      BY <1>11 DEF BeginLog, Counts, Fates, Open
    <2>2. CASE Fallback(th, <<th, i>>)
      <3>1. \A o \in Threads, j \in 1..MaxMsgs :
              IF o = th /\ j = i THEN ~Open(o, j)' ELSE Open(o, j)' = Open(o, j)
        BY <1>11, <2>1, <2>2 DEF BeginLog, Fallback, Open, Logging, Places, Counts
      <3>2. PICK how \in Ways(th) : Ends(<<th, i>>, how)
        BY <2>2 DEF Fallback, Ways
      <3> QED BY <1>11, <2>1, <3>1, <3>2, FatesEnds DEF BeginLog
    <2>3. CASE Goto(th, "call") /\ UNCHANGED fate
      <3>1. \A o \in Threads, j \in 1..MaxMsgs : Open(o, j)' = Open(o, j)
        BY <1>11, <2>1, <2>3 DEF BeginLog, Open, Logging, Places, Counts
      <3> QED BY <1>11, <2>3, <3>1 DEF BeginLog, Fates, Sent
    <2> QED BY <1>11, <2>2, <2>3 DEF BeginLog
  <1>12. ASSUME NEW th \in Threads, Shutdown(th) PROVE Fates'
    <2>1. /\ fate' = fate /\ count' = count
          /\ \A o \in Threads : pc'[o] \in Logging <=> pc[o] \in Logging
      BY <1>12 DEF Shutdown, Places, Logging
    <2>2. \A m \in logged' : m \in Msgs /\ fate[m] = {"sent"}
      BY <1>12 DEF Shutdown, Fates, Sent, Queues
    <2>3. Sent(hand)' /\ \A n \in 1..Len(sockq') : Sent(sockq[n])'
      BY <1>12, <2>1, DgramFields DEF Shutdown, Fates, Sent, Queues
    <2> QED BY <2>1, <2>2, <2>3, FatesQuiet
  <1>13. CASE AskMethod
    <2>1. /\ fate' = fate /\ count' = count
          /\ \A o \in Threads : pc'[o] \in Logging <=> pc[o] \in Logging
      BY <1>13 DEF AskMethod, Places, Logging
    <2>2. \A m \in logged' : m \in Msgs /\ fate[m] = {"sent"}
      BY <1>13 DEF AskMethod, Fates, Sent, Queues
    <2>3. Sent(hand)' /\ \A n \in 1..Len(sockq') : Sent(sockq[n])'
      BY <1>13, <2>1, DgramFields DEF AskMethod, Fates, Sent, Queues
    <2> QED BY <2>1, <2>2, <2>3, FatesQuiet
  <1>14. CASE SetCallback
    <2>1. /\ fate' = fate /\ count' = count
          /\ \A o \in Threads : pc'[o] \in Logging <=> pc[o] \in Logging
      BY <1>14 DEF SetCallback, Places, Logging
    <2>2. \A m \in logged' : m \in Msgs /\ fate[m] = {"sent"}
      BY <1>14 DEF SetCallback, Fates, Sent, Queues
    <2>3. Sent(hand)' /\ \A n \in 1..Len(sockq') : Sent(sockq[n])'
      BY <1>14, <2>1, DgramFields DEF SetCallback, Fates, Sent, Queues
    <2> QED BY <2>1, <2>2, <2>3, FatesQuiet
  <1>15. CASE Recv
    <2>1. /\ fate' = fate /\ count' = count
          /\ \A o \in Threads : pc'[o] \in Logging <=> pc[o] \in Logging
      BY <1>15 DEF Recv, Places, Logging
    <2>2. \A m \in logged' : m \in Msgs /\ fate[m] = {"sent"}
      BY <1>15 DEF Recv, Fates, Sent, Queues
    <2>3. Sent(hand)' /\ \A n \in 1..Len(sockq') : Sent(sockq[n])'
      <3>1. /\ sockq # <<>> /\ hand' = sockq[1] /\ sockq' = Tail(sockq) /\ sockq \in Seq(Dgrams)
            /\ \A n \in 1..Len(sockq) : sockq[n].kind = "log" => fate[sockq[n].m] = {"sent"}
        BY <1>15 DEF Recv, Fates, Sent, Queues
      <3>2. \A n \in 1..Len(sockq') : sockq'[n] = sockq[n + 1] /\ n + 1 \in 1..Len(sockq)
        BY ONLY <3>1
      <3>3. 1 \in 1..Len(sockq) /\ fate' = fate
        BY ONLY <2>1, <3>1
      <3>4. Sent(hand)'
        BY ONLY <3>1, <3>3 DEF Sent
      <3>5. \A n \in 1..Len(sockq') : Sent(sockq[n])'
        <4> SUFFICES ASSUME NEW n \in 1..Len(sockq') PROVE Sent(sockq[n])'
          OBVIOUS
        <4>1. sockq'[n] = sockq[n + 1] /\ n + 1 \in 1..Len(sockq)
          BY ONLY <3>2
        <4>2. sockq[n + 1].kind = "log" => fate[sockq[n + 1].m] = {"sent"}
          BY ONLY <3>1, <4>1
        <4> QED BY ONLY <3>3, <4>1, <4>2 DEF Sent
      <3> QED BY ONLY <3>4, <3>5
    <2> QED BY <2>1, <2>2, <2>3, FatesQuiet
  <1>16. CASE AckPing
    <2>1. /\ fate' = fate /\ count' = count
          /\ \A o \in Threads : pc'[o] \in Logging <=> pc[o] \in Logging
      BY <1>16 DEF AckPing, Places, Logging
    <2>2. \A m \in logged' : m \in Msgs /\ fate[m] = {"sent"}
      BY <1>16 DEF AckPing, Fates, Sent, Queues
    <2>3. Sent(hand)' /\ \A n \in 1..Len(sockq') : Sent(sockq[n])'
      BY <1>16, <2>1, DgramFields DEF AckPing, Fates, Sent, Queues
    <2> QED BY <2>1, <2>2, <2>3, FatesQuiet
  <1>17. CASE LogEntry
    <2>1. /\ fate' = fate /\ count' = count
          /\ \A o \in Threads : pc'[o] \in Logging <=> pc[o] \in Logging
      BY <1>17 DEF LogEntry, Places, Logging
    <2>2. \A m \in logged' : m \in Msgs /\ fate[m] = {"sent"}
      BY <1>17, DgramFields DEF LogEntry, Fates, Sent, Queues
    <2>3. Sent(hand)' /\ \A n \in 1..Len(sockq') : Sent(sockq[n])'
      BY <1>17, <2>1, DgramFields DEF LogEntry, Fates, Sent, Queues
    <2> QED BY <2>1, <2>2, <2>3, FatesQuiet
  <1>18. CASE Bind
    <2>1. /\ fate' = fate /\ count' = count
          /\ \A o \in Threads : pc'[o] \in Logging <=> pc[o] \in Logging
      BY <1>18 DEF Bind, Places, Logging
    <2>2. \A m \in logged' : m \in Msgs /\ fate[m] = {"sent"}
      BY <1>18 DEF Bind, Fates, Sent, Queues
    <2>3. Sent(hand)' /\ \A n \in 1..Len(sockq') : Sent(sockq[n])'
      BY <1>18, <2>1, DgramFields DEF Bind, Fates, Sent, Queues
    <2> QED BY <2>1, <2>2, <2>3, FatesQuiet
  <1>19. CASE Crash
    <2>1. /\ fate' = fate /\ count' = count
          /\ \A o \in Threads : pc'[o] \in Logging <=> pc[o] \in Logging
      BY <1>19 DEF Crash, Places, Logging
    <2>2. \A m \in logged' : m \in Msgs /\ fate[m] = {"sent"}
      BY <1>19 DEF Crash, Fates, Sent, Queues
    <2>3. Sent(hand)' /\ \A n \in 1..Len(sockq') : Sent(sockq[n])'
      BY <1>19, <2>1, DgramFields DEF Crash, Fates, Sent, Queues
    <2> QED BY <2>1, <2>2, <2>3, FatesQuiet
  <1>20. CASE Load
    <2>1. /\ fate' = fate /\ count' = count
          /\ \A o \in Threads : pc'[o] \in Logging <=> pc[o] \in Logging
      BY <1>20 DEF Load, Places, Logging
    <2>2. \A m \in logged' : m \in Msgs /\ fate[m] = {"sent"}
      BY <1>20 DEF Load, Fates, Sent, Queues
    <2>3. Sent(hand)' /\ \A n \in 1..Len(sockq') : Sent(sockq[n])'
      BY <1>20, <2>1, DgramFields DEF Load, Fates, Sent, Queues
    <2> QED BY <2>1, <2>2, <2>3, FatesQuiet
  <1>21. CASE UNCHANGED vars
    BY <1>21 DEF vars, Fates, Open, Sent
  <1> QED BY <1>1, <1>2, <1>3, <1>4, <1>5, <1>6, <1>7, <1>8, <1>9, <1>10, <1>11,
      <1>12, <1>13, <1>14, <1>15, <1>16, <1>17, <1>18, <1>19, <1>20, <1>21
    DEF Next, InitStep, LogStep, Listener
-----------------------------------------------------------------------------
(* The theorems                                                             *)

ClientInv == Places /\ Counts /\ Queues /\ Paths /\ Fates

LEMMA ClientInvariant == Spec => []ClientInv
  <1>1. Init => ClientInv
    BY PlacesInit, CountsInit, QueuesInit, PathsInit, FatesInit DEF ClientInv
  <1>2. ClientInv /\ [Next]_vars => ClientInv'
    BY PlacesNext, CountsNext, QueuesNext, PathsNext, FatesNext DEF ClientInv
  <1> QED BY <1>1, <1>2, PTL DEF Spec

\* Every reachable state has the types of TypeOK: ping_sink() has a socket and a path of its
\* own, and the socket of the sink never holds more than it has room for.
THEOREM ClientTypes == Spec => []TypeOK
  <1>1. ClientInv => TypeOK
    BY DEF ClientInv, Places, Counts, Queues, Paths, TypeOK, Initialising, Logging
  <1> QED BY <1>1, ClientInvariant, PTL

\* ping_sink() takes only the acknowledgement of its own ping for one, however late those of
\* pings that were given up arrive.
THEOREM PingsMatch == Spec => []PingsAnswered
  <1>1. ClientInv => PingsAnswered
    BY DEF ClientInv, Paths
  <1> QED BY <1>1, ClientInvariant, PTL

\* A message whose call has returned was taken by the sink, by the logger in the process, or
\* by neither and then fell back, whatever other threads did to grease_log meanwhile; the
\* sink logs only what was sent to it and not reported as failed (grease_printf).
THEOREM MessagesGoOneWay == Spec => []OneFate
  <1>1. ClientInv => OneFate
    BY ClientAssumption DEF ClientInv, Fates, OneFate, Open, Ways, Logging, Counts
  <1> QED BY <1>1, ClientInvariant, PTL

\* err_cnt is what it is meant to be: the failures since the thread last connected.
ErrorsCounted == fails = err_cnt

LEMMA ErrorsNext ==
  ASSUME ErrorsCounted, [Next]_vars
  PROVE  ErrorsCounted'
  <1>1. ASSUME NEW th \in Threads, InitStep(th) PROVE ErrorsCounted'
    <2>1. CASE Setup(th)
      BY <2>1 DEF ErrorsCounted, Setup, ErrAfterSetup
    <2>2. CASE Scan(th) \/ Scanned(th) \/ Ping(th) \/ Acknowledged(th) \/ PingTimeout(th)
      BY <2>2 DEF ErrorsCounted, Scan, Scanned, Ping, Acknowledged, PingTimeout, hist
    <2> QED BY <1>1, <2>1, <2>2 DEF InitStep
  <1>2. ASSUME NEW th \in Threads, LogStep(th) PROVE ErrorsCounted'
    <2>1. CASE SendFails(th)
      BY <2>1 DEF ErrorsCounted, SendFails
    <2>2. CASE Call(th) \/ Send(th)
      BY <2>2 DEF ErrorsCounted, Call, Send
    <2> QED BY <1>2, <2>1, <2>2 DEF LogStep
  <1>3. ASSUME NEW th \in Threads, NEW f \in BOOLEAN, BeginInit(th, f) \/ BeginLog(th) \/ Shutdown(th)
        PROVE  ErrorsCounted'
    BY <1>3 DEF ErrorsCounted, BeginInit, BeginLog, Shutdown, hist
  <1>4. CASE AskMethod \/ SetCallback \/ Listener \/ Bind \/ Crash \/ Load
    BY <1>4 DEF ErrorsCounted, AskMethod, SetCallback, Listener, Recv, AckPing, LogEntry, Bind,
       Crash, Load, client, hist
  <1>5. CASE UNCHANGED vars
    BY <1>5 DEF ErrorsCounted, vars, client, hist
  <1> QED BY <1>1, <1>2, <1>3, <1>4, <1>5 DEF Next

\* What a step that switches the logger off did.
LEMMA SwitchedOff ==
  ASSUME Places, Counts, ErrorsCounted, [Next]_vars, grease_log # "null", grease_log' = "null"
  PROVE  \E th \in Threads : \/ pc[th] \in {"ping", "wait"} /\ pc'[th] # pc[th]
                             \/ fails'[th] > fails[th] /\ fails'[th] > MaxErrors
  <1>0. /\ err_cnt \in [Threads -> 0..MaxMsgs] /\ fails = err_cnt
        /\ pc \in [Threads -> {"idle", "scan", "scanned", "setup", "ping", "wait", "method",
                               "call", "send"}]
        /\ MaxMsgs \in Nat
    BY ClientAssumption DEF Places, Counts, ErrorsCounted
  <1>1. ASSUME UNCHANGED grease_log \/ grease_log' \in {"local", "sink"} PROVE FALSE
    BY <1>1
  <1>2. ASSUME NEW th \in Threads, InitStep(th)
        PROVE  pc[th] \in {"ping", "wait"} /\ pc'[th] # pc[th]
    <2>1. CASE Scan(th) \/ Scanned(th) \/ Setup(th) \/ Acknowledged(th)
      BY <1>1, <2>1 DEF Scan, Scanned, Setup, Acknowledged, UseLocal, UseSink
    <2>2. CASE Ping(th)
      <3>1. pc[th] = "ping" /\ UseStderr(th)
        BY <1>1, <2>2 DEF Ping, At
      <3> QED BY <1>0, <3>1 DEF UseStderr, Return, Goto
    <2>3. CASE PingTimeout(th)
      <3>1. pc[th] = "wait" /\ UseStderr(th)
        BY <2>3 DEF PingTimeout, At
      <3> QED BY <1>0, <3>1 DEF UseStderr, Return, Goto
    <2> QED BY <1>2, <2>1, <2>2, <2>3 DEF InitStep
  <1>3. ASSUME NEW th \in Threads, LogStep(th)
        PROVE  fails'[th] > fails[th] /\ fails'[th] > MaxErrors
    <2>1. CASE Call(th) \/ Send(th)
      BY <1>1, <2>1 DEF Call, Send
    <2>2. CASE SendFails(th)
      <3>1. /\ fails' = [fails EXCEPT ![th] = @ + 1]
            /\ grease_log' = IF err_cnt[th] + 1 > MaxErrors THEN "null" ELSE grease_log
        BY <2>2 DEF SendFails
      <3>2. err_cnt[th] + 1 > MaxErrors
        BY <1>1, <3>1
      <3>3. fails'[th] = err_cnt[th] + 1 /\ err_cnt[th] \in Nat /\ fails[th] = err_cnt[th]
        BY <1>0, <3>1
      <3> QED BY <3>2, <3>3
    <2> QED BY <1>3, <2>1, <2>2 DEF LogStep
  <1>4. ASSUME NEW th \in Threads, NEW f \in BOOLEAN, BeginInit(th, f) \/ BeginLog(th) \/ Shutdown(th)
        PROVE  FALSE
    BY <1>1, <1>4 DEF BeginInit, BeginLog, Shutdown, UseLocal
  <1>5. CASE AskMethod \/ SetCallback \/ Listener \/ Bind \/ Crash \/ Load
    BY <1>1, <1>5 DEF AskMethod, SetCallback, Listener, Recv, AckPing, LogEntry, Bind,
       Crash, Load, client
  <1>6. CASE UNCHANGED vars
    BY <1>1, <1>6 DEF vars, client
  <1> QED BY <1>2, <1>3, <1>4, <1>5, <1>6 DEF Next

\* Whatever the threads do to the pointer they share, it becomes NULL only in an init whose
\* ping fails, or by a failed send of a thread that has had more than SINK_MAX_ERRORS of them
\* since it last connected: err_cnt is a thread's own (grease_logToSink).
THEOREM SwitchedOffWithCause == Spec => SwitchedOffForCause
  <1>1. Spec => []ErrorsCounted
    <2>1. Init => ErrorsCounted
      BY DEF Init, ErrorsCounted
    <2> QED BY <2>1, ErrorsNext, PTL DEF Spec
  <1>2. ClientInv /\ ErrorsCounted /\ [Next]_vars
          => [grease_log # "null" /\ grease_log' = "null" =>
                \E th \in Threads : \/ pc[th] \in {"ping", "wait"} /\ pc'[th] # pc[th]
                                    \/ fails'[th] > fails[th] /\ fails'[th] > MaxErrors]_vars
    BY SwitchedOff DEF ClientInv
  <1> QED BY <1>1, <1>2, ClientInvariant, PTL DEF Spec, SwitchedOffForCause

\* What JavaScript has lost is a finite number of its own messages.
LEMMA LostFinite ==
  ASSUME Fates
  PROVE  IsFiniteSet(JsLost)
  <1>1. IsFiniteSet(1..MaxMsgs) /\ IsFiniteSet({Js})
    <2>1. 1 \in Int /\ MaxMsgs \in Int
      BY ClientAssumption
    <2>2. IsFiniteSet(1..MaxMsgs)
      BY <2>1, FS_Interval
    <2> QED BY <2>2, FS_Singleton
  <1>2. IsFiniteSet({Js} \X (1..MaxMsgs))
    BY <1>1, FS_Product
  <1>3. JsLost \subseteq {Js} \X (1..MaxMsgs)
    <2> SUFFICES ASSUME NEW th \in Threads, NEW i \in 1..MaxMsgs, "lost" \in fate[<<th, i>>]
                 PROVE  th = Js
      BY DEF JsLost, Msgs
    <2>1. fate[<<th, i>>] = {} \/ \E how \in Ways(th) : fate[<<th, i>>] = {how}
      BY DEF Fates
    <2> QED BY <2>1 DEF Ways
  <1> QED BY <1>2, <1>3, FS_Subset

\* JavaScript loses one message more.
LEMMA LossIsTold ==
  ASSUME Fates, NEW m \in Msgs, fate[m] = {}, Ends(m, "lost"), JsFailure, method = "sink", cb,
         Cardinality(JsLost') > MaxJsErrors, sinkErrors = Cardinality(JsLost)
  PROVE  told'
  <1>1. fate' = [fate EXCEPT ![m] = {"lost"}] /\ fate \in [Msgs -> SUBSET {"sent", "local", "lost", "stderr"}]
    BY DEF Ends, Fates
  <1>2. JsLost' = JsLost \cup {m} /\ m \notin JsLost
    BY <1>1 DEF JsLost
  <1>3. Cardinality(JsLost') = sinkErrors + 1
    BY <1>2, LostFinite, FS_AddElement
  <1>4. TooMany
    BY <1>3 DEF TooMany
  <1> QED BY <1>4 DEF JsFailure

LEMMA NextTells ==
  ASSUME Places, Counts, Fates, [Next]_vars, JsLost' # JsLost, method = "sink", cb,
         Cardinality(JsLost') > MaxJsErrors, sinkErrors = Cardinality(JsLost)
  PROVE  told'
  <1>0. fate \in [Msgs -> SUBSET {"sent", "local", "lost", "stderr"}]
    BY DEF Fates
  <1>1. ASSUME UNCHANGED fate PROVE FALSE
    BY <1>1 DEF JsLost
  <1>2. ASSUME NEW m, NEW how, how # "lost", Ends(m, how) PROVE FALSE
    BY <1>0, <1>2 DEF JsLost, Ends
  <1>3. ASSUME NEW th \in Threads, NEW m \in Msgs, fate[m] = {}, Fallback(th, m) PROVE told'
    <2>1. CASE Ends(m, "lost") /\ JsFailure
      BY <1>3, <2>1, LossIsTold
    <2>2. CASE Ends(m, "stderr")
      BY <1>2, <2>2
    <2> QED BY <1>3, <2>1, <2>2 DEF Fallback
  <1>4. ASSUME NEW th \in Threads, InitStep(th) PROVE FALSE
    BY <1>1, <1>4 DEF InitStep, Scan, Scanned, Setup, Ping, Acknowledged, PingTimeout, hist
  <1>5. ASSUME NEW th \in Threads, LogStep(th) PROVE told'
    <2>1. CASE Call(th)
      BY <1>1, <1>2, <2>1 DEF Call
    <2>2. CASE Send(th)
      BY <1>2, <2>2 DEF Send, After
    <2>3. CASE SendFails(th)
      <3>1. pc[th] \in Logging /\ Fallback(th, Now(th))
        BY <2>3 DEF SendFails, At, Logging
      <3> QED BY <1>3, <3>1, NowOpen
    <2> QED BY <1>5, <2>1, <2>2, <2>3 DEF LogStep
  <1>6. ASSUME NEW th \in Threads, BeginLog(th) PROVE told'
    <2>1. CASE UNCHANGED fate
      BY <1>1, <2>1
    <2>2. CASE Fallback(th, <<th, count[th] + 1>>)
      <3>1. count[th] \in 0..MaxMsgs /\ count[th] < MaxMsgs /\ MaxMsgs \in Nat
        BY <1>6, ClientAssumption DEF BeginLog, Counts
      <3>2. count[th] + 1 \in 1..MaxMsgs /\ count[th] + 1 > count[th]
        BY <3>1
      <3>3. <<th, count[th] + 1>> \in Msgs /\ fate[<<th, count[th] + 1>>] = {}
        BY <3>2 DEF Msgs, Fates, Open
      <3> QED BY <1>3, <2>2, <3>3
    <2> QED BY <1>6, <2>1, <2>2 DEF BeginLog
  <1>7. ASSUME NEW th \in Threads, NEW f \in BOOLEAN, BeginInit(th, f) \/ Shutdown(th) PROVE FALSE
    BY <1>1, <1>7 DEF BeginInit, Shutdown, hist
  <1>8. CASE AskMethod \/ SetCallback \/ Listener \/ Bind \/ Crash \/ Load
    BY <1>1, <1>8 DEF AskMethod, SetCallback, Listener, Recv, AckPing, LogEntry, Bind, Crash, Load, hist
  <1>9. CASE UNCHANGED vars
    BY <1>1, <1>9 DEF vars, hist
  <1> QED BY <1>4, <1>5, <1>6, <1>7, <1>8, <1>9 DEF Next

\* JavaScript with a failure callback hears of its losses: the message after maxSinkErrors
\* lost ones, at the latest, reports (GreaseLoggerClient::Log, sinkErrorCount).
THEOREM JsHearsOfLosses == Spec => JsIsTold
  <1>1. ClientInv /\ [Next]_vars
          => [fate' # fate /\ JsLost' # JsLost /\ method = "sink" /\ cb
              /\ Cardinality(JsLost') > MaxJsErrors /\ sinkErrors = Cardinality(JsLost) => told']_vars
    BY NextTells DEF ClientInv
  <1> QED BY <1>1, ClientInvariant, PTL DEF Spec, JsIsTold
=============================================================================
