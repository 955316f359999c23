# greaseLog: a verification development

greaseLog is a logger for node.js. A message is handed over on one thread (the
JavaScript thread, a native caller, a socket listener), formatted and collected in
buffers by a second one, the *grease thread*, and written by libuv to terminals and
files or given back to JavaScript. The modules here model that machinery from
`logger.h`, `logger.cc` and the ring buffer of `deps/twlib`, check it with TLC on
small instances, and prove part of it with TLAPS for every instance.

Contents: the inventory of the system, the plan, the modules, the runs, what is
proved, and what is left out. `PROJECT.json` lists the source lines each definition
stands for.

## 1. Inventory

### The pipeline (`logger.h`, `logger.cc`)

*State.* `masterBufferAvail`, the pool of `singleLog` buffers; `internalCmdQueue`, the
commands for the grease thread (`NEW_LOG`, `WRITE_TARGET_OVERFLOW`,
`TARGET_ROTATE_BUFFER`); per target a `currentBuffer`, the free banks `availBuffers`,
the banks to write `writeOutBuffers`, and `writeMutex`; `needGreaseThread`, which arms the
flush timer; `v8LogCallbacks`, the banks and overflow messages for JavaScript.

*Operations.* `_log` takes a master buffer, copies the message, adds a command and
signals an async handle. `handleInternalCmd` drains the queue; `logTarget::write` copies
a message into the current bank of each target its filters name, or rotates to a free
bank first. `flushAll` rotates and submits the banks; the write callback returns each
bank (`returnBuffer`), through the JavaScript callback if the target has one
(`callV8LogCallbacks`, `finalizeV8Callback`). A message too large for a master buffer, or for
a bank, takes the overflow path: flush the target, then write the message by itself.

*Interaction.* Producers and the grease thread share the rings; the V8 thread's
`flush()` runs `flushAll` beside the grease thread on the same banks; libuv performs
writes in order for a terminal, in any order for a file.

*Hard.* Tests of a bank outside `writeMutex`; queues and pools at their limits; a wakeup
merged with another; a bank in the hands of three threads in turn.

*Correct means:* no buffer lost or shared, nothing written out of order, twice or
past the end of a bank, nothing lost unless a limit is reached, and nothing kept in
memory for ever.

### The ring buffer (`tw_circular.h`, `tw_sema2.h`)

*State.* A semaphore count, `nextIn`, `nextOut`, `_reverse`, the slots, and the threads
asleep on its two condition variables. *Operations.* `add`, `addIfRoom`, `remove`,
`removeOrBlock` and their moving and timed forms, `reverse`, `clear`, `transferFrom`,
`unblockAllRemovers`. *Hard.* Index wrap in two directions, signals that arrive when
nobody waits, wakeups that find the ring changed. *Correct means:* a bounded FIFO
whose sleepers are woken.

### File rotation (`fileTarget` in `logger.h`)

*State.* The files `log`, `log.1`, ..., `rotatedFiles`, `current_size`, `submittedWrites`.
*Operations.* `check_files` at the start, `check_and_maybe_rotate` after each write,
`rotate_files`. *Hard.* Renames are steps a crash can come between; writes are in flight
in a thread pool; a failing open. *Correct means:* higher numbers are older, only the
oldest text is removed, the size that triggers rotation is right, nothing blocks.

### Filters (`addFilter`, `modifyFilter`, `sift` in `logger.cc`, `FilterList` in `logger.h`)

*State.* `filterHashTable`: four kinds of key (tag and origin, origin, tag, neither), each
with a list of at most 16 filters and a mask of the levels any of them wants;
`levelFilterOutMask`, `defaultFilterOut`. *Operations.* JavaScript adds, changes,
disables filters; the thread that logs looks up the most specific list and leaves a pointer to
it in the message; the grease thread walks the list later. *Hard.* The walk takes no lock
while slots are stored to, and the list may have changed any number of times since it was
found. *Correct means:* the most specific list decides, each filter that matches writes the
message once, and a message that passed is not lost under a concurrent change.

### Life cycle of the process and of targets (`logger.h`, `logger.cc`)

*State.* `targetCallbackQueue` with `asyncTargetCallback`; `v8LogCallbacks` with
`asyncV8LogCallback`; the count `needV8` with `asyncRefLogger`. *Operations.* `start`,
`addTarget`, `modifyDefaultTarget`; a file is opened by the grease thread's loop and its answer
goes back through the queue (`start_target_cb`, `callTargetCallback`); `refFromV8` and
`unrefFromV8_inV8` count the log callbacks that JavaScript still owes. *Hard.* Each handshake
has a queue with a limit, a wakeup and a reference, changed in separate steps by two
threads. *Correct means:* each start is answered, and truly; the count is right; the
process does not end by itself while it owes a callback, and does end.

### Client library and sink (`grease_client.c`, `client_logger.cc`, `UnixDgramSink`)

*State.* Of a process: the pointer `grease_log`, whether the module was found in the
process. Of a thread: a socket and an error count. Of JavaScript: how it connected, how often
a send failed, whom to tell. Of the listener: its socket. *Operations.* Two `init`
functions, a ping with an acknowledgement, logging with a fallback to stderr, shutdown. *Hard.*
One thread switches the pointer for all; a ping may be given up and its
answer come later; the listener's process comes and goes. *Correct means:* a message goes
one way, the sink is trusted only when it answered this ping, JavaScript is told when its
messages get lost, no call hangs.

### The other parts

| part | why it has no module |
| --- | --- |
| shutdown, `flushAllSync` | runs once, when everything else has stopped; `ttyTarget::flushSync` locks a bank's mutex and calls `returnBuffer`, which locks it again, so a model with a filled terminal bank could only stop there; `fileTarget::flushSync` lowers `submittedWrites` without having raised it |
| `logSync` | sifts the message and does nothing: `_logSync` is commented out |
| `index.js` | two tables of ids that one thread fills (ids start again at 1 past 0xFF00), argument handling |
| `error-common`, `local_strdup`, `grease.cc`, `grease_echo.c` | no state |
| `PipeSink` | never submits what it reads |
| `writeSync`, `callbackTarget` | never reached: the callers are commented out, or behind a condition that is always false |
| vendored code, tests | third party, scripts |

## 2. Plan

1. `TwCircular`, `TwFifo`: the ring and the FIFO it implements. *Done; every safety property
   proved, the refinement with them.*
2. `GreasePipeline`, then `LogDelivery` and the refinement `PipelineDelivery`. *Done; every
   invariant and the refinement proved, some under a condition on the constants.*
3. `FileRotation`. *Done; every property proved.*
4. `Lifecycle`: both handshakes between the threads on one pair of event loops. *Done; every
   invariant proved.*
5. `Filters`. *Done; every property proved.*
6. `Client`. *Done; every safety property proved.*

Left: liveness, which stays with TLC (section 5), and the parts of section 6. A file target is
outside the refinement, because the thread pool may swap two of its writes; what holds of its
banks and references is proved for it too.

## 3. The modules

| module | models |
| --- | --- |
| `GreasePipeline` | the pipeline: producers, grease thread, libuv, V8 thread |
| `LogDelivery` | what the pipeline promises: messages are accepted or refused, delivered in order and once, or lost |
| `PipelineDelivery` | the refinement mapping from the first to the second, and the loss property |
| `TwCircular`, `TwFifo` | the ring with its semaphore; the bounded FIFO |
| `FileRotation` | start, rotation and writes of one file target, with crashes |
| `Filters` | the filter table, the lookup of a message and the walk of the grease thread |
| `Lifecycle` | start of targets and log callbacks between the two threads, the references that keep the process alive, its end |
| `Client` | client processes, JavaScript among them, their sockets and the listener |
| `MCPipeline`, `MCCircular`, `MCRotation`, `MCFilters`, `MCLifecycle`, `MCClient` | the small instances |
| `GreasePipelineProofs`, `PipelineBanksProofs`, `PipelineDeliveryProofs` | theorems: types and master buffers; banks and the references of the grease thread; the refinement of `LogDelivery` and the loss property |
| `TwCircularProofs`, `FileRotationProofs`, `LifecycleProofs`, `FiltersProofs`, `ClientProofs` | theorems about the module of that name |

A definition `X_Y` is `X` with the mistake `Y`. No specification uses it; it documents
which property catches that mistake.

**GreasePipeline.** One action is one stretch of code no other thread can see inside:
a section under one mutex, one operation on a ring, one libuv callback. So
`logTarget::write`, which locks `writeMutex` only around the copy, is the sequence
`WriteTest`, `WriteRef`, `WriteCopy` (or `WriteRotate`, `WriteRequest`, `WriteRefCopy`), and
`flushAll` is `FlushRotate`, then `FlushTake` and `FlushSubmit` for each bank, run by the
grease thread or the V8 thread (`fpc["grease"]`, `fpc["v8"]`). `_log` is `LogStart`,
`LogEnqueue`, `LogSend`. A `uv_async_send` sets `wake`, so several may be merged, and
`HandleInternalCmd` clears it before it drains.

A message has a size and a route and no text; header, footer and delimiter are what
they add to its length. Which filters match is a constant (`Route`). Free banks and
free master buffers are sets: nothing depends on the order of their reuse. `ignores`,
colours and formats are left out. `out` is a history variable: what each terminal, file or
JavaScript callback got.

**LogDelivery.** `seen`, `pending`, `output`: `Accept`, `Refuse`, `Deliver` of any prefix and
`Lose` of any run of what is pending. The mapping takes for `pending` what is on its way,
oldest first: at V8, being written, in a flushing thread's hand, in `writeOutBuffers`, in
the current bank, in the grease thread's hand, in the queue. `Texts` concatenates the texts of
what a queue holds (banks, writes, callbacks or commands). `InOrder` names the instances
for which the mapping is a refinement; `pipeline_tty` and `pipeline_overflow` are such instances.

**TwCircular.** Every method holds the semaphore's mutex from its first to its last
access, or up to the point where it waits: one action is one such section. `pc` says on
which condition variable a thread sleeps, or that it was woken and must take the mutex
again. A signal wakes any one sleeper; a wait may return without one. `reverse()` takes no
lock, `clear()` and `transferFrom()` wake nobody: all three are called in file rotation only, on
rings no other thread knows, and happen here in states where nobody is inside the ring
(`Owned`). The ring `transferFrom()` empties keeps its direction, and is never a reversed one.
A timed wait
ends in a timeout only if its thread was not signalled: POSIX would let it take a signal with it, the
condition variables of glibc do not. `get()` and `set()`, which greaseLog does not call, are
left out: their walk wraps the index before it advances it.

**FileRotation.** A file is the sequence of numbered writes it holds, so age and size are
both visible. Each rename or unlink is a step of its own, and `Crash` may come after
any; the file system keeps its state and `Start` runs `check_files` on it. `strRotateName` has
no name past `MAX_ROTATED_FILES`, and a rename without a name fails. A rename fails for no
other reason. `PerformWrite` is libuv's thread pool.

**Filters.** A key is a pair of tag and origin with 0 for "none given"; a level mask is a set
of levels. A call of JavaScript is taken apart into its stores (`Store`, `DisableAdded`), which
the walk may see in any order, because it takes no lock; `locked` says that `modifyFilters` is
held, for which only the lookup (`Sift`) waits. The walk reads a slot in up to four steps:
the match (`WalkSlot`), then `targetId` for the ignore list (`WalkIgnore`), for the test of the
default target (`WalkTarget`) and for the table (`WalkFind`). A slot's id and mask do
not change once set, so they are read in one step. `WalkPastEnd` is what a full list does: no
empty slot ends the walk, and what lies behind the list is taken for a filter, with any
outcome. `written` counts what each target was given. There is a default target; before it is
ready, what is meant for it is dropped by the code, which is not modelled. `ignores` of a message
that a native thread logs is the list `_log` finds, which may be any.

**Lifecycle.** `v8` says where the V8 thread is in a turn of its loop: the asyncs are looked at
in the order they were initialised in (`Poll`, `LookLogs`, `LookRef`), and each queue is
emptied before the next is looked at. `grease` says what the grease thread still has to
do after a completion: `QueueStart`, `SendStart`; `RefFromV8`, `SendLog`. JavaScript
may start targets between callbacks and within them. `busy` stands for whatever else the
application keeps the loop alive with. `Exit` happens when nothing is referenced, at any
moment of the grease thread; an assertion that fails ends the process as `"abort"`. The
overflow of a callback target is written at once (`ReturnOverflow`), banks take time.

**Client.** `grease_log` is tested (`BeginLog`) and read again to be called (`Call`), unless the
compiler kept the first value: both are allowed. Sockets are thread-local. A datagram socket
of Unix blocks its sender while the queue is full and fails when nobody listens
(`Send`, `SendFails`). `bound` says which ping a path belongs to while its socket exists, `inbox`
which acknowledgement it got. `Crash` empties the listener's socket and `Bind` puts a new one in
its place. JavaScript is one of the threads (`Js`): it loses what is not taken, where a native
thread falls back to stderr.

## 4. The runs

| run | instance | shows |
| --- | --- | --- |
| `pipeline_tty` | 2 producers, 3 messages (one fills a bank), 2 master buffers, 1 terminal with a log callback, 2 banks, queue of 4; fair | master buffers are not shared or lost (`MasterInOnePlace`, `NoMasterLost`) and come back (`MastersReturn`); the terminal gets what was accepted in order and once (`ImplementsDelivery`), short of what a target without a free bank drops (`LossOnlyUnderPressure`, `RotateNotSkipped`); every bank is flushed (`BanksFlushed`) |
| `pipeline_overflow` | 1 producer, 3 messages (one larger than a master buffer), a terminal that is disabled and enabled and a callback target, queue of 2 | types; a grease reference covers what is unwritten (`GreaseRefCovers`); the overflow path keeps the order (`ImplementsDelivery`) |
| `pipeline_flush` | 1 producer, 4 messages of four sizes, a file with callback, 3 banks, V8 flushing at any time, writes finishing in any order | each bank in exactly one place (`BankInOnePlace`), `writeOutBuffers` never full (`WriteOutHasRoom`), no bank overfilled (`BufferFits`) |
| `ring` | 3 threads, 3 slots, all methods | indices and semaphore agree (`RingConsistent`), the ring is a bounded FIFO, or its reverse after `reverse` (`ImplementsFifo`), sleepers are signalled (`AddersSignalled`, `RemoversSignalled`) |
| `rotation` | 3 names, `max_files` 2, 5 writes, 1 crash, 1 failing open, 0 or 2 older files | numbers follow age (`OlderHaveHigherNumbers`), only the oldest text goes (`KnownTextKept`), the size covers the file (`SizeCovers`), no blocking (`RotationNeverBlocks`) |
| `filters` | 2 messages, one from JavaScript, of which one is logged; a list of tag and origin and one of the origin, of 2 slots, 3 `addFilter`, 1 `modifyFilter`, 1 `setGlobalOpts`, a target that gets ready | the reader without the lock finds sound lists (`ListsSound`), `sift` takes the most specific list that has a filter (`SiftsByMostSpecific`), a walk nothing disturbs routes by the list (`RoutesAsListed`), a disturbed one still writes the message somewhere (`PassedIsWritten`) |
| `lifecycle` | 2 targets, 2 banks, both queues of 1, 3 writes; fair | `needV8` counts what it is for (`RefsCounted`) and keeps the loop (`V8RefCovers`), finish callbacks tell the truth (`AnswersTrue`), the process does not end before any of them (`ExitNotBeforeAny`), everything comes back (`AllComesBack`) |
| `client` | a native thread and a JavaScript thread, 2 messages each, 2 inits, 1 shutdown, 1 crash of the listener, a socket of 1, error limits of 1; fair | each message goes one way (`OneFate`), a ping is trusted for its own answer (`PingsAnswered`), the logger is switched off for a cause (`SwitchedOffForCause`), JavaScript hears of its losses (`JsIsTold`), calls return (`CallsReturn`) |

*Why the bounds are enough.* Each instance reaches the limits the code has:
producers find no master buffer, the queue is full (`pipeline_overflow`, `pipeline_flush`), all
banks are taken, `v8LogCallbacks` is full, the ring wraps both ways with a sleeper on each
side, and numbers run past the last name; filter lists are full (`WalkPastEnd`), both
queues to the V8 thread overflow, and a thread exceeds the error limit that switches the
logger off for the other. `filters` logs a single message of two because messages meet
only in the queue: each walk is on its own, and what may disturb it is a change of the
table; the limits of one `modifyFilter` and one `setGlobalOpts` still let each come at any
step of it. One of two lists is more specific than the other for one message and does not cover the
second, which another thread logs while `addFilter` is under way; keys of the tag alone and of neither
are left to the proof of `SiftFindsMostSpecific`. Two targets are enough for one answer to take the reference of the other, two
pings for a late acknowledgement. Two banks suffice to see a target without a
free bank, three to have one filled, one written and one waiting at V8 (the code has
four, and treats them alike). Three threads on a ring give one signalled, one asleep and
one that comes between. Messages, writes, crashes and failures are the bounds of the
runs: `Msgs` (each is logged at most once), `MaxWrites`, `MaxCrashes`, `MaxFailures`,
`MaxAdds`, `MaxModifies`, `MaxOpts`, `MaxLogs`, `MaxMsgs`, `MaxInits`, `MaxShutdowns`. Symmetry
is used over producers and master buffers, threads and values, and not in the fair runs.
Deadlock is not checked: the programs may stop when everything has been logged, or
when every thread waits for work.

*Fairness* (`pipeline_tty`). Threads run (`WF` of the rest of a `_log` call, of the grease
thread's handlers and of the V8 thread's). libuv performs every write (`WF`). The loop
polls and runs its timers in each iteration, so a callback that is pending, or a timer
that is armed, again and again is served again and again: `SF` of `HandleInternalCmd`, `WriteCb`,
`FlushTimer`. Nothing says that an application logs, flushes, disables or enables.

In `lifecycle` the loop turns, and the grease thread with its thread pool goes on (`WF` of
`Loop` and of `Completions \/ Signals`). Weak fairness is enough because `MaxWrites` bounds
the log callbacks: `callV8LogCallbacks` drains the queue to its end, and if JavaScript's log
callbacks kept producing more, start callbacks behind it would wait for ever.

In `client` every thread goes on, and so does the listener (`WF` of `InitStep` and `LogStep` of
each thread, of `Listener`, of `AskMethod`). A `Send` that finds the queue full and then not, again
and again, could starve under weak fairness alone, but only if others log without end,
which the bounds exclude as most programs do. `Bind` is not fair: a listener that is gone
need not come back, and no call depends on it.

*Disagreements.* Each of these runs ends in the violation it names:

- `master_leak`: `_log` on a full queue drops the message and its master buffer with it.
  The comment beside `INTERNAL_QUEUE_SIZE` asks for as many slots as master buffers, but
  overflow and rotate commands use them too.
- `ref_assert`: `write` tests `isEmpty()` and takes the grease reference before it locks
  `writeMutex`; `flush()` on the V8 thread rotates in between, and the assertion of
  `unrefGreaseInGrease` fails later.
- `overflow_twice`: a message that fits a master buffer and no bank is queued again by each
  target, and each of these commands writes it to all targets.
- `rotation_blocks`: with `max_files` 0 ("no setting") rotation blocks for ever once
  `MAX_ROTATED_FILES` files exist.

*Seen while modelling and not run.* The JavaScript `flush()` runs `logTarget::flush`, which
its comment reserves for the logger thread, on the V8 thread. A file's overflow message is
written by `writev` at once and overtakes banks handed to the thread pool. The `writeOverflow`
of a callback target takes a reference it never gives back. `max_files` counts the
current file in its comment and not in the test. `max_total_size` 0 rotates at every start
of a non-empty log. `transferFrom` leaves the ring it empties as it was directed, and `clear` and
`transferFrom` wake nobody. The timed `removeOrBlock` waits without its deadline.

Of filters: the level mask may change between the two calls of `sift`, and the message is
dropped where a comment (`logger.cc:190`) says the second should always be true. The walk
has no bound but an empty slot, so the 16th filter of a list sends it past the end. A new
filter without its `targetId` yet writes to the default target; one given another target
between two reads may reach a target the message ignores. `addFilter` with `disable` is live
until it is disabled. `defaultFilterOut` does not apply where a list exists and no filter of it
matches. `removeFilter` is empty. `log` of a native thread copies a `logMeta` without the ignore list
behind it, and `_log` takes what lies there for the list. Of a tag's list and an origin's `sift` takes
the origin's: `filterhash` has the origin in the high half of the key. The comments of `sift` ("just tag"
for the second lookup, "just origin" for the third) and that of `FilterHash` (`grease_client.h:64`) have
the tag first. Which is meant the code does not say, so `SiftsByMostSpecific` leaves it open: it orders
a key only against those that give part of what it gives.

Of the life cycle: `uv_ref` at `logger.cc:1394` is to "hold up exit of the event loop until this call back
is complete", but one `uv_unref` in `callTargetCallback` undoes it for all starts. A finish callback that
adds a second target, with nothing else left to do, is enough: the process ends before the second is
answered. `ExitNotBeforeAny` is what is left of the promise. A callback is queued before it is counted, so the process can end with one in the queue, and `unrefFromV8_inV8`'s
assertion can fail. `refCb_Logger` does not look at `needV8`, so it may keep alive a process
that nobody needs. An overflow message that finds the queue full keeps a reference for ever.
Terminals take a reference at their start and never give it back. A start that finds its
queue full for two seconds is not answered. `modifyDefaultTarget` of a file never calls its
callback; the file opened last wins, and the old default target is no longer flushed.
`targetReady` reads a target it deleted. `addTarget({callback: f})` opens a file
named "undefined": its test for a file is always true.

Of the client: `Start()` may return success and read the connection method after another
thread switched the logger off, and is then never told. `found_module` is reset to 0 by a new
scan, and an `init` of another thread may read that. `grease_printf` may call a `NULL`
pointer. After `grease_shutdown` an `init` reuses the closed socket. A thread that never
initialised sends on descriptor 0, and its errors switch the logger off for all. A thread's
failed sends to the sink switch off a logger found in the process, too. `grease_fastInitLogger`
never fails, so `grease_echo` cannot print "Grease not running". The listener's thread cannot
be stopped: its descriptor set is not built again.

## 5. What is proved

Each theorem is of the form `Spec => []Inv`, or `Spec => P` for an action property or a
refinement, for every value of the constants that the module's assumption allows. All rest on
an inductive invariant with one step per action of `Next`; what follows names it and says why
it is needed.

### The pipeline (`PipelineAssumption`)

`TypesHold`: `TypeOK`. It is inductive because it carries control facts: a thread that is about
to enqueue has a message, one inside `write()` has message, master buffer and target, one
inside `flush()` a bank.

`MastersNeverShared`: `MasterInOnePlace`. The three parts (places are disjoint, a
producer holds its own buffer, the queue names a buffer once) are inductive with `TypeOK`,
which says that the grease thread has a master buffer only inside `write()`. It holds with
`flush()` of the V8 thread and any number of threads. `MastersLostOnlyWhenFull`: `NoMasterLost`
in every behaviour in which no producer finds `internalCmdQueue` full; with
`KeptInv`, which adds that a producer holds a buffer between `remove()` and `addMvIfRoom()`
only. The run `master_leak` shows that the condition cannot be dropped.

`BanksInOnePlace`: `BankInOnePlace`. Counting holders is nothing a step can be argued about, so the
inductive form `BankInv` says which of eight places a bank is in (current, free, queued, in a
flushing thread's hand, being written, written, waiting for or inside its callback), that it
is exactly one (`OneKind`), and that each list names it once. A lemma turns this into the count. The
grease thread and the V8 thread may flush at the same time. `RotateFindsRoom`:
`WriteOutHasRoom` follows: a free bank and the current one are two that are not queued, and
the queued ones are distinct.

`CopiesFit`: `BufferFits`, if `Header + Delim <= HeaderRoom`. `write()` tests for the message and
`GREASE_MAX_PREFIX_HEADER` bytes (`logger.h:1943`), and copies header, message and delimiter:
the code bounds the header and not the delimiter, which the application chooses, so the
condition is one on its options. `FitInv` carries the test to the copy: free banks
are empty, and whoever rotates or clears between the two only leaves more room (`BanksShrink`).

`WriteRotatesSomething`: `RotateNotSkipped`, on the same condition and without `flush()` of the V8 thread
(`~V8Flushes`): then nobody is in `flushAll` while the grease thread is inside `write()`
(`OneFlusher`).

`ReferencesCover`: `GreaseRefCovers`, and `ReferencesNotNegative`: `GreaseRefAssert`, both for
applications that do not call `flush()` (`~V8Flushes`; the run `ref_assert` shows the
failure if they do). `DebtInv` counts what will be given back: a reference for
each bank that holds text and is not at its callback, or is about to be copied to, and one for each
overflow write under way or finished; `needGreaseThread` is at least that sum. The bank about to
be copied to has to be in it, because `write()` takes the reference first. With that `flush()` no
such sum exists: each bank it rotates between the `isEmpty()` of `write()` and the copy costs
one reference more.

`PipelineImplementsDelivery`: `ImplementsDelivery`, for instances that are `InOrder`: the V8
thread does not flush, no target is a file (the thread pool performs its writes in any order), a
message that fits a master buffer fits a bank with its header (else `write()` queues it again as an
overflow for all of its targets, and one may get it twice, as `overflow_twice` shows), and no
message is routed to a target twice. The argument has three layers.

- What a queue contributes is `FlattenSeq` of its texts, a fold. That `FlattenSeq` of an
  appended, emptied or shortened queue is what one expects (`TextsAppend`, `TextsEmpty`, `TextsTail`)
  is proved by induction on the length, from `NatLessThanWellFounded` and `WFMin`: every non-empty
  set of numbers has a least one (`LeastNat`), so a set that has 0 and each successor is all
  of `Nat` (`InductionOnSet`). Neither takes an operator as a parameter, which is what keeps the
  induction theorems of the library out of reach.
- `WayTo(t)`, the seven parts in a row, obeys laws of concatenation alone (`WayMoves`, `WayEnds`,
  `WayShorter`): a text moves from one part to the next, leaves at the front, joins at the end,
  an overflow message passes by empty banks, or one or two neighbouring parts are lost.
- `DeliveryInv` says that each step is such a move. Its parts: a blank bank has no text, and free banks
  are blank (`EmptyIsBlank`, `FreeIsBlank`), so `rotate()` brings an empty one; before an
  overflow message is written, everything its target had before is submitted (`FlushedFirst`);
  what is left of a route names no target twice, and between commands the thread has no message
  (`RouteOnce`, `IdleHasNoMessage`); nothing of a callback target goes through libuv (`CallbackDirect`); only
  small messages are in master buffers (`SmallMessages`); a message is in one producer's hands
  (`MessageOnce`). `BankInv` is needed as well: a text changes in one bank, which is in one
  place, so all other parts keep theirs (`KeptElsewhere`).

Each action then has a lemma that says of each target whether it `Stays`, `Delivers` or `Loses`
(`StepEffect` collects them), and `StepImplements` turns this into steps of `LogDelivery`.

`LossesUnderPressure`: `LossOnlyUnderPressure`, for the same instances if all targets are TTYs and
none can be disabled, and header and delimiter fit the room set aside for the header. The same
lemmas say where a step `Loses`: in a rotation that fails, where `WriteRotatesSomething` and
`RotateFindsRoom` leave no other cause than a target without a free bank, or with the queue full. A
callback target also loses when `v8LogCallbacks` is full, and a disabled one always.

### The ring (`TwCircularAssumption`)

`RingTypes`: `TypeOK`. `RingStaysConsistent`: `RingConsistent`, for every size and set of
threads. `RingInv` has both: the offset of the indices is the count of elements modulo
the size, in the direction `reversed` names. `RingImplementsFifo`: `ImplementsFifo`, the refinement of
`TwFifo`: the mapping takes the elements from `nextOut` on, in the ring's direction; placing appends
to them, pulling takes the first, `reverse` reverses them, and every other step is a stutter.

`AddersAreSignalled` and `RemoversAreSignalled`. They are inductive together with `RingInv`: a
placing thread signals one remover or finds none asleep, a thread woken by its own or by a
timeout leaves the other count alone. They need that the threads are finitely many, else
their number says nothing; that is part of the assumption.

### File rotation (`RotationAssumption`)

`RotationTypes`: `TypeOK`. `SizeNeverBehind`: `SizeCovers`, with `WritesInv`: writes in flight
were counted, they exist only while the target is ready, and `current_size` is right when the file
is opened. `NumbersFollowAge`: `OlderHaveHigherNumbers`, with `AgeInv`: what is in flight is
newer than every rotated file, because files are renamed when `submittedWrites` is zero only.
That it holds at every crash is why a restart, which trusts the numbers it finds, keeps it.

`RotationKeepsKnownText`: `KnownTextKept`. `ListsInv`: `rotatedFiles` and `tempFiles` run from
old to new, all of `tempFiles` is older than what is left, the number above the oldest of
these is free, and once a file was renamed none is unlinked; so no rename overwrites. `RotationFindsRoom`:
`RotationNeverBlocks` for `max_files` set and at most `MAX_ROTATED_FILES`; then
`max_files` bounds what both lists hold (`RoomInv`). The run `rotation_blocks` has it unset.

### The life cycle (`LifecycleAssumption`)

`LifecycleTypes`: `TypeOK`; both queues stay within their limits for any number of targets and
banks.

`NeedV8Counts`: `RefsCounted`, and `NeedV8Holds`: `V8RefCovers`. The
inductive invariant `RefInv` is their conjunction with `TypeOK`; the types are needed to count the
elements of the queue and to know that a log callback is in hand only in `log_cb`. The first
says that the only disagreement between `needV8` and what is owed is the one callback
queued and not yet counted; the second that the handle is held, or about to be, whenever
the count is positive. Together they leave that one window, between `ReturnBank` and
`LookRef`, for the process to end with a callback in the queue.

`AnswersAreTrue`: `AnswersTrue`. Two facts make it inductive with `TypeOK`: a target
is in the table once its opening succeeded and not before (`StartsTrue`), and one whose answer is
waiting is in the queue once and not also in the grease thread's hand (`QueuedOnce`).
Without the second, taking an answer from the queue could change a start already answered.

`NoExitBeforeAny`: `ExitNotBeforeAny`. `ReferenceInv`: either some start has been answered, or
none has and the handle is referenced as long as one is under way, with no answer being
given and a signal only for a queue that has something (`FirstAnswer`); and who has left held
no reference. It is the first answer that takes the reference of all.

### Filters (`FiltersAssumption`)

`FiltersTypes`, `ReaderFindsSound` (`ListsSound`) and `NothingPassedIsLost` (`PassedIsWritten`)
have one inductive invariant, `FiltersInv`. Its
parts: what a call of JavaScript is still to store (`Calling`); that the id it stores is a new one
and its slot the first free one, until the store is done (`Adding`); which lists in the table have a filter (`Filled`, see
below); that a message is in the queue once and a walk is of a queued message (`WalkInv`); that a walk which remembers to have
written has written (`Passed`). So the lists stay sound for a reader that takes no lock, for lists
of any length and any interleaving of the stores with the walk.

`SiftFindsMostSpecific`: `SiftsByMostSpecific`. It speaks of the keys that filters were added under, and
`sift` of the lists in the table. `Filled` says how they differ: a list without a filter is in the
table only while `addFilter` holds the lock and has yet to store the filter's id
(`CoveringIsKnown`). The order of `getHashes()` then never tries a key before a more specific one
(`SiftTakes`). That tags and origins are numbers, 0 for none, is in the assumption for this.

`RoutesFollowTheList`: `RoutesAsListed`. Three facts join `FiltersInv`: slots in use come first at
any distance (`NoGaps`), nothing is written of a message before its walk (`Unwritten`), and in a
walk nothing has disturbed, what has been written, and what the walk remembers of its slot between
two reads, follows from the list as it is now (`Following`, which counts the matching slots
behind the walk). A call that is under way when the walk begins counts as a disturbance, one
that has not stored yet when it begins during the walk does not.

### The client (`ClientAssumption`)

`ClientTypes`, `PingsMatch` (`PingsAnswered`) and `MessagesGoOneWay` (`OneFate`), with
`ClientInv`. Its parts: a thread inside `ping_sink()` has
a socket and a ping (`Places`); a path belongs to its own ping or to none, and no other
acknowledgement gets there (`Paths`); a message being handed over has no fate yet, and one
whose call has returned has exactly one of those its caller can meet (`Fates`). They hold for
any number of threads, messages, pings and crashes of the listener.

`SwitchedOffWithCause`: `SwitchedOffForCause`; `err_cnt` is what a thread's failed sends have come to
since it connected (`ErrorsCounted`). The property asks for a failed send of a thread that is
past its limit, and not for one that just reaches it: a thread past it, whose logger another
thread has connected since, switches that one off with its next failed send. The bounds of the run
`client` do not get there; the theorem covers it. `JsHearsOfLosses`: `JsIsTold`; the counter that is compared
with the limit counts the losses of JavaScript, which a loss raises by one.

### Only model-checked

Liveness (`MastersReturn`, `BanksFlushed`, `AllComesBack`, `CallsReturn`): `ENABLED` and the temporal
argument from fairness are out of the prover's reach. The
properties of the violation runs hold in no theorem but with the conditions named above.

## 6. What is not modelled

The parts in the table of section 1: mainly shutdown and `index.js`. In the pipeline: errors
libuv reports for a write, the formats, `ignores` (they are in `Filters`), a route that changes
between two targets of one message. In the ring: `cloneFrom`, the iterator, `disable`/`enable`
(the flag is never read), use after `clear` or `transferFrom` with threads asleep, which
greaseLog has not. In rotation: `flushSync`, `flush()` of the V8 thread (a data race on
`current_size`), renames that fail for permissions. In filters: hash collisions of the
table, the text a filter adds. In the life cycle: targets added without a finish callback,
`createPTS`, the race of `uv_fs_open`, called by the V8 thread on the grease thread's loop, the
use of a target after it was deleted. In the client: failures of `socket`, `bind` and
`mkdtemp`, datagrams cut short or forged, what the listener makes of the extras of a message,
and the end of a listener's thread.
