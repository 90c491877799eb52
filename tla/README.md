# A TLA+ verification of sdbusplus

sdbusplus is OpenBMC's C++ binding of libsystemd's sd-bus.  Much of its code
wraps one call; the rest is what this directory models.  One half of it runs on
two threads: the event loop, the asynchronous context that joins D-Bus, sd-event
and coroutines, and the objects tasks share.  The other half is called back by
an event loop or by sd-bus in an order its authors do not choose: asio
connections, timers, object servers, transaction ids, and the typed contents of
messages.  All of it is checked with TLC on small instances, and some of it is
proved with TLAPS for every value of the constants.  All paths below are
relative to the repository.

Run a model with `tlc -config <run>.cfg <module>.tla` and a proof with
`tlapm <module>.tla`.  `PROJECT.json` lists the runs, the source lines behind
each definition, the hazards, the findings and the theorems.

## 1. The system

| component | state | operations | hard because |
|---|---|---|---|
| event loop (`src/event.cpp`, `event.hpp`) | an sd_event, two mutexes, an eventfd, its sources | run_one, break_run, add_io, add_condition, add_oneshot_timer, destruction of a source | threads and callbacks change the sources while another thread sleeps in sd_event_run |
| async context (`src/async/context.cpp`, `async/context.hpp`, `async/timer.hpp`, `async/callback.hpp`) | staged and pending operation, two stop sources, two task scopes, a run_loop, a condition variable | run, spawn, request_stop; on the inside wait_once, the wait/process loop, the scope watcher, the watchdog, the shutdown | two threads hand one operation back and forth; stops, timers, messages and calls arrive in any state |
| async mutex | `locked`, the queue of waiting completions, each guard's `owned` | lock, unlock, the guard's destructor | ownership is handed over after the inner mutex was released |
| async match | the queue of messages, the awaiting completion | next, the arrival of a message, destruction | a message and an awaiting task meet in either order; destruction while awaited |
| async fdio | the awaiting completion, the operation's timer | next, its event and its timeout | start publishes first and adds the timer afterwards; event and timeout race |
| async barrier | the list of waiting completions | wait | released tasks arrive again during the release |
| async proxy, client and server bindings | none of their own beyond a callback | typed calls, coroutine method handlers | an answer after its handler has returned |
| Timer (`timer.hpp`) | run state, expiry, the sd_event_source | start, stop, setEnabled, the expiry handler | start and stop from the callback |
| asio connection (`asio/connection.hpp`, `asio/sd_event.hpp`) | socket, timer | process, read_wait, on_timer_event, async_send | up to three waits outstanding per turn, handlers that were queued before they were cancelled |
| asio object server | interfaces, their properties, the vtable, flags | register_property/method/signal, initialize, set_property, removal | registration that fails half-way; signals before or without initialization |
| server object and interface (`server/object.hpp`, `server/interface.hpp`) | the signal state, `_interface_added` | construction with an action, emit_object_added, emit_added/removed, destruction | which signals an object emits over its life |
| transaction ids | a thread-local id | get_id, set_id | a callback nested in a handler sets the id of the handler's thread |
| messages (`message/*.hpp`, `native_types`) | an sd_bus_message | append, read, path escaping | the position in a message, also after a value that is skipped |
| unpack_properties | none | unpackProperties, unpackPropertiesNoThrow | variables that are used for several answers |
| slot, bus match, call_async | the slot, the callback's object | construction, destruction, the callback | a slot that is destroyed while its callback runs |
| bus, exceptions, sdbus wrapper, vtable | owned libsystemd objects | one call each | nothing beyond libsystemd |
| sdbus++ (`tools/`) | none | YAML to C++ | a batch text generator |

How they interact: the thread that calls `context::run`, the **caller**, is the
only one that waits.  It calls `event::run_one`, which holds the event loop's
lock and dispatches the bus, the timers of `sleep_for` and `fdio`, and the
descriptors of `fdio`.  The **worker** thread calls `sd_bus_process` (and so
`match::handle_match` and the replies of method calls) and runs every coroutine.
The worker gets at the event loop only through `obtain_lock`, which makes
run_one return.  mutex, match, fdio and barrier have a `std::mutex` of their own
and complete awaiting operations after they have released it.

What makes each of them correct, in one line: *event loop* - one thread inside
sd_event, dispatched sources alive, everybody who asks gets in; *context* - the
operation is in one place and never lost, sd-bus is used by one thread, no task
is left without a watcher, a stop ends run; *mutex* - a FIFO lock; *match* - a
FIFO channel, each message once; *fdio* - one result per wait, a timeout only
when it is due, no endless wait; *barrier* - groups of the full size, each task
released once; *Timer* - fires while it is on and never after stop; *asio
connection* - the chain of waits never ends while the connection lives; *object
server, server object* - added and removed signals in matching pairs;
*transaction* - the id in a handler is that of its call; *messages* - what is
read is what was appended, in its type; *slot* - a callback has its object.

## 2. Modules

| module | what it is | variables and the code they stand for |
|---|---|---|
| `EventLoop` | `event::event` under concurrent use | `pc`: where each thread is in obtain_lock, run_one or a callback; `stage`, `owner`, `depth`: the plain and the recursive mutex; `wakeup`: the eventfd; `sources`, `ready`, `current`: registered, pending and dispatched sources |
| `EventLoopProofs` | its theorems | |
| `AsyncContext` | `async::context` with its two threads | `staged`, `pending`, `initialStop`, `finalStop`, `waitProcessStopped`, `watcherRunning` are the members of these names; `runq` and `current` the run_loop; `task` the spawned tasks; `watcher` the on_empty of pending_tasks; `waitLoop`, `watchdog` the internal tasks; `inbox` the bus socket; `finiteTimeout` the operation's timeout |
| `AsyncContextProofs` | its theorems | |
| `FifoLock` | abstract: a lock served in the order of requests | `holders`, `queue` |
| `AsyncMutex` | `async::mutex` and `lock_guard` | `locked`, `waitingTasks`, `owned`, and `pc` for the place of each lock operation |
| `AsyncMutexProofs` | its theorems, and that it implements `FifoLock` | |
| `MessageChannel` | abstract: a FIFO channel that can be closed | `channel`, `last`, `closed` |
| `AsyncMatch` | `async::match` | `queue`, `complete`; `op` and `message`: the operations and what they carry |
| `AsyncBarrier` | `async::barrier` | `waiters`; `tasks`: the local list of each start |
| `AsyncFdio` | `async::fdio` with its timeout | `complete`; `op`, `starting`, `timer`: each operation and its source; `data`, `ready`: the descriptor and its pending event |
| `AsyncTasks` | barrier, mutex, match and fdio under one set of tasks | the variables of the four by INSTANCE, and `at`: the place of each task |
| `AsyncTasksProofs` | its theorems, and that the match implements `MessageChannel` | |
| `AsioConnection` | `asio::connection` on an io_context | `handlers`: the queue of the io_context; `waits`, `timerFor`: pending waits of `socket` and `timer`; `inbox`, `outbox`, `state`: what sd-bus holds; `peer`, `writable`: the other side |
| `AsioConnectionProofs` | its theorems | |
| `Timer`, `SdEventWrapper` | `Timer`, and `asio::sd_event_wrapper` that runs its loop | `timer`: `runType`, `expired` and the state of its sd_event_source; `loop`: sd_event_get_state; `fdWait`: the pending `descriptor.async_wait`; `source`: another source of the loop |
| `ObjectServer` | `asio::object_server`, `dbus_interface` and their clients | `interfaces`: the members of each (owners, `is_initialized_`, the registered callbacks, `vtable_`, the value); `served`: what sd-bus has a vtable of; `announced`, `cached`: what a client believes; `calls` |
| `ObjectServerProofs` | its theorems | |
| `ServerObject` | `server::object`, `server::interface` | `signalstate`, `added` are the members; `registered`, `listed`: at sd-bus and at a client |
| `Transactions` | `server::transaction` | `id` of each thread; `handling`: the handler it is in, with the ids it has logged |
| `Marshalling` | the operators of `append.hpp`, `read.hpp`, `types.hpp` and the conversions of `native_types.hpp` | none: types, values and the elements of a message |
| `Messages` | `message::append`, `message::read` | `sent`, `unread`: the message and what follows the read position; `last`: what was read |
| `ObjectPaths` | `string_path_wrapper` | `path`, `history` |
| `ContentsProofs` | theorems about what is sent: object paths, and `Marshalling` | |
| `Slots` | `slot`, `bus::match`, `message::call_async` | `owned`, `installed`, `callback`, `calling` |
| `PropertyUnpacking` | `unpackProperties`, `unpackPropertiesNoThrow` | `answer`, `variables`, `unpacked` |
| `Programs` | one program for each of the modules from `AsioConnection` on | `program`, and the variables of all by INSTANCE |
| `ProgramsProofs` | its theorems: those of the parts, for every program | |
| `MC...` | instances for TLC | |

An action is one critical section, one call into another component or one step
of a thread between two of them; whatever the code does under one lock is one
action.  The modules have in front of some definitions a broken variant of it
(a forgotten reset, a dropped test, a wrong order), named for its fault and
listed in the module's header.  They are no part of `Next`; each is there to see
that some property fails when the code has that fault.

Code outside the repository is modelled by what the code here relies on:
`std::mutex` and `std::condition_variable` (with spurious wakeups), the
run_loop (a FIFO queue served by one thread), the async_scope (a count with
`on_empty`), exec::task (a coroutine that was started on the worker resumes on
the worker, so that a sender that completes on the caller puts it in `runq`),
sd-event (a source stays pending until it is dispatched; a one-shot timer is
dispatched once) and the peers on the bus.

### AsyncContext in more detail

`KeepRunning`, `TakeStaged`, `PredicateFails`, `SleepOnCallerWait`,
`TestFinalStop` and `EnterRunOne` are the steps of `caller_run` and `wait_once`.
The predicate of the condition variable and the sleep are two steps because
`spawn_complete` writes `final_stop` without the lock, while staging an
operation, which takes the lock, cannot fall between them.  In run_one the
caller is at "poll" and takes one of `PollWakeup`, `DbusEventHandle`,
`TimerFires`, `FdReady`, `WatchdogTimerFires` or `PollTimeout`.  The worker
takes items from `runq` (`TakeItem`): the wait/process loop (`LoopTest`,
`ProcessMessage`, `ProcessNothing`, `Stage`), a coroutine (`Sleep`, `Call`,
`AwaitFd`, `Spawn`, `RequestStop`, `FinishTask`) or the watchdog.  A message
handler (`WorkerAt("handler")`) may itself spawn, and stop.  `SpawnWatcher`,
`OnEmpty`, `ResetRunning`, `TestStop`, `NotifyCaller` and `BreakRun` are
`spawn_watcher` and `spawn_complete`, which run on either thread.  `TakePending`
to `Join` are the end of `run`.  `Run` may be called again.  The event loop's
locks are EventLoop's concern: here only their effect remains, that a worker
that adds a timer makes run_one return first.

### Programs in more detail

The parts below `Programs` share no state with each other: a program uses a
connection, or an sd_event loop, or an object server, and so on.  `program` is
chosen in the initial state, the other parts' variables keep their initial
values, and one run explores the nine programs side by side.

`AsioConnection`: an action is one handler of the io_context, as the handlers of
a connection exclude each other: `Process`, `OnFdEvent` and `OnTimerEvent` each
process at most one thing (an expired call, a call to be written, a message) and
go on with `read_immediate` or with `ReadWait`.  A wait or timer that is
cancelled has its handler called with an error, and one that had completed
before keeps its place in the queue.  A call that is made goes through
`AsyncMethodCall` (in a match's handler) or `YieldMethodCall` (in a coroutine);
its errors are told apart because they differ in what is called: a call that
cannot be built or sent completes at once, and in a coroutine a call is not made
at all when the error code given to it is set already.

`SdEventWrapper`: each step of `run` is a handler.  `sd_event_prepare` arms the
loop's descriptor for a timer, `sd_event_wait` notes what is pending, and
`sd_event_dispatch` dispatches one source, the one pending for longest.  The
timer may be asked for anything by its callback, by the other source's and by
any other handler of the io_context in between.

`ObjectServer`: the interfaces have one path and name, so that sd-bus accepts
one of them at a time.  A table that sd-bus refuses, for a faulty name or because
another interface is served, stays built, as in the code; whatever is registered
after it makes vectors grow to which the table points, and a use of such a table
sets `undefined`, after which nothing is claimed.  The same holds of a coroutine
that outlives its interface.

`ServerObject`: sd_bus_emit_object_added and removed speak for everything that
is registered at the path, whichever object did so.

`Transactions`: `property_callback` and `method_callback` set the id before the
handler; a property that a handler changes makes sd-bus compose a signal, for
which it calls the getter with that signal.

`Messages`: the values are Booleans, integers, strings, paths and enumerators, and
vectors, maps, pairs, tuples and variants of them; a value is read in the type it
was sent in or in another one, when the read must fail, convert or skip.
`Sendable` and `Readable` list the types, which are legal (`IsLegal`: dictionary
entries occur in arrays only, the alternatives of a variant differ) and complete
(`CompleteTypes`: an argument is no dictionary entry).  What the code does by templates that
instantiate each other is defined in `Marshalling` level by level: `AppendTo[n]` and
`ReadTo[n]` are functions of the types nested at most n deep, made by `AppendOver`
and `ReadOver` of those of level n - 1, up to `MaxNesting`.  The code has three
exceptions to "what is read is what was sent".  A variant of the enumeration and of
strings reads a string as an enumerator if it can (`Converting`).  A variant cannot
tell other alternatives of one signature apart.  And what a variant makes of a string
is the first alternative that `convert_from_string` has a value of, which may be a
variant in turn: in a variant of a variant of strings and of strings, the string that
was sent as the second is read as the first (`ConvertTo`; `Takes` says when an
alternative does that).  Types with either of the last two are not `Unambiguous`, and a
string that was put into a variant within the variant counts as lost, as does what is
skipped or dropped.

`Slots`: a match keeps its callback beside its slot, whereas the callback of
`call_async` belongs to sd-bus and is deleted with the last reference to the
slot, of which sd-bus has one while the callback runs.

`PropertyUnpacking`: a value is named by the answer and the entry it comes from,
which tells a fresh value from one that an earlier answer left.

## 3. Runs

States are distinct states found by TLC.

| run | instance | what it shows |
|---|---|---|
| `EventLoop` (10 548) | two user threads, one runner | no two threads in sd_event; a dispatched source is not destroyed by another thread; a thread past the stage goes before run_one; it gets the lock, and break_run ends run_one, except in the circular wait below |
| `EventLoopCallbackDeadlock` | the same | **violation**: the circular wait |
| `AsyncContext` (181 906) | two coroutines, one sender, two messages, calls and watchdog on | the handshake, the watcher and the shutdown are safe (8 invariants) |
| `AsyncContextLive` (47 017) | the same without calls and watchdog | messages are processed, timers fire, a stop ends run unless its wakeup is lost |
| `AsyncContextWakeupLost` | one coroutine | **violation**: the lost wakeup |
| `AsyncContextWatchdog` | one coroutine, watchdog on | **violation**: run never returns |
| `AsyncContextCallTimeout` | one coroutine with calls | **violation**: an overdue call is not ended |
| `AsyncMutex` (909) | four tasks | flag and queue agree with the tasks, it is the FIFO lock, waiters are served |
| `Programs` (288 964) | nine programs: a connection with two calls, two signals and a socket that may fill up; a loop with a timer, three requests, two events; two interfaces of one name and a call; two composed objects; two threads and two cookies; messages of two arguments; paths of elements of three characters; two slots; two answers of two entries for two variables | what is promised of each (section "Programs: properties") |
| `CoroutineReply` | the same | **violation**: an error that is not answered |
| `TransactionKept` | the same | **violation**: two ids in one handler |
| `AsyncTasks` (454 980) | three tasks, barrier of two, two messages, queue of two | the mutex keeps the single-awaiter rule of match and fdio; no completion is lost, dangling or called twice; the match is the channel; timeouts are due; waits end |

**Programs: properties.**  `CallbacksAreSound`: a completion handler is called
exactly once, also when the answer comes after the timeout or nothing could be
sent, and sd-bus has no callback whose object is gone.  `IdleIsWatched`: when no
handler of the connection is about to process the bus, the socket is watched for
reading, for writing if a call of its own waits to be written, and the timer for
every call of its own.  `MessagesProcessed`, `BusCallsEnd`: what is received is
processed, a call made by a match's handler is answered or times out.
`TimerHonoursRequests`: the timer is on only as its user last asked, a one-shot
expires once per start, one that was started elsewhere than in its own callback
is on until it expires or is stopped.  `SourcesDispatched`: an event of the
loop's other source is dispatched, and so is a timer the loop has seen.
`AnnouncedIsServed`: what a client has been told exists is registered, or
belonged to an object told to emit nothing.  `PropertiesAreKnown`: a client's copy
of a property is its value, and a variable that was unpacked has the first value
of its key, or what it had.  `AnsweredOnce`: no call is answered twice, and one
whose method returned has been.  `TransactionOfCall`: in a handler that changes
no property the id is that of the call.  `ReadsWhatWasSent`: what was
read with nothing lost would be sent as what has been received, and it is what was
sent if the type is the sender's, unambiguous and not in `Converting`.
`PathsRoundTrip`: the last element of a path is what was appended.

**Why these bounds are enough to be interesting.**  EventLoop needs one user
that holds the stage and one that is behind it.  The context has exactly two
threads; two coroutines let one end or spawn while another lives, the sender is
the task that ends on the caller, and two messages let one arrive while the
other is processed.  Four tasks on the mutex are a holder, one being handed the
lock, and two in a queue whose order matters.  In AsyncTasks three tasks and
groups of two let a task of a finished group arrive again while the group's
other task is still in the list; two queued messages show the order.  The
bounds that are not in the code are `MaxInbox` and `MaxQueue`, both only limits on how
much the peers send.  In Programs two signals and two calls let handlers of both
chains of a connection (from the timer and from the descriptor) be queued at
once, and a socket that is full once makes it wait for writing; three requests
start a timer, stop it while it is pending and start it again; two interfaces of
one name are one that is served and one that comes and goes beside it, and two
registrations let a table be extended that sd-bus had refused; two objects at a
path announce and remove each other's interfaces; two threads with a nested
callback separate the ids; elements of three characters over a digit, a letter
that is a hexadecimal digit, one that is not, the underscore, the dash and the
slash contain every escape and what looks like one; four levels of
types are a map of pairs that hold variants; a variant in a variant stands before a
string, and behind an enumeration; vectors are empty or of two elements, of
which a receiver may take the second for a key it has; and of the two strings one is an
enumerator's; two entries of one key show
which of them counts, and two answers what is left of the first.  The bounds on
what users and peers do are `MaxSignals`, `MaxStalls`, `MaxRequests`,
`MaxEvents`, `MaxRegistrations`, `MaxTime`, `MaxNesting`, `MaxArguments`, `MaxCharacters`,
`MaxEntries` and `MaxAnswers`, and of values `VectorLengths`, `MapLengths` and `Strings`; `Width` is the width of an id, 64 bits in the
code and 3 in the run.  Each of the steps of every next-state relation is taken in
some passing run.

Deadlock is checked in the mutex, the tasks and the liveness run of the context.
The other configurations have `CHECK_DEADLOCK FALSE`: EventLoop reaches the
circular wait, which the run `EventLoopCallbackDeadlock` is about, and the
context may hang as the findings say.

**Fairness.**  `EventLoop`: a thread inside a call keeps running and a callback
returns in the end; no mutex is assumed to be fair, nothing outside has to
happen.  `AsyncContext`: both threads run; a worker waiting for the lock gets it
in the end although the caller may take it repeatedly (strong fairness of
`Worker`); sd-event dispatches pending sources oldest first, so a source that
stays ready is dispatched (strong fairness of the dispatch steps); nobody has to
send, spawn or stop.  Two liveness properties have assumptions spelt out in
their formulas: `QuietBus` (as long as messages keep coming the worker stages
nothing and the caller does not dispatch timers: with a bus that is never quiet
they do starve) and `TasksHeedStop` (tasks are loops on `stop_requested()`).
`AsyncMutex`: a task that holds the lock releases it and calls keep running.
`AsyncTasks`: the worker finishes what it has started and the caller dispatches;
nobody has to write, to send or to await.  `Programs`: an io_context runs its
handlers and reports what is ready, time passes, and a peer that has stopped
reading goes on; no peer has to answer, to send or to ask for anything.

**Findings.**  Six runs end in a counterexample to a sentence of the repository:

1. *Circular wait in obtain_lock* (`CallbackMayObtainLock`).  event.hpp:131-133
   says that callbacks may take the lock, hence a recursive mutex.  But
   obtain_lock first takes the stage, which is not recursive: a user thread that
   has the stage waits for the lock of run_one, whose callback waits for the
   stage.
2. *Lost wakeup* (`TaskStopEndsRun`).  `spawn_complete` requests the final stop
   and notifies without the lock, so both may fall between the caller's test of
   the predicate and its sleep; `break_run` ends only a run_one.
   `TaskStopEndsRunOrWakeupLost` holds: there is no other way without watchdog.
3. *Watchdog* (`TaskStopEndsRunOrWakeupLost` with `Watchdog`).  `run` waits for
   the internal tasks, one of which sleeps on an event loop that nobody runs.
4. *Timeout of a method call* (`CallTimeoutIsDelivered`).  When run_one returns
   by the bus timeout, the pending operation is not completed: the worker does
   not call `sd_bus_process`, and the caller polls again.
5. *Error of a coroutine that takes the message* (`ErrorIsAnswered`).
   `after_spawn` moves the message into the method's arguments
   (object_server.hpp:277).  When the method throws, the error is to be made from
   the moved message: that throws again, in the catch clause, and the caller waits
   until its timeout.
6. *Two transaction ids in one handler* (`TransactionKept`).  server/README.md
   says that all entries of a message have one id.  A handler that changes a
   property has the id replaced, by the getter that sd-bus calls for the signal,
   with one made from the clock.

## 4. Proofs

`EventLoopProofs` proves, for every set of threads, `Spec => []IInv` and from it
`TypeOK`, `SdEventExclusive`, `DispatchedSourceAlive` and `StageHasPriority`, assuming
only that Runner is no user and None no thread.  The properties speak about
program places and are not inductive: that two threads are not both inside
sd_event follows from who owns the recursive mutex.  `IInv` adds to the types
`LockInv` (the lock is owned exactly at the places inside run_one and inside a
user's critical section, and its depth is 2 exactly while a callback is in a
critical section), `StageInv` (the stage is owned exactly between its taking and
the lock; the runner's callback never has to block on the lock) and
`DispatchInv` (a dispatched source stays registered).  The steps are grouped as in
the code: on the way to the lock, changing sources, run_one, dispatch.

`AsyncContextProofs` proves the eight invariants of the run `AsyncContext` and
`TypeOK`, for every set of coroutines and of senders, with and without
a watchdog and method calls and for every `MaxInbox`.  It assumes that the two
kinds of tasks are disjoint and that the wait loop, the watchdog and None are
no tasks (`TasksDisjoint`, `NamesDistinct`).  None of the nine is inductive by
itself, and they need one another: whether the operation is in one place depends
on what the worker runs, that on what is queued, and that on what the caller has
found and taken.  So there is one `IInv`, of parts by subject:

* `WorkerInv`: which item the worker runs at which of its places; until the wait
  loop is started it runs nothing but the watchdog.
* `ItemInv`: an item is queued once and not while it runs, and a task that is
  queued or run is waiting for nothing else.  Without it an operation completed
  on the caller could be resumed twice.
* `WaitOpInOnePlace`: itself a part, as it says where the wait loop is when it
  is not queued or run.
* `CallerInv`: which places of the two threads go together (the caller is in
  run_one only with a pending operation, asleep only beside none, past the loop
  only after the final stop, and the worker has exited only with everything done).
* `ScopeInv` and `WatcherCoversTasks`: where a thread is on its way to start a
  watcher a task is alive, up to the test of the stop none is.  Hence the stop is
  final only with no task left.
* `CollectedInv`: when the shutdown has collected the operation, the worker can
  only end the wait loop.

`EnqueueItem` and `TakeFirst` are the lemmas about the worker's queue, after
which the steps reason only of what is queued.  The steps are grouped as in the
code: the waiting of the caller, the dispatch, the tasks on either thread, the
watcher on either thread, the wait/process loop, the shutdown and a further `Run`.

`AsyncMutexProofs` proves, for every set of tasks and with no assumption,
`LockedWhileGranted` and that `Spec` implements `FifoLock!Spec` with
`holders <- Granted` and `queue <- waitingTasks`.  `LockedWhileGranted` alone is not inductive:
`UnlockLast` clears the flag, which is right only if nobody else was granted the
lock, and `UnlockToWaiter` hands over to the head of the queue, which must not be
its holder.  `IInv` adds that all granted tasks are the same one and that the
queue holds each waiting task's completion at most once and only while it waits.
The refinement uses `IInv` for every step: start and the two unlocks map to
steps of the lock, the rest stutters.

`QueueOfWaiters` is a part of `IInv` and so a theorem, too.

`AsyncTasksProofs` proves, for every set of tasks and of messages, all six
properties of the run `AsyncTasks` that are not liveness: `SingleAwaiter`,
`WaiterIsPaired`, `WaiterIsKnown`, `NoDanglingWaiter`, `TimeoutIsDue`, and that the
match implements `MessageChannel`, assuming that NoTask is no task and NoMessage no
message.  The inductive invariant contains the mutex's, by instance: a step of the
tasks is a step of the mutex or leaves it alone (`MutexIInv`), so that nothing of
the mutex is proved twice.  `PlaceInv` ties the place of a task to what it has in
each of the four objects (whoever awaits the match or the fdio has the lock, and
only who awaits has an operation or a timer there); with the mutual exclusion that is
the single-awaiter rule (`OneAwaits`), without which a second `start` would end the
program.  `BarrierInv` is about the lists of the barrier, the waiting one and one
for each task that is releasing: an operation waits exactly while it is in one
place of one of them, and the releasing task is the last of its own, which is why
a task that arrives again during the release cannot be in two.  From the one-awaiter rule
follow the others: the operation a timer ends is its own (`TimeoutIsDue`), and at
most one message is on its way to a task (`Taken` has at most one element), so that the
channel is that message followed by the queue.  The refinement maps handle_match to
a send, each hand-over to a receive, the destructor to the loss of what is queued,
and the rest to stuttering.

`ObjectServerProofs` proves, for every set of interfaces and of calls, assuming
only that None is no interface, `AnnouncedIsServed`, `CacheIsCurrent` and
`AnsweredOnce` of `ObjectServer`.  `IInv` adds the types and two facts: an
interface is served exactly when it is initialized, and a client can have been
told of it only if there is a manager (`ServedInv`), which is why the destructor
of the served interface always takes the announcement back; and a call that is
not over has not been answered (`OpenCallsInv`).  `StoreSignals` is the lemma
about setters: a value that has changed is the one that was signalled.

`ContentsProofs` proves `PathsRoundTrip` for characters of any byte and names of any
length.  `IInv` says that the path is what its history makes of it, name by name; that
it can be taken apart again is a fact about the pure functions (`ExtendIsInverted`,
and below it `DecodeEncode`: decoding an escaped name gives the name).  Those are
recursive functions, and what they compute is proved by induction.  The library's
induction theorem takes a predicate as parameter, which the provers cannot
instantiate; `SetOfAllNumbers` states the principle of a set instead (one that
has 0 and with a number the next has every number) and is proved from the minimality
of a well-founded order.  That a recursive definition has a value at all needs
a proof, too (`DecodeStepByStep`, `JoinsExist`): the function is shown to exist on
the last n elements for every n.

The same module proves of `Marshalling`, for legal types nested to any depth and values of
any lengths, what a reader gives of what was appended (`ReadsWhatWasWritten`).  Its
types need not be the sender's: it takes that one element from the message or
fails, and if it has lost nothing (no entry of a map whose key came before, no
variant that none of its alternatives stands for, no string that went into a variant
within one), what it read would be appended
as the same element.  In an unambiguous type of the sender's it succeeds, loses
nothing, and reads the value unless the type is in `Converting`.  The
argument is an induction over the nesting: `ReadsBack(n)` says this of all types and
values of level n (`Reads`), and `Sound(n)` that what was appended is an element of
that level.  A step is one lemma for each kind of type (`BasicReadsBack`,
`ArrayReadsBack`, `TupleReadsBack`, `VariantReadsBack`).  Those of the containers rest on
`PartsRead`, an induction over the parts that have been read (`Partly`), which also says
that no entry is dropped for its key when the keys that were sent differ.  A variant
needs more: that the first alternative with the signature of the contents reads
them, what `convert_from_string` makes of a string at each level (`ConvertIs`,
`StringReadsBack`), and that what was appended in one type and has the signature of another can
be compared at all.

`ProgramsProofs` proves `ReadsWhatWasSent` from it.  `MessagesInv` says that, until a read
has failed, what is left in the message are the elements of the arguments that have not
been read: the read position is that of the sender, whatever the reads before it were of.

`AsioConnectionProofs` proves, for any sets of calls and any bounds,
`HandlerCalledOnce` and `IdleIsWatched` of `AsioConnection`.  It assumes that no call
is made both by a match's handler and by a coroutine, and that a coroutine in the
queue of the io_context is told from the connection's handlers.  Neither property is
inductive.  A coroutine that is in the queue twice, or still after its call, would
complete the call a second time: `SpawnedInv` says that it is in the queue once,
and only before it makes its call.  `IdleIsWatched` needs no further invariant beside
the types, but an argument per handler about what the queue is afterwards (`From`,
`AppendHandler`, `RepeatHandler`): a handler that goes on leaves a successor in the
queue, one that does not registers every wait anew, an aborted wait does nothing, and
what the reactor takes from `waits` it puts into the queue.

`ProgramsProofs` proves all nine invariants of the run `Programs` for every
value of the constants, from the assumptions named there.  A step of a program is a
step of one part and leaves the others alone (`PartSteps`).  So a program implements
the specification of each part (`RunsConnection`, `RunsServer`, `RunsPaths`,
each from a lemma that takes the part's actions one by one), and has the properties
that were proved of the part: `IdleIsWatched`, `AnsweredOnce`, `PathsRoundTrip`,
`AnnouncedIsServed` of interfaces, `PropertiesAreKnown` of an object server's client
and, for completion handlers, `CallbacksAreSound`.  Six parts have their
invariants in the module itself; that of messages is described above:

* *Composed objects* (the other half of `AnnouncedIsServed`): `ListedIsRegistered` is
  inductive by itself, beside the types.
* *Slots* (the other half of `CallbacksAreSound`): `OwnersInv` adds that sd-bus has
  the callback of a slot only while the slot has an owner, and that a slot which
  lost its owner while its callback ran is the slot of a call.
* *The timer*: `Honours` is `TimerHonoursRequests` and the timer's type.  It is
  preserved by each method (`AskHonours`) and by the handler with anything its
  callback may ask (`TimeoutHonours`), whatever state the loop is in.
* *Transaction ids*: `TransactionOfCall` is inductive once the shape of the state is
  added.  `Combine` is not expanded: no property of the hash is needed, and the
  theorem holds of every width.
* *Unpacking* (the other half of `PropertiesAreKnown`): `UnpackingInv` adds that a
  variable has a value of this answer or of an earlier one, and before this answer is
  unpacked only of an earlier one; without that a variable left alone could be taken
  for one that was set.  `ReadOne` says what one property comes to.  It needs the least
  index with a key (`MinOfNumbers`), which the library has as the minimality of a
  well-founded order, so that no induction is cited.

All IInv were model-checked before they were proved: their parts are invariants
of the runs or were checked on the same instances.

Only model-checked: every liveness property (`ContenderGetsLock`, `BreakRunEndsRunOne`,
`WaiterIsServed`, `WaitEnds`, the three of `AsyncContextLive` and of `Programs`),
because the prover proves neither ENABLED nor what follows from fairness.  Every
invariant of a passing run is also a theorem.

## 5. Not modelled

* Failing system calls.  Each throws before any state was changed, except
  `fdio_completion::start`, whose error path leaves a completed operation
  registered (listed as a hazard).
* Exceptions that leave a task, and tasks stopped through a stop token: the
  scope ends them like any other task.
* fdio operations started as raw senders, which resume on the caller and may be
  destroyed while start still runs on the worker (listed as a hazard).
* A match destroyed on one thread while libsystemd delivers a message to it on
  the other: it depends on libsystemd's handling of slots.
* Clock values.  A timer may elapse at any time; of the bus timeout only whether
  there is one is kept.
* `spawn` from a third thread.
* The typed layers (proxy, client, async server bindings), which add types to
  the operations above, and the generated code except for transaction ids.
* Exceptions that a generated callback hands to `bus_t::process` through the
  static `current_exception`, and a `process_discard` that throws in a handler of
  a connection, after which nothing watches the bus.  A bus stays connected.
* The timer and the waits of a connection are not adjusted when a coroutine makes
  a call outside `process`: until another handler of the connection runs nobody
  watches for its timeout or for the socket to be writable, which is why
  `IdleIsWatched` and `BusCallsEnd` speak of the calls made inside it.
* Waiting for POLLERR, which `sd_bus_get_events` does not ask for.
* A `match` that is destroyed by its own callback, which destroys the function
  object that runs.
* Of the object server: signals, properties beyond the first, removal of managers,
  and `getProperty` and `setProperty` on the client's side.  A setter that refuses
  a request is taken not to change the value.  The removal of an interface that
  was never initialized is announced although another one of its name is served:
  a client then misses one that exists, which `AnnouncedIsServed` does not forbid.
* Of objects that emit no signals nothing is promised: they stay in the list of a
  client to whom another object at their path has announced them.
* That two callers with equal cookies have equal transaction ids, as the name
  that is hashed is the bus' own.
* In messages: file descriptors, doubles, object paths (append drops one that is
  not valid) and types nested deeper than those of `Sendable`.
* What `filename` makes of paths that were not made by the escaping: `Decode` is
  given escaped paths only.
* Pointers that `unpackProperties` left in a variable and that dangle once their
  answer is gone: the model has the address, and no property uses it.
* What has no behaviour of its own at run time: the sd-bus wrapper and vtables,
  compile-time utilities, exceptions, and the sdbus++ generator.

## 6. Plan

In this order; the first seven are done, and the theorems as far as 10 says.

1. `EventLoop`, then its proofs.
2. `AsyncContext`, on top of what `EventLoop` promises.
3. `AsyncMutex` with `FifoLock`, then the refinement proof.
4. `AsyncMatch`, `AsyncBarrier`, `AsyncFdio`, composed with the mutex in
   `AsyncTasks`.
5. `Timer`, `SdEventWrapper`, `AsioConnection`: what runs on an io_context.
6. `ServerObject`, `ObjectServer`, `Transactions`, then the proofs of the first
   two; `Slots`.
7. `Marshalling`, `Messages`, `ObjectPaths`, `PropertyUnpacking`.
8. The exceptions of callbacks: `current_exception` between generated callbacks,
   coroutines and `process`; a connection whose `process_discard` throws.
9. Signals and several properties of an asio interface; `getProperty` and
   `setProperty`.
10. Theorems: `AsyncContext`, `AsyncTasks`, `AsioConnection` and the properties of
   `Programs` from those of its parts (done);
   the type invariants of the parts of `Programs`.
