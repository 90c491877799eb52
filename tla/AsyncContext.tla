---------------------------- MODULE AsyncContext ----------------------------
(***************************************************************************)
(* sdbusplus::async::context (include/sdbusplus/async/context.hpp and      *)
(* src/async/context.cpp): the run-loop that joins D-Bus, sd-event and     *)
(* coroutines.  The thread that calls run, the caller, is the only one     *)
(* that waits; the worker calls sd_bus_process and runs the tasks.  They   *)
(* pass one operation, the wait_process_completion, back and forth.        *)
(*                                                                         *)
(* The caller's event loop is module EventLoop seen from here: it holds    *)
(* the sd_event lock while it is in run_one, and a worker that adds a      *)
(* source makes run_one return and then goes first.                        *)
(*                                                                         *)
(* Not part of the specification but broken variants of the definition     *)
(* that follows each: ProcessMessageUnchecked, DbusEventKeepsPending,      *)
(* TakeStagedKeepingIt, StageSilently, TakePendingKeepingIt,               *)
(* ResetForgotten, RequestFinalStop, FinishWithoutWaiting,                 *)
(* DbusEventForgetsWaiter, BreakRunSkipped. A property that matters is     *)
(* violated with one of them in its place.                                 *)
(***************************************************************************)
EXTENDS Naturals, Sequences

CONSTANTS
    Coroutines,     \* tasks that resume on the worker: task<void>
    Senders,        \* tasks that complete on the caller: fdio::next() | then()
    WaitLoop,       \* the run-queue item of wait_process_completion::loop
    WatchdogTask,   \* the run-queue item of watchdog_loop
    None,           \* the worker runs nothing
    Watchdog,       \* is WATCHDOG_USEC set?
    Calls,          \* do coroutines await method calls that may time out?
    MaxInbox        \* bound: unread messages on the bus socket

Tasks == Coroutines \cup Senders
Items == Tasks \cup {WaitLoop, WatchdogTask}

ASSUME TasksDisjoint == Coroutines \cap Senders = {}
ASSUME NamesDistinct ==
    /\ WaitLoop \notin Tasks /\ WatchdogTask \notin Tasks
    /\ None \notin Items /\ WaitLoop # WatchdogTask
ASSUME OptionsAssumption ==
    Watchdog \in BOOLEAN /\ Calls \in BOOLEAN
ASSUME MaxInboxAssumption == MaxInbox \in Nat \ {0}

VARIABLES
    pc,             \* where the caller and the worker are
    current,        \* the item the worker runs
    runq,           \* the queue of execution::run_loop
    task,           \* the state of each spawned task
    waitLoop,       \* the state of wait_process_completion::loop
    watchdog,       \* the state of watchdog_loop
    staged,         \* context::staged  # nullptr
    pending,        \* context::pending # nullptr
    finiteTimeout,  \* is the operation's timeout other than -1?
    watcher,        \* does an on_empty of pending_tasks wait?
    watcherRunning, \* context::spawn_watcher_running
    initialStop,    \* context::initial_stop
    finalStop,      \* context::final_stop
    waitProcessStopped, \* context::wait_process_stopped
    wakeup,         \* is the eventfd of event::run_condition readable?
    inbox           \* unread messages: the bus fd is readable when positive

busVars == <<wakeup, inbox>>
handVars == <<staged, pending, finiteTimeout>>
stopVars == <<initialStop, finalStop, waitProcessStopped>>
scopeVars == <<watcher, watcherRunning>>
taskVars == <<current, runq, task, waitLoop, watchdog>>
vars == <<pc, taskVars, handVars, scopeVars, stopVars, busVars>>

(* spawn_watcher and spawn_complete run on either thread. *)
WatchStates ==
    {"spawn_watcher", "on_empty", "reset", "test_stop", "notify", "break_run"}
CallerStates ==
    {"setup", "caller_run", "keep_running", "wait", "check_failed", "asleep",
     "test", "enter", "poll", "dispatch",
     "take_pending", "take_staged", "mark_stopped", "internal_empty", "join",
     "returned"} \cup WatchStates
WorkerStates ==
    {"none", "watchdog", "start_loop", "idle", "loop", "process", "handler",
     "loop_exit", "stage", "task", "spawn", "add_timer", "add_block", "exited"}
        \cup WatchStates
TaskStates ==
    {"new", "active", "asleep", "calling", "expired", "completing", "done"}

TypeOK ==
    /\ pc \in [caller : CallerStates, worker : WorkerStates]
    /\ current \in Items \cup {None}
    /\ runq \in Seq(Items)
    /\ task \in [Tasks -> TaskStates]
    /\ waitLoop \in {"new", "running", "done"}
    /\ watchdog \in {"new", "active", "asleep", "done"}
    /\ {staged, pending, finiteTimeout, watcher, watcherRunning,
        initialStop, finalStop, waitProcessStopped, wakeup} \subseteq BOOLEAN
    /\ inbox \in 0..MaxInbox

Init ==
    /\ pc = [caller |-> "setup", worker |-> "none"]
    /\ current = None /\ runq = <<>>
    /\ task = [t \in Tasks |-> "new"]
    /\ waitLoop = "new" /\ watchdog = "new"
    /\ staged = FALSE /\ pending = FALSE /\ finiteTimeout = FALSE
    /\ watcher = FALSE /\ watcherRunning = FALSE
    /\ initialStop = FALSE /\ finalStop = FALSE /\ waitProcessStopped = FALSE
    /\ wakeup = FALSE /\ inbox = 0

(* The tasks in the scope pending_tasks. *)
Live == {t \in Tasks : task[t] \notin {"new", "done"}}

(* context::lock is held across steps only by a caller that has evaluated
   the predicate of the condition variable and is about to sleep on it. *)
LockFree == pc.caller # "check_failed"

Goto(th, label) == pc' = [pc EXCEPT ![th] = label]
WorkerAt(label) == pc.worker = label
CallerAt(label) == pc.caller = label

(* After its item suspends or ends the worker takes the next; worker_run
   spawns the watchdog first, the wait loop next and then enters the loop. *)
NextItem == IF waitLoop = "new" THEN "start_loop" ELSE "idle"

---------------------------------------------------------------------------
(* async_scope: adding a task, and completing one on thread th.  The last  *)
(* one out completes the on_empty sender, which calls spawn_complete.      *)

AddTask(t) ==
    /\ task[t] = "new"
    /\ task' = [task EXCEPT ![t] = "active"]
    /\ runq' = Append(runq, t)

CompleteTask(th, t, label) ==
    /\ task' = [task EXCEPT ![t] = "done"]
    /\ IF Live = {t} /\ watcher
       THEN watcher' = FALSE /\ Goto(th, "reset")
       ELSE watcher' = watcher /\ Goto(th, label)

(* Where a thread continues after spawn_watcher or spawn_complete. *)
Resume(th) ==
    IF th = "worker"
    THEN IF current = WaitLoop THEN "handler"
         ELSE IF current \in Tasks THEN "task" ELSE "idle"
    ELSE IF WorkerAt("exited") THEN "take_pending" ELSE "keep_running"

SpawnWatcher(th) ==
    /\ pc[th] = "spawn_watcher" /\ LockFree
    /\ watcherRunning' = TRUE
    /\ Goto(th, IF watcherRunning THEN Resume(th) ELSE "on_empty")
    /\ UNCHANGED <<taskVars, handVars, watcher, stopVars, busVars>>

(* on_empty completes at once if the scope is empty already. *)
OnEmpty(th) ==
    /\ pc[th] = "on_empty"
    /\ IF Live = {}
       THEN Goto(th, "reset") /\ UNCHANGED watcher
       ELSE watcher' = TRUE /\ Goto(th, Resume(th))
    /\ UNCHANGED <<taskVars, handVars, watcherRunning, stopVars, busVars>>

ResetForgotten(th) ==
    /\ pc[th] = "reset" /\ LockFree
    /\ Goto(th, "test_stop")
    /\ UNCHANGED <<taskVars, handVars, scopeVars, stopVars, busVars>>

(* spawn_complete, in its four steps; only the first holds the lock. *)
ResetRunning(th) ==
    /\ pc[th] = "reset" /\ LockFree
    /\ watcherRunning' = FALSE
    /\ Goto(th, "test_stop")
    /\ UNCHANGED <<taskVars, handVars, watcher, stopVars, busVars>>

TestStop(th) ==
    /\ pc[th] = "test_stop"
    /\ finalStop' = (finalStop \/ initialStop)
    /\ Goto(th, "notify")
    /\ UNCHANGED <<taskVars, handVars, scopeVars, initialStop,
                   waitProcessStopped, busVars>>

(* notify_one wakes the caller if it sleeps, and is forgotten otherwise. *)
Notified(th, label) ==
    pc' = [pc EXCEPT ![th] = label,
                     !.caller = IF th = "caller" THEN label
                                ELSE IF @ = "asleep" THEN "wait" ELSE @]

NotifyCaller(th) ==
    /\ pc[th] = "notify"
    /\ Notified(th, "break_run")
    /\ UNCHANGED <<taskVars, handVars, scopeVars, stopVars, busVars>>

BreakRunSkipped(th) ==
    /\ pc[th] = "break_run"
    /\ Goto(th, Resume(th))
    /\ UNCHANGED <<taskVars, handVars, scopeVars, stopVars, busVars>>

BreakRun(th) ==
    /\ pc[th] = "break_run"
    /\ wakeup' = TRUE
    /\ Goto(th, Resume(th))
    /\ UNCHANGED <<taskVars, handVars, scopeVars, stopVars, inbox>>

Watching(th) ==
    \/ SpawnWatcher(th) \/ OnEmpty(th) \/ ResetRunning(th) \/ TestStop(th)
    \/ NotifyCaller(th) \/ BreakRun(th)

---------------------------------------------------------------------------
(* The worker: worker_run and the queue of the run_loop.                   *)

ItemEnds(label) == current' = None /\ Goto("worker", label)
Enqueue(item) == runq' = Append(runq, item)

TakeItem ==
    /\ WorkerAt("idle") /\ runq # <<>>
    /\ current' = Head(runq) /\ runq' = Tail(runq)
    /\ Goto("worker", CASE Head(runq) = WaitLoop -> "loop"
                        [] Head(runq) = WatchdogTask -> "watchdog"
                        [] OTHER -> "task")
    /\ UNCHANGED <<task, waitLoop, watchdog,
                   handVars, scopeVars, stopVars, busVars>>

(* One turn of watchdog_loop: pet the watchdog and sleep half its time. *)
RunWatchdog ==
    /\ WorkerAt("watchdog")
    /\ IF Watchdog /\ ~initialStop
       THEN watchdog' = "active" /\ Goto("worker", "add_timer") /\ UNCHANGED current
       ELSE watchdog' = "done" /\ ItemEnds(NextItem)
    /\ UNCHANGED <<runq, task, waitLoop,
                   handVars, scopeVars, stopVars, busVars>>

StartWaitLoop ==
    /\ WorkerAt("start_loop")
    /\ waitLoop' = "running" /\ current' = WaitLoop
    /\ Goto("worker", "loop")
    /\ UNCHANGED <<runq, task, watchdog, handVars, scopeVars, stopVars, busVars>>

(* The queue is finished by a caller that waits to join the worker. *)
ExitWorker ==
    /\ WorkerAt("idle") /\ runq = <<>> /\ CallerAt("join")
    /\ Goto("worker", "exited")
    /\ UNCHANGED <<taskVars, handVars, scopeVars, stopVars, busVars>>

---------------------------------------------------------------------------
(* The worker in wait_process_completion::loop and ::start.                *)

LoopTest ==
    /\ WorkerAt("loop")
    /\ Goto("worker", IF finalStop THEN "loop_exit" ELSE "process")
    /\ UNCHANGED <<taskVars, handVars, scopeVars, stopVars, busVars>>

LoopExit ==
    /\ WorkerAt("loop_exit") /\ LockFree
    /\ waitProcessStopped' = TRUE /\ waitLoop' = "done"
    /\ ItemEnds("idle")
    /\ UNCHANGED <<runq, task, watchdog, handVars, scopeVars,
                   initialStop, finalStop, busVars>>

Expired == {c \in Coroutines : task[c] = "expired"}

(* process_discard: sd_bus_process ends an overdue call first ... *)
ProcessTimeout ==
    /\ WorkerAt("process")
    /\ \E c \in Expired :
        /\ task' = [task EXCEPT ![c] = "active"]
        /\ runq' = runq \o <<c, WaitLoop>>
    /\ ItemEnds("idle")
    /\ UNCHANGED <<waitLoop, watchdog, handVars, scopeVars, stopVars, busVars>>

ProcessMessageUnchecked ==
    /\ WorkerAt("process") /\ Expired = {}
    /\ inbox' = inbox - 1
    /\ Goto("worker", "handler")
    /\ UNCHANGED <<taskVars, handVars, scopeVars, stopVars, wakeup>>

(* ... or else takes one message and calls its handlers ... *)
ProcessMessage ==
    /\ WorkerAt("process") /\ Expired = {} /\ inbox > 0
    /\ inbox' = inbox - 1
    /\ Goto("worker", "handler")
    /\ UNCHANGED <<taskVars, handVars, scopeVars, stopVars, wakeup>>

(* ... or has nothing to do, and start reads the timeout of the bus. *)
ProcessNothing ==
    /\ WorkerAt("process") /\ Expired = {} /\ inbox = 0
    /\ finiteTimeout' = \E c \in Coroutines : task[c] = "calling"
    /\ Goto("worker", "stage")
    /\ UNCHANGED <<taskVars, staged, pending, scopeVars, stopVars, busVars>>

StageSilently ==
    /\ WorkerAt("stage") /\ LockFree
    /\ staged' = TRUE /\ current' = None
    /\ Goto("worker", "idle")
    /\ UNCHANGED <<runq, task, waitLoop, watchdog, pending, finiteTimeout,
                   scopeVars, stopVars, busVars>>

Stage ==
    /\ WorkerAt("stage") /\ LockFree
    /\ staged' = TRUE /\ current' = None
    /\ Notified("worker", "idle")
    /\ UNCHANGED <<runq, task, waitLoop, watchdog, pending, finiteTimeout,
                   scopeVars, stopVars, busVars>>

(* Something was processed: complete, so that process is called again. *)
HandlerDone ==
    /\ WorkerAt("handler")
    /\ Enqueue(WaitLoop)
    /\ ItemEnds("idle")
    /\ UNCHANGED <<task, waitLoop, watchdog,
                   handVars, scopeVars, stopVars, busVars>>

(* The message was the reply that coroutine c awaits. *)
HandlerReply ==
    /\ WorkerAt("handler")
    /\ \E c \in Coroutines :
        /\ task[c] = "calling"
        /\ task' = [task EXCEPT ![c] = "active"]
        /\ runq' = runq \o <<c, WaitLoop>>
    /\ ItemEnds("idle")
    /\ UNCHANGED <<waitLoop, watchdog, handVars, scopeVars, stopVars, busVars>>

---------------------------------------------------------------------------
(* The worker in a task, and what tasks and D-Bus handlers may call; main   *)
(* may already request a stop before run.                                  *)

RequestFinalStop ==
    /\ CallerAt("setup") \/ WorkerAt("task") \/ WorkerAt("handler")
    /\ ~initialStop
    /\ initialStop' = TRUE /\ finalStop' = TRUE
    /\ UNCHANGED <<pc, taskVars, handVars, scopeVars,
                   waitProcessStopped, busVars>>

RequestStop ==
    /\ CallerAt("setup") \/ WorkerAt("task") \/ WorkerAt("handler")
    /\ ~initialStop
    /\ initialStop' = TRUE
    /\ UNCHANGED <<pc, taskVars, handVars, scopeVars,
                   finalStop, waitProcessStopped, busVars>>

(* spawn first throws if a stop was requested. *)
CheckStopRequested ==
    /\ WorkerAt("handler") \/ (WorkerAt("task") /\ current \in Coroutines)
    /\ ~initialStop
    /\ \E t \in Tasks : task[t] = "new"
    /\ Goto("worker", "spawn")
    /\ UNCHANGED <<taskVars, handVars, scopeVars, stopVars, busVars>>

Spawn ==
    /\ WorkerAt("spawn")
    /\ \E t \in Tasks : AddTask(t)
    /\ Goto("worker", "spawn_watcher")
    /\ UNCHANGED <<current, waitLoop, watchdog,
                   handVars, scopeVars, stopVars, busVars>>

Sleep ==
    /\ WorkerAt("task") /\ current \in Coroutines
    /\ Goto("worker", "add_timer")
    /\ UNCHANGED <<taskVars, handVars, scopeVars, stopVars, busVars>>

CallerInRunOne == pc.caller \in {"poll", "dispatch"} \cup WatchStates

TimerAdded ==
    /\ IF current = WatchdogTask
       THEN watchdog' = "asleep" /\ UNCHANGED task
       ELSE task' = [task EXCEPT ![current] = "asleep"] /\ UNCHANGED watchdog
    /\ ItemEnds(NextItem)
    /\ UNCHANGED <<runq, waitLoop, handVars, scopeVars, stopVars, busVars>>

AddTimer ==
    /\ WorkerAt("add_timer") /\ ~CallerInRunOne
    /\ TimerAdded

SignalRunOne ==
    /\ WorkerAt("add_timer") /\ CallerInRunOne
    /\ wakeup' = TRUE
    /\ Goto("worker", "add_block")
    /\ UNCHANGED <<taskVars, handVars, scopeVars, stopVars, inbox>>

AddTimerAfterSignal ==
    /\ WorkerAt("add_block") /\ ~CallerInRunOne
    /\ TimerAdded

Call ==
    /\ WorkerAt("task") /\ current \in Coroutines /\ Calls
    /\ task' = [task EXCEPT ![current] = "calling"]
    /\ ItemEnds("idle")
    /\ UNCHANGED <<runq, waitLoop, watchdog,
                   handVars, scopeVars, stopVars, busVars>>

(* A sender that waits for a file descriptor the event loop has already. *)
AwaitFd ==
    /\ WorkerAt("task") /\ current \in Senders
    /\ task' = [task EXCEPT ![current] = "asleep"]
    /\ ItemEnds("idle")
    /\ UNCHANGED <<runq, waitLoop, watchdog,
                   handVars, scopeVars, stopVars, busVars>>

FinishTask ==
    /\ WorkerAt("task")
    /\ CompleteTask("worker", current, "idle")
    /\ current' = None
    /\ UNCHANGED <<runq, waitLoop, watchdog, watcherRunning,
                   handVars, stopVars, busVars>>

Worker ==
    \/ TakeItem \/ RunWatchdog \/ StartWaitLoop \/ ExitWorker
    \/ LoopTest \/ LoopExit \/ ProcessTimeout \/ ProcessMessage
    \/ ProcessNothing \/ Stage \/ HandlerDone
    \/ Spawn \/ AddTimer \/ SignalRunOne \/ AddTimerAfterSignal \/ FinishTask
    \/ Watching("worker")

WorkerChoices ==
    \/ HandlerReply \/ RequestStop \/ CheckStopRequested \/ Sleep \/ Call \/ AwaitFd

---------------------------------------------------------------------------
(* The caller: run, caller_run and wait_once.                              *)

(* Before run there is only the calling thread; a stop that it has requested
   makes spawn throw here as well. *)
SpawnBeforeRun ==
    /\ CallerAt("setup")
    /\ ~initialStop
    /\ \E t \in Tasks : AddTask(t)
    /\ watcher' = TRUE /\ watcherRunning' = TRUE
    /\ UNCHANGED <<pc, current, waitLoop, watchdog, handVars, stopVars, busVars>>

(* run may be called again after it has returned. *)
Run ==
    /\ pc.caller \in {"setup", "returned"}
    /\ Goto("caller", "caller_run")
    /\ UNCHANGED <<taskVars, handVars, scopeVars, stopVars, busVars>>

CallerRun ==
    /\ CallerAt("caller_run")
    /\ IF finalStop
       THEN Goto("caller", "spawn_watcher") /\ UNCHANGED current
       ELSE /\ pc' = [caller |-> "keep_running", worker |-> "watchdog"]
            /\ current' = WatchdogTask
    /\ UNCHANGED <<runq, task, waitLoop, watchdog,
                   handVars, scopeVars, stopVars, busVars>>

KeepRunning ==
    /\ CallerAt("keep_running")
    /\ Goto("caller", IF finalStop THEN "take_pending" ELSE "wait")
    /\ UNCHANGED <<taskVars, handVars, scopeVars, stopVars, busVars>>

TakeStagedKeepingIt ==
    /\ CallerAt("wait")
    /\ pending \/ staged \/ finalStop
    /\ pending' = (pending \/ staged)
    /\ Goto("caller", "test")
    /\ UNCHANGED <<taskVars, staged, finiteTimeout, scopeVars, stopVars, busVars>>

TakeStaged ==
    /\ CallerAt("wait")
    /\ pending \/ staged \/ finalStop
    /\ pending' = (pending \/ staged)
    /\ staged' = (staged /\ pending)
    /\ Goto("caller", "test")
    /\ UNCHANGED <<taskVars, finiteTimeout, scopeVars, stopVars, busVars>>

(* The predicate is false: the caller still holds the lock ... *)
PredicateFails ==
    /\ CallerAt("wait")
    /\ ~(pending \/ staged \/ finalStop)
    /\ Goto("caller", "check_failed")
    /\ UNCHANGED <<taskVars, handVars, scopeVars, stopVars, busVars>>

(* ... and releases it as it goes to sleep on caller_wait. *)
SleepOnCallerWait ==
    /\ CallerAt("check_failed")
    /\ Goto("caller", "asleep")
    /\ UNCHANGED <<taskVars, handVars, scopeVars, stopVars, busVars>>

SpuriousWakeup ==
    /\ CallerAt("asleep")
    /\ Goto("caller", "wait")
    /\ UNCHANGED <<taskVars, handVars, scopeVars, stopVars, busVars>>

TestFinalStop ==
    /\ CallerAt("test")
    /\ Goto("caller", IF ~finalStop /\ pending THEN "enter" ELSE "keep_running")
    /\ UNCHANGED <<taskVars, handVars, scopeVars, stopVars, busVars>>

(* A worker that was promised the sd_event goes first. *)
EnterRunOne ==
    /\ CallerAt("enter") /\ ~WorkerAt("add_block")
    /\ Goto("caller", "poll")
    /\ UNCHANGED <<taskVars, handVars, scopeVars, stopVars, busVars>>

---------------------------------------------------------------------------
(* The caller in run_one: one source is dispatched, then it returns.       *)

PollWakeup ==
    /\ CallerAt("poll") /\ wakeup
    /\ wakeup' = FALSE
    /\ Goto("caller", "keep_running")
    /\ UNCHANGED <<taskVars, handVars, scopeVars, stopVars, inbox>>

DbusEventKeepsPending ==
    /\ CallerAt("poll") /\ inbox > 0
    /\ IF pending THEN Enqueue(WaitLoop) ELSE UNCHANGED runq
    /\ Goto("caller", "keep_running")
    /\ UNCHANGED <<current, task, waitLoop, watchdog, staged, pending, finiteTimeout,
                   scopeVars, stopVars, busVars>>

DbusEventForgetsWaiter ==
    /\ CallerAt("poll") /\ inbox > 0
    /\ pending' = FALSE
    /\ Goto("caller", "keep_running")
    /\ UNCHANGED <<taskVars, staged, finiteTimeout, scopeVars, stopVars, busVars>>

(* dbus_event_handle, the handler of the bus descriptor. *)
DbusEventHandle ==
    /\ CallerAt("poll") /\ inbox > 0
    /\ pending' = FALSE
    /\ IF pending THEN Enqueue(WaitLoop) ELSE UNCHANGED runq
    /\ Goto("caller", "keep_running")
    /\ UNCHANGED <<current, task, waitLoop, watchdog, staged, finiteTimeout,
                   scopeVars, stopVars, busVars>>

PollTimeout ==
    /\ CallerAt("poll") /\ finiteTimeout
    /\ Goto("caller", "keep_running")
    /\ UNCHANGED <<taskVars, handVars, scopeVars, stopVars, busVars>>

(* sleep_for continues on the worker. *)
TimerFires(c) ==
    /\ CallerAt("poll") /\ task[c] = "asleep"
    /\ task' = [task EXCEPT ![c] = "active"]
    /\ Enqueue(c)
    /\ Goto("caller", "keep_running")
    /\ UNCHANGED <<current, waitLoop, watchdog,
                   handVars, scopeVars, stopVars, busVars>>

WatchdogTimerFires ==
    /\ CallerAt("poll") /\ watchdog = "asleep"
    /\ watchdog' = "active"
    /\ Enqueue(WatchdogTask)
    /\ Goto("caller", "keep_running")
    /\ UNCHANGED <<current, task, waitLoop,
                   handVars, scopeVars, stopVars, busVars>>

(* fdio::handleEvent completes its sender here; the sender may request a
   stop before its task ends. *)
FdReady(s) ==
    /\ CallerAt("poll") /\ task[s] = "asleep"
    /\ task' = [task EXCEPT ![s] = "completing"]
    /\ initialStop' \in {initialStop, TRUE}
    /\ Goto("caller", "dispatch")
    /\ UNCHANGED <<current, runq, waitLoop, watchdog, handVars, scopeVars,
                   finalStop, waitProcessStopped, busVars>>

FinishSender ==
    /\ CallerAt("dispatch")
    /\ \E s \in Senders :
        task[s] = "completing" /\ CompleteTask("caller", s, "keep_running")
    /\ UNCHANGED <<current, runq, waitLoop, watchdog, watcherRunning,
                   handVars, stopVars, busVars>>

---------------------------------------------------------------------------
(* The caller after the loop: wait_for_wait_process_stopped and run's end. *)

TakePendingKeepingIt ==
    /\ CallerAt("take_pending")
    /\ IF pending
       THEN Enqueue(WaitLoop) /\ Goto("caller", "mark_stopped")
       ELSE UNCHANGED runq /\ Goto("caller", "take_staged")
    /\ UNCHANGED <<current, task, waitLoop, watchdog, handVars,
                   scopeVars, stopVars, busVars>>

TakePending ==
    /\ CallerAt("take_pending")
    /\ pending' = FALSE
    /\ IF pending
       THEN Enqueue(WaitLoop) /\ Goto("caller", "mark_stopped")
       ELSE UNCHANGED runq /\ Goto("caller", "take_staged")
    /\ UNCHANGED <<current, task, waitLoop, watchdog, staged, finiteTimeout,
                   scopeVars, stopVars, busVars>>

(* One turn of the spin loop; with neither condition it goes round again. *)
TakeStagedToStop ==
    /\ CallerAt("take_staged")
    /\ \/ /\ waitProcessStopped
          /\ Goto("caller", "internal_empty")
          /\ UNCHANGED <<staged, runq>>
       \/ /\ ~waitProcessStopped /\ staged
          /\ staged' = FALSE
          /\ Enqueue(WaitLoop)
          /\ Goto("caller", "mark_stopped")
    /\ UNCHANGED <<current, task, waitLoop, watchdog, pending, finiteTimeout,
                   scopeVars, stopVars, busVars>>

MarkStopped ==
    /\ CallerAt("mark_stopped")
    /\ waitProcessStopped' = TRUE
    /\ Goto("caller", "internal_empty")
    /\ UNCHANGED <<taskVars, handVars, scopeVars, initialStop, finalStop, busVars>>

(* The scope internal_tasks: the wait loop, the watchdog and the watcher. *)
InternalEmpty ==
    /\ waitLoop = "done" /\ watchdog = "done"
    /\ ~watcher /\ pc.worker \notin WatchStates

FinishWithoutWaiting ==
    /\ CallerAt("internal_empty")
    /\ Goto("caller", "join")
    /\ UNCHANGED <<taskVars, handVars, scopeVars, stopVars, busVars>>

AwaitInternalEmpty ==
    /\ CallerAt("internal_empty") /\ InternalEmpty
    /\ Goto("caller", "join")
    /\ UNCHANGED <<taskVars, handVars, scopeVars, stopVars, busVars>>

Join ==
    /\ CallerAt("join") /\ WorkerAt("exited")
    /\ Goto("caller", "returned")
    /\ UNCHANGED <<taskVars, handVars, scopeVars, stopVars, busVars>>

Caller ==
    \/ CallerRun \/ KeepRunning \/ TakeStaged \/ PredicateFails
    \/ SleepOnCallerWait \/ TestFinalStop \/ EnterRunOne
    \/ PollWakeup \/ DbusEventHandle \/ PollTimeout \/ WatchdogTimerFires
    \/ \E c \in Coroutines : TimerFires(c)
    \/ \E s \in Senders : FdReady(s)
    \/ FinishSender \/ TakePending \/ TakeStagedToStop \/ MarkStopped
    \/ AwaitInternalEmpty \/ Join
    \/ Watching("caller")

CallerChoices == SpawnBeforeRun \/ Run \/ SpuriousWakeup

---------------------------------------------------------------------------
(* The peers on the bus, and the clock.                                    *)

Arrive ==
    /\ inbox < MaxInbox
    /\ inbox' = inbox + 1
    /\ UNCHANGED <<pc, taskVars, handVars, scopeVars, stopVars, wakeup>>

CallExpires ==
    /\ \E c \in Coroutines :
        task[c] = "calling" /\ task' = [task EXCEPT ![c] = "expired"]
    /\ UNCHANGED <<pc, current, runq, waitLoop, watchdog,
                   handVars, scopeVars, stopVars, busVars>>

Next == Worker \/ WorkerChoices \/ Caller \/ CallerChoices \/ Arrive \/ CallExpires

(***************************************************************************)
(* Both threads keep running, and a worker that waits for the lock while   *)
(* the caller takes it again and again (spurious wakeups) gets it in the   *)
(* end: hence strong fairness.  sd-event dispatches the oldest of the ready*)
(* sources first, so none that stays ready is passed over for ever; timers *)
(* elapse and awaited descriptors become readable.  The bus, the user of   *)
(* the context and spurious wakeups owe nothing.                           *)
(***************************************************************************)
Fairness ==
    /\ SF_vars(Worker)
    /\ WF_vars(Caller)
    /\ SF_vars(DbusEventHandle) /\ SF_vars(WatchdogTimerFires)
    /\ \A c \in Coroutines : SF_vars(TimerFires(c))
    /\ \A s \in Senders : SF_vars(FdReady(s))
    /\ WF_vars(CallExpires)

Spec == Init /\ [][Next]_vars
FairSpec == Spec /\ Fairness
---------------------------------------------------------------------------
Queued(item) == \E i \in DOMAIN runq : runq[i] = item

(* The wait/process operation is in exactly one place while its loop runs:
   staged, pending, with the worker, or completed and back in the queue of
   the run-loop.  Otherwise its receiver would be completed twice, or the
   handshake of the two threads would have lost it. *)
WaitOpInOnePlace ==
    /\ \A i, j \in DOMAIN runq :
            runq[i] = WaitLoop /\ runq[j] = WaitLoop => i = j
    /\ waitLoop = "running" <=>
            staged \/ pending \/ current = WaitLoop \/ Queued(WaitLoop)
    /\ staged => ~(pending \/ current = WaitLoop \/ Queued(WaitLoop))
    /\ pending => ~(current = WaitLoop \/ Queued(WaitLoop))
    /\ current = WaitLoop => ~Queued(WaitLoop)

(* The caller waits on the bus only for an operation that asked for it, and
   the worker is not inside sd_bus_process meanwhile (context.hpp: "The
   caller is the only thread which called sd_bus_wait, but the worker is
   where all sd_bus_process calls are performed"). *)
WaitExcludesProcess ==
    CallerAt("enter") \/ (CallerInRunOne /\ ~WorkerAt("exited")) =>
        pending /\ pc.worker \notin {"loop", "process", "handler", "stage"}

(* A staged operation always wakes the caller: it does not sleep on the
   condition variable beside an operation it has to wait for. *)
StagingWakesCaller == CallerAt("asleep") => ~staged /\ ~pending

(* Once the shutdown has collected the operation no other is ever staged:
   nobody would complete it, and the wait loop would not end. *)
NoWaitAfterCollected ==
    pc.caller \in {"mark_stopped", "internal_empty", "join", "returned"} =>
        ~staged /\ ~pending

(* As long as a task is alive a watcher waits for the last one to end, or
   is about to: nothing else turns the requested stop into the final one.
   A D-Bus handler that spawns a task cannot miss it although spawn_complete
   runs on either thread, because of WaitExcludesProcess. *)
WatcherCoversTasks ==
    Live # {} =>
        \/ watcher
        \/ \E th \in {"caller", "worker"} :
            pc[th] = "on_empty" \/ (pc[th] = "spawn_watcher" /\ ~watcherRunning)

(* The final stop is reached only after the last task has ended. *)
FinalStopAfterTasks == finalStop => Live = {}

(* When run reaches loop.finish() nothing is going on any more ("There
   shouldn't be anything going on by this point anyhow.", context.cpp). *)
NothingLeftAtFinish ==
    pc.caller \in {"join", "returned"} =>
        /\ Live = {} /\ watchdog # "asleep"
        /\ waitLoop = "done" /\ ~staged /\ ~pending
        /\ CallerAt("returned") => runq = <<>>

(* Has run been called? *)
Running == ~CallerAt("setup")

(* A message that makes the bus readable is processed, however the two
   threads stand when it arrives, unless the context is being stopped. *)
MessageIsProcessed ==
    Running /\ inbox > 0 ~> WorkerAt("handler") \/ initialStop

QuietBus == <>[](inbox = 0)

(* On a bus that becomes quiet every elapsed timer is dispatched: the caller
   keeps going back to run_one. *)
TimersFire ==
    QuietBus => \A c \in Coroutines : task[c] = "asleep" ~> task[c] # "asleep"

(* Tasks are written as loops of the form while (!ctx.stop_requested()): in
   the end none starts to wait again once a stop was requested. *)
TasksHeedStop == <>[][initialStop => ~(Sleep \/ AwaitFd)]_vars

(* The caller sleeps although the final stop is set, and nobody is left to
   notify it: final_stop is set and notified outside the lock, so it can
   fall between the caller's test of it and its going to sleep. *)
WakeupLost ==
    CallerAt("asleep") /\ finalStop /\ waitLoop = "done"
        /\ pc.worker \notin WatchStates

(* A stop requested while a task is alive ends run once the bus is quiet,
   and a later call of run returns as well; a lost wakeup is the only way
   in which it may fail to. *)
TaskStopEndsRunOrWakeupLost ==
    QuietBus /\ TasksHeedStop =>
        (Running /\ ((initialStop /\ Live # {}) \/ finalStop)
            ~> CallerAt("returned") \/ WakeupLost)

(* The same without the exception for a lost wakeup. *)
TaskStopEndsRun ==
    QuietBus /\ TasksHeedStop =>
        (Running /\ initialStop /\ Live # {} ~> CallerAt("returned"))

(* "Completion object to signal the worker that 'sd_bus_wait' is done."
   (context.hpp): a wait that was given the timeout of a method call ends
   with it, the worker hears of that, and the call's awaiter gets its error. *)
CallTimeoutIsDelivered ==
    \A c \in Coroutines :
        pending /\ finiteTimeout /\ task[c] = "expired" ~> task[c] # "expired"
=============================================================================
