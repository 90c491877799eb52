------------------------- MODULE AsyncContextProofs -------------------------
(***************************************************************************)
(* For any sets of coroutines and senders, with and without a watchdog and *)
(* method calls: the safety of the handshake of the two threads of an      *)
(* async context, of its watcher and of its shutdown.                      *)
(***************************************************************************)
EXTENDS AsyncContext, TLAPS

(* What the worker runs, by its place; until the wait loop is started it runs
   nothing but the watchdog. *)
WorkerInv ==
    /\ pc.worker \in {"none", "start_loop", "idle", "exited"} => current = None
    /\ WorkerAt("watchdog") => current = WatchdogTask
    /\ pc.worker \in {"loop", "process", "handler", "loop_exit", "stage"} =>
            current = WaitLoop
    /\ WorkerAt("task") => current \in Tasks
    /\ WorkerAt("spawn") => current \in Coroutines \cup {WaitLoop}
    /\ pc.worker \in {"add_timer", "add_block"} =>
            current \in Coroutines \cup {WatchdogTask}
    /\ pc.worker \in WatchStates => current # WatchdogTask
    /\ waitLoop = "new" =>
            pc.worker \in {"none", "start_loop"} \/ current = WatchdogTask
    /\ pc.worker \in {"none", "start_loop"} => waitLoop = "new"

DistinctItems == \A i, j \in DOMAIN runq : runq[i] = runq[j] => i = j

(* An item is queued once, and not while the worker runs it; a task that is
   queued or run waits for nothing. *)
ItemInv ==
    /\ DistinctItems
    /\ ~Queued(current)
    /\ \A t \in Tasks : Queued(t) \/ current = t => task[t] = "active"
    /\ Queued(WatchdogTask) \/ current = WatchdogTask => watchdog \in {"new", "active"}
    /\ WorkerAt("none") => watchdog = "new" /\ ~Queued(WatchdogTask)

(* Where the two threads may be together, and what the caller has found. *)
CallerInv ==
    /\ CallerAt("setup") => WorkerAt("none")
    /\ WorkerAt("none") => pc.caller \in {"setup", "caller_run"} /\ ~finalStop
    /\ CallerAt("caller_run") => pc.worker \in {"none", "exited"}
    /\ pc.caller \in {"spawn_watcher", "on_empty", "returned"} => WorkerAt("exited")
    /\ pc.caller \in {"enter", "poll", "dispatch"} => pending
    /\ pc.caller \in {"reset", "test_stop", "notify", "break_run"} =>
            pending \/ WorkerAt("exited")
    /\ pc.caller \in {"check_failed", "asleep"} => ~staged /\ ~pending
    /\ pc.caller \in {"take_pending", "take_staged", "mark_stopped",
                      "internal_empty", "join"} => finalStop
    /\ CallerAt("join") => waitLoop = "done" /\ watchdog = "done"
    /\ WorkerAt("exited") =>
            /\ finalStop /\ waitLoop = "done" /\ watchdog = "done" /\ runq = <<>>
            /\ pc.caller \in {"caller_run", "take_pending", "take_staged",
                              "mark_stopped", "internal_empty", "join", "returned"}
                                \cup WatchStates

(* The threads that watch pending_tasks: spawn_watcher runs for a task that
   is alive, spawn_complete up to its test of the stop for none. *)
ScopeInv ==
    /\ pc.worker \in {"spawn_watcher", "on_empty"} =>
            \E t \in Tasks : task[t] = "active"
    /\ \A th \in {"caller", "worker"} :
            pc[th] \in {"reset", "test_stop"} => Live = {}
    /\ finalStop => initialStop /\ Live = {} /\ ~WorkerAt("spawn")
    /\ watcherRunning =>
            watcher \/ \E th \in {"caller", "worker"} : pc[th] \in {"on_empty", "reset"}

(* A shutdown that has collected the operation leaves it to a worker that can
   only end the wait loop. *)
CollectedInv ==
    /\ waitProcessStopped => waitLoop = "done" \/ CallerAt("internal_empty")
    /\ pc.caller \in {"mark_stopped", "internal_empty"} =>
            /\ ~staged /\ ~pending
            /\ current = WaitLoop => pc.worker \in {"loop", "loop_exit"}

IInv ==
    /\ TypeOK
    /\ WorkerInv /\ ItemInv /\ WaitOpInOnePlace /\ CallerInv
    /\ ScopeInv /\ WatcherCoversTasks /\ CollectedInv

(* What Enqueue makes of the queue: the item is queued besides. *)
LEMMA EnqueueItem ==
    ASSUME runq \in Seq(Items), NEW item \in Items, runq' = Append(runq, item)
    PROVE  /\ runq' \in Seq(Items)
           /\ \A x : Queued(x)' <=> Queued(x) \/ x = item
           /\ DistinctItems /\ ~Queued(item) => DistinctItems'
<1>1. runq' \in Seq(Items) OBVIOUS
<1>2. /\ Len(runq') = Len(runq) + 1 /\ Len(runq) \in Nat
      /\ DOMAIN runq = 1..Len(runq) /\ DOMAIN runq' = 1..Len(runq')
      /\ \A i \in DOMAIN runq : i \in DOMAIN runq' /\ runq'[i] = runq[i]
      /\ runq'[Len(runq')] = item /\ Len(runq') \in DOMAIN runq'
  OBVIOUS
<1>3. \A i \in DOMAIN runq' : i \in DOMAIN runq \/ i = Len(runq')
  BY <1>2
<1>4. \A x : (\E i \in DOMAIN runq' : runq'[i] = x) <=> Queued(x) \/ x = item
  BY <1>2, <1>3 DEF Queued
<1>5. ASSUME DistinctItems, ~Queued(item) PROVE DistinctItems'
  BY <1>2, <1>3, <1>5 DEF DistinctItems, Queued
<1> QED BY <1>1, <1>4, <1>5 DEF Queued

(* What TakeItem makes of it: the first item is queued no longer. *)
LEMMA TakeFirst ==
    ASSUME runq \in Seq(Items), runq # <<>>, runq' = Tail(runq), DistinctItems
    PROVE  /\ runq' \in Seq(Items) /\ Head(runq) \in Items /\ Queued(Head(runq))
           /\ \A x : Queued(x)' <=> Queued(x) /\ x # Head(runq)
           /\ DistinctItems'
<1>1. /\ runq' \in Seq(Items) /\ Head(runq) \in Items
      /\ Head(runq) = runq[1] /\ 1 \in DOMAIN runq
      /\ \A i \in DOMAIN runq' : i + 1 \in DOMAIN runq /\ runq'[i] = runq[i + 1]
               /\ i \in Nat /\ i >= 1
      /\ \A i \in DOMAIN runq : i \in Nat
               /\ (i = 1 \/ (i - 1 \in DOMAIN runq' /\ runq'[i - 1] = runq[i]))
  OBVIOUS
<1>2. \A i \in DOMAIN runq : runq[i] = Head(runq) => i = 1
  BY <1>1 DEF DistinctItems
<1>3. \A x : (\E i \in DOMAIN runq' : runq'[i] = x) <=> Queued(x) /\ x # Head(runq)
  <2>1. ASSUME NEW x, NEW i \in DOMAIN runq', runq'[i] = x PROVE Queued(x) /\ x # Head(runq)
    BY <1>1, <1>2, <2>1 DEF Queued
  <2>2. ASSUME NEW x, Queued(x), x # Head(runq) PROVE \E i \in DOMAIN runq' : runq'[i] = x
    BY <1>1, <2>2 DEF Queued
  <2> QED BY <2>1, <2>2
<1>4. DistinctItems'
  <2> SUFFICES ASSUME NEW i \in DOMAIN runq', NEW j \in DOMAIN runq', runq'[i] = runq'[j]
               PROVE  i = j
    BY DEF DistinctItems
  <2>1. i + 1 = j + 1 BY <1>1 DEF DistinctItems
  <2> QED BY <1>1, <2>1
<1> QED BY <1>1, <1>3, <1>4 DEF Queued

-----------------------------------------------------------------------------
(* The initial state satisfies the invariant. *)
LEMMA InitIInv == Init => IInv
<1> SUFFICES ASSUME Init PROVE IInv OBVIOUS
<1>1. /\ pc = [caller |-> "setup", worker |-> "none"] /\ runq = <<>> /\ runq \in Seq(Items)
      /\ \A x : ~Queued(x)
  BY DEF Init, Queued
<1>2. Live = {} BY DEF Init, Live
<1>3. TypeOK
  <2>1. pc \in [caller : CallerStates, worker : WorkerStates]
    BY <1>1 DEF CallerStates, WorkerStates
  <2>2. task \in [Tasks -> TaskStates] BY DEF Init, TaskStates
  <2>3. {staged, pending, finiteTimeout, watcher, watcherRunning,
         initialStop, finalStop, waitProcessStopped, wakeup} \subseteq BOOLEAN
    BY DEF Init
  <2>4. inbox \in 0..MaxInbox BY MaxInboxAssumption DEF Init
  <2> QED BY <1>1, <2>1, <2>2, <2>3, <2>4 DEF Init, TypeOK
<1>4. WorkerInv /\ CallerInv /\ CollectedInv
  BY <1>1 DEF Init, WorkerInv, CallerInv, CollectedInv, WatchStates, WorkerAt, CallerAt
<1>5. ItemInv /\ WaitOpInOnePlace
  BY <1>1, NamesDistinct DEF Init, ItemInv, DistinctItems, WaitOpInOnePlace, WorkerAt, Items
<1>6. ScopeInv /\ WatcherCoversTasks
  BY <1>1, <1>2 DEF Init, ScopeInv, WatcherCoversTasks, WorkerAt
<1> QED BY <1>3, <1>4, <1>5, <1>6 DEF IInv

(* The caller goes on without touching what the threads share. *)
LEMMA CallerMovesIInv ==
    ASSUME IInv,
           \/ Run \/ KeepRunning \/ PredicateFails \/ SleepOnCallerWait
           \/ SpuriousWakeup \/ TestFinalStop \/ EnterRunOne \/ PollWakeup
           \/ PollTimeout \/ AwaitInternalEmpty \/ Join
    PROVE  IInv'
<1> USE DEF IInv, WorkerAt, CallerAt, Goto, taskVars, handVars, scopeVars, stopVars, busVars
<1> USE DEF Run, KeepRunning, PredicateFails, SleepOnCallerWait, SpuriousWakeup,
            TestFinalStop, EnterRunOne, PollWakeup, PollTimeout, AwaitInternalEmpty, Join
<1>1. TypeOK' BY DEF TypeOK, CallerStates
<1>2. WorkerInv' BY DEF WorkerInv, TypeOK
<1>3. ItemInv' /\ WaitOpInOnePlace'
  BY DEF ItemInv, DistinctItems, WaitOpInOnePlace, Queued, TypeOK
<1>4. CallerInv' BY DEF CallerInv, InternalEmpty, WatchStates, TypeOK
<1>5. ScopeInv' /\ WatcherCoversTasks'
  BY DEF ScopeInv, WatcherCoversTasks, Live, CallerInv, TypeOK
<1>6. CollectedInv' BY DEF CollectedInv, InternalEmpty, TypeOK
<1> QED BY <1>1, <1>2, <1>3, <1>4, <1>5, <1>6

(* caller_run starts the worker, which runs the watchdog first; once the
   context was stopped it only looks after the watcher. *)
LEMMA CallerRunIInv ==
    ASSUME IInv, CallerRun
    PROVE  IInv'
<1> USE DEF IInv, CallerRun, WorkerAt, CallerAt, Goto, handVars, scopeVars, stopVars, busVars
<1>1. TypeOK' BY DEF TypeOK, CallerStates, WorkerStates, WatchStates, Items
<1>2. WorkerInv' BY DEF WorkerInv, CallerInv, TypeOK, WatchStates
<1>3. ItemInv'
  BY NamesDistinct DEF ItemInv, DistinctItems, Queued, CallerInv, TypeOK
<1>4. WaitOpInOnePlace'
  BY NamesDistinct DEF WaitOpInOnePlace, Queued, CallerInv, WorkerInv, TypeOK
<1>5. CallerInv' BY DEF CallerInv, WatchStates, TypeOK
<1>6. ScopeInv' /\ WatcherCoversTasks'
  BY DEF ScopeInv, WatcherCoversTasks, Live, CallerInv, TypeOK
<1>7. CollectedInv' BY DEF CollectedInv, CallerInv, TypeOK
<1> QED BY <1>1, <1>2, <1>3, <1>4, <1>5, <1>6, <1>7

(* The caller takes the operation that was staged, and gives it back to the
   queue of the worker: it is in one place all the time. *)
LEMMA TakeStagedIInv ==
    ASSUME IInv, TakeStaged \/ MarkStopped
    PROVE  IInv'
<1> USE DEF IInv, TakeStaged, MarkStopped, WorkerAt, CallerAt, Goto, taskVars, handVars,
      scopeVars, stopVars, busVars
<1>1. TypeOK' BY DEF TypeOK, CallerStates
<1>2. WorkerInv' BY DEF WorkerInv, TypeOK
<1>3. ItemInv' /\ WaitOpInOnePlace'
  BY DEF ItemInv, DistinctItems, WaitOpInOnePlace, Queued, TypeOK
<1>4. CallerInv' BY DEF CallerInv, WatchStates, TypeOK
<1>5. ScopeInv' /\ WatcherCoversTasks'
  BY DEF ScopeInv, WatcherCoversTasks, Live, TypeOK
<1>6. CollectedInv' BY DEF CollectedInv, TypeOK
<1> QED BY <1>1, <1>2, <1>3, <1>4, <1>5, <1>6

LEMMA GiveBackIInv ==
    ASSUME IInv, DbusEventHandle \/ TakePending \/ TakeStagedToStop
    PROVE  IInv'
<1> USE DEF IInv, WorkerAt, CallerAt, Goto, Enqueue, taskVars, handVars, scopeVars,
      stopVars, busVars
<1> USE DEF DbusEventHandle, TakePending, TakeStagedToStop
<1>1. \/ UNCHANGED <<staged, pending, runq>>
      \/ /\ staged \/ pending
         /\ ~staged' /\ ~pending'
         /\ runq' = Append(runq, WaitLoop)
  BY DEF WaitOpInOnePlace, TypeOK
<1>2. UNCHANGED <<current, task, waitLoop, watchdog, finiteTimeout, scopeVars, stopVars,
                  busVars>>
      /\ pc'.worker = pc.worker
  BY DEF TypeOK
<1>3. pc' \in [caller : CallerStates, worker : WorkerStates]
  BY DEF TypeOK, CallerStates
<1>4. TypeOK' /\ WorkerInv' /\ ItemInv' /\ WaitOpInOnePlace'
  <2>1. WorkerInv' BY <1>2 DEF WorkerInv
  <2>2. CASE UNCHANGED <<staged, pending, runq>>
    <3>1. TypeOK' BY <1>2, <1>3, <2>2 DEF TypeOK
    <3>2. ItemInv' /\ WaitOpInOnePlace'
      BY <1>2, <2>2 DEF ItemInv, DistinctItems, WaitOpInOnePlace, Queued
    <3> QED BY <2>1, <3>1, <3>2
  <2>3. CASE /\ staged \/ pending
             /\ ~staged' /\ ~pending'
             /\ runq' = Append(runq, WaitLoop)
    <3>1. ~Queued(WaitLoop) /\ current # WaitLoop /\ waitLoop = "running"
      BY <2>3 DEF WaitOpInOnePlace
    <3>2. /\ runq' \in Seq(Items) /\ DistinctItems'
          /\ \A x : Queued(x)' <=> Queued(x) \/ x = WaitLoop
      BY <2>3, <3>1, EnqueueItem DEF Items, TypeOK, ItemInv
    <3>3. TypeOK' BY <1>2, <1>3, <2>3, <3>2 DEF TypeOK
    <3>4. ItemInv' BY <1>2, <3>1, <3>2, NamesDistinct DEF ItemInv
    <3>5. WaitOpInOnePlace'
      BY <1>2, <2>3, <3>1, <3>2 DEF WaitOpInOnePlace, DistinctItems
    <3> QED BY <2>1, <3>3, <3>4, <3>5
  <2> QED BY <1>1, <2>2, <2>3
<1>5. CallerInv' BY DEF CallerInv, WaitOpInOnePlace, WatchStates, TypeOK
<1>6. ScopeInv' /\ WatcherCoversTasks'
  BY DEF ScopeInv, WatcherCoversTasks, Live, TypeOK
<1>7. CollectedInv' BY <1>1 DEF CollectedInv, WaitOpInOnePlace, TypeOK
<1> QED BY <1>4, <1>5, <1>6, <1>7

(* A timer or a descriptor that the caller finds ready continues a task that
   waits for it; the sender of a descriptor ends on the caller. *)
LEMMA TimerFiresIInv ==
    ASSUME IInv, WatchdogTimerFires \/ \E c \in Coroutines : TimerFires(c)
    PROVE  IInv'
<1> USE DEF IInv, WorkerAt, CallerAt, Goto, Enqueue, handVars, scopeVars, stopVars, busVars
<1>1. PICK item \in Coroutines \cup {WatchdogTask} :
        /\ runq' = Append(runq, item)
        /\ item \in Coroutines =>
              /\ task[item] = "asleep" /\ task' = [task EXCEPT ![item] = "active"]
              /\ watchdog' = watchdog
        /\ item = WatchdogTask =>
              watchdog = "asleep" /\ watchdog' = "active" /\ task' = task
  BY NamesDistinct DEF WatchdogTimerFires, TimerFires, Tasks
<1>2. /\ CallerAt("poll") /\ Goto("caller", "keep_running")
      /\ UNCHANGED <<current, waitLoop, handVars, scopeVars, stopVars, busVars>>
  BY DEF WatchdogTimerFires, TimerFires
<1>3. ~Queued(item) /\ current # item /\ item # WaitLoop
  BY <1>1, NamesDistinct DEF ItemInv, Tasks
<1>4. /\ runq' \in Seq(Items) /\ DistinctItems'
      /\ \A x : Queued(x)' <=> Queued(x) \/ x = item
  BY <1>1, <1>3, EnqueueItem DEF TypeOK, ItemInv, Items, Tasks
<1>5. /\ task' \in [Tasks -> TaskStates] /\ Live' = Live
      /\ \A t \in Tasks : task'[t] = "active" <=> task[t] = "active" \/ t = item
  BY <1>1, NamesDistinct DEF TypeOK, Live, Tasks, TaskStates
<1>6. TypeOK' BY <1>1, <1>2, <1>4, <1>5 DEF TypeOK, CallerStates
<1>7. WorkerInv' BY <1>2 DEF WorkerInv, TypeOK
<1>8. ItemInv' BY <1>1, <1>2, <1>3, <1>4, <1>5 DEF ItemInv, CallerInv, TypeOK
<1>9. WaitOpInOnePlace' BY <1>2, <1>3, <1>4 DEF WaitOpInOnePlace, DistinctItems
<1>10. CallerInv' BY <1>2 DEF CallerInv, WatchStates, TypeOK
<1>11. ScopeInv' /\ WatcherCoversTasks'
  BY <1>2, <1>5 DEF ScopeInv, WatcherCoversTasks, TypeOK
<1>12. CollectedInv' BY <1>2 DEF CollectedInv, TypeOK
<1> QED BY <1>6, <1>7, <1>8, <1>9, <1>10, <1>11, <1>12

LEMMA FdReadyIInv ==
    ASSUME IInv, FinishSender \/ \E s \in Senders : FdReady(s)
    PROVE  IInv'
<1> USE DEF IInv, WorkerAt, CallerAt, Goto, handVars, busVars
<1>1. PICK s \in Senders :
        /\ task[s] \in {"asleep", "completing"} /\ task'[s] \in {"completing", "done"}
        /\ \/ FdReady(s)
           \/ /\ CallerAt("dispatch") /\ task[s] = "completing"
              /\ CompleteTask("caller", s, "keep_running")
              /\ UNCHANGED <<watcherRunning, stopVars>>
        /\ task' = [task EXCEPT ![s] = task'[s]]
  BY DEF FinishSender, FdReady, CompleteTask, TypeOK, Tasks
<1>2. /\ UNCHANGED <<current, runq, waitLoop, watchdog, handVars, watcherRunning,
                     finalStop, waitProcessStopped, busVars>>
      /\ initialStop' = initialStop \/ initialStop' = TRUE
  BY DEF FinishSender, FdReady, stopVars, scopeVars
<1>10. pc'.worker = pc.worker
  BY <1>1 DEF FdReady, CompleteTask, TypeOK
<1>3. /\ task' \in [Tasks -> TaskStates] /\ Live' \subseteq Live
      /\ \A t \in Tasks : task'[t] = "active" <=> task[t] = "active"
  BY <1>1 DEF TypeOK, Live, Tasks, TaskStates
<1>4. TypeOK'
  BY <1>2, <1>3 DEF TypeOK, CallerStates, FinishSender, FdReady, CompleteTask, scopeVars,
        stopVars, WatchStates
<1>5. WorkerInv' BY <1>2, <1>10 DEF WorkerInv
<1>6. ItemInv' /\ WaitOpInOnePlace'
  BY <1>2, <1>3, <1>10 DEF ItemInv, DistinctItems, WaitOpInOnePlace, Queued
<1>7. CallerInv'
  BY <1>2 DEF CallerInv, FinishSender, FdReady, CompleteTask, WatchStates, TypeOK
<1>8. ScopeInv' /\ WatcherCoversTasks'
  <2>1. CASE FdReady(s)
    BY <1>2, <1>3, <2>1 DEF ScopeInv, WatcherCoversTasks, FdReady, scopeVars, TypeOK
  <2>2. CASE CallerAt("dispatch") /\ CompleteTask("caller", s, "keep_running")
    BY <1>1, <1>2, <1>3, <2>2 DEF ScopeInv, WatcherCoversTasks, CompleteTask, Live,
          stopVars, TypeOK, Tasks
  <2> QED BY <1>1, <2>1, <2>2
<1>9. CollectedInv'
  BY <1>2 DEF CollectedInv, FinishSender, FdReady, CompleteTask, TypeOK
<1> QED BY <1>4, <1>5, <1>6, <1>7, <1>8, <1>9

-----------------------------------------------------------------------------
(* Either thread may run spawn_watcher and spawn_complete; where it goes on
   depends on what it was doing. *)
LEMMA ThreadGoes ==
    ASSUME TypeOK, NEW th \in {"caller", "worker"}, NEW label,
           Goto(th, label) \/ Notified(th, label)
    PROVE  /\ pc'[th] = label
           /\ th = "caller" => pc' = [caller |-> label, worker |-> pc.worker]
           /\ th = "worker" =>
                \/ pc' = [caller |-> pc.caller, worker |-> label]
                \/ CallerAt("asleep") /\ pc' = [caller |-> "wait", worker |-> label]
<1>1. CASE th = "caller" BY <1>1 DEF TypeOK, Goto, Notified
<1>2. CASE th = "worker" BY <1>2 DEF TypeOK, Goto, Notified, CallerAt
<1> QED BY <1>1, <1>2

LEMMA WatchingMoves ==
    ASSUME IInv, NEW th \in {"caller", "worker"}, Watching(th)
    PROVE  /\ pc' \in [caller : CallerStates, worker : WorkerStates]
           /\ UNCHANGED <<taskVars, handVars, initialStop, waitProcessStopped, inbox>>
           /\ th = "caller" => pc'.worker = pc.worker
           /\ th = "worker" =>
                \/ pc'.caller = pc.caller
                \/ CallerAt("asleep") /\ pc'.caller = "wait"
           /\ pc[th] \in WatchStates
           /\ \/ pc'[th] \in (WatchStates \ {"spawn_watcher", "on_empty"}) \cup {Resume(th)}
              \/ pc[th] = "spawn_watcher" /\ pc'[th] = "on_empty"
<1> USE DEF SpawnWatcher, OnEmpty, ResetRunning, TestStop, NotifyCaller, BreakRun
<1>1. /\ UNCHANGED <<taskVars, handVars, initialStop, waitProcessStopped, inbox>>
      /\ pc[th] \in WatchStates
  BY DEF Watching, WatchStates, stopVars, busVars
<1>2. PICK label :
        /\ Goto(th, label) \/ Notified(th, label)
        /\ \/ label \in (WatchStates \ {"spawn_watcher", "on_empty"}) \cup {Resume(th)}
           \/ pc[th] = "spawn_watcher" /\ label = "on_empty"
  <2>1. "reset" \in WatchStates /\ "test_stop" \in WatchStates
        /\ "notify" \in WatchStates /\ "break_run" \in WatchStates
    BY DEF WatchStates
  <2>2. {"reset", "test_stop", "notify", "break_run"} \cap {"spawn_watcher", "on_empty"} = {}
    OBVIOUS
  <2>3. CASE SpawnWatcher(th) BY <2>3
  <2>4. CASE OnEmpty(th) BY <2>1, <2>2, <2>4
  <2>5. CASE ResetRunning(th) BY <2>1, <2>2, <2>5
  <2>6. CASE TestStop(th) BY <2>1, <2>2, <2>6
  <2>7. CASE NotifyCaller(th) BY <2>1, <2>2, <2>7
  <2>8. CASE BreakRun(th) BY <2>8
  <2> QED BY <2>3, <2>4, <2>5, <2>6, <2>7, <2>8 DEF Watching
<1>3. /\ pc'[th] = label
      /\ th = "caller" => pc' = [caller |-> label, worker |-> pc.worker]
      /\ th = "worker" =>
            \/ pc' = [caller |-> pc.caller, worker |-> label]
            \/ CallerAt("asleep") /\ pc' = [caller |-> "wait", worker |-> label]
  BY <1>2, ThreadGoes DEF IInv
<1>4. /\ pc \in [caller : CallerStates, worker : WorkerStates]
      /\ th = "caller" => label \in CallerStates
      /\ th = "worker" => label \in WorkerStates
  BY <1>2 DEF Resume, CallerStates, WorkerStates, WatchStates, IInv, TypeOK
<1>5. pc' \in [caller : CallerStates, worker : WorkerStates]
  BY <1>3, <1>4 DEF CallerStates
<1>6. \/ pc'[th] \in (WatchStates \ {"spawn_watcher", "on_empty"}) \cup {Resume(th)}
      \/ pc[th] = "spawn_watcher" /\ pc'[th] = "on_empty"
  BY <1>2, <1>3
<1>7. /\ th = "caller" => pc'.worker = pc.worker
      /\ th = "worker" =>
            \/ pc'.caller = pc.caller
            \/ CallerAt("asleep") /\ pc'.caller = "wait"
  BY <1>3
<1> QED BY <1>1, <1>5, <1>6, <1>7

LEMMA WatchingIInv ==
    ASSUME IInv, NEW th \in {"caller", "worker"}, Watching(th)
    PROVE  IInv'
<1> USE DEF IInv, taskVars, handVars
<1>1. /\ pc' \in [caller : CallerStates, worker : WorkerStates]
      /\ UNCHANGED <<taskVars, handVars, initialStop, waitProcessStopped, inbox>>
      /\ th = "caller" => pc'.worker = pc.worker
      /\ th = "worker" =>
            \/ pc'.caller = pc.caller
            \/ CallerAt("asleep") /\ pc'.caller = "wait"
      /\ pc[th] \in WatchStates
      /\ \/ pc'[th] \in (WatchStates \ {"spawn_watcher", "on_empty"}) \cup {Resume(th)}
         \/ pc[th] = "spawn_watcher" /\ pc'[th] = "on_empty"
  BY WatchingMoves
<1>2. Live' = Live BY <1>1 DEF Live
<1>3. TypeOK'
  BY <1>1 DEF TypeOK, Watching, SpawnWatcher, OnEmpty, ResetRunning, TestStop,
       NotifyCaller, BreakRun, scopeVars, stopVars, busVars
<1>4. WorkerInv'
  BY <1>1, NamesDistinct DEF WorkerInv, Resume, WorkerAt, WatchStates, TypeOK, Items
<1>5. ItemInv' /\ WaitOpInOnePlace'
  BY <1>1 DEF ItemInv, DistinctItems, WaitOpInOnePlace, Queued, WorkerAt, WatchStates,
        Resume, TypeOK
<1>6. finalStop => finalStop'
  BY DEF Watching, SpawnWatcher, OnEmpty, ResetRunning, TestStop, NotifyCaller,
         BreakRun, stopVars
<1>7. CallerInv'
  <2> USE DEF CallerInv, CallerAt, WorkerAt, WatchStates, TypeOK
  <2>1. CASE th = "caller"
    BY <1>1, <1>6, <2>1 DEF Resume
  <2>2. CASE th = "worker"
    <3>1. pc'.worker \notin {"none", "exited"} /\ pc.worker \in WatchStates
      BY <1>1, <2>2 DEF Resume
    <3> QED BY <1>1, <1>6, <2>2, <3>1
  <2> QED BY <2>1, <2>2
<1>8. CollectedInv'
  BY <1>1 DEF CollectedInv, CallerAt, WorkerAt, WatchStates, Resume, TypeOK
(* Where th may watch, the other thread adds no task. *)
<1>9. pc[th] \in {"reset", "test_stop"} => ~WorkerAt("spawn")
  BY <1>1 DEF ScopeInv, CallerInv, ItemInv, WorkerInv, WaitOpInOnePlace, Live,
              CallerAt, WorkerAt, Tasks, TypeOK
<1>10. \A t \in Tasks : task[t] = "active" => t \in Live
  BY DEF Live
<1>11. ScopeInv' /\ WatcherCoversTasks'
  <2> USE DEF Goto, ScopeInv, WatcherCoversTasks, scopeVars, stopVars, busVars, TypeOK
  <2>1. CASE SpawnWatcher(th)
    BY <1>1, <1>2, <1>10, <2>1 DEF SpawnWatcher, Resume, CallerInv, CallerAt, WorkerAt,
          WatchStates
  <2>2. CASE OnEmpty(th)
    BY <1>1, <1>2, <1>10, <2>2 DEF OnEmpty, Resume, CallerInv, CallerAt, WorkerAt, WatchStates
  <2>3. CASE ResetRunning(th)
    BY <1>1, <1>2, <1>10, <2>3 DEF ResetRunning, WorkerAt, WatchStates
  <2>4. CASE TestStop(th)
    BY <1>1, <1>2, <1>9, <1>10, <2>4 DEF TestStop, WorkerAt, WatchStates
  <2>5. CASE NotifyCaller(th)
    <3>1. pc[th] = "notify" /\ UNCHANGED <<scopeVars, stopVars>>
      BY <2>5 DEF NotifyCaller
    <3>2. pc'[th] = "break_run"
      BY <2>5 DEF NotifyCaller, Notified
    <3> QED BY <1>1, <1>2, <1>10, <3>1, <3>2 DEF WorkerAt, CallerAt
  <2>6. CASE BreakRun(th)
    BY <1>1, <1>2, <1>10, <2>6 DEF BreakRun, Resume, WorkerAt, WatchStates
  <2> QED BY <2>1, <2>2, <2>3, <2>4, <2>5, <2>6 DEF Watching
<1> QED BY <1>3, <1>4, <1>5, <1>7, <1>8, <1>11

-----------------------------------------------------------------------------
(* The worker goes on without touching the queue or the tasks. *)
LEMMA WorkerMovesIInv ==
    ASSUME IInv,
           \/ ExitWorker \/ LoopTest \/ ProcessMessage \/ ProcessNothing
           \/ RequestStop \/ CheckStopRequested \/ Sleep \/ SignalRunOne
    PROVE  IInv'
<1> USE DEF IInv, WorkerAt, CallerAt, Goto, taskVars, handVars, scopeVars, stopVars, busVars
<1> USE DEF ExitWorker, LoopTest, ProcessMessage, ProcessNothing, RequestStop,
            CheckStopRequested, Sleep, SignalRunOne
<1>1. UNCHANGED <<current, runq, task, waitLoop, watchdog, staged, pending,
                  scopeVars, finalStop, waitProcessStopped>>
  OBVIOUS
<1>2. pc'.caller = pc.caller /\ pc' \in [caller : CallerStates, worker : WorkerStates]
  BY DEF TypeOK, WorkerStates
<1>3. /\ initialStop' \in BOOLEAN /\ (initialStop => initialStop')
      /\ finiteTimeout' \in BOOLEAN /\ wakeup' \in BOOLEAN /\ inbox' \in 0..MaxInbox
  <2>1. finiteTimeout' \in BOOLEAN
    <3>1. CASE ProcessNothing BY <3>1, Zenon
    <3>2. CASE ~ProcessNothing BY <3>2 DEF TypeOK
    <3> QED BY <3>1, <3>2
  <2>2. inbox' \in 0..MaxInbox
    <3>1. CASE ProcessMessage BY <3>1, MaxInboxAssumption DEF TypeOK
    <3>2. CASE ~ProcessMessage
      <4>1. inbox' = inbox BY <3>2
      <4> QED BY <4>1 DEF TypeOK
    <3> QED BY <3>1, <3>2
  <2>3. wakeup' \in BOOLEAN BY DEF TypeOK
  <2>4. initialStop' \in BOOLEAN /\ (initialStop => initialStop')
    <3>1. initialStop \in BOOLEAN BY DEF TypeOK
    <3>2. CASE RequestStop BY <3>1, <3>2
    <3>3. CASE ~RequestStop
      <4>1. initialStop' = initialStop BY <3>3
      <4> QED BY <3>1, <4>1
    <3> QED BY <3>2, <3>3
  <2> QED BY <2>1, <2>2, <2>3, <2>4
<1>4. \/ pc'.worker = pc.worker
      \/ WorkerAt("idle") /\ pc'.worker = "exited" /\ runq = <<>> /\ CallerAt("join")
      \/ WorkerAt("loop") /\ pc'.worker = IF finalStop THEN "loop_exit" ELSE "process"
      \/ WorkerAt("process") /\ pc'.worker \in {"handler", "stage"}
      \/ /\ WorkerAt("handler") \/ (WorkerAt("task") /\ current \in Coroutines)
         /\ pc'.worker = "spawn" /\ ~initialStop
      \/ WorkerAt("task") /\ current \in Coroutines /\ pc'.worker = "add_timer"
      \/ WorkerAt("add_timer") /\ pc'.worker = "add_block"
  BY DEF TypeOK
<1>5. TypeOK' BY <1>1, <1>2, <1>3 DEF TypeOK
<1>6. WorkerInv' BY <1>1, <1>4, NamesDistinct DEF WorkerInv, WatchStates, Items
<1>7. ItemInv' /\ WaitOpInOnePlace'
  BY <1>1, <1>4 DEF ItemInv, DistinctItems, WaitOpInOnePlace, Queued
<1>8. CallerInv'
  BY <1>1, <1>2, <1>4 DEF CallerInv, WatchStates
<1>9. Live' = Live BY <1>1 DEF Live
<1>10. ScopeInv' /\ WatcherCoversTasks'
  BY <1>1, <1>2, <1>3, <1>4, <1>9 DEF ScopeInv, WatcherCoversTasks
<1>11. CollectedInv' BY <1>1, <1>2, <1>4 DEF CollectedInv, CallerInv
<1> QED BY <1>5, <1>6, <1>7, <1>8, <1>10, <1>11

(* The worker takes the next item of the queue. *)
LEMMA TakeItemIInv ==
    ASSUME IInv, TakeItem
    PROVE  IInv'
<1> USE DEF IInv, TakeItem, WorkerAt, CallerAt, Goto, handVars, scopeVars, stopVars, busVars
<1>1. /\ runq' \in Seq(Items) /\ current' \in Items /\ Queued(current')
      /\ \A x : Queued(x)' <=> Queued(x) /\ x # current'
      /\ DistinctItems'
  BY TakeFirst DEF TypeOK, ItemInv
<1>2. current = None BY DEF WorkerInv
<1>3. /\ current' = WaitLoop => pc' = [pc EXCEPT !.worker = "loop"]
      /\ current' = WatchdogTask => pc' = [pc EXCEPT !.worker = "watchdog"]
      /\ current' \in Tasks => pc' = [pc EXCEPT !.worker = "task"]
  <2>1. CASE current' = WaitLoop BY <2>1, NamesDistinct
  <2>2. CASE current' = WatchdogTask BY <2>2, NamesDistinct
  <2>3. CASE current' \in Tasks BY <2>3, NamesDistinct
  <2> QED BY <2>1, <2>2, <2>3
<1>4. current' \in Tasks \/ current' = WaitLoop \/ current' = WatchdogTask
  BY <1>1 DEF Items
<1>5. TypeOK' BY <1>1, <1>3, <1>4 DEF TypeOK, WorkerStates
<1>6. waitLoop # "new" BY <1>2, NamesDistinct DEF WorkerInv, Items
<1>7. WorkerInv' BY <1>3, <1>4, <1>6, NamesDistinct DEF WorkerInv, WatchStates, TypeOK
<1>8. ItemInv' BY <1>1, <1>2, <1>3, <1>4 DEF ItemInv, TypeOK
<1>9. WaitOpInOnePlace'
  BY <1>1, <1>2, NamesDistinct DEF WaitOpInOnePlace, DistinctItems, Items
<1>10. CallerInv' BY <1>3, <1>4 DEF CallerInv, WatchStates, TypeOK
<1>11. ScopeInv' /\ WatcherCoversTasks'
  BY <1>3, <1>4 DEF ScopeInv, WatcherCoversTasks, Live, TypeOK
<1>12. CollectedInv' BY <1>3, <1>4 DEF CollectedInv, TypeOK
<1> QED BY <1>5, <1>7, <1>8, <1>9, <1>10, <1>11, <1>12

(* The watchdog, and the wait loop, which starts after it; the end of the
   wait loop, and the operation as it is staged. *)
LEMMA LoopIInv ==
    ASSUME IInv, RunWatchdog \/ StartWaitLoop \/ LoopExit \/ Stage
    PROVE  IInv'
<1> USE DEF IInv, WorkerAt, CallerAt, Goto, ItemEnds, NextItem, handVars, scopeVars,
      stopVars, busVars
<1>1. CASE RunWatchdog
  <2> USE DEF RunWatchdog
  <2>1. TypeOK' BY <1>1 DEF TypeOK, WorkerStates
  <2>2. WorkerInv' BY <1>1, NamesDistinct DEF WorkerInv, WatchStates, TypeOK, Items
  <2>3. ItemInv' /\ WaitOpInOnePlace'
    BY <1>1, NamesDistinct DEF ItemInv, DistinctItems, WaitOpInOnePlace, Queued, TypeOK,
          WorkerInv, Items
  <2>4. CallerInv'
    BY <1>1 DEF CallerInv, ItemInv, WorkerInv, WatchStates, TypeOK
  <2>5. ScopeInv' /\ WatcherCoversTasks'
    BY <1>1 DEF ScopeInv, WatcherCoversTasks, Live, TypeOK
  <2>6. CollectedInv' BY <1>1, NamesDistinct DEF CollectedInv, TypeOK, Items
  <2> QED BY <2>1, <2>2, <2>3, <2>4, <2>5, <2>6
<1>2. CASE StartWaitLoop
  <2> USE DEF StartWaitLoop
  <2>0. waitLoop = "new" /\ ~staged /\ ~pending /\ ~Queued(WaitLoop) /\ current = None
    BY <1>2 DEF WorkerInv, WaitOpInOnePlace
  <2>1. TypeOK' BY <1>2 DEF TypeOK, WorkerStates, Items
  <2>2. WorkerInv' BY <1>2, NamesDistinct DEF WorkerInv, WatchStates, TypeOK, Items
  <2>3. ItemInv' /\ WaitOpInOnePlace'
    BY <1>2, <2>0, NamesDistinct DEF ItemInv, DistinctItems, WaitOpInOnePlace, Queued,
          TypeOK, Items
  <2>4. CallerInv' BY <1>2, <2>0 DEF CallerInv, WatchStates, TypeOK
  <2>5. ScopeInv' /\ WatcherCoversTasks'
    BY <1>2 DEF ScopeInv, WatcherCoversTasks, Live, TypeOK
  <2>6. CollectedInv' BY <1>2, <2>0 DEF CollectedInv, TypeOK
  <2> QED BY <2>1, <2>2, <2>3, <2>4, <2>5, <2>6
<1>3. CASE LoopExit
  <2> USE DEF LoopExit
  <2>0. current = WaitLoop /\ ~staged /\ ~pending /\ ~Queued(WaitLoop)
    BY <1>3 DEF WorkerInv, WaitOpInOnePlace
  <2>1. TypeOK' BY <1>3 DEF TypeOK, WorkerStates
  <2>2. WorkerInv' BY <1>3 DEF WorkerInv, WatchStates, TypeOK
  <2>3. ItemInv' /\ WaitOpInOnePlace'
    BY <1>3, <2>0, NamesDistinct DEF ItemInv, DistinctItems, WaitOpInOnePlace, Queued,
          TypeOK, Items
  <2>4. CallerInv' BY <1>3, <2>0 DEF CallerInv, WatchStates, TypeOK
  <2>5. ScopeInv' /\ WatcherCoversTasks'
    BY <1>3 DEF ScopeInv, WatcherCoversTasks, Live, TypeOK
  <2>6. CollectedInv' BY <1>3, <2>0, NamesDistinct DEF CollectedInv, TypeOK, Items
  <2> QED BY <2>1, <2>2, <2>3, <2>4, <2>5, <2>6
<1>4. CASE Stage
  <2> USE DEF Stage
  <2>0. current = WaitLoop /\ ~staged /\ ~pending /\ ~Queued(WaitLoop) /\ waitLoop = "running"
    BY <1>4 DEF WorkerInv, WaitOpInOnePlace
  <2>1. /\ pc'.worker = "idle" /\ pc' \in [caller : CallerStates, worker : WorkerStates]
        /\ \/ pc'.caller = pc.caller /\ ~CallerAt("asleep")
           \/ CallerAt("asleep") /\ pc'.caller = "wait"
    BY <1>4 DEF Notified, TypeOK, CallerStates, WorkerStates
  <2>2. TypeOK' BY <1>4, <2>1 DEF TypeOK
  <2>3. WorkerInv' BY <1>4, <2>0, <2>1 DEF WorkerInv, WatchStates
  <2>4. ItemInv' /\ WaitOpInOnePlace'
    BY <1>4, <2>0, <2>1, NamesDistinct DEF ItemInv, DistinctItems, WaitOpInOnePlace,
          Queued, TypeOK, Items
  <2>5. CallerInv' BY <1>4, <2>0, <2>1 DEF CallerInv, WatchStates, LockFree
  <2>6. ScopeInv' /\ WatcherCoversTasks'
    BY <1>4, <2>1 DEF ScopeInv, WatcherCoversTasks, Live
  <2>7. CollectedInv' BY <1>4, <2>0, <2>1, NamesDistinct DEF CollectedInv, Items
  <2> QED BY <2>2, <2>3, <2>4, <2>5, <2>6, <2>7
<1> QED BY <1>1, <1>2, <1>3, <1>4
-----------------------------------------------------------------------------
(* sd_bus_process ends a call: its coroutine is queued, and the wait loop
   after it. *)
LEMMA EnqueueTwo ==
    ASSUME runq \in Seq(Items), NEW a \in Items, NEW b \in Items, a # b,
           runq' = runq \o <<a, b>>, DistinctItems, ~Queued(a), ~Queued(b)
    PROVE  /\ runq' \in Seq(Items)
           /\ \A x : Queued(x)' <=> Queued(x) \/ x = a \/ x = b
           /\ DistinctItems'
<1>1. /\ runq' \in Seq(Items) /\ Len(runq) \in Nat
      /\ Len(runq') = Len(runq) + 2
      /\ DOMAIN runq = 1..Len(runq) /\ DOMAIN runq' = 1..Len(runq')
  OBVIOUS
<1>2. /\ \A i \in DOMAIN runq : i \in DOMAIN runq' /\ runq'[i] = runq[i]
      /\ runq'[Len(runq) + 1] = a /\ Len(runq) + 1 \in DOMAIN runq'
      /\ runq'[Len(runq) + 2] = b /\ Len(runq) + 2 \in DOMAIN runq'
  BY <1>1
<1>3. \A i \in DOMAIN runq' : i \in DOMAIN runq \/ i = Len(runq) + 1 \/ i = Len(runq) + 2
  BY <1>1
<1>4. \A x : (\E i \in DOMAIN runq' : runq'[i] = x) <=> Queued(x) \/ x = a \/ x = b
  BY <1>2, <1>3 DEF Queued
<1>5. DistinctItems'
  BY <1>2, <1>3 DEF DistinctItems, Queued
<1> QED BY <1>1, <1>4, <1>5 DEF Queued

LEMMA CallEndsIInv ==
    ASSUME IInv, ProcessTimeout \/ HandlerReply
    PROVE  IInv'
<1> USE DEF IInv, WorkerAt, CallerAt, Goto, ItemEnds, handVars, scopeVars, stopVars, busVars
<1>1. PICK c \in Coroutines :
        /\ task[c] \in {"expired", "calling"}
        /\ task' = [task EXCEPT ![c] = "active"]
        /\ runq' = runq \o <<c, WaitLoop>>
  BY DEF ProcessTimeout, HandlerReply, Expired
<1>2. /\ pc.worker \in {"process", "handler"}
      /\ current' = None /\ pc' = [pc EXCEPT !.worker = "idle"]
      /\ UNCHANGED <<waitLoop, watchdog, handVars, scopeVars, stopVars, busVars>>
  BY DEF ProcessTimeout, HandlerReply
<1>3. /\ pc' \in [caller : CallerStates, worker : WorkerStates]
      /\ pc'.caller = pc.caller /\ pc'.worker = "idle"
  BY <1>2 DEF TypeOK, WorkerStates
<1>4. /\ current = WaitLoop /\ ~staged /\ ~pending /\ ~Queued(WaitLoop)
      /\ waitLoop = "running"
  BY <1>2 DEF WorkerInv, WaitOpInOnePlace
<1>5. /\ c \in Tasks /\ c # WaitLoop /\ c # WatchdogTask /\ c # None
      /\ WaitLoop # WatchdogTask /\ WaitLoop # None /\ WaitLoop \notin Tasks
      /\ ~Queued(c)
  BY <1>1, NamesDistinct DEF ItemInv, Tasks, Items
<1>6. /\ runq' \in Seq(Items) /\ DistinctItems'
      /\ \A x : Queued(x)' <=> Queued(x) \/ x = c \/ x = WaitLoop
  BY <1>1, <1>4, <1>5, EnqueueTwo DEF TypeOK, ItemInv, Items
<1>7. /\ task' \in [Tasks -> TaskStates] /\ Live' = Live
      /\ \A t \in Tasks : task'[t] = "active" <=> task[t] = "active" \/ t = c
  BY <1>1, <1>5 DEF TypeOK, Live, TaskStates
<1>8. ~Queued(None) BY NamesDistinct DEF TypeOK, Queued
<1>9. TypeOK' BY <1>2, <1>3, <1>6, <1>7 DEF TypeOK
<1>10. WorkerInv' BY <1>2, <1>3, <1>4 DEF WorkerInv, WatchStates
<1>11. ItemInv'
  <2>1. DistinctItems' /\ ~Queued(None)' BY <1>5, <1>6, <1>8
  <2>2. \A t \in Tasks : Queued(t)' \/ current' = t => task'[t] = "active"
    BY <1>2, <1>5, <1>6, <1>7, NamesDistinct DEF ItemInv, Items
  <2>3. Queued(WatchdogTask)' => Queued(WatchdogTask) BY <1>5, <1>6
  <2> QED BY <1>2, <1>3, <2>1, <2>2, <2>3, NamesDistinct DEF ItemInv, Items
<1>12. WaitOpInOnePlace'
  BY <1>2, <1>4, <1>5, <1>6 DEF WaitOpInOnePlace, DistinctItems
<1>13. CallerInv' BY <1>2, <1>3, <1>4 DEF CallerInv, WatchStates
<1>14. ScopeInv' /\ WatcherCoversTasks'
  BY <1>2, <1>3, <1>7 DEF ScopeInv, WatcherCoversTasks
<1>15. CollectedInv' BY <1>2, <1>3, <1>5 DEF CollectedInv
<1> QED BY <1>9, <1>10, <1>11, <1>12, <1>13, <1>14, <1>15

(* A handler that has processed a message completes the operation. *)
LEMMA HandlerDoneIInv ==
    ASSUME IInv, HandlerDone
    PROVE  IInv'
<1> USE DEF IInv, HandlerDone, WorkerAt, CallerAt, Goto, Enqueue, ItemEnds, handVars,
      scopeVars, stopVars, busVars
<1>1. /\ current = WaitLoop /\ ~staged /\ ~pending /\ ~Queued(WaitLoop)
      /\ waitLoop = "running"
  BY DEF WorkerInv, WaitOpInOnePlace
<1>2. /\ runq' \in Seq(Items) /\ DistinctItems'
      /\ \A x : Queued(x)' <=> Queued(x) \/ x = WaitLoop
  BY <1>1, EnqueueItem DEF TypeOK, ItemInv, Items
<1>3. ~Queued(None) BY NamesDistinct DEF TypeOK, Queued
<1>4. TypeOK' BY <1>2 DEF TypeOK, WorkerStates
<1>5. WorkerInv' BY <1>1 DEF WorkerInv, WatchStates, TypeOK
<1>6. ItemInv' BY <1>1, <1>2, <1>3, NamesDistinct DEF ItemInv, TypeOK, Items
<1>7. WaitOpInOnePlace'
  BY <1>1, <1>2, NamesDistinct DEF WaitOpInOnePlace, DistinctItems, Items
<1>8. CallerInv' BY <1>1 DEF CallerInv, WatchStates, TypeOK
<1>9. ScopeInv' /\ WatcherCoversTasks'
  BY DEF ScopeInv, WatcherCoversTasks, Live, TypeOK
<1>10. CollectedInv' BY NamesDistinct DEF CollectedInv, TypeOK, Items
<1> QED BY <1>4, <1>5, <1>6, <1>7, <1>8, <1>9, <1>10

(* A task that is spawned: before run the watcher waits for it already, and
   otherwise the worker that spawns it looks after the watcher next. *)
LEMMA SpawnIInv ==
    ASSUME IInv, Spawn \/ SpawnBeforeRun
    PROVE  IInv'
<1> USE DEF IInv, WorkerAt, CallerAt, Goto, handVars, stopVars, busVars
<1>1. PICK t \in Tasks :
        /\ task[t] = "new" /\ task' = [task EXCEPT ![t] = "active"]
        /\ runq' = Append(runq, t)
  BY DEF Spawn, SpawnBeforeRun, AddTask
<1>2. /\ UNCHANGED <<current, waitLoop, watchdog, handVars, stopVars, busVars>>
      /\ pc'.caller = pc.caller
      /\ \/ /\ WorkerAt("spawn") /\ pc'.worker = "spawn_watcher"
            /\ UNCHANGED scopeVars
         \/ /\ CallerAt("setup") /\ pc'.worker = pc.worker
            /\ watcher' = TRUE /\ watcherRunning' = TRUE
      /\ pc' \in [caller : CallerStates, worker : WorkerStates]
  BY DEF Spawn, SpawnBeforeRun, TypeOK, WorkerStates, WatchStates
<1>3. ~Queued(t) /\ current # t /\ t # WaitLoop /\ t # WatchdogTask
  BY <1>1, NamesDistinct DEF ItemInv
<1>4. /\ runq' \in Seq(Items) /\ DistinctItems'
      /\ \A x : Queued(x)' <=> Queued(x) \/ x = t
  BY <1>1, <1>3, EnqueueItem DEF TypeOK, ItemInv, Items
<1>5. /\ task' \in [Tasks -> TaskStates] /\ Live' = Live \cup {t}
      /\ \A u \in Tasks : task'[u] = "active" <=> task[u] = "active" \/ u = t
  BY <1>1 DEF TypeOK, Live, TaskStates
(* Meanwhile the caller does not run spawn_complete. *)
<1>6. pc.caller \notin {"reset", "test_stop"}
  <2>1. CASE CallerAt("setup") BY <2>1
  <2>2. CASE WorkerAt("spawn")
    <3>1. current \in Tasks => current \in Live
      BY DEF ItemInv, Live
    <3>2. current = WaitLoop => ~pending BY DEF WaitOpInOnePlace
    <3> QED BY <2>2, <3>1, <3>2 DEF ScopeInv, CallerInv, WorkerInv, Tasks
  <2> QED BY <1>2, <2>1, <2>2
<1>7. ~finalStop BY <1>2 DEF ScopeInv, CallerInv
<1>8. TypeOK' BY <1>2, <1>4, <1>5 DEF TypeOK, scopeVars
<1>9. WorkerInv'
  BY <1>2, NamesDistinct DEF WorkerInv, CallerInv, WatchStates, Tasks, Items
<1>10. ItemInv'
  BY <1>1, <1>2, <1>3, <1>4, <1>5 DEF ItemInv
<1>11. WaitOpInOnePlace' BY <1>2, <1>3, <1>4 DEF WaitOpInOnePlace, DistinctItems
<1>12. CallerInv' BY <1>2, <1>7 DEF CallerInv, WatchStates
<1>13. ScopeInv' /\ WatcherCoversTasks'
  <2>1. CASE CallerAt("setup")
    BY <1>1, <1>2, <1>5, <1>6, <1>7, <2>1 DEF ScopeInv, WatcherCoversTasks, CallerInv
  <2>2. CASE WorkerAt("spawn")
    BY <1>1, <1>2, <1>5, <1>6, <1>7, <2>2 DEF ScopeInv, WatcherCoversTasks, scopeVars,
          CallerInv
  <2> QED BY <1>2, <2>1, <2>2
<1>14. CollectedInv' BY <1>2 DEF CollectedInv
<1> QED BY <1>8, <1>9, <1>10, <1>11, <1>12, <1>13, <1>14

(* A task that suspends on the worker waits for a timer, for a call or for a
   descriptor, and so does the watchdog for its timer. *)
LEMMA TaskWaitsIInv ==
    ASSUME IInv, AddTimer \/ AddTimerAfterSignal \/ Call \/ AwaitFd
    PROVE  IInv'
<1> USE DEF IInv, WorkerAt, CallerAt, Goto, ItemEnds, handVars, scopeVars, stopVars, busVars
<1> USE DEF AddTimer, AddTimerAfterSignal, TimerAdded, Call, AwaitFd
<1>1. /\ pc.worker \in {"add_timer", "add_block", "task"}
      /\ UNCHANGED <<runq, waitLoop, handVars, scopeVars, stopVars, busVars>>
      /\ current' = None
  OBVIOUS
<1>2. /\ current \in Coroutines \cup Senders \cup {WatchdogTask}
      /\ waitLoop = "new" => current = WatchdogTask
  BY <1>1 DEF WorkerInv, Tasks
<1>3. \/ pc' = [pc EXCEPT !.worker = "idle"] /\ waitLoop # "new"
      \/ pc' = [pc EXCEPT !.worker = NextItem]
  BY <1>1, <1>2, NamesDistinct DEF Tasks
<1>4. /\ pc' \in [caller : CallerStates, worker : WorkerStates]
      /\ pc'.caller = pc.caller
      /\ pc'.worker \in {"idle", "start_loop"}
      /\ pc'.worker = "start_loop" <=> waitLoop = "new"
  BY <1>3 DEF NextItem, TypeOK, WorkerStates
<1>5. \/ /\ current \in Tasks /\ watchdog' = watchdog
         /\ \E s \in {"asleep", "calling"} : task' = [task EXCEPT ![current] = s]
      \/ current = WatchdogTask /\ watchdog' = "asleep" /\ task' = task
  BY <1>2, NamesDistinct DEF Tasks
<1>6. ~Queued(current) /\ (current \in Tasks => task[current] = "active")
  BY DEF ItemInv
<1>7. /\ task' \in [Tasks -> TaskStates] /\ Live' = Live
      /\ \A t \in Tasks : t # current => task'[t] = task[t]
      /\ watchdog' \in {watchdog, "asleep"}
      /\ Queued(WatchdogTask) => watchdog' = watchdog
  BY <1>5, <1>6, NamesDistinct DEF TypeOK, Live, TaskStates
<1>8. ~Queued(None) BY NamesDistinct DEF TypeOK, Queued
<1>9. \A x : Queued(x)' <=> Queued(x) BY <1>1 DEF Queued
<1>10. TypeOK' BY <1>1, <1>4, <1>7 DEF TypeOK
<1>11. WorkerInv' BY <1>1, <1>4 DEF WorkerInv, WatchStates
<1>12. ItemInv'
  BY <1>1, <1>4, <1>6, <1>7, <1>8, <1>9, NamesDistinct DEF ItemInv, DistinctItems, Items
<1>13. WaitOpInOnePlace'
  BY <1>1, <1>2, <1>9, NamesDistinct DEF WaitOpInOnePlace, Tasks, Items
<1>14. CallerInv'
  BY <1>1, <1>2, <1>4, <1>5 DEF CallerInv, ItemInv, WatchStates
<1>15. ScopeInv' /\ WatcherCoversTasks'
  BY <1>1, <1>4, <1>7 DEF ScopeInv, WatcherCoversTasks
<1>16. CollectedInv' BY <1>1, <1>4, NamesDistinct DEF CollectedInv, Items
<1> QED BY <1>10, <1>11, <1>12, <1>13, <1>14, <1>15, <1>16

(* A task that ends on the worker; the last one completes the watcher. *)
LEMMA FinishTaskIInv ==
    ASSUME IInv, FinishTask
    PROVE  IInv'
<1> USE DEF IInv, WorkerAt, CallerAt, Goto, handVars, stopVars, busVars
<1> USE DEF FinishTask, CompleteTask
<1>1. /\ WorkerAt("task") /\ current \in Tasks /\ current' = None
      /\ task' = [task EXCEPT ![current] = "done"]
      /\ UNCHANGED <<runq, waitLoop, watchdog, watcherRunning, handVars, stopVars, busVars>>
  BY DEF WorkerInv
<1>2. /\ pc' \in [caller : CallerStates, worker : WorkerStates]
      /\ pc'.caller = pc.caller
      /\ \/ /\ Live = {current} /\ watcher /\ watcher' = FALSE
            /\ pc'.worker = "reset"
         \/ /\ ~(Live = {current} /\ watcher) /\ watcher' = watcher
            /\ pc'.worker = "idle"
  BY DEF TypeOK, WorkerStates, WatchStates
<1>3. task[current] = "active" /\ ~Queued(current) /\ waitLoop # "new"
  BY <1>1, NamesDistinct DEF ItemInv, WorkerInv
<1>4. /\ task' \in [Tasks -> TaskStates] /\ Live' = Live \ {current}
      /\ current \in Live
      /\ \A t \in Tasks : t # current => task'[t] = task[t]
  BY <1>1, <1>3 DEF TypeOK, Live, TaskStates
<1>5. ~Queued(None) BY NamesDistinct DEF TypeOK, Queued
<1>6. \A x : Queued(x)' <=> Queued(x) BY <1>1 DEF Queued
<1>7. TypeOK' BY <1>1, <1>2, <1>4 DEF TypeOK
<1>8. WorkerInv' BY <1>1, <1>2, <1>3, NamesDistinct DEF WorkerInv, WatchStates, Items
<1>9. ItemInv'
  BY <1>1, <1>2, <1>3, <1>4, <1>5, <1>6, NamesDistinct DEF ItemInv, DistinctItems, Items
<1>10. WaitOpInOnePlace'
  BY <1>1, <1>6, NamesDistinct DEF WaitOpInOnePlace, Items
<1>11. CallerInv' BY <1>1, <1>2 DEF CallerInv, WatchStates
<1>12. pc.caller \notin {"reset", "test_stop"}
  BY <1>4 DEF ScopeInv
<1>13. ScopeInv' /\ WatcherCoversTasks'
  BY <1>1, <1>2, <1>4, <1>12 DEF ScopeInv, WatcherCoversTasks, CallerInv
<1>14. CollectedInv' BY <1>1, <1>2, NamesDistinct DEF CollectedInv, Items
<1> QED BY <1>7, <1>8, <1>9, <1>10, <1>11, <1>13, <1>14

(* A message arrives, or a call expires before its reply. *)
LEMMA WorldIInv ==
    ASSUME IInv, Arrive \/ CallExpires \/ UNCHANGED vars
    PROVE  IInv'
<1> USE DEF IInv, WorkerAt, CallerAt, handVars, scopeVars, stopVars, busVars, taskVars
<1>1. /\ UNCHANGED <<pc, current, runq, waitLoop, watchdog, handVars, scopeVars, stopVars,
                     wakeup>>
      /\ inbox' \in 0..MaxInbox
  BY MaxInboxAssumption DEF Arrive, CallExpires, vars, TypeOK
<1>2. /\ task' \in [Tasks -> TaskStates] /\ Live' = Live
      /\ \A t \in Tasks : task'[t] = "active" <=> task[t] = "active"
  <2>1. CASE UNCHANGED task BY <2>1 DEF TypeOK, Live
  <2>2. CASE CallExpires BY <2>2 DEF CallExpires, TypeOK, Live, Tasks, TaskStates
  <2> QED BY <2>1, <2>2 DEF Arrive, vars
<1>3. TypeOK' BY <1>1, <1>2 DEF TypeOK
<1>4. WorkerInv' BY <1>1 DEF WorkerInv
<1>5. ItemInv' /\ WaitOpInOnePlace'
  BY <1>1, <1>2 DEF ItemInv, DistinctItems, WaitOpInOnePlace, Queued
<1>6. CallerInv' BY <1>1 DEF CallerInv
<1>7. ScopeInv' /\ WatcherCoversTasks' BY <1>1, <1>2 DEF ScopeInv, WatcherCoversTasks
<1>8. CollectedInv' BY <1>1 DEF CollectedInv
<1> QED BY <1>3, <1>4, <1>5, <1>6, <1>7, <1>8

LEMMA NextIInv == IInv /\ [Next]_vars => IInv'
<1> SUFFICES ASSUME IInv, [Next]_vars PROVE IInv' OBVIOUS
<1>1. CASE Worker
  BY <1>1, WorkerMovesIInv, TakeItemIInv, LoopIInv, CallEndsIInv, HandlerDoneIInv,
     SpawnIInv, TaskWaitsIInv, FinishTaskIInv, WatchingIInv DEF Worker
<1>2. CASE WorkerChoices
  BY <1>2, WorkerMovesIInv, CallEndsIInv, TaskWaitsIInv DEF WorkerChoices
<1>3. CASE Caller
  BY <1>3, CallerMovesIInv, CallerRunIInv, TakeStagedIInv, GiveBackIInv,
     TimerFiresIInv, FdReadyIInv, WatchingIInv DEF Caller
<1>4. CASE CallerChoices
  BY <1>4, SpawnIInv, CallerMovesIInv DEF CallerChoices
<1>5. CASE Arrive \/ CallExpires \/ UNCHANGED vars BY <1>5, WorldIInv
<1> QED BY <1>1, <1>2, <1>3, <1>4, <1>5 DEF Next
-----------------------------------------------------------------------------
(* In every state that run can reach: where the two threads may be together,
   what the queue of the worker holds, and who has the operation. *)
THEOREM Invariance == Spec => []IInv
<1>1. Init => IInv BY InitIInv
<1>2. IInv /\ [Next]_vars => IInv' BY NextIInv
<1> QED BY <1>1, <1>2, PTL DEF Spec

(* Every variable of the context keeps to its values: a queue of items, and
   threads at places of the code of run, of caller_run and of worker_run. *)
THEOREM TypeCorrect == Spec => []TypeOK
<1>1. IInv => TypeOK BY DEF IInv
<1> QED BY <1>1, Invariance, PTL

(* The wait_process_completion that the threads hand to and fro is neither
   lost nor duplicated, whatever the tasks, the bus and the timers do. *)
THEOREM OperationInOnePlace == Spec => []WaitOpInOnePlace
<1>1. IInv => WaitOpInOnePlace BY DEF IInv
<1> QED BY <1>1, Invariance, PTL

(* The caller's sd_bus_wait and the worker's sd_bus_process exclude each
   other: the caller holds the operation that the worker would need. *)
THEOREM WaitAndProcessExclude == Spec => []WaitExcludesProcess
<1>1. IInv => WaitExcludesProcess
  <2> SUFFICES ASSUME IInv, CallerAt("enter") \/ (CallerInRunOne /\ ~WorkerAt("exited"))
               PROVE  pending /\ pc.worker \notin {"loop", "process", "handler", "stage"}
    BY DEF WaitExcludesProcess
  <2>1. pc.caller \in {"spawn_watcher", "on_empty"} => WorkerAt("exited")
    BY DEF IInv, CallerInv
  <2>2. pending
    BY <2>1 DEF IInv, CallerInv, CallerInRunOne, CallerAt, WorkerAt, WatchStates
  <2> QED BY <2>2 DEF IInv, WaitOpInOnePlace, WorkerInv
<1> QED BY <1>1, Invariance, PTL

(* The caller never sleeps on caller_wait beside an operation that start()
   has staged: the test and the staging are under one lock. *)
THEOREM StagingIsHeard == Spec => []StagingWakesCaller
<1>1. IInv => StagingWakesCaller
  BY DEF IInv, CallerInv, StagingWakesCaller, CallerAt
<1> QED BY <1>1, Invariance, PTL

(* After wait_for_wait_process_stopped has collected the operation, start()
   stages no other. *)
THEOREM NothingStagedAfterCollection == Spec => []NoWaitAfterCollected
<1>1. IInv => NoWaitAfterCollected
  <2> SUFFICES ASSUME IInv, pc.caller \in {"mark_stopped", "internal_empty", "join", "returned"}
               PROVE  ~staged /\ ~pending
    BY DEF NoWaitAfterCollected
  <2>1. CASE pc.caller \in {"mark_stopped", "internal_empty"}
    BY <2>1 DEF IInv, CollectedInv
  <2>2. CASE pc.caller \in {"join", "returned"}
    BY <2>2 DEF IInv, CallerInv, WaitOpInOnePlace, CallerAt, WorkerAt
  <2> QED BY <2>1, <2>2
<1> QED BY <1>1, Invariance, PTL

(* A live task is watched, so that its end after a requested stop makes the
   stop final, on whichever thread spawn_complete runs. *)
THEOREM LiveTasksAreWatched == Spec => []WatcherCoversTasks
<1>1. IInv => WatcherCoversTasks BY DEF IInv
<1> QED BY <1>1, Invariance, PTL

(* The stop becomes final only after the last task has ended, and none is
   spawned from then on. *)
THEOREM TasksEndFirst == Spec => []FinalStopAfterTasks
<1>1. IInv => FinalStopAfterTasks BY DEF IInv, ScopeInv, FinalStopAfterTasks
<1> QED BY <1>1, Invariance, PTL

(* Where run calls loop.finish() no task, no timer of the watchdog and no
   operation is left; after it has returned the queue is empty as well. *)
THEOREM NothingGoesOnAtFinish == Spec => []NothingLeftAtFinish
<1>1. IInv => NothingLeftAtFinish
  <2> SUFFICES ASSUME IInv, pc.caller \in {"join", "returned"}
               PROVE  /\ Live = {} /\ watchdog # "asleep"
                      /\ waitLoop = "done" /\ ~staged /\ ~pending
                      /\ CallerAt("returned") => runq = <<>>
    BY DEF NothingLeftAtFinish
  <2>1. /\ finalStop /\ waitLoop = "done" /\ watchdog = "done"
        /\ CallerAt("returned") => runq = <<>>
    BY DEF IInv, CallerInv, CallerAt, WorkerAt
  <2> QED BY <2>1 DEF IInv, ScopeInv, WaitOpInOnePlace
<1> QED BY <1>1, Invariance, PTL
=============================================================================
