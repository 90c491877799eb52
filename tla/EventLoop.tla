----------------------------- MODULE EventLoop -----------------------------
(***************************************************************************)
(* sdbusplus::event::event (include/sdbusplus/event.hpp, src/event.cpp):   *)
(* the thread-safe wrapper around one sd_event.  One thread, Runner, calls *)
(* run_one; the other threads, Users, create and destroy event sources.    *)
(* Both go through obtain_lock, which takes two mutexes in order: the      *)
(* plain mutex obtain_lock_stage and then the recursive mutex lock.        *)
(*                                                                         *)
(* Not part of the specification but broken variants of the definition     *)
(* that follows each: UnrefWhilePending, RunLockIgnored, RunStageSkipped,  *)
(* SignalRunnerForgotten, DispatchWakeupEarlyReturn. A property that       *)
(* matters is violated with one of them in its place.                      *)
(***************************************************************************)
EXTENDS Naturals

CONSTANTS
    Users,  \* threads that add and destroy event sources
    Runner, \* the thread that calls run_one
    None    \* "no thread": a free mutex, no source dispatched

ASSUME RunnerIsNoUser == Runner \notin Users /\ None \notin Users \cup {Runner}

Threads == Users \cup {Runner}

VARIABLES
    pc,       \* where each thread is
    stage,    \* owner of obtain_lock_stage
    owner,    \* owner of the recursive mutex lock ...
    depth,    \* ... and how often it has locked it
    wakeup,   \* is the eventfd of run_condition readable?
    sources,  \* threads whose event source is registered with the sd_event
    ready,    \* registered sources whose fd is readable or timer has elapsed
    current   \* source whose callback runs

vars == <<pc, stage, owner, depth, wakeup, sources, ready, current>>

(***************************************************************************)
(* A thread outside the event loop is "out".  obtain_lock<true> goes       *)
(* through "stage", "try", "signal" and "block" to "critical"; run_one     *)
(* through "run_stage" and "run_lock" to "run", where sd_event_run waits,  *)
(* "callback" while a source's handler runs, and "return".                 *)
(***************************************************************************)
ObtainStates == {"stage", "try", "signal", "block", "critical"}
RunStates == {"run_stage", "run_lock", "run", "callback", "return"}

TypeOK ==
    /\ pc \in [Threads -> {"out"} \cup ObtainStates \cup RunStates]
    /\ \A u \in Users : pc[u] \notin RunStates
    /\ stage \in Threads \cup {None}
    /\ owner \in Threads \cup {None}
    /\ depth \in 0..2 /\ (depth = 0 <=> owner = None)
    /\ wakeup \in BOOLEAN
    /\ sources \subseteq Threads
    /\ ready \subseteq sources
    /\ current \in Threads \cup {None}

Init ==
    /\ pc = [t \in Threads |-> "out"]
    /\ stage = None /\ owner = None /\ depth = 0
    /\ wakeup = FALSE
    /\ sources = {} /\ ready = {} /\ current = None

Goto(t, label) == pc' = [pc EXCEPT ![t] = label]

(* std::recursive_mutex *)
CanLock(t) == owner \in {None, t}
Acquire(t) == owner' = t /\ depth' = depth + 1
Release == depth' = depth - 1 /\ owner' = IF depth = 1 THEN None ELSE owner

---------------------------------------------------------------------------
(* obtain_lock<true>: add_io, add_oneshot_timer and the destruction of a   *)
(* source.  The eventfd is read whole by ack, so only "readable" matters.  *)

(* A user calls in; so may the callback that Runner is dispatching. *)
CallObtainLock(t) ==
    /\ \/ t \in Users /\ pc[t] = "out"
       \/ t = Runner /\ pc[t] = "callback"
    /\ Goto(t, "stage")
    /\ UNCHANGED <<stage, owner, depth, wakeup, sources, ready, current>>

TakeStage(t) ==
    /\ pc[t] = "stage" /\ stage = None
    /\ stage' = t
    /\ Goto(t, "try")
    /\ UNCHANGED <<owner, depth, wakeup, sources, ready, current>>

(* The stage is a local of obtain_lock: it is released when that returns. *)
TryLock(t) ==
    /\ pc[t] = "try"
    /\ IF CanLock(t)
       THEN Acquire(t) /\ stage' = None /\ Goto(t, "critical")
       ELSE Goto(t, "signal") /\ UNCHANGED <<stage, owner, depth>>
    /\ UNCHANGED <<wakeup, sources, ready, current>>

SignalRunnerForgotten(t) ==
    /\ pc[t] = "signal"
    /\ Goto(t, "block")
    /\ UNCHANGED <<stage, owner, depth, wakeup, sources, ready, current>>

SignalRunner(t) ==
    /\ pc[t] = "signal"
    /\ wakeup' = TRUE
    /\ Goto(t, "block")
    /\ UNCHANGED <<stage, owner, depth, sources, ready, current>>

BlockOnLock(t) ==
    /\ pc[t] = "block" /\ CanLock(t)
    /\ Acquire(t)
    /\ stage' = None
    /\ Goto(t, "critical")
    /\ UNCHANGED <<wakeup, sources, ready, current>>

EndCritical(t) ==
    /\ Release
    /\ Goto(t, IF t = Runner THEN "callback" ELSE "out")
    /\ UNCHANGED <<stage, wakeup, current>>

AddSource(t) ==
    /\ pc[t] = "critical" /\ t \notin sources
    /\ sources' = sources \cup {t}
    /\ EndCritical(t)
    /\ UNCHANGED ready

UnrefWhilePending(t) ==
    /\ pc[t] = "critical" /\ t \in sources
    /\ sources' = sources \ {t}
    /\ EndCritical(t)
    /\ UNCHANGED ready

(* sd_event_source_unref also drops an event that is still pending. *)
UnrefSource(t) ==
    /\ pc[t] = "critical" /\ t \in sources
    /\ sources' = sources \ {t}
    /\ ready' = ready \ {t}
    /\ EndCritical(t)

(* break_run takes no lock. *)
BreakRun(t) ==
    /\ \/ t \in Users /\ pc[t] = "out"
       \/ t = Runner /\ pc[t] = "callback"
    /\ wakeup' = TRUE
    /\ UNCHANGED <<pc, stage, owner, depth, sources, ready, current>>

---------------------------------------------------------------------------
(* run_one: obtain_lock<false> and one sd_event_run. *)

CallRunOne ==
    /\ pc[Runner] = "out"
    /\ Goto(Runner, "run_stage")
    /\ UNCHANGED <<stage, owner, depth, wakeup, sources, ready, current>>

RunStageSkipped ==
    /\ pc[Runner] = "run_stage"
    /\ Goto(Runner, "run_lock")
    /\ UNCHANGED <<stage, owner, depth, wakeup, sources, ready, current>>

RunStage ==
    /\ pc[Runner] = "run_stage" /\ stage = None
    /\ stage' = Runner
    /\ Goto(Runner, "run_lock")
    /\ UNCHANGED <<owner, depth, wakeup, sources, ready, current>>

RunLockIgnored ==
    /\ pc[Runner] = "run_lock"
    /\ stage' = None
    /\ Goto(Runner, "run")
    /\ UNCHANGED <<owner, depth, wakeup, sources, ready, current>>

RunLock ==
    /\ pc[Runner] = "run_lock" /\ CanLock(Runner)
    /\ Acquire(Runner)
    /\ stage' = None
    /\ Goto(Runner, "run")
    /\ UNCHANGED <<wakeup, sources, ready, current>>

DispatchWakeupEarlyReturn ==
    /\ pc[Runner] = "run" /\ wakeup
    /\ wakeup' = FALSE
    /\ UNCHANGED <<pc, stage, owner, depth, sources, ready, current>>

(* The handler of run_condition, run_wakeup, acknowledges every signal. *)
DispatchWakeup ==
    /\ pc[Runner] = "run" /\ wakeup
    /\ wakeup' = FALSE
    /\ Goto(Runner, "return")
    /\ UNCHANGED <<stage, owner, depth, sources, ready, current>>

DispatchSource ==
    /\ pc[Runner] = "run"
    /\ \E s \in ready : current' = s /\ ready' = ready \ {s}
    /\ Goto(Runner, "callback")
    /\ UNCHANGED <<stage, owner, depth, wakeup, sources>>

CallbackDone ==
    /\ pc[Runner] = "callback"
    /\ current' = None
    /\ Goto(Runner, "return")
    /\ UNCHANGED <<stage, owner, depth, wakeup, sources, ready>>

(* The timeout given to run_one may elapse; it may also be infinite. *)
Timeout ==
    /\ pc[Runner] = "run"
    /\ Goto(Runner, "return")
    /\ UNCHANGED <<stage, owner, depth, wakeup, sources, ready, current>>

ReturnFromRunOne ==
    /\ pc[Runner] = "return"
    /\ Release
    /\ Goto(Runner, "out")
    /\ UNCHANGED <<stage, wakeup, sources, ready, current>>

(* The world outside: a file descriptor becomes readable, a timer elapses. *)
Occur ==
    /\ \E s \in sources \ ready : ready' = ready \cup {s}
    /\ UNCHANGED <<pc, stage, owner, depth, wakeup, sources, current>>

---------------------------------------------------------------------------
ObtainLock(t) ==
    \/ TakeStage(t) \/ TryLock(t) \/ SignalRunner(t) \/ BlockOnLock(t)
    \/ AddSource(t) \/ UnrefSource(t)

RunOne ==
    \/ RunStage \/ RunLock \/ DispatchWakeup \/ DispatchSource
    \/ CallbackDone \/ ReturnFromRunOne

Next ==
    \/ \E t \in Threads : CallObtainLock(t) \/ ObtainLock(t) \/ BreakRun(t)
    \/ CallRunOne \/ RunOne \/ Timeout
    \/ Occur

(***************************************************************************)
(* A thread inside a call keeps running and a dispatched callback returns  *)
(* in the end, however many sources it adds and destroys before.           *)
(* Nothing forces a call, an event or a timeout to happen, and no mutex is *)
(* assumed to be granted fairly.                                           *)
(***************************************************************************)
Fairness ==
    /\ \A t \in Threads : WF_vars(ObtainLock(t))
    /\ WF_vars(RunOne)
    /\ SF_vars(CallbackDone)

Spec == Init /\ [][Next]_vars
FairSpec == Spec /\ Fairness

---------------------------------------------------------------------------
(* Where a thread calls into libsystemd's sd_event. *)
InSdEvent(t) == pc[t] \in {"run", "callback", "critical"}

(* A user that has passed the stage and is about to get the lock. *)
Contending(u) == pc[u] \in {"try", "signal", "block"}

(* sd_event is not thread-safe: two threads are never inside it, whatever
   the order in which they passed the stage and the lock. *)
SdEventExclusive ==
    \A t1, t2 \in Threads : InSdEvent(t1) /\ InSdEvent(t2) => t1 = t2

(* While a source's handler runs, no other thread has destroyed that source
   (source::~source must have blocked): the handler's data is alive. *)
DispatchedSourceAlive ==
    pc[Runner] = "callback" /\ current # Runner => current \in sources

(* A thread that wants to change the sources overtakes run_one: once it is
   past the stage, Runner cannot re-enter sd_event_run before it. *)
StageHasPriority ==
    [][\A u \in Users : Contending(u) => ~(pc[Runner] # "run" /\ pc'[Runner] = "run")]_vars

(* The callback that run_one dispatches waits for the stage of a thread that
   waits for the lock run_one holds. *)
CircularWait ==
    \E u \in Users :
        /\ pc[Runner] = "stage" /\ owner = Runner
        /\ pc[u] = "block" /\ stage = u

(* A thread past the stage gets the lock although run_one may wait without
   a timeout and no event may ever occur: obtain_lock wakes it.  The
   circular wait is the only way in which it may fail to. *)
ContenderGetsLock ==
    \A u \in Users : Contending(u) ~> pc[u] = "critical" \/ CircularWait

(* A signal is never lost: run_one returns from a break_run issued while it
   waits, and from one issued before it started. *)
BreakRunEndsRunOne ==
    pc[Runner] = "run" /\ wakeup ~> pc[Runner] = "out" \/ CircularWait

(* "There are cases where we need to lock the mutex from inside the context
   of a sd-event callback, while the lock is already held.  Use a
   recursive_mutex to allow this." (event.hpp): such a callback is never in
   a circular wait. *)
CallbackMayObtainLock == ~CircularWait
=============================================================================
