----------------------------- MODULE AsyncMutex -----------------------------
(***************************************************************************)
(* sdbusplus::async::mutex and lock_guard (include/sdbusplus/async/        *)
(* mutex.hpp, src/async/mutex.cpp).  Every task locks through a guard of   *)
(* its own, awaits the sender that lock() returns, and unlocks when the    *)
(* guard goes.  A step is one critical section of the mutex's inner        *)
(* std::mutex or one call of a completion: tasks may run on any thread.    *)
(*                                                                         *)
(* Not part of the specification but broken variants of the definition     *)
(* that follows each: StartForgetsLocked, UnlockKeepingWaiter,             *)
(* UnlockClearingLocked, UnlockLastFirst. A property that matters is       *)
(* violated with one of them in its place.                                 *)
(***************************************************************************)
EXTENDS Naturals, Sequences

CONSTANT Tasks

VARIABLES
    pc,             \* what each task, or its lock operation, is doing
    owned,          \* lock_guard::owned of each task's guard
    locked,         \* mutex::locked
    waitingTasks    \* mutex::waitingTasks

vars == <<pc, owned, locked, waitingTasks>>

(***************************************************************************)
(* "start": the sender is about to start; "waiting": its completion is in  *)
(* waitingTasks; "popped": unlock has taken it out; "complete": start has  *)
(* the lock and is about to complete; "held": the task runs with the lock; *)
(* "handoff": unlock is about to complete the popped one; "clear": unlock  *)
(* has returned to the guard; "terminated": unlock of an unlocked mutex.   *)
(***************************************************************************)
TaskStates == {"idle", "start", "waiting", "popped", "complete", "held",
               "handoff", "clear", "terminated"}

TypeOK ==
    /\ pc \in [Tasks -> TaskStates]
    /\ owned \in [Tasks -> BOOLEAN]
    /\ locked \in BOOLEAN
    /\ waitingTasks \in Seq(Tasks)

Init ==
    /\ pc = [t \in Tasks |-> "idle"]
    /\ owned = [t \in Tasks |-> FALSE]
    /\ locked = FALSE
    /\ waitingTasks = <<>>

Goto(t, label) == pc' = [pc EXCEPT ![t] = label]

(* lock_guard::lock marks the guard owned before the lock is obtained. *)
Lock(t) ==
    /\ pc[t] = "idle"
    /\ owned' = [owned EXCEPT ![t] = TRUE]
    /\ Goto(t, "start")
    /\ UNCHANGED <<locked, waitingTasks>>

StartForgetsLocked(t) ==
    /\ pc[t] = "start"
    /\ IF locked
       THEN Goto(t, "waiting") /\ waitingTasks' = Append(waitingTasks, t)
       ELSE Goto(t, "complete") /\ UNCHANGED waitingTasks
    /\ UNCHANGED <<locked, owned>>

Start(t) ==
    /\ pc[t] = "start"
    /\ locked' = TRUE
    /\ IF locked
       THEN Goto(t, "waiting") /\ waitingTasks' = Append(waitingTasks, t)
       ELSE Goto(t, "complete") /\ UNCHANGED waitingTasks
    /\ UNCHANGED owned

Complete(t) ==
    /\ pc[t] = "complete"
    /\ Goto(t, "held")
    /\ UNCHANGED <<owned, locked, waitingTasks>>

UnlockKeepingWaiter(t) ==
    /\ pc[t] = "held" /\ owned[t] /\ waitingTasks # <<>>
    /\ pc' = [pc EXCEPT ![t] = "handoff", ![Head(waitingTasks)] = "popped"]
    /\ UNCHANGED <<waitingTasks, owned, locked>>

UnlockClearingLocked(t) ==
    /\ pc[t] = "held" /\ owned[t] /\ waitingTasks # <<>>
    /\ pc' = [pc EXCEPT ![t] = "handoff", ![Head(waitingTasks)] = "popped"]
    /\ waitingTasks' = Tail(waitingTasks)
    /\ locked' = FALSE
    /\ UNCHANGED owned

UnlockLastFirst(t) ==
    /\ pc[t] = "held" /\ owned[t] /\ waitingTasks # <<>>
    /\ LET last == Len(waitingTasks) IN
        /\ pc' = [pc EXCEPT ![t] = "handoff", ![waitingTasks[last]] = "popped"]
        /\ waitingTasks' = SubSeq(waitingTasks, 1, last - 1)
    /\ UNCHANGED <<owned, locked>>

(* With tasks waiting the mutex stays locked: ownership is handed over. *)
UnlockToWaiter(t) ==
    /\ pc[t] = "held" /\ owned[t] /\ waitingTasks # <<>>
    /\ pc' = [pc EXCEPT ![t] = "handoff", ![Head(waitingTasks)] = "popped"]
    /\ waitingTasks' = Tail(waitingTasks)
    /\ UNCHANGED <<owned, locked>>

(* Unlocking a mutex that is not locked is fatal. *)
UnlockLast(t) ==
    /\ pc[t] = "held" /\ owned[t] /\ waitingTasks = <<>>
    /\ locked' = FALSE
    /\ Goto(t, IF locked THEN "clear" ELSE "terminated")
    /\ UNCHANGED <<owned, waitingTasks>>

(* completion->complete(), with the inner lock released. *)
CompleteWaiter(t) ==
    /\ pc[t] = "handoff"
    /\ \E w \in Tasks :
        /\ pc[w] = "popped"
        /\ pc' = [pc EXCEPT ![t] = "clear", ![w] = "held"]
    /\ UNCHANGED <<owned, locked, waitingTasks>>

ClearOwned(t) ==
    /\ pc[t] = "clear"
    /\ owned' = [owned EXCEPT ![t] = FALSE]
    /\ Goto(t, "idle")
    /\ UNCHANGED <<locked, waitingTasks>>

Proceed(t) ==
    \/ Start(t) \/ Complete(t) \/ UnlockToWaiter(t) \/ UnlockLast(t)
    \/ CompleteWaiter(t) \/ ClearOwned(t)

Next == \E t \in Tasks : Lock(t) \/ Proceed(t)

Spec == Init /\ [][Next]_vars

(* A task that holds the lock releases it; none has to ask for it. *)
FairSpec == Spec /\ \A t \in Tasks : WF_vars(Proceed(t))

---------------------------------------------------------------------------
(* The tasks that were given the lock and have not given it up. *)
Granted == {t \in Tasks : pc[t] \in {"popped", "complete", "held"}}

(* The flag says whether the lock is given to a task, also while it passes
   from one to the next: no third task slips in, and unlock never finds the
   mutex unlocked, where it would terminate the program. *)
LockedWhileGranted ==
    /\ locked <=> Granted # {}
    /\ \A t \in Tasks : pc[t] # "terminated"

(* A completion is queued once, and only until unlock takes it out: were it
   found there again, its task would be resumed twice. *)
QueueOfWaiters ==
    /\ \A i \in DOMAIN waitingTasks : pc[waitingTasks[i]] = "waiting"
    /\ \A i, j \in DOMAIN waitingTasks :
            waitingTasks[i] = waitingTasks[j] => i = j

(* The mutex is a lock held by one task at a time that serves in the order
   of the calls of start. *)
Abstract == INSTANCE FifoLock WITH holders <- Granted, queue <- waitingTasks
IsFifoLock == Abstract!Spec

(* A task whose completion was queued gets the lock. *)
WaiterIsServed == \A t \in Tasks : pc[t] = "waiting" ~> pc[t] = "held"
=============================================================================
