----------------------------- MODULE AsyncTasks -----------------------------
(***************************************************************************)
(* Tasks that share the objects of sdbusplus::async, the way the tests of  *)
(* test/async use them: every task reaches a barrier, locks a mutex and,   *)
(* with the lock, awaits either the next message of a match or the next    *)
(* event of a file descriptor, neither of which may have two awaiting      *)
(* tasks.  The match may be destroyed at any time: the task that awaits it *)
(* is stopped, which unwinds it and releases the lock.                     *)
(***************************************************************************)
EXTENDS Naturals, Sequences

CONSTANTS Tasks, NoTask, Messages, NoMessage, MaxQueue, Count

ASSUME NoTaskAssumption == NoTask \notin Tasks
ASSUME NoMessageAssumption == NoMessage \notin Messages
ASSUME BoundsAssumption == MaxQueue \in Nat /\ Count \in Nat \ {0}

VARIABLES
    at,                                                 \* where each task is
    barrierOp, waiters, releasing,                      \* AsyncBarrier
    pc, owned, locked, waitingTasks,                    \* AsyncMutex
    matchOp, message, received, queue, matchComplete, destroyed,    \* AsyncMatch
    fdioOp, starting, timer, fdioComplete, timed, data, ready       \* AsyncFdio

barrierVars == <<barrierOp, waiters, releasing>>
mutexVars == <<pc, owned, locked, waitingTasks>>
matchVars == <<matchOp, message, received, queue, matchComplete, destroyed>>
fdioVars == <<fdioOp, starting, timer, fdioComplete, timed, data, ready>>
vars == <<at, barrierVars, mutexVars, matchVars, fdioVars>>

Barrier == INSTANCE AsyncBarrier WITH op <- barrierOp, tasks <- releasing
Mutex == INSTANCE AsyncMutex
Match == INSTANCE AsyncMatch WITH op <- matchOp, complete <- matchComplete
Fdio == INSTANCE AsyncFdio WITH op <- fdioOp, complete <- fdioComplete

Places == {"arriving", "locking", "awaiting", "leaving", "stopping", "ended"}

TypeOK ==
    /\ at \in [Tasks -> Places]
    /\ Barrier!TypeOK /\ Mutex!TypeOK /\ Match!TypeOK /\ Fdio!TypeOK

Init ==
    /\ at = [t \in Tasks |-> "arriving"]
    /\ Barrier!Init /\ Mutex!Init /\ Match!Init /\ Fdio!Init

Move(t, place) == at' = [at EXCEPT ![t] = place]

ReachBarrier(t) ==
    /\ at[t] = "arriving" /\ Barrier!Start(t)
    /\ UNCHANGED <<at, mutexVars, matchVars, fdioVars>>

(* The task that t's loop resumes goes on to the lock. *)
PassBarrier(t) ==
    /\ Barrier!CompleteNext(t)
    /\ Move(Head(releasing[t]), "locking")
    /\ UNCHANGED <<mutexVars, matchVars, fdioVars>>

LockMutex(t) ==
    /\ at[t] = "locking" /\ Mutex!Lock(t)
    /\ UNCHANGED <<at, barrierVars, matchVars, fdioVars>>

(* The steps of the mutex that the task does not decide about. *)
RunMutex(t) ==
    /\ Mutex!Start(t) \/ Mutex!Complete(t) \/ Mutex!CompleteWaiter(t)
    /\ UNCHANGED <<at, barrierVars, matchVars, fdioVars>>

AwaitMatch(t) ==
    /\ at[t] = "locking" /\ pc[t] = "held" /\ Match!Start(t)
    /\ Move(t, "awaiting")
    /\ UNCHANGED <<barrierVars, mutexVars, fdioVars>>

AwaitFdio(t) ==
    /\ at[t] = "locking" /\ pc[t] = "held" /\ Fdio!Start(t)
    /\ Move(t, "awaiting")
    /\ UNCHANGED <<barrierVars, mutexVars, matchVars>>

RunMatch ==
    /\ Match!HandleMatch \/ Match!Destroy \/ \E t \in Tasks : Match!Signal(t)
    /\ UNCHANGED <<at, barrierVars, mutexVars, fdioVars>>

(* A task whose await was stopped does not come back. *)
LeaveMatch(t) ==
    /\ Match!Resume(t)
    /\ Move(t, IF matchOp[t] = "value" THEN "leaving" ELSE "stopping")
    /\ UNCHANGED <<barrierVars, mutexVars, fdioVars>>

Fdio_(t) ==
    Fdio!AddTimer(t) \/ Fdio!Elapse(t) \/ Fdio!HandleTimeout(t) \/ Fdio!Signal(t)

RunFdio ==
    /\ Fdio!Arrive \/ Fdio!Poll \/ Fdio!HandleEvent \/ \E t \in Tasks : Fdio_(t)
    /\ UNCHANGED <<at, barrierVars, mutexVars, matchVars>>

LeaveFdio(t) ==
    /\ Fdio!Resume(t)
    /\ Move(t, "leaving")
    /\ UNCHANGED <<barrierVars, mutexVars, matchVars>>

(* The guard goes out of scope, in either way. *)
UnlockMutex(t) ==
    /\ at[t] \in {"leaving", "stopping"}
    /\ Mutex!UnlockToWaiter(t) \/ Mutex!UnlockLast(t)
    /\ UNCHANGED <<at, barrierVars, matchVars, fdioVars>>

LeaveMutex(t) ==
    /\ Mutex!ClearOwned(t)
    /\ Move(t, IF at[t] = "leaving" THEN "arriving" ELSE "ended")
    /\ UNCHANGED <<barrierVars, matchVars, fdioVars>>

Proceed(t) ==
    \/ ReachBarrier(t) \/ PassBarrier(t) \/ LockMutex(t) \/ RunMutex(t)
    \/ LeaveMatch(t) \/ LeaveFdio(t) \/ UnlockMutex(t) \/ LeaveMutex(t)

Next ==
    \/ RunMatch \/ RunFdio
    \/ \E t \in Tasks : Proceed(t) \/ AwaitMatch(t) \/ AwaitFdio(t)

Spec == Init /\ [][Next]_vars

Rest == <<at, barrierVars, mutexVars, matchVars>>

(* The worker gets on with what it started, the caller's event loop dispatches
   and timers elapse.  Nobody has to write, to send or to destroy the match,
   and no task has to await anything. *)
FairSpec ==
    /\ Spec
    /\ WF_vars((Fdio!Poll \/ Fdio!HandleEvent) /\ UNCHANGED Rest)
    /\ WF_vars(\E t \in Tasks : (Fdio_(t) /\ UNCHANGED Rest) \/ LeaveFdio(t))

---------------------------------------------------------------------------
(* The documented rule that match and fdio have a single awaiting task is kept
   by tasks that await them with the lock held: neither finds a second one,
   also while an operation that was completed has not resumed its task. *)
SingleAwaiter ==
    \A t \in Tasks : matchOp[t] # "terminated" /\ fdioOp[t] # "terminated"

NoDanglingWaiter == Barrier!NoDanglingWaiter
WaiterIsPaired == Match!WaiterIsPaired
IsChannel == Match!IsChannel
WaiterIsKnown == Fdio!WaiterIsKnown
TimeoutIsDue == Fdio!TimeoutIsDue
WaitEnds == Fdio!WaitEnds
=============================================================================
