---------------------------- MODULE AsyncBarrier ----------------------------
(***************************************************************************)
(* sdbusplus::async::barrier (include/sdbusplus/async/barrier.hpp,         *)
(* src/async/barrier.cpp): tasks that await it are released in groups of   *)
(* Count.  The task that completes a group takes the list of waiters and,  *)
(* with the mutex released, completes one after the other; those that go   *)
(* on may reach the barrier again before the list is done.                 *)
(*                                                                         *)
(* Not part of the specification but broken variants of the definition     *)
(* that follows each: StartWithoutSwap. A property that matters is         *)
(* violated with one of them in its place.                                 *)
(***************************************************************************)
EXTENDS Naturals, Sequences

CONSTANTS
    Tasks,
    NoTask,
    Count       \* barrier::count

VARIABLES
    op,         \* the state of each task's barrier_operation
    waiters,    \* barrier::waiters
    tasks       \* the local list of the start that each task called

vars == <<op, waiters, tasks>>

TypeOK ==
    /\ op \in [Tasks -> {"none", "waiting"}]
    /\ waiters \in Seq(Tasks)
    /\ tasks \in [Tasks -> Seq(Tasks)]

Init ==
    /\ op = [t \in Tasks |-> "none"]
    /\ waiters = <<>>
    /\ tasks = [t \in Tasks |-> <<>>]

StartWithoutSwap(t) ==
    /\ op[t] = "none"
    /\ op' = [op EXCEPT ![t] = "waiting"]
    /\ waiters' = Append(waiters, t)
    /\ tasks' = IF Len(waiters) + 1 >= Count
                THEN [tasks EXCEPT ![t] = waiters'] ELSE tasks

(* barrier_completion::start up to the unlock. *)
Start(t) ==
    /\ op[t] = "none"
    /\ op' = [op EXCEPT ![t] = "waiting"]
    /\ IF Len(waiters) + 1 >= Count
       THEN waiters' = <<>> /\ tasks' = [tasks EXCEPT ![t] = Append(waiters, t)]
       ELSE waiters' = Append(waiters, t) /\ UNCHANGED tasks

(* One turn of the loop of the start that t called. *)
CompleteNext(t) ==
    /\ tasks[t] # <<>>
    /\ op' = [op EXCEPT ![Head(tasks[t])] = "none"]
    /\ tasks' = [tasks EXCEPT ![t] = Tail(@)]
    /\ UNCHANGED waiters

---------------------------------------------------------------------------
(* Every pointer kept by the barrier, or by a start that releases a group, is
   to the operation of a task that still waits, and every such operation is
   kept exactly once: completed a second time it would be gone, and kept
   nowhere it would never be completed. *)
Pointers(t) ==
    {<<NoTask, i>> : i \in {j \in DOMAIN waiters : waiters[j] = t}}
        \cup UNION {{<<s, i>> : i \in {j \in DOMAIN tasks[s] : tasks[s][j] = t}} :
                        s \in Tasks}

NoDanglingWaiter ==
    \A t \in Tasks :
        IF op[t] = "waiting"
        THEN \E p \in Pointers(t) : Pointers(t) = {p}
        ELSE Pointers(t) = {}
=============================================================================
