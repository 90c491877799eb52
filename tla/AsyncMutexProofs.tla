-------------------------- MODULE AsyncMutexProofs --------------------------
(***************************************************************************)
(* For any set of tasks, the async mutex is typed, keeps its flag in step  *)
(* with the task that has the lock, and implements FifoLock.               *)
(***************************************************************************)
EXTENDS AsyncMutex, TLAPS

(* The inductive invariant.  LockedWhileGranted alone is not inductive: that
   an unlock leaves nobody with the lock needs the uniqueness of its holder,
   and that the next task is not the holder itself needs the queue's part. *)
IInv ==
    /\ TypeOK
    /\ LockedWhileGranted
    /\ \A t, u \in Granted : t = u
    /\ QueueOfWaiters

(* The first of a non-empty queue is a task, and the rest is a queue. *)
LEMMA QueueHead ==
    ASSUME TypeOK, waitingTasks # <<>>
    PROVE  /\ Head(waitingTasks) \in Tasks
           /\ Head(waitingTasks) = waitingTasks[1]
           /\ 1 \in DOMAIN waitingTasks
           /\ Tail(waitingTasks) \in Seq(Tasks)
           /\ \A i \in DOMAIN Tail(waitingTasks) :
                 /\ i + 1 \in DOMAIN waitingTasks
                 /\ Tail(waitingTasks)[i] = waitingTasks[i + 1]
                 /\ i \in Nat /\ i >= 1
  BY DEF TypeOK

(* No task has the lock initially. *)
LEMMA InitIInv == Init => IInv
<1> SUFFICES ASSUME Init PROVE IInv
  OBVIOUS
<1>1. TypeOK
  <2>1. waitingTasks \in Seq(Tasks)
    BY DEF Init
  <2>2. pc \in [Tasks -> TaskStates]
    BY DEF Init, TaskStates
  <2>3. owned \in [Tasks -> BOOLEAN] /\ locked \in BOOLEAN
    BY DEF Init
  <2> QED BY <2>1, <2>2, <2>3 DEF TypeOK
<1>2. Granted = {}
  BY DEF Init, Granted
<1>3. LockedWhileGranted
  BY <1>2 DEF Init, LockedWhileGranted
<1>4. QueueOfWaiters
  BY DEF Init, QueueOfWaiters
<1> QED BY <1>1, <1>2, <1>3, <1>4 DEF IInv

(* start of a lock operation keeps the invariant: it takes a free lock, or
   queues behind the holder. *)
LEMMA StartIInv ==
    ASSUME IInv, NEW t \in Tasks, Start(t)
    PROVE  IInv'
<1> USE DEF IInv
<1>1. CASE locked
  <2>1. /\ pc' = [pc EXCEPT ![t] = "waiting"]
        /\ waitingTasks' = Append(waitingTasks, t)
        /\ locked' = locked /\ owned' = owned
    BY <1>1 DEF Start, Goto, TypeOK
  <2>2. TypeOK'
    BY <2>1 DEF TypeOK, TaskStates
  <2>3. Granted' = Granted
    BY <2>1 DEF Granted, Start, TypeOK
  <2>4. LockedWhileGranted' /\ (\A t1, u \in Granted : t1 = u)'
    BY <2>1, <2>3 DEF LockedWhileGranted, TypeOK
  <2>5. QueueOfWaiters'
    BY <2>1 DEF QueueOfWaiters, TypeOK, Start
  <2> QED BY <2>2, <2>4, <2>5
<1>2. CASE ~locked
  <2>1. /\ pc' = [pc EXCEPT ![t] = "complete"]
        /\ waitingTasks' = waitingTasks
        /\ locked' = TRUE /\ owned' = owned
    BY <1>2 DEF Start, Goto
  <2>2. Granted = {}
    BY <1>2 DEF LockedWhileGranted
  <2>3. Granted' = {t}
    BY <2>1, <2>2 DEF Granted, TypeOK
  <2> QED BY <2>1, <2>3 DEF TypeOK, TaskStates, LockedWhileGranted, QueueOfWaiters, Start
<1> QED BY <1>1, <1>2

(* Handing the lock to the first waiter keeps the invariant. *)
LEMMA UnlockToWaiterIInv ==
    ASSUME IInv, NEW t \in Tasks, UnlockToWaiter(t)
    PROVE  /\ IInv'
           /\ Granted = {t}
           /\ Granted' = {Head(waitingTasks)}
<1> USE DEF IInv
<1> DEFINE w == Head(waitingTasks)
<1>1. /\ w \in Tasks /\ w = waitingTasks[1] /\ 1 \in DOMAIN waitingTasks
      /\ Tail(waitingTasks) \in Seq(Tasks)
      /\ \A i \in DOMAIN Tail(waitingTasks) :
            /\ i + 1 \in DOMAIN waitingTasks
            /\ Tail(waitingTasks)[i] = waitingTasks[i + 1]
            /\ i \in Nat /\ i >= 1
  BY QueueHead DEF UnlockToWaiter
<1> HIDE DEF w
<1>2. pc[w] = "waiting" /\ w # t
  BY <1>1 DEF QueueOfWaiters, UnlockToWaiter
<1>3. /\ pc' = [pc EXCEPT ![t] = "handoff", ![w] = "popped"]
      /\ waitingTasks' = Tail(waitingTasks)
      /\ locked' = locked /\ owned' = owned /\ pc[t] = "held"
  BY DEF UnlockToWaiter, w
<1>4. Granted = {t}
  BY <1>3 DEF Granted
<1>5. Granted' = {w}
  BY <1>1, <1>2, <1>3, <1>4 DEF Granted, TypeOK
<1>6. TypeOK'
  BY <1>1, <1>3 DEF TypeOK, TaskStates
<1>7. LockedWhileGranted' /\ (\A t1, u \in Granted : t1 = u)'
  BY <1>1, <1>3, <1>4, <1>5 DEF LockedWhileGranted, TypeOK
<1>8. QueueOfWaiters'
  <2>1. \A i \in DOMAIN waitingTasks' : pc'[waitingTasks'[i]] = "waiting"
    BY <1>1, <1>2, <1>3 DEF QueueOfWaiters, TypeOK
  <2>2. \A i, j \in DOMAIN waitingTasks' :
            waitingTasks'[i] = waitingTasks'[j] => i = j
    <3> SUFFICES ASSUME NEW i \in DOMAIN waitingTasks', NEW j \in DOMAIN waitingTasks',
                        waitingTasks'[i] = waitingTasks'[j]
                 PROVE  i = j
      OBVIOUS
    <3>1. i + 1 = j + 1
      BY <1>1, <1>3 DEF QueueOfWaiters
    <3> QED BY <1>1, <1>3, <3>1
  <2> QED BY <2>1, <2>2 DEF QueueOfWaiters
<1> QED BY <1>4, <1>5, <1>6, <1>7, <1>8 DEF w

(* Unlocking with nobody waiting frees the mutex, and does not terminate. *)
LEMMA UnlockLastIInv ==
    ASSUME IInv, NEW t \in Tasks, UnlockLast(t)
    PROVE  /\ IInv'
           /\ Granted = {t}
           /\ Granted' = {}
<1> USE DEF IInv
<1>1. Granted = {t} /\ locked
  BY DEF UnlockLast, Granted, LockedWhileGranted
<1>2. pc' = [pc EXCEPT ![t] = "clear"]
  BY <1>1 DEF UnlockLast, Goto
<1>3. Granted' = {}
  BY <1>1, <1>2 DEF Granted, TypeOK
<1>4. QueueOfWaiters'
  BY DEF QueueOfWaiters, UnlockLast
<1> QED
  BY <1>1, <1>2, <1>3, <1>4 DEF UnlockLast, TypeOK, TaskStates, LockedWhileGranted

(* Completing an operation passes the lock to nobody else. *)
LEMMA CompleteIInv ==
    ASSUME IInv, NEW t \in Tasks, Complete(t) \/ CompleteWaiter(t)
    PROVE  /\ IInv'
           /\ Granted' = Granted
<1> USE DEF IInv
<1>1. CASE Complete(t)
  <2>1. pc' = [pc EXCEPT ![t] = "held"] /\ pc[t] = "complete"
    BY <1>1 DEF Complete, Goto
  <2>2. Granted' = Granted
    BY <2>1 DEF Granted, TypeOK
  <2> QED BY <1>1, <2>1, <2>2
          DEF Complete, TypeOK, TaskStates, LockedWhileGranted, QueueOfWaiters
<1>2. CASE CompleteWaiter(t)
  <2>1. PICK w \in Tasks :
            /\ pc[t] = "handoff" /\ pc[w] = "popped"
            /\ pc' = [pc EXCEPT ![t] = "clear", ![w] = "held"]
    BY <1>2 DEF CompleteWaiter
  <2>2. Granted' = Granted
    BY <2>1 DEF Granted, TypeOK
  <2> QED BY <1>2, <2>1, <2>2
          DEF CompleteWaiter, TypeOK, TaskStates, LockedWhileGranted, QueueOfWaiters
<1> QED BY <1>1, <1>2

(* Nor do the steps of a guard around its lock operation. *)
LEMMA GuardIInv ==
    ASSUME IInv, NEW t \in Tasks, Lock(t) \/ ClearOwned(t)
    PROVE  /\ IInv'
           /\ Granted' = Granted
<1> USE DEF IInv
<1>1. \E label \in {"start", "idle"} :
          pc' = [pc EXCEPT ![t] = label] /\ pc[t] \in {"idle", "clear"}
  BY DEF Lock, ClearOwned, Goto
<1>2. Granted' = Granted
  BY <1>1 DEF Granted, TypeOK
<1>3. /\ owned' \in [Tasks -> BOOLEAN]
      /\ locked' = locked /\ waitingTasks' = waitingTasks
  BY DEF Lock, ClearOwned, TypeOK
<1>4. PICK label \in {"start", "idle"} :
          pc' = [pc EXCEPT ![t] = label] /\ pc[t] \in {"idle", "clear"}
  BY <1>1
<1>5. TypeOK'
  BY <1>3, <1>4 DEF TypeOK, TaskStates
<1>6. QueueOfWaiters'
  BY <1>3, <1>4 DEF QueueOfWaiters, TypeOK
<1>7. LockedWhileGranted'
  BY <1>2, <1>3, <1>4 DEF LockedWhileGranted, TypeOK
<1> QED BY <1>2, <1>5, <1>6, <1>7

(* Every step keeps the inductive invariant. *)
LEMMA NextIInv == IInv /\ [Next]_vars => IInv'
<1> SUFFICES ASSUME IInv, [Next]_vars PROVE IInv'
  OBVIOUS
<1>1. CASE UNCHANGED vars
  BY <1>1 DEF vars, IInv, TypeOK, LockedWhileGranted, Granted, QueueOfWaiters
<1>2. ASSUME NEW t \in Tasks, Lock(t) \/ Proceed(t) PROVE IInv'
  BY <1>2, StartIInv, CompleteIInv, UnlockToWaiterIInv, UnlockLastIInv, GuardIInv
     DEF Proceed
<1> QED BY <1>1, <1>2 DEF Next

(* For any set of tasks the inductive invariant holds of every reachable
   state; with it the types. *)
THEOREM Invariance == Spec => []IInv
  BY InitIInv, NextIInv, PTL DEF Spec

(* The flag locked is set exactly while a task has the lock or is being
   handed it, so that unlock never meets an unlocked mutex. *)
THEOREM LockedWhileGrantedHolds == Spec => []LockedWhileGranted
<1>1. IInv => LockedWhileGranted
  BY DEF IInv
<1> QED BY <1>1, Invariance, PTL

(* A completion is queued at most once, and only while its task waits, so that
   no unlock completes a task a second time (mutex::unlock). *)
THEOREM QueueOfWaitersHolds == Spec => []QueueOfWaiters
<1>1. IInv => QueueOfWaiters
  BY DEF IInv
<1> QED BY <1>1, Invariance, PTL

(* start is a Request of the abstract lock, the two unlocks are a Release,
   and every other step changes neither the holder nor the queue. *)
LEMMA NextRefines == IInv /\ [Next]_vars => [Abstract!Next]_Abstract!vars
<1> SUFFICES ASSUME IInv, [Next]_vars PROVE [Abstract!Next]_Abstract!vars
  OBVIOUS
<1>1. CASE UNCHANGED vars
  BY <1>1 DEF vars, Abstract!vars, Granted
<1>2. ASSUME NEW t \in Tasks, Start(t) PROVE Abstract!Request(t)
  <2>1. t \notin Abstract!Asked
    BY <1>2 DEF Abstract!Asked, IInv, QueueOfWaiters, Start, Granted
  <2>2. CASE locked
    <3>1. Granted' = Granted /\ Granted # {}
      BY <1>2, <2>2 DEF Granted, Start, Goto, IInv, TypeOK, LockedWhileGranted
    <3> QED BY <1>2, <2>1, <2>2, <3>1 DEF Abstract!Request, Start
  <2>3. CASE ~locked
    <3>1. Granted = {}
      BY <2>3 DEF IInv, LockedWhileGranted
    <3>2. Granted' = {t}
      BY <1>2, <2>3, <3>1 DEF Granted, Start, Goto, IInv, TypeOK
    <3> QED BY <1>2, <2>1, <2>3, <3>1, <3>2 DEF Abstract!Request, Start
  <2> QED BY <2>2, <2>3
<1>3. ASSUME NEW t \in Tasks, UnlockToWaiter(t) PROVE Abstract!Release(t)
  BY <1>3, UnlockToWaiterIInv DEF Abstract!Release, UnlockToWaiter
<1>4. ASSUME NEW t \in Tasks, UnlockLast(t) PROVE Abstract!Release(t)
  BY <1>4, UnlockLastIInv DEF Abstract!Release, UnlockLast
<1>5. ASSUME NEW t \in Tasks, Lock(t) \/ ClearOwned(t) PROVE UNCHANGED Abstract!vars
  BY <1>5, GuardIInv DEF Abstract!vars, Lock, ClearOwned
<1>6. ASSUME NEW t \in Tasks, Complete(t) \/ CompleteWaiter(t)
      PROVE  UNCHANGED Abstract!vars
  BY <1>6, CompleteIInv DEF Abstract!vars, Complete, CompleteWaiter
<1> QED BY <1>1, <1>2, <1>3, <1>4, <1>5, <1>6 DEF Next, Proceed, Abstract!Next

(* The async mutex implements the first-in-first-out lock: mutual exclusion
   and the order of service, for any set of tasks. *)
THEOREM ImplementsFifoLock == Spec => IsFifoLock
<1>1. Init => Abstract!Init
  BY DEF Init, Abstract!Init, Granted
<1> QED BY <1>1, NextRefines, Invariance, PTL DEF Spec, IsFifoLock, Abstract!Spec
=============================================================================
