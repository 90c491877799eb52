-------------------------- MODULE AsyncTasksProofs --------------------------
(***************************************************************************)
(* For any set of tasks and of messages: tasks that await a match or a     *)
(* file descriptor with the async mutex held never meet a second awaiting  *)
(* task, and with that rule kept the match is a channel, the fdio takes    *)
(* its operation once, and the barrier completes each of its own once.     *)
(***************************************************************************)
EXTENDS AsyncTasks, SequenceTheorems, TLAPS

(* The mutex of the tasks, with what is proved of it. *)
MutexProofs == INSTANCE AsyncMutexProofs

(* The lists of waiting operations, the barrier's own under NoTask. *)
Lists == Tasks \cup {NoTask}
List(s) == IF s = NoTask THEN waiters ELSE releasing[s]

(* An operation waits exactly while it is in one place of one list; a task
   that releases a group is the last one of its list. *)
BarrierInv ==
    /\ \A s \in Lists : \A i \in DOMAIN List(s) : barrierOp[List(s)[i]] = "waiting"
    /\ \A s, u \in Lists : \A i \in DOMAIN List(s) : \A j \in DOMAIN List(u) :
            List(s)[i] = List(u)[j] => s = u /\ i = j
    /\ \A t \in Tasks : barrierOp[t] = "waiting" =>
            \E s \in Lists : \E i \in DOMAIN List(s) : List(s)[i] = t
    /\ \A s \in Tasks : releasing[s] # <<>> => releasing[s][Len(releasing[s])] = s

(* Which operations a task may have, by its place: those of the match and of
   the fdio only as it awaits them with the lock, and a timer of the fdio only
   as long as its operation is there. *)
PlaceInv ==
    \A t \in Tasks :
        /\ barrierOp[t] = "waiting" => at[t] = "arriving"
        /\ at[t] \in {"arriving", "ended"} => pc[t] = "idle"
        /\ at[t] = "locking" => pc[t] \notin {"handoff", "clear"}
        /\ at[t] = "awaiting" => pc[t] = "held"
        /\ at[t] \in {"leaving", "stopping"} => pc[t] \in {"held", "handoff", "clear"}
        /\ matchOp[t] # "none" => at[t] = "awaiting" /\ fdioOp[t] = "none"
        /\ fdioOp[t] # "none" => at[t] = "awaiting"
        /\ timer[t] # "none" \/ starting[t] => fdioOp[t] # "none"

IInv ==
    /\ TypeOK
    /\ MutexProofs!IInv /\ BarrierInv /\ PlaceInv
    /\ SingleAwaiter /\ WaiterIsPaired /\ WaiterIsKnown

(* A step of the tasks is a step of the mutex, or leaves it alone. *)
LEMMA MutexIInv ==
    ASSUME MutexProofs!IInv, [Next]_vars
    PROVE  MutexProofs!IInv'
<1>1. [MutexProofs!Next]_MutexProofs!vars
  <2>1. ASSUME NEW t \in Tasks, Mutex!Lock(t) \/ Mutex!Proceed(t)
        PROVE  MutexProofs!Next
    BY <2>1 DEF MutexProofs!Next, MutexProofs!Lock, MutexProofs!Proceed,
        MutexProofs!Start, MutexProofs!Complete, MutexProofs!UnlockToWaiter,
        MutexProofs!UnlockLast, MutexProofs!CompleteWaiter, MutexProofs!ClearOwned,
        MutexProofs!Goto, Mutex!Lock, Mutex!Proceed, Mutex!Goto,
        Mutex!Start, Mutex!Complete, Mutex!UnlockToWaiter, Mutex!UnlockLast,
        Mutex!CompleteWaiter, Mutex!ClearOwned
  <2> QED BY <2>1 DEF Next, Proceed, vars, mutexVars, MutexProofs!vars, ReachBarrier,
        PassBarrier, LockMutex, RunMutex, LeaveMatch, LeaveFdio, UnlockMutex, LeaveMutex,
        RunMatch, RunFdio, AwaitMatch, AwaitFdio, Mutex!Proceed
<1> QED BY <1>1, MutexProofs!NextIInv

(* Whoever awaits has the lock, so nobody else does. *)
LEMMA OneAwaits ==
    ASSUME IInv, NEW t \in Tasks, NEW u \in Tasks, at[t] = "awaiting",
           at[u] = "awaiting" \/ pc[u] = "held"
    PROVE  t = u
<1>1. pc[t] = "held" /\ pc[u] = "held" BY DEF IInv, PlaceInv
<1> QED BY <1>1 DEF IInv, MutexProofs!IInv, MutexProofs!Granted

(* Appending to a sequence, and taking its first element, by index. *)
LEMMA AppendAt ==
    ASSUME NEW q \in Seq(Tasks), NEW t \in Tasks
    PROVE  /\ Append(q, t) \in Seq(Tasks) /\ Append(q, t) # <<>>
           /\ \A i \in DOMAIN q : i \in DOMAIN Append(q, t) /\ Append(q, t)[i] = q[i]
           /\ Len(Append(q, t)) \in DOMAIN Append(q, t)
           /\ Append(q, t)[Len(Append(q, t))] = t
           /\ \A i \in DOMAIN Append(q, t) : i \in DOMAIN q \/ i = Len(Append(q, t))
  OBVIOUS

LEMMA TailAt ==
    ASSUME NEW q \in Seq(Tasks), q # <<>>
    PROVE  /\ Head(q) \in Tasks /\ Head(q) = q[1] /\ 1 \in DOMAIN q
           /\ Tail(q) \in Seq(Tasks)
           /\ \A i \in DOMAIN Tail(q) : i \in Nat /\ i >= 1 /\ i + 1 \in DOMAIN q
                    /\ Tail(q)[i] = q[i + 1]
           /\ \A i \in DOMAIN q : i \in Nat
                    /\ (i # 1 => i - 1 \in DOMAIN Tail(q) /\ Tail(q)[i - 1] = q[i])
           /\ Len(q) \in DOMAIN q
           /\ Tail(q) # <<>> => Tail(q)[Len(Tail(q))] = q[Len(q)]
  OBVIOUS
-----------------------------------------------------------------------------
(* The operation that reaches the barrier is appended to the waiting ones,
   which either stay or become the list of the task that releases them. *)
LEMMA StartBarrierInv ==
    ASSUME IInv, NEW t \in Tasks, Barrier!Start(t)
    PROVE  /\ BarrierInv' /\ Barrier!TypeOK'
           /\ barrierOp' = [barrierOp EXCEPT ![t] = "waiting"]
<1> USE DEF IInv, Barrier!Start
<1>1. /\ waiters \in Seq(Tasks) /\ releasing \in [Tasks -> Seq(Tasks)]
      /\ barrierOp \in [Tasks -> {"none", "waiting"}] /\ NoTask \notin Tasks
  BY NoTaskAssumption DEF TypeOK, Barrier!TypeOK
<1>2. barrierOp[t] = "none" /\ barrierOp' = [barrierOp EXCEPT ![t] = "waiting"]
  OBVIOUS
<1>3. \A s \in Lists : \A i \in DOMAIN List(s) : List(s)[i] # t /\ List(s)[i] \in Tasks
  BY <1>1, <1>2 DEF BarrierInv, List, Lists
<1>4. releasing[t] = <<>>
  <2>1. releasing[t] # <<>> => Len(releasing[t]) \in DOMAIN List(t) /\ t \in Lists
           /\ List(t) = releasing[t]
    BY <1>1, TailAt DEF List, Lists
  <2> QED BY <1>3, <2>1 DEF BarrierInv
<1> DEFINE q == Append(waiters, t)
<1>5. /\ q \in Seq(Tasks) /\ q # <<>> /\ q[Len(q)] = t
      /\ \A i \in DOMAIN waiters : i \in DOMAIN q /\ q[i] = waiters[i]
      /\ \E j \in DOMAIN q : q[j] = t /\ \A i \in DOMAIN q : i \in DOMAIN waiters \/ i = j
  <2>1. /\ q \in Seq(Tasks) /\ q # <<>>
        /\ \A i \in DOMAIN waiters : i \in DOMAIN q /\ q[i] = waiters[i]
        /\ Len(q) \in DOMAIN q /\ q[Len(q)] = t
        /\ \A i \in DOMAIN q : i \in DOMAIN waiters \/ i = Len(q)
    BY <1>1, AppendAt
  <2> HIDE DEF q
  <2> QED BY <2>1
<1>6. \/ waiters' = q /\ releasing' = releasing
      \/ waiters' = <<>> /\ releasing' = [releasing EXCEPT ![t] = q]
  OBVIOUS
<1> HIDE DEF q
<1>7. /\ waiters' \in Seq(Tasks) /\ releasing' \in [Tasks -> Seq(Tasks)]
      /\ barrierOp' \in [Tasks -> {"none", "waiting"}]
  <2>1. barrierOp' \in [Tasks -> {"none", "waiting"}] BY <1>1, <1>2
  <2>2. CASE waiters' = q /\ releasing' = releasing BY <1>1, <1>5, <2>1, <2>2
  <2>3. CASE waiters' = <<>> /\ releasing' = [releasing EXCEPT ![t] = q]
    BY <1>1, <1>5, <2>1, <2>3
  <2> QED BY <1>6, <2>2, <2>3
<1>8. PICK home \in {NoTask, t} :
        /\ List(home)' = q
        /\ \A s \in Lists : s # home => List(s)' = <<>> \/ (List(s)' = List(s) /\ s # NoTask)
        /\ \A s \in Tasks : s # t => List(s)' = List(s)
  <2>1. CASE waiters' = q /\ releasing' = releasing
    <3>1. List(NoTask)' = q /\ \A s \in Tasks : List(s)' = List(s)
      BY <1>1, <2>1 DEF List
    <3> QED BY <1>1, <3>1 DEF Lists
  <2>2. CASE waiters' = <<>> /\ releasing' = [releasing EXCEPT ![t] = q]
    <3>1. /\ List(NoTask)' = <<>> /\ List(t)' = q
          /\ \A s \in Tasks : s # t => List(s)' = List(s)
      BY <1>1, <2>2 DEF List
    <3> QED BY <1>1, <3>1 DEF Lists
  <2> QED BY <1>6, <2>1, <2>2
<1>9. home \in Lists /\ NoTask \in Lists /\ List(NoTask) = waiters /\ List(t) = <<>>
  BY <1>1, <1>4 DEF Lists, List
<1>10. \A s \in Lists : s # home => \A i \in DOMAIN List(s)' :
            i \in DOMAIN List(s) /\ List(s)'[i] = List(s)[i] /\ s # NoTask
  BY <1>8
<1>11. \A s \in Lists : \A i \in DOMAIN List(s)' : barrierOp'[List(s)'[i]] = "waiting"
  <2> SUFFICES ASSUME NEW s \in Lists, NEW i \in DOMAIN List(s)'
               PROVE  barrierOp'[List(s)'[i]] = "waiting"
    OBVIOUS
  <2>1. List(s)'[i] = t \/ (\E u \in Lists : \E j \in DOMAIN List(u) : List(s)'[i] = List(u)[j])
    BY <1>5, <1>8, <1>9, <1>10
  <2> QED BY <1>1, <1>2, <1>3, <2>1 DEF BarrierInv
<1>12. \A s, u \in Lists : \A i \in DOMAIN List(s)' : \A j \in DOMAIN List(u)' :
            List(s)'[i] = List(u)'[j] => s = u /\ i = j
  <2> SUFFICES ASSUME NEW s \in Lists, NEW u \in Lists,
                      NEW i \in DOMAIN List(s)', NEW j \in DOMAIN List(u)',
                      List(s)'[i] = List(u)'[j]
               PROVE  s = u /\ i = j
    OBVIOUS
  <2>1. CASE s = home /\ u = home
    BY <1>3, <1>5, <1>8, <1>9, <2>1 DEF BarrierInv
  <2>2. CASE s = home /\ u # home
    BY <1>3, <1>5, <1>8, <1>9, <1>10, <2>2 DEF BarrierInv
  <2>3. CASE s # home /\ u = home
    BY <1>3, <1>5, <1>8, <1>9, <1>10, <2>3 DEF BarrierInv
  <2>4. CASE s # home /\ u # home
    BY <1>10, <2>4 DEF BarrierInv
  <2> QED BY <2>1, <2>2, <2>3, <2>4
<1>13. \A u \in Tasks : barrierOp'[u] = "waiting" =>
            \E s \in Lists : \E i \in DOMAIN List(s)' : List(s)'[i] = u
  <2> SUFFICES ASSUME NEW u \in Tasks, barrierOp'[u] = "waiting"
               PROVE  \E s \in Lists : \E i \in DOMAIN List(s)' : List(s)'[i] = u
    OBVIOUS
  <2>1. CASE u = t BY <1>5, <1>8, <1>9, <2>1
  <2>2. CASE u # t
    <3>1. barrierOp[u] = "waiting" BY <1>1, <1>2, <2>2
    <3>2. PICK s \in Lists : \E i \in DOMAIN List(s) : List(s)[i] = u
      BY <3>1 DEF BarrierInv
    <3>3. CASE s = NoTask BY <1>5, <1>8, <1>9, <3>2, <3>3
    <3>4. CASE s # NoTask
      <4>1. s \in Tasks /\ s # t BY <1>9, <3>2, <3>4 DEF Lists
      <4> QED BY <1>8, <3>2, <4>1
    <3> QED BY <3>3, <3>4
  <2> QED BY <2>1, <2>2
<1>14. \A s \in Tasks : releasing'[s] # <<>> => releasing'[s][Len(releasing'[s])] = s
  BY <1>1, <1>5, <1>6 DEF BarrierInv
<1> QED BY <1>2, <1>7, <1>11, <1>12, <1>13, <1>14 DEF BarrierInv, Barrier!TypeOK, Lists

(* The first of a list is completed and leaves it. *)
LEMMA CompleteBarrierInv ==
    ASSUME IInv, NEW t \in Tasks, Barrier!CompleteNext(t)
    PROVE  /\ BarrierInv' /\ Barrier!TypeOK'
           /\ Head(releasing[t]) \in Tasks /\ barrierOp[Head(releasing[t])] = "waiting"
           /\ barrierOp' = [barrierOp EXCEPT ![Head(releasing[t])] = "none"]
<1> USE DEF IInv, Barrier!CompleteNext
<1>1. /\ waiters \in Seq(Tasks) /\ releasing \in [Tasks -> Seq(Tasks)]
      /\ barrierOp \in [Tasks -> {"none", "waiting"}] /\ NoTask \notin Tasks
  BY NoTaskAssumption DEF TypeOK, Barrier!TypeOK
<1> DEFINE q == releasing[t]  h == Head(q)
<1>2. /\ q \in Seq(Tasks) /\ q # <<>> /\ t \in Lists /\ List(t) = q
      /\ waiters' = waiters /\ releasing' = [releasing EXCEPT ![t] = Tail(q)]
      /\ barrierOp' = [barrierOp EXCEPT ![h] = "none"]
  BY <1>1 DEF List, Lists
<1>3. /\ h \in Tasks /\ h = q[1] /\ 1 \in DOMAIN q /\ Tail(q) \in Seq(Tasks)
      /\ \A i \in DOMAIN Tail(q) : i \in Nat /\ i >= 1 /\ i + 1 \in DOMAIN q
               /\ Tail(q)[i] = q[i + 1]
      /\ \A i \in DOMAIN q : i \in Nat
               /\ (i # 1 => i - 1 \in DOMAIN Tail(q) /\ Tail(q)[i - 1] = q[i])
      /\ Tail(q) # <<>> => Tail(q)[Len(Tail(q))] = q[Len(q)]
  BY <1>2, TailAt
<1> HIDE DEF q, h
<1>4. /\ List(t)' = Tail(q)
      /\ \A s \in Lists : s # t => List(s)' = List(s)
      /\ waiters' \in Seq(Tasks) /\ releasing' \in [Tasks -> Seq(Tasks)]
      /\ barrierOp' \in [Tasks -> {"none", "waiting"}]
  BY <1>1, <1>2, <1>3 DEF List, Lists
<1>5. barrierOp[h] = "waiting" BY <1>2, <1>3 DEF BarrierInv
<1>6. \A s \in Lists : \A i \in DOMAIN List(s)' :
        \E j \in DOMAIN List(s) :
            /\ List(s)'[i] = List(s)[j]
            /\ j = IF s = t THEN i + 1 ELSE i
            /\ s = t => i \in Nat /\ i >= 1
            /\ List(s)[j] # h
  <2> SUFFICES ASSUME NEW s \in Lists, NEW i \in DOMAIN List(s)'
               PROVE  \E j \in DOMAIN List(s) :
                        /\ List(s)'[i] = List(s)[j]
                        /\ j = IF s = t THEN i + 1 ELSE i
                        /\ s = t => i \in Nat /\ i >= 1
                        /\ List(s)[j] # h
    OBVIOUS
  <2>1. CASE s = t
    <3>1. i \in Nat /\ i >= 1 /\ i + 1 \in DOMAIN q /\ List(s)'[i] = q[i + 1]
      BY <1>3, <1>4, <2>1
    <3>2. q[i + 1] # h BY <1>2, <1>3, <3>1 DEF BarrierInv
    <3> QED BY <1>2, <2>1, <3>1, <3>2
  <2>2. CASE s # t
    <3>1. i \in DOMAIN List(s) /\ List(s)'[i] = List(s)[i] BY <1>4, <2>2
    <3>2. List(s)[i] # h BY <1>2, <1>3, <2>2, <3>1 DEF BarrierInv
    <3> QED BY <2>2, <3>1, <3>2
  <2> QED BY <2>1, <2>2
<1>7. \A s \in Lists : \A i \in DOMAIN List(s)' : barrierOp'[List(s)'[i]] = "waiting"
  <2> SUFFICES ASSUME NEW s \in Lists, NEW i \in DOMAIN List(s)'
               PROVE  barrierOp'[List(s)'[i]] = "waiting"
    OBVIOUS
  <2>1. PICK j \in DOMAIN List(s) : List(s)'[i] = List(s)[j] /\ List(s)[j] # h
    BY <1>6
  <2>2. barrierOp[List(s)[j]] = "waiting" /\ List(s)[j] \in Tasks
    BY <1>1 DEF BarrierInv, List, Lists
  <2> QED BY <1>1, <1>2, <2>1, <2>2
<1>8. \A s, u \in Lists : \A i \in DOMAIN List(s)' : \A j \in DOMAIN List(u)' :
            List(s)'[i] = List(u)'[j] => s = u /\ i = j
  <2> SUFFICES ASSUME NEW s \in Lists, NEW u \in Lists,
                      NEW i \in DOMAIN List(s)', NEW j \in DOMAIN List(u)',
                      List(s)'[i] = List(u)'[j]
               PROVE  s = u /\ i = j
    OBVIOUS
  <2>1. PICK k \in DOMAIN List(s) :
            /\ List(s)'[i] = List(s)[k]
            /\ k = IF s = t THEN i + 1 ELSE i
            /\ s = t => i \in Nat /\ i >= 1
    BY <1>6
  <2>2. PICK l \in DOMAIN List(u) :
            /\ List(u)'[j] = List(u)[l]
            /\ l = IF u = t THEN j + 1 ELSE j
            /\ u = t => j \in Nat /\ j >= 1
    BY <1>6
  <2>3. List(s)[k] = List(u)[l] BY <2>1, <2>2
  <2>4. s = u /\ k = l BY <2>3 DEF BarrierInv
  <2> QED BY <2>1, <2>2, <2>4
<1>9. \A u \in Tasks : barrierOp'[u] = "waiting" =>
            \E s \in Lists : \E i \in DOMAIN List(s)' : List(s)'[i] = u
  <2> SUFFICES ASSUME NEW u \in Tasks, barrierOp'[u] = "waiting"
               PROVE  \E s \in Lists : \E i \in DOMAIN List(s)' : List(s)'[i] = u
    OBVIOUS
  <2>1. u # h /\ barrierOp[u] = "waiting" BY <1>1, <1>2, <1>3
  <2>2. PICK s \in Lists : \E i \in DOMAIN List(s) : List(s)[i] = u
    BY <2>1 DEF BarrierInv
  <2>5. PICK i \in DOMAIN List(s) : List(s)[i] = u BY <2>2
  <2>3. CASE s = t
    <3>1. i \in DOMAIN q /\ q[i] = u /\ i # 1 BY <1>2, <1>3, <2>1, <2>5, <2>3
    <3>2. i - 1 \in DOMAIN List(t)' /\ List(t)'[i - 1] = u BY <1>3, <1>4, <3>1
    <3> QED BY <1>2, <3>2
  <2>4. CASE s # t BY <1>4, <2>5, <2>4
  <2> QED BY <2>3, <2>4
<1>10. \A s \in Tasks : releasing'[s] # <<>> => releasing'[s][Len(releasing'[s])] = s
  BY <1>1, <1>2, <1>3 DEF BarrierInv, q
<1> QED BY <1>2, <1>3, <1>4, <1>5, <1>7, <1>8, <1>9, <1>10 DEF BarrierInv, Barrier!TypeOK,
      Lists, q, h
-----------------------------------------------------------------------------
(* What the other parts of the invariant are about, a step on one of the
   shared objects leaves alone. *)
LEMMA RestIsKept ==
           /\ IInv /\ UNCHANGED matchVars =>
                Match!TypeOK' /\ WaiterIsPaired'
                /\ \A t \in Tasks : matchOp'[t] # "terminated"
           /\ IInv /\ UNCHANGED fdioVars =>
                Fdio!TypeOK' /\ WaiterIsKnown' /\ \A t \in Tasks : fdioOp'[t] # "terminated"
           /\ IInv /\ UNCHANGED barrierVars => Barrier!TypeOK' /\ BarrierInv'
           /\ MutexProofs!IInv' => Mutex!TypeOK'
<1>1. ASSUME IInv, UNCHANGED matchVars
      PROVE  Match!TypeOK' /\ WaiterIsPaired' /\ \A t \in Tasks : matchOp'[t] # "terminated"
  BY <1>1 DEF IInv, TypeOK, matchVars, Match!TypeOK, WaiterIsPaired, Match!WaiterIsPaired,
        SingleAwaiter, Match!OpStates
<1>2. ASSUME IInv, UNCHANGED fdioVars
      PROVE  Fdio!TypeOK' /\ WaiterIsKnown' /\ \A t \in Tasks : fdioOp'[t] # "terminated"
  BY <1>2 DEF IInv, TypeOK, fdioVars, Fdio!TypeOK, WaiterIsKnown, Fdio!WaiterIsKnown,
        SingleAwaiter, Fdio!OpStates
<1>3. ASSUME IInv, UNCHANGED barrierVars
      PROVE  Barrier!TypeOK' /\ BarrierInv'
  BY <1>3 DEF IInv, TypeOK, barrierVars, Barrier!TypeOK, BarrierInv, List
<1>4. MutexProofs!IInv => Mutex!TypeOK
  BY DEF MutexProofs!IInv, MutexProofs!TypeOK, Mutex!TypeOK, MutexProofs!TaskStates,
        Mutex!TaskStates
<1>5. MutexProofs!IInv' => Mutex!TypeOK'
  BY DEF MutexProofs!IInv, MutexProofs!TypeOK, Mutex!TypeOK, MutexProofs!TaskStates,
        Mutex!TaskStates
<1> QED BY <1>1, <1>2, <1>3, <1>5

(* A task that reaches the barrier waits there; the one that is completed
   goes on to the lock. *)
LEMMA BarrierIInv ==
    ASSUME IInv, NEW t \in Tasks, ReachBarrier(t) \/ PassBarrier(t)
    PROVE  IInv'
<1>1. MutexProofs!IInv' BY MutexIInv DEF IInv, Next, Proceed
<1>2. UNCHANGED <<mutexVars, matchVars, fdioVars>> BY DEF ReachBarrier, PassBarrier
<1>3. \/ /\ at[t] = "arriving" /\ at' = at
         /\ barrierOp' = [barrierOp EXCEPT ![t] = "waiting"]
      \/ \E h \in Tasks :
            /\ barrierOp[h] = "waiting" /\ at' = [at EXCEPT ![h] = "locking"]
            /\ barrierOp' = [barrierOp EXCEPT ![h] = "none"]
  BY StartBarrierInv, CompleteBarrierInv DEF ReachBarrier, PassBarrier, Move
<1>4. BarrierInv' /\ Barrier!TypeOK'
  BY StartBarrierInv, CompleteBarrierInv DEF ReachBarrier, PassBarrier
<1>5. at' \in [Tasks -> Places]
  BY <1>3 DEF IInv, TypeOK, Places
<1>6. PlaceInv'
  BY <1>2, <1>3 DEF IInv, PlaceInv, TypeOK, Barrier!TypeOK, mutexVars, matchVars, fdioVars
<1> QED BY <1>1, <1>2, <1>4, <1>5, <1>6, RestIsKept DEF IInv, TypeOK, SingleAwaiter

(* The steps of the mutex keep to the places from which its guard is locked,
   used and destroyed. *)
LEMMA MutexStepIInv ==
    ASSUME IInv, NEW t \in Tasks,
           LockMutex(t) \/ RunMutex(t) \/ UnlockMutex(t) \/ LeaveMutex(t)
    PROVE  IInv'
<1> USE DEF LockMutex, RunMutex, UnlockMutex, LeaveMutex
<1>1. MutexProofs!IInv' BY MutexIInv DEF IInv, Next, Proceed
<1>2. UNCHANGED <<barrierVars, matchVars, fdioVars>> OBVIOUS
<1>3. pc \in [Tasks -> Mutex!TaskStates] /\ at \in [Tasks -> Places]
  BY DEF IInv, TypeOK, Mutex!TypeOK
<1> USE DEF Mutex!Goto, Move, PlaceInv
<1>4. /\ \A u \in Tasks : u # t => at'[u] = at[u]
      /\ at' \in [Tasks -> Places]
      /\ \A u \in Tasks : at'[u] = "awaiting" <=> at[u] = "awaiting"
  BY <1>3 DEF IInv, Places, Mutex!ClearOwned
<1>5. \A u \in Tasks :
        /\ at'[u] \in {"arriving", "ended"} => pc'[u] = "idle"
        /\ at'[u] = "locking" => pc'[u] \notin {"handoff", "clear"}
        /\ at'[u] = "awaiting" => pc'[u] = "held"
        /\ at'[u] \in {"leaving", "stopping"} => pc'[u] \in {"held", "handoff", "clear"}
        /\ at'[u] = "arriving" \/ at[u] # "arriving"
  <2> USE <1>3 DEF IInv
  <2>1. CASE LockMutex(t) BY <2>1 DEF Mutex!Lock
  <2>2. CASE RunMutex(t)
    <3>1. CASE Mutex!Start(t) BY <2>2, <3>1 DEF Mutex!Start
    <3>2. CASE Mutex!Complete(t) BY <2>2, <3>2 DEF Mutex!Complete
    <3>3. CASE Mutex!CompleteWaiter(t) BY <2>2, <3>3 DEF Mutex!CompleteWaiter
    <3> QED BY <2>2, <3>1, <3>2, <3>3
  <2>3. CASE UnlockMutex(t)
    <3>1. CASE Mutex!UnlockToWaiter(t)
      <4>1. PICK w \in Tasks :
                /\ pc[w] = "waiting"
                /\ pc' = [pc EXCEPT ![t] = "handoff", ![w] = "popped"]
        BY <3>1, TailAt DEF Mutex!UnlockToWaiter, MutexProofs!IInv,
              MutexProofs!QueueOfWaiters, MutexProofs!TypeOK
      <4> QED BY <2>3, <4>1
    <3>2. CASE Mutex!UnlockLast(t)
      <4>1. locked
        BY <3>2 DEF Mutex!UnlockLast, MutexProofs!IInv, MutexProofs!LockedWhileGranted,
            MutexProofs!Granted
      <4> QED BY <2>3, <3>2, <4>1 DEF Mutex!UnlockLast
    <3> QED BY <2>3, <3>1, <3>2
  <2>4. CASE LeaveMutex(t) BY <2>4 DEF Mutex!ClearOwned
  <2> QED BY <2>1, <2>2, <2>3, <2>4
<1>6. PlaceInv'
  BY <1>2, <1>4, <1>5 DEF IInv, barrierVars, matchVars, fdioVars
<1> QED BY <1>1, <1>2, <1>4, <1>6, RestIsKept DEF IInv, TypeOK, SingleAwaiter
-----------------------------------------------------------------------------
(* Signals arrive, or the match is destroyed, or the task goes on: no task
   starts to await the match, and the one that does is stopped or gets the
   first message. *)
LEMMA MatchIInv ==
    ASSUME IInv, RunMatch \/ \E t \in Tasks : AwaitMatch(t) \/ LeaveMatch(t)
    PROVE  IInv'
<1>1. MutexProofs!IInv' BY MutexIInv DEF IInv, Next, Proceed
<1>2. UNCHANGED <<barrierVars, mutexVars, fdioVars>>
  BY DEF RunMatch, AwaitMatch, LeaveMatch
<1> USE NoTaskAssumption, NoMessageAssumption
<1>3. /\ matchOp \in [Tasks -> Match!OpStates] /\ queue \in Seq(Messages)
      /\ message \in [Tasks -> Messages \cup {NoMessage}]
      /\ received \in Messages \cup {NoMessage} /\ destroyed \in BOOLEAN
      /\ matchComplete \in Tasks \cup {NoTask} /\ at \in [Tasks -> Places]
  BY DEF IInv, TypeOK, Match!TypeOK
<1>4. ASSUME NEW t \in Tasks, AwaitMatch(t)
      PROVE  matchOp[t] = "none" /\ matchComplete = NoTask /\ fdioOp[t] = "none"
  <2>1. at[t] = "locking" /\ pc[t] = "held" /\ matchOp[t] = "none"
    BY <1>4 DEF AwaitMatch, Match!Start
  <2>2. fdioOp[t] = "none" BY <2>1 DEF IInv, PlaceInv
  <2>3. ASSUME matchComplete # NoTask PROVE FALSE
    <3>1. matchComplete \in Tasks /\ matchOp[matchComplete] = "waiting"
      BY <1>3, <2>3 DEF IInv, WaiterIsPaired, Match!WaiterIsPaired
    <3>2. at[matchComplete] = "awaiting" BY <3>1 DEF IInv, PlaceInv
    <3>3. matchComplete = t BY <2>1, <3>1, <3>2, OneAwaits
    <3> QED BY <2>1, <3>2, <3>3
  <2> QED BY <2>1, <2>2, <2>3
<1> USE DEF Match!OpStates
<1>5. ASSUME NEW waiter \in Tasks \cup {NoTask}, NEW messages \in Seq(Messages),
             Match!HandleCompletion(waiter, messages),
             waiter # NoTask => matchOp[waiter] \in {"none", "waiting"},
             matchComplete \in {waiter, NoTask}
      PROVE  /\ matchOp' \in [Tasks -> Match!OpStates] /\ queue' \in Seq(Messages)
             /\ message' \in [Tasks -> Messages \cup {NoMessage}]
             /\ matchComplete' \in Tasks \cup {NoTask}
             /\ WaiterIsPaired'
             /\ \A t \in Tasks : matchOp'[t] # "terminated"
             /\ \A t \in Tasks : t # waiter => matchOp'[t] = matchOp[t]
  <2>1. CASE waiter = NoTask \/ messages = <<>>
    BY <1>3, <1>5, <2>1 DEF Match!HandleCompletion, IInv, WaiterIsPaired,
          Match!WaiterIsPaired, SingleAwaiter
  <2>2. CASE ~(waiter = NoTask \/ messages = <<>>)
    <3>1. /\ matchComplete' = NoTask /\ queue' = Tail(messages)
          /\ matchOp' = [matchOp EXCEPT ![waiter] = "taken"]
          /\ message' = [message EXCEPT ![waiter] = Head(messages)]
          /\ Head(messages) \in Messages /\ Tail(messages) \in Seq(Messages)
          /\ waiter \in Tasks
      BY <1>5, <2>2 DEF Match!HandleCompletion
    <3> QED BY <1>3, <1>5, <3>1 DEF IInv, WaiterIsPaired, Match!WaiterIsPaired, SingleAwaiter
  <2> QED BY <2>1, <2>2
<1> DEFINE Kept ==
            /\ Match!TypeOK /\ WaiterIsPaired /\ at \in [Tasks -> Places] /\ PlaceInv
            /\ \A t \in Tasks : matchOp[t] # "terminated"
<1> USE DEF Places, barrierVars, mutexVars, fdioVars
<1>6. ASSUME NEW t \in Tasks, AwaitMatch(t) PROVE Kept'
  <2>1. /\ Match!HandleCompletion(t, queue) /\ UNCHANGED <<received, destroyed>>
        /\ at[t] = "locking" /\ pc[t] = "held" /\ at' = [at EXCEPT ![t] = "awaiting"]
    BY <1>4, <1>6 DEF AwaitMatch, Match!Start, Move
  <2>2. /\ matchOp' \in [Tasks -> Match!OpStates] /\ queue' \in Seq(Messages)
        /\ message' \in [Tasks -> Messages \cup {NoMessage}]
        /\ matchComplete' \in Tasks \cup {NoTask}
        /\ WaiterIsPaired'
        /\ \A u \in Tasks : matchOp'[u] # "terminated"
        /\ \A u \in Tasks : u # t => matchOp'[u] = matchOp[u]
    BY <1>3, <1>4, <1>5, <1>6, <2>1
  <2>3. Match!TypeOK' BY <1>3, <2>1, <2>2 DEF Match!TypeOK
  <2>4. PlaceInv'
    BY <1>2, <1>3, <1>4, <1>6, <2>1, <2>2 DEF IInv, PlaceInv
  <2> QED BY <1>3, <2>1, <2>2, <2>3, <2>4
<1>7. ASSUME Match!HandleMatch, UNCHANGED at PROVE Kept'
  <2>1. PICK m \in Messages : Match!HandleCompletion(matchComplete, Append(queue, m))
    BY <1>7 DEF Match!HandleMatch
  <2>2. Append(queue, m) \in Seq(Messages) /\ UNCHANGED <<received, destroyed>>
    BY <1>3, <1>7 DEF Match!HandleMatch
  <2>3. matchComplete # NoTask => matchOp[matchComplete] = "waiting"
    BY <1>3 DEF IInv, WaiterIsPaired, Match!WaiterIsPaired
  <2>4. /\ matchOp' \in [Tasks -> Match!OpStates] /\ queue' \in Seq(Messages)
        /\ message' \in [Tasks -> Messages \cup {NoMessage}]
        /\ matchComplete' \in Tasks \cup {NoTask}
        /\ WaiterIsPaired'
        /\ \A u \in Tasks : matchOp'[u] # "terminated"
        /\ \A u \in Tasks : u # matchComplete => matchOp'[u] = matchOp[u]
    BY <1>3, <1>5, <2>1, <2>2, <2>3
  <2>5. Match!TypeOK' BY <1>3, <2>2, <2>4 DEF Match!TypeOK
  <2>6. \A u \in Tasks : matchOp'[u] # "none" => matchOp[u] # "none"
    BY <2>3, <2>4
  <2>7. PlaceInv' BY <1>2, <1>7, <2>6 DEF IInv, PlaceInv
  <2> QED BY <1>3, <1>7, <2>4, <2>5, <2>7
<1>8. ASSUME Match!Destroy, UNCHANGED at PROVE Kept'
  <2>1. matchComplete # NoTask => matchOp[matchComplete] = "waiting"
    BY <1>3 DEF IInv, WaiterIsPaired, Match!WaiterIsPaired
  <2>2. /\ matchOp' \in [Tasks -> Match!OpStates]
        /\ \A u \in Tasks : matchOp'[u] = IF u = matchComplete THEN "stopping" ELSE matchOp[u]
    BY <1>3, <1>8 DEF Match!Destroy
  <2>3. Match!TypeOK'
    BY <1>3, <1>8, <2>2 DEF Match!Destroy, Match!TypeOK
  <2>4. WaiterIsPaired'
    BY <1>8, <2>2 DEF Match!Destroy, IInv, WaiterIsPaired, Match!WaiterIsPaired
  <2>5. PlaceInv' BY <1>2, <1>8, <2>1, <2>2 DEF IInv, PlaceInv
  <2> QED BY <1>3, <1>8, <2>2, <2>3, <2>4, <2>5 DEF IInv, SingleAwaiter
<1>9. ASSUME NEW t \in Tasks, Match!Signal(t), UNCHANGED at PROVE Kept'
  <2>1. PICK label \in {"value", "stopped"} :
            /\ matchOp[t] \in {"taken", "stopping"}
                     /\ matchOp' = [matchOp EXCEPT ![t] = label]
    BY <1>9 DEF Match!Signal
  <2>2. UNCHANGED <<queue, matchComplete, destroyed>>
    BY <1>9 DEF Match!Signal
  <2>3. received' \in Messages \cup {NoMessage}
           /\ message' \in [Tasks -> Messages \cup {NoMessage}]
    BY <1>3, <1>9 DEF Match!Signal
  <2>4. Match!TypeOK' BY <1>3, <2>1, <2>2, <2>3 DEF Match!TypeOK
  <2>5. WaiterIsPaired'
    BY <1>3, <2>1, <2>2 DEF IInv, WaiterIsPaired, Match!WaiterIsPaired
  <2>6. PlaceInv' BY <1>2, <1>3, <1>9, <2>1 DEF IInv, PlaceInv
  <2> QED BY <1>3, <1>9, <2>1, <2>4, <2>5, <2>6 DEF IInv, SingleAwaiter
<1>10. ASSUME NEW t \in Tasks, LeaveMatch(t) PROVE Kept'
  <2>1. /\ matchOp[t] \in {"value", "stopped"} /\ matchOp' = [matchOp EXCEPT ![t] = "none"]
        /\ UNCHANGED <<message, received, queue, matchComplete, destroyed>>
    BY <1>10 DEF LeaveMatch, Match!Resume
  <2>2. PICK place \in {"leaving", "stopping"} : at' = [at EXCEPT ![t] = place]
    BY <1>10 DEF LeaveMatch, Move
  <2>3. Match!TypeOK' BY <1>3, <2>1 DEF Match!TypeOK
  <2>4. WaiterIsPaired'
    BY <1>3, <2>1 DEF IInv, WaiterIsPaired, Match!WaiterIsPaired
  <2>5. PlaceInv' BY <1>2, <1>3, <2>1, <2>2 DEF IInv, PlaceInv
  <2> QED BY <1>3, <2>1, <2>2, <2>3, <2>4, <2>5 DEF IInv, SingleAwaiter
<1>11. Kept' BY <1>6, <1>7, <1>8, <1>9, <1>10 DEF RunMatch
<1> QED BY <1>1, <1>2, <1>11, RestIsKept DEF IInv, TypeOK, SingleAwaiter

(* The event loop and its timers may take the operation of the fdio, and only
   the task that has the lock gives it another. *)
LEMMA FdioIInv ==
    ASSUME IInv, RunFdio \/ \E t \in Tasks : AwaitFdio(t) \/ LeaveFdio(t)
    PROVE  IInv'
<1>1. MutexProofs!IInv' BY MutexIInv DEF IInv, Next, Proceed
<1>2. UNCHANGED <<barrierVars, mutexVars, matchVars>>
  BY DEF RunFdio, AwaitFdio, LeaveFdio
<1> USE NoTaskAssumption
<1>3. /\ fdioOp \in [Tasks -> Fdio!OpStates] /\ starting \in [Tasks -> BOOLEAN]
      /\ timer \in [Tasks -> {"none", "armed", "elapsed"}]
      /\ fdioComplete \in Tasks \cup {NoTask} /\ at \in [Tasks -> Places]
      /\ timed \in BOOLEAN /\ data \in BOOLEAN /\ ready \in BOOLEAN
  BY DEF IInv, TypeOK, Fdio!TypeOK
<1> DEFINE Kept ==
            /\ Fdio!TypeOK /\ WaiterIsKnown /\ at \in [Tasks -> Places] /\ PlaceInv
            /\ \A t \in Tasks : fdioOp[t] # "terminated"
<1> USE DEF Places, Fdio!OpStates, barrierVars, mutexVars, matchVars
<1>4. ASSUME NEW t \in Tasks, AwaitFdio(t) PROVE Kept'
  <2>1. at[t] = "locking" /\ pc[t] = "held" /\ fdioOp[t] = "none"
    BY <1>4 DEF AwaitFdio, Fdio!Start
  <2>2. matchOp[t] = "none" BY <2>1 DEF IInv, PlaceInv
  <2>3. fdioComplete = NoTask
    <3> SUFFICES ASSUME fdioComplete # NoTask PROVE FALSE OBVIOUS
    <3>1. fdioComplete \in Tasks /\ fdioOp[fdioComplete] = "waiting"
      BY <1>3 DEF IInv, WaiterIsKnown, Fdio!WaiterIsKnown
    <3>2. at[fdioComplete] = "awaiting" BY <3>1 DEF IInv, PlaceInv
    <3>3. fdioComplete = t BY <2>1, <3>1, <3>2, OneAwaits
    <3> QED BY <2>1, <3>2, <3>3
  <2>4. /\ fdioComplete' = t /\ fdioOp' = [fdioOp EXCEPT ![t] = "waiting"]
        /\ starting' = [starting EXCEPT ![t] = timed]
        /\ UNCHANGED <<timer, timed, data, ready>>
        /\ at' = [at EXCEPT ![t] = "awaiting"]
    BY <1>4, <2>3 DEF AwaitFdio, Fdio!Start, Move
  <2>5. Fdio!TypeOK' BY <1>3, <2>4 DEF Fdio!TypeOK
  <2>6. WaiterIsKnown'
    BY <1>3, <2>3, <2>4 DEF IInv, WaiterIsKnown, Fdio!WaiterIsKnown
  <2>7. PlaceInv' BY <1>2, <1>3, <2>1, <2>2, <2>4 DEF IInv, PlaceInv
  <2> QED BY <1>3, <2>4, <2>5, <2>6, <2>7 DEF IInv, SingleAwaiter
<1>5. ASSUME NEW result \in {"data", "late"}, Fdio!Take(result)
      PROVE  /\ fdioOp' \in [Tasks -> Fdio!OpStates] /\ fdioComplete' = NoTask
             /\ WaiterIsKnown'
             /\ \A t \in Tasks : fdioOp'[t] # "terminated"
             /\ \A t \in Tasks : fdioOp'[t] = "none" <=> fdioOp[t] = "none"
  <2>1. CASE fdioComplete = NoTask
    BY <1>3, <1>5, <2>1 DEF Fdio!Take, IInv, WaiterIsKnown, Fdio!WaiterIsKnown, SingleAwaiter
  <2>2. CASE fdioComplete # NoTask
    <3>1. /\ fdioComplete \in Tasks /\ fdioOp[fdioComplete] = "waiting"
          /\ fdioOp' = [fdioOp EXCEPT ![fdioComplete] = result] /\ fdioComplete' = NoTask
      BY <1>3, <1>5, <2>2 DEF Fdio!Take, IInv, WaiterIsKnown, Fdio!WaiterIsKnown
    <3> QED BY <1>3, <3>1 DEF IInv, WaiterIsKnown, Fdio!WaiterIsKnown, SingleAwaiter
  <2> QED BY <2>1, <2>2
<1>6. ASSUME Fdio!Arrive \/ Fdio!Poll, UNCHANGED at PROVE Kept'
  <2>1. /\ UNCHANGED <<fdioOp, starting, timer, fdioComplete, timed>>
        /\ data' \in BOOLEAN /\ ready' \in BOOLEAN
    BY <1>3, <1>6 DEF Fdio!Arrive, Fdio!Poll
  <2>2. Fdio!TypeOK' BY <1>3, <2>1 DEF Fdio!TypeOK
  <2>3. WaiterIsKnown' BY <2>1 DEF IInv, WaiterIsKnown, Fdio!WaiterIsKnown
  <2>4. PlaceInv' BY <1>2, <1>6, <2>1 DEF IInv, PlaceInv
  <2> QED BY <1>3, <1>6, <2>1, <2>2, <2>3, <2>4 DEF IInv, SingleAwaiter
<1>7. ASSUME Fdio!HandleEvent, UNCHANGED at PROVE Kept'
  <2>1. Fdio!Take("data") /\ UNCHANGED <<starting, timer, timed, data>> /\ ready' = FALSE
    BY <1>7 DEF Fdio!HandleEvent
  <2>2. /\ fdioOp' \in [Tasks -> Fdio!OpStates] /\ fdioComplete' = NoTask
        /\ WaiterIsKnown'
        /\ \A t \in Tasks : fdioOp'[t] # "terminated"
        /\ \A t \in Tasks : fdioOp'[t] = "none" <=> fdioOp[t] = "none"
    BY <1>5, <2>1
  <2>3. Fdio!TypeOK' BY <1>3, <2>1, <2>2 DEF Fdio!TypeOK
  <2>4. PlaceInv' BY <1>2, <1>7, <2>1, <2>2 DEF IInv, PlaceInv
  <2> QED BY <1>3, <1>7, <2>2, <2>3, <2>4
<1>8. ASSUME NEW t \in Tasks, Fdio!HandleTimeout(t), UNCHANGED at PROVE Kept'
  <2>1. /\ timer[t] = "elapsed" /\ timer' = [timer EXCEPT ![t] = "none"]
        /\ Fdio!Take(IF data THEN "data" ELSE "late")
        /\ UNCHANGED <<starting, timed, data, ready>>
    BY <1>8 DEF Fdio!HandleTimeout
  <2>2. /\ fdioOp' \in [Tasks -> Fdio!OpStates] /\ fdioComplete' = NoTask
        /\ WaiterIsKnown'
        /\ \A u \in Tasks : fdioOp'[u] # "terminated"
        /\ \A u \in Tasks : fdioOp'[u] = "none" <=> fdioOp[u] = "none"
    BY <1>5, <2>1
  <2>3. Fdio!TypeOK' BY <1>3, <2>1, <2>2 DEF Fdio!TypeOK
  <2>4. PlaceInv' BY <1>2, <1>3, <1>8, <2>1, <2>2 DEF IInv, PlaceInv
  <2> QED BY <1>3, <1>8, <2>2, <2>3, <2>4
<1>9. ASSUME NEW t \in Tasks, Fdio!AddTimer(t) \/ Fdio!Elapse(t), UNCHANGED at PROVE Kept'
  <2>1. /\ UNCHANGED <<fdioOp, fdioComplete, timed, data, ready>>
        /\ starting' \in [Tasks -> BOOLEAN]
        /\ timer' \in [Tasks -> {"none", "armed", "elapsed"}]
        /\ \A u \in Tasks : timer'[u] # "none" \/ starting'[u] =>
                 timer[u] # "none" \/ starting[u]
    BY <1>3, <1>9 DEF Fdio!AddTimer, Fdio!Elapse
  <2>2. Fdio!TypeOK' BY <1>3, <2>1 DEF Fdio!TypeOK
  <2>3. WaiterIsKnown' BY <2>1 DEF IInv, WaiterIsKnown, Fdio!WaiterIsKnown
  <2>4. PlaceInv' BY <1>2, <1>9, <2>1 DEF IInv, PlaceInv
  <2> QED BY <1>3, <1>9, <2>1, <2>2, <2>3, <2>4 DEF IInv, SingleAwaiter
<1>10. ASSUME NEW t \in Tasks, Fdio!Signal(t), UNCHANGED at PROVE Kept'
  <2>1. PICK label \in {"value", "error"} :
            fdioOp[t] \in {"data", "late"} /\ fdioOp' = [fdioOp EXCEPT ![t] = label]
    BY <1>3, <1>10 DEF Fdio!Signal
  <2>2. UNCHANGED <<starting, timer, fdioComplete, timed, data, ready>>
    BY <1>10 DEF Fdio!Signal
  <2>3. Fdio!TypeOK' BY <1>3, <2>1, <2>2 DEF Fdio!TypeOK
  <2>4. WaiterIsKnown' BY <1>3, <2>1, <2>2 DEF IInv, WaiterIsKnown, Fdio!WaiterIsKnown
  <2>5. PlaceInv' BY <1>2, <1>3, <1>10, <2>1, <2>2 DEF IInv, PlaceInv
  <2> QED BY <1>3, <1>10, <2>1, <2>3, <2>4, <2>5 DEF IInv, SingleAwaiter
<1>11. ASSUME NEW t \in Tasks, LeaveFdio(t) PROVE Kept'
  <2>1. /\ fdioOp[t] \in {"value", "error"} /\ ~starting[t]
        /\ fdioOp' = [fdioOp EXCEPT ![t] = "none"]
        /\ timer' = [timer EXCEPT ![t] = "none"]
        /\ data' \in BOOLEAN /\ UNCHANGED <<starting, timed, ready>>
        /\ at' = [at EXCEPT ![t] = "leaving"]
    BY <1>3, <1>11 DEF LeaveFdio, Fdio!Resume, Move
  <2>2. fdioComplete # t /\ fdioComplete' = fdioComplete
    BY <1>11, <2>1 DEF LeaveFdio, Fdio!Resume, IInv, WaiterIsKnown, Fdio!WaiterIsKnown
  <2>3. Fdio!TypeOK' BY <1>3, <2>1, <2>2 DEF Fdio!TypeOK
  <2>4. WaiterIsKnown' BY <1>3, <2>1, <2>2 DEF IInv, WaiterIsKnown, Fdio!WaiterIsKnown
  <2>5. at[t] = "awaiting" /\ pc[t] = "held" /\ matchOp[t] = "none"
           /\ barrierOp[t] # "waiting"
    BY <2>1 DEF IInv, PlaceInv
  <2>6. PlaceInv' BY <1>2, <1>3, <2>1, <2>2, <2>5 DEF IInv, PlaceInv
  <2> QED BY <1>3, <2>1, <2>3, <2>4, <2>6 DEF IInv, SingleAwaiter
<1>12. Kept'
  BY <1>4, <1>6, <1>7, <1>8, <1>9, <1>10, <1>11 DEF RunFdio, Fdio_
<1> QED BY <1>1, <1>2, <1>12, RestIsKept DEF IInv, TypeOK, SingleAwaiter
-----------------------------------------------------------------------------
LEMMA InitIInv == Init => IInv
<1> SUFFICES ASSUME Init PROVE IInv OBVIOUS
<1>1. MutexProofs!IInv
  <2>1. MutexProofs!Init BY DEF Init, Mutex!Init, MutexProofs!Init
  <2> QED BY <2>1, MutexProofs!InitIInv
<1>2. TypeOK
  <2>1. Barrier!TypeOK
    <3>1. <<>> \in Seq(Tasks) OBVIOUS
    <3> QED BY <3>1 DEF Init, Barrier!Init, Barrier!TypeOK
  <2>5. Match!TypeOK
    <3>1. <<>> \in Seq(Messages) OBVIOUS
    <3>2. matchOp \in [Tasks -> Match!OpStates]
             /\ message \in [Tasks -> Messages \cup {NoMessage}]
      BY DEF Init, Match!Init, Match!OpStates
    <3> QED BY <3>1, <3>2 DEF Init, Match!Init, Match!TypeOK
  <2>2. Fdio!TypeOK BY DEF Init, Fdio!Init, Fdio!TypeOK, Fdio!OpStates
  <2>3. Mutex!TypeOK
    BY <1>1 DEF MutexProofs!IInv, MutexProofs!TypeOK, Mutex!TypeOK,
        MutexProofs!TaskStates, Mutex!TaskStates
  <2>4. at \in [Tasks -> Places] BY DEF Init, Places
  <2> QED BY <2>1, <2>2, <2>3, <2>4, <2>5 DEF TypeOK
<1>3. BarrierInv
  <2>1. \A s \in Lists : List(s) = <<>> BY DEF Init, Barrier!Init, Lists, List
  <2> QED BY <2>1 DEF BarrierInv, Init, Barrier!Init
<1>4. PlaceInv
  BY DEF Init, Barrier!Init, Mutex!Init, Match!Init, Fdio!Init, PlaceInv
<1>5. SingleAwaiter /\ WaiterIsPaired /\ WaiterIsKnown
  BY NoTaskAssumption DEF Init, Match!Init, Fdio!Init, SingleAwaiter,
     WaiterIsPaired, Match!WaiterIsPaired, WaiterIsKnown, Fdio!WaiterIsKnown
<1> QED BY <1>1, <1>2, <1>3, <1>4, <1>5 DEF IInv

LEMMA NextIInv == IInv /\ [Next]_vars => IInv'
<1> SUFFICES ASSUME IInv, [Next]_vars PROVE IInv' OBVIOUS
<1>1. CASE UNCHANGED vars
  <2>1. MutexProofs!IInv' BY MutexIInv DEF IInv
  <2>2. at' \in [Tasks -> Places] BY <1>1 DEF vars, IInv, TypeOK
  <2>3. PlaceInv'
    BY <1>1 DEF vars, barrierVars, mutexVars, matchVars, fdioVars, IInv, PlaceInv
  <2> QED BY <1>1, <2>1, <2>2, <2>3, RestIsKept DEF vars, IInv, TypeOK, SingleAwaiter
<1>2. CASE Next
  BY <1>2, BarrierIInv, MutexStepIInv, MatchIInv, FdioIInv DEF Next, Proceed
<1> QED BY <1>1, <1>2
-----------------------------------------------------------------------------
(* In every reachable state: what the barrier, the mutex, the match and the
   fdio know of the tasks, and at which place a task has which operation. *)
THEOREM Invariance == Spec => []IInv
  BY InitIInv, NextIInv, PTL DEF Spec

(* Tasks that await a match or an fdio with the mutex held never come second
   at it, where the program would terminate (match_operation and
   fdio_completion call std::terminate). *)
THEOREM AwaitersAreSingle == Spec => []SingleAwaiter
<1>1. IInv => SingleAwaiter BY DEF IInv
<1> QED BY <1>1, Invariance, PTL

(* Each operation that waits at the barrier is in one place of one list, so
   that barrier_completion::start completes it exactly once. *)
THEOREM WaitersAreListedOnce == Spec => []NoDanglingWaiter
<1>1. IInv => NoDanglingWaiter
  <2> SUFFICES ASSUME IInv, NEW t \in Tasks
               PROVE  IF barrierOp[t] = "waiting"
                      THEN \E p \in Barrier!Pointers(t) : Barrier!Pointers(t) = {p}
                      ELSE Barrier!Pointers(t) = {}
    BY DEF NoDanglingWaiter, Barrier!NoDanglingWaiter
  <2>1. \A p : p \in Barrier!Pointers(t) <=>
            \E s \in Lists : \E i \in DOMAIN List(s) : p = <<s, i>> /\ List(s)[i] = t
    BY NoTaskAssumption DEF Barrier!Pointers, List, Lists
  <2>2. CASE barrierOp[t] = "waiting"
    <3>1. PICK s \in Lists : \E i \in DOMAIN List(s) : List(s)[i] = t
      BY <2>2 DEF IInv, BarrierInv
    <3>2. PICK i \in DOMAIN List(s) : List(s)[i] = t BY <3>1
    <3>3. <<s, i>> \in Barrier!Pointers(t) BY <2>1, <3>2
    <3>4. ASSUME NEW p \in Barrier!Pointers(t) PROVE p = <<s, i>>
      <4>1. PICK u \in Lists : \E j \in DOMAIN List(u) : p = <<u, j>> /\ List(u)[j] = t
        BY <2>1
      <4>2. PICK j \in DOMAIN List(u) : p = <<u, j>> /\ List(u)[j] = t BY <4>1
      <4>3. u = s /\ j = i BY <3>2, <4>2 DEF IInv, BarrierInv
      <4> QED BY <4>2, <4>3
    <3> QED BY <2>2, <3>3, <3>4
  <2>3. CASE barrierOp[t] # "waiting"
    <3>1. \A p : p \notin Barrier!Pointers(t)
      BY <2>1, <2>3 DEF IInv, BarrierInv
    <3> QED BY <2>3, <3>1
  <2> QED BY <2>2, <2>3
<1> QED BY <1>1, Invariance, PTL

(* The match and the operation that waits know each other, and no message is
   queued beside it: match_operation::start and handle_match pair the two. *)
THEOREM WaitersArePaired == Spec => []WaiterIsPaired
<1>1. IInv => WaiterIsPaired BY DEF IInv
<1> QED BY <1>1, Invariance, PTL

(* The fdio knows the operation that waits and no other: handleEvent and
   handleTimeout cannot both take it. *)
THEOREM WaitersAreKnown == Spec => []WaiterIsKnown
<1>1. IInv => WaiterIsKnown BY DEF IInv
<1> QED BY <1>1, Invariance, PTL

(* A handler takes the operation that waits as late only by its own timer:
   whoever has a timer awaits the fdio, and only one task does. *)
THEOREM TimeoutsAreDue == Spec => TimeoutIsDue
<1>1. IInv /\ [Next]_vars =>
        [\A t \in Tasks : fdioOp[t] = "waiting" /\ fdioOp'[t] = "late" =>
                timer[t] = "elapsed" /\ ~data]_Fdio!vars
  <2> SUFFICES ASSUME IInv, [Next]_vars, NEW t \in Tasks,
                      fdioOp[t] = "waiting", fdioOp'[t] = "late"
               PROVE  timer[t] = "elapsed" /\ ~data
    OBVIOUS
  <2>1. fdioOp \in [Tasks -> Fdio!OpStates] BY DEF IInv, TypeOK, Fdio!TypeOK
  <2>2. PICK u \in Tasks : Fdio!HandleTimeout(u)
    <3>1. ASSUME UNCHANGED fdioVars PROVE FALSE BY <3>1 DEF fdioVars
    <3>2. ASSUME NEW u \in Tasks, Fdio!Start(u) PROVE FALSE
      BY <2>1, <3>2 DEF Fdio!Start
    <3>3. ASSUME NEW u \in Tasks, Fdio!Resume(u) PROVE FALSE
      BY <2>1, <3>3 DEF Fdio!Resume
    <3>4. ASSUME NEW u \in Tasks, Fdio!AddTimer(u) \/ Fdio!Elapse(u) PROVE FALSE
      BY <3>4 DEF Fdio!AddTimer, Fdio!Elapse
    <3>5. ASSUME NEW u \in Tasks, Fdio!Signal(u) PROVE FALSE
      BY <2>1, <3>5 DEF Fdio!Signal
    <3>6. ASSUME Fdio!Arrive \/ Fdio!Poll PROVE FALSE
      BY <3>6 DEF Fdio!Arrive, Fdio!Poll
    <3>7. ASSUME Fdio!HandleEvent PROVE FALSE
      BY <2>1, <3>7 DEF Fdio!HandleEvent, Fdio!Take
    <3>8. CASE RunFdio
      BY <3>4, <3>5, <3>6, <3>7, <3>8 DEF RunFdio, Fdio_
    <3>9. CASE \E u \in Tasks : AwaitFdio(u) \/ LeaveFdio(u)
      BY <3>2, <3>3, <3>9 DEF AwaitFdio, LeaveFdio
    <3>10. ~(RunFdio \/ \E u \in Tasks : AwaitFdio(u) \/ LeaveFdio(u)) => UNCHANGED fdioVars
      BY DEF Next, Proceed, vars, ReachBarrier, PassBarrier, LockMutex, RunMutex,
         LeaveMatch, UnlockMutex, LeaveMutex, RunMatch, AwaitMatch
    <3> QED BY <3>1, <3>8, <3>9, <3>10
  <2>3. /\ timer[u] = "elapsed" /\ fdioComplete = t /\ ~data
    BY <2>1, <2>2 DEF Fdio!HandleTimeout, Fdio!Take, IInv, WaiterIsKnown, Fdio!WaiterIsKnown
  <2>4. at[u] = "awaiting" /\ at[t] = "awaiting"
    BY <2>3 DEF IInv, PlaceInv
  <2>5. u = t BY <2>4, OneAwaits
  <2> QED BY <2>3, <2>5
<1> QED BY <1>1, Invariance, PTL DEF Spec, TimeoutIsDue, Fdio!TimeoutIsDue
-----------------------------------------------------------------------------
(* At most one operation was taken with a message, and not while another
   waits: the abstract channel is well defined. *)
LEMMA TakenIsSingle ==
    ASSUME IInv, NEW t \in Tasks,
           at[t] = "awaiting" \/ pc[t] = "held"
    PROVE  Match!Taken = IF matchOp[t] = "taken" THEN {t} ELSE {}
<1>1. ASSUME NEW u \in Match!Taken PROVE u = t
  <2>1. u \in Tasks /\ at[u] = "awaiting" BY <1>1 DEF Match!Taken, IInv, PlaceInv
  <2>2. at[t] = "awaiting" \/ pc[t] = "held" OBVIOUS
  <2> QED BY <2>1, <2>2, OneAwaits
<1> QED BY <1>1 DEF Match!Taken

LEMMA ChannelIs ==
    ASSUME IInv
    PROVE  /\ Match!Taken = {} => Match!Channel = queue
           /\ \A t \in Tasks : Match!Taken = {t} => Match!Channel = <<message[t]>> \o queue
<1>1. \A t \in Tasks : Match!Taken = {t} => (CHOOSE u \in Match!Taken : TRUE) = t
  OBVIOUS
<1> QED BY <1>1 DEF Match!Channel

(* The channel in the next state, from the variables of the match there. *)
LEMMA ChannelWillBe ==
    ASSUME IInv'
    PROVE  /\ Match!Taken' = {} => Match!Channel' = queue'
           /\ \A t \in Tasks : Match!Taken' = {t} =>
                    Match!Channel' = <<message'[t]>> \o queue'
<1>1. \A t \in Tasks : Match!Taken' = {t} => (CHOOSE u \in Match!Taken' : TRUE) = t
  OBVIOUS
<1> QED BY <1>1 DEF Match!Channel

(* A sequence is its first element, and then the rest. *)
LEMMA SequenceFacts ==
    ASSUME NEW S, NEW q \in Seq(S), NEW m \in S, NEW n \in S
    PROVE  /\ q # <<>> => /\ <<Head(q)>> \o Tail(q) = q
                          /\ Head(q) \in S /\ Tail(q) \in Seq(S)
           /\ <<m>> \o q # <<>> /\ Head(<<m>> \o q) = m /\ Tail(<<m>> \o q) = q
           /\ 1 \in 0..Len(<<m>> \o q) /\ 0 \in 0..Len(q)
           /\ SubSeq(<<m>> \o q, 1, 1) = <<m>> \o <<>> /\ SubSeq(q, 1, 0) = <<>>
           /\ <<m>> \o Append(q, n) = Append(<<m>> \o q, n)
           /\ Append(q, m) \in Seq(S) /\ Append(q, m) # <<>>
<1>1. q # <<>> => /\ <<Head(q)>> \o Tail(q) = q
                  /\ Head(q) \in S /\ Tail(q) \in Seq(S)
  OBVIOUS
<1>2. <<m>> \o q # <<>> /\ Head(<<m>> \o q) = m /\ Tail(<<m>> \o q) = q
  OBVIOUS
<1>3. 1 \in 0..Len(<<m>> \o q) /\ 0 \in 0..Len(q)
  OBVIOUS
<1>4. SubSeq(<<m>> \o q, 1, 1) = <<m>> \o <<>>
  <2>1. <<m>> \in Seq(S) /\ Len(<<m>>) = 1 OBVIOUS
  <2>4. 1 \in 1..Len(<<m>>) BY <2>1
  <2>2. SubSeq(<<m>> \o q, 1, 1) = SubSeq(<<m>>, 1, 1)
    BY <2>1, <2>4, SubSeqOfConcat1
  <2>5. SubSeq(<<m>>, 1, 1) = <<m>> BY <2>1, SubSeqFull
  <2>3. <<m>> \o <<>> = <<m>> OBVIOUS
  <2> QED BY <2>2, <2>3, <2>5
<1>5. SubSeq(q, 1, 0) = <<>> OBVIOUS
<1>6. <<m>> \o Append(q, n) = Append(<<m>> \o q, n) OBVIOUS
<1>7. Append(q, m) \in Seq(S) /\ Append(q, m) # <<>>
  BY AppendProperties
<1> QED BY <1>1, <1>2, <1>3, <1>4, <1>5, <1>6, <1>7

(* handle_completion makes the channel what it was given: the waiter, if there
   is one, has the first message and the queue the others. *)
LEMMA HandleCompletionChannel ==
    ASSUME IInv, IInv', NEW waiter \in Tasks \cup {NoTask}, NEW messages \in Seq(Messages),
           Match!HandleCompletion(waiter, messages), Match!Taken = {}
    PROVE  Match!Channel' = messages
<1> USE NoTaskAssumption
<1>1. /\ matchOp \in [Tasks -> Match!OpStates]
      /\ message \in [Tasks -> Messages \cup {NoMessage}]
  BY DEF IInv, TypeOK, Match!TypeOK
<1>2. CASE waiter = NoTask \/ messages = <<>>
  <2>1. Match!Taken' = {} /\ queue' = messages
    BY <1>1, <1>2 DEF Match!HandleCompletion, Match!Taken
  <2> QED BY <2>1, ChannelWillBe
<1>3. CASE waiter # NoTask /\ messages # <<>>
  <2>1. /\ matchOp' = [matchOp EXCEPT ![waiter] = "taken"] /\ waiter \in Tasks
        /\ message' = [message EXCEPT ![waiter] = Head(messages)]
        /\ queue' = Tail(messages)
    BY <1>3 DEF Match!HandleCompletion
  <2>2. Match!Taken' = {waiter} BY <1>1, <2>1 DEF Match!Taken
  <2>3. Match!Channel' = <<message'[waiter]>> \o queue' BY <2>1, <2>2, ChannelWillBe
  <2>4. message'[waiter] = Head(messages) BY <1>1, <2>1
  <2>5. Head(messages) \in Messages BY <1>3
  <2>6. <<Head(messages)>> \o Tail(messages) = messages BY <1>3, <2>5, SequenceFacts
  <2> QED BY <2>1, <2>3, <2>4, <2>6
<1> QED BY <1>2, <1>3

(* A signal that arrives is sent, a completion with a message receives it, the
   destructor closes the channel; every other step leaves it as it is. *)
LEMMA NextRefines ==
    ASSUME IInv, IInv', [Next]_vars
    PROVE  [Match!Abstract!Next]_Match!Abstract!vars
<1> USE NoTaskAssumption
<1> DEFINE Values == Messages \cup {NoMessage}
<1>1. /\ matchOp \in [Tasks -> Match!OpStates] /\ queue \in Seq(Messages)
      /\ message \in [Tasks -> Values]
      /\ matchComplete \in Tasks \cup {NoTask} /\ destroyed \in BOOLEAN
      /\ queue \in Seq(Values)
  <2>1. queue \in Seq(Messages) BY DEF IInv, TypeOK, Match!TypeOK
  <2>2. queue \in Seq(Values) BY <2>1, SeqMonotonic
  <2> QED BY <2>1, <2>2 DEF IInv, TypeOK, Match!TypeOK
<1>2. ASSUME NEW t \in Tasks, matchOp[t] # "none"
      PROVE  Match!Taken = IF matchOp[t] = "taken" THEN {t} ELSE {}
  BY <1>2, TakenIsSingle DEF IInv, PlaceInv
<1>3. Match!Taken = {} \/ \E u \in Tasks : Match!Taken = {u}
  BY <1>2 DEF Match!Taken
<1>4. CASE UNCHANGED matchVars
  <2>1. UNCHANGED <<matchOp, message, queue>> BY <1>4 DEF matchVars
  <2>2. Match!Taken' = Match!Taken BY <2>1 DEF Match!Taken
  <2>3. Match!Channel' = Match!Channel
    BY <1>3, <2>1, <2>2, ChannelIs, ChannelWillBe
  <2> QED BY <1>4, <2>3 DEF matchVars, Match!Abstract!vars
<1>5. ASSUME NEW t \in Tasks, AwaitMatch(t)
      PROVE  UNCHANGED Match!Abstract!vars
  <2>1. pc[t] = "held" /\ matchOp[t] = "none" /\ Match!Start(t)
    BY <1>5 DEF AwaitMatch, Match!Start
  <2>2. Match!Taken = {} BY <2>1, TakenIsSingle
  <2>3. matchOp'[t] # "terminated" BY DEF IInv, SingleAwaiter
  <2>4. Match!HandleCompletion(t, queue) /\ UNCHANGED <<received, destroyed>>
    BY <1>1, <2>1, <2>3 DEF Match!Start
  <2>5. Match!Channel' = queue BY <1>1, <2>2, <2>4, HandleCompletionChannel
  <2>6. Match!Channel = queue BY <2>2, ChannelIs
  <2> QED BY <2>4, <2>5, <2>6 DEF Match!Abstract!vars
<1>6. ASSUME Match!HandleMatch PROVE \E m \in Messages : Match!Abstract!Send(m)
  <2>1. PICK m \in Messages : Match!HandleCompletion(matchComplete, Append(queue, m))
    BY <1>6 DEF Match!HandleMatch
  <2>2. ~destroyed /\ UNCHANGED <<received, destroyed>> BY <1>6 DEF Match!HandleMatch
  <2>3. Append(queue, m) \in Seq(Messages) /\ Append(queue, m) # <<>>
    BY <1>1, SequenceFacts
  <2>4. Match!Channel' = Append(Match!Channel, m)
    <3>1. CASE Match!Taken = {}
      <4>1. Match!Channel' = Append(queue, m)
        BY <1>1, <2>1, <2>3, <3>1, HandleCompletionChannel
      <4> QED BY <3>1, <4>1, ChannelIs
    <3>2. ASSUME NEW u \in Tasks, Match!Taken = {u}
           PROVE Match!Channel' = Append(Match!Channel, m)
      <4>1. matchOp[u] = "taken" BY <3>2 DEF Match!Taken
      <4>2. matchComplete = NoTask
        <5>1. ASSUME matchComplete # NoTask PROVE FALSE
          <6>1. matchComplete \in Tasks /\ matchOp[matchComplete] = "waiting"
            BY <1>1, <5>1 DEF IInv, WaiterIsPaired, Match!WaiterIsPaired
          <6>2. Match!Taken = {} BY <1>2, <6>1
          <6> QED BY <3>2, <6>2
        <5> QED BY <5>1
      <4>3. UNCHANGED <<matchOp, message>> /\ queue' = Append(queue, m)
        BY <2>1, <4>2 DEF Match!HandleCompletion
      <4>4. Match!Taken' = {u} BY <3>2, <4>3 DEF Match!Taken
      <4>5. Match!Channel' = <<message[u]>> \o Append(queue, m)
        BY <4>3, <4>4, ChannelWillBe
      <4>6. Match!Channel = <<message[u]>> \o queue BY <3>2, ChannelIs
      <4>7. message[u] \in Values /\ m \in Values BY <1>1
      <4> QED BY <1>1, <4>5, <4>6, <4>7, SequenceFacts
    <3> QED BY <1>3, <3>1, <3>2
  <2> QED BY <2>2, <2>4 DEF Match!Abstract!Send
<1>7. ASSUME Match!Destroy PROVE Match!Abstract!Close
  <2>1. ~destroyed /\ destroyed' = TRUE /\ queue' = <<>> /\ UNCHANGED <<message, received>>
    BY <1>7 DEF Match!Destroy
  <2>2. Match!Taken' = Match!Taken
    <3>1. matchComplete # NoTask => matchOp[matchComplete] = "waiting"
      BY <1>1 DEF IInv, WaiterIsPaired, Match!WaiterIsPaired
    <3> QED BY <1>1, <1>7, <3>1 DEF Match!Destroy, Match!Taken
  <2>3. \E n \in 0..Len(Match!Channel) : n <= 1
           /\ Match!Channel' = SubSeq(Match!Channel, 1, n)
    <3>1. CASE Match!Taken = {}
      <4>1. Match!Channel = queue /\ Match!Channel' = <<>>
        BY <2>1, <2>2, <3>1, ChannelIs, ChannelWillBe
      <4>2. Len(queue) \in Nat /\ SubSeq(queue, 1, 0) = <<>> BY <1>1
      <4> QED BY <4>1, <4>2
    <3>2. ASSUME NEW u \in Tasks, Match!Taken = {u}
          PROVE  \E n \in 0..Len(Match!Channel) :
                    n <= 1 /\ Match!Channel' = SubSeq(Match!Channel, 1, n)
      <4>1. /\ Match!Channel = <<message[u]>> \o queue
            /\ Match!Channel' = <<message[u]>> \o <<>>
        BY <2>1, <2>2, <3>2, ChannelIs, ChannelWillBe
      <4>2. message[u] \in Values BY <1>1
      <4>3. 1 \in 0..Len(Match!Channel) /\ Match!Channel' = SubSeq(Match!Channel, 1, 1)
        BY <1>1, <4>1, <4>2, SequenceFacts
      <4> QED BY <4>3
    <3> QED BY <1>3, <3>1, <3>2
  <2> QED BY <2>1, <2>3 DEF Match!Abstract!Close
<1>8. ASSUME NEW t \in Tasks, Match!Signal(t)
      PROVE  Match!Abstract!Receive \/ UNCHANGED Match!Abstract!vars
  <2>1. CASE matchOp[t] = "taken"
    <3>1. /\ matchOp' = [matchOp EXCEPT ![t] = "value"]
          /\ received' = message[t] /\ UNCHANGED <<queue, destroyed>>
      BY <1>8, <2>1 DEF Match!Signal
    <3>2. Match!Taken = {t} BY <1>2, <2>1
    <3>3. Match!Taken' = {} BY <1>1, <3>1, <3>2 DEF Match!Taken
    <3>4. Match!Channel = <<message[t]>> \o queue /\ Match!Channel' = queue
      BY <3>1, <3>2, <3>3, ChannelIs, ChannelWillBe
    <3>5. message[t] \in Values BY <1>1
    <3>6. /\ Match!Channel # <<>> /\ received' = Head(Match!Channel)
          /\ Match!Channel' = Tail(Match!Channel)
      BY <1>1, <3>1, <3>4, <3>5, SequenceFacts
    <3> QED BY <3>1, <3>6 DEF Match!Abstract!Receive
  <2>2. CASE matchOp[t] = "stopping"
    <3>1. /\ matchOp' = [matchOp EXCEPT ![t] = "stopped"]
          /\ UNCHANGED <<message, received, queue, destroyed>>
      BY <1>8, <2>2 DEF Match!Signal
    <3>2. Match!Taken = {} BY <1>2, <2>2
    <3>3. Match!Taken' = {} BY <1>1, <3>1, <3>2 DEF Match!Taken
    <3>4. Match!Channel = queue /\ Match!Channel' = queue
      BY <3>1, <3>2, <3>3, ChannelIs, ChannelWillBe
    <3> QED BY <3>1, <3>4 DEF Match!Abstract!vars
  <2> QED BY <1>8, <2>1, <2>2 DEF Match!Signal
<1>9. ASSUME NEW t \in Tasks, LeaveMatch(t) PROVE UNCHANGED Match!Abstract!vars
  <2>1. /\ matchOp[t] \in {"value", "stopped"} /\ matchOp' = [matchOp EXCEPT ![t] = "none"]
        /\ UNCHANGED <<message, received, queue, destroyed>>
    BY <1>9 DEF LeaveMatch, Match!Resume
  <2>2. Match!Taken = {} BY <1>2, <2>1
  <2>3. Match!Taken' = {} BY <1>1, <2>1, <2>2 DEF Match!Taken
  <2>4. Match!Channel = queue /\ Match!Channel' = queue
    BY <2>1, <2>2, <2>3, ChannelIs, ChannelWillBe
  <2> QED BY <2>1, <2>4 DEF Match!Abstract!vars
<1>10. \/ RunMatch \/ UNCHANGED matchVars
       \/ \E t \in Tasks : AwaitMatch(t) \/ LeaveMatch(t)
  BY DEF Next, Proceed, vars, ReachBarrier, PassBarrier, LockMutex, RunMutex,
     LeaveFdio, UnlockMutex, LeaveMutex, RunFdio, AwaitFdio
<1> QED BY <1>4, <1>5, <1>6, <1>7, <1>8, <1>9, <1>10 DEF RunMatch, Match!Abstract!Next

(* The match is a channel to the task that awaits it: it delivers each signal
   once and in the order of arrival, whichever of start, handle_match, the
   completions and the destructor come between (async::match). *)
THEOREM MatchImplementsChannel == Spec => IsChannel
<1>1. Init => Match!Abstract!Init
  <2> SUFFICES ASSUME Init PROVE Match!Abstract!Init OBVIOUS
  <2>1. Match!Taken = {} BY DEF Init, Match!Init, Match!Taken
  <2>2. Match!Channel = <<>> BY <2>1 DEF Init, Match!Init, Match!Channel
  <2> QED BY <2>2 DEF Init, Match!Init, Match!Abstract!Init
<1>2. IInv /\ IInv' /\ [Next]_vars => [Match!Abstract!Next]_Match!Abstract!vars
  BY NextRefines
<1> QED BY <1>1, <1>2, Invariance, PTL DEF Spec, IsChannel, Match!IsChannel,
      Match!Abstract!Spec
=============================================================================
