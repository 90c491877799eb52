--------------------------- MODULE EventLoopProofs ---------------------------
(***************************************************************************)
(* For any set of threads: sd_event is used by one thread at a time, the   *)
(* source whose handler runs is alive, and the stage has priority.         *)
(***************************************************************************)
EXTENDS EventLoop, TLAPS

(* The lock is held exactly inside run_one past its obtain_lock, with the
   callbacks run_one dispatches, and by a user between its obtain_lock and
   the end of its critical section. *)
LockInv ==
    /\ owner = Runner <=>
            pc[Runner] \in {"run", "callback", "return"} \cup ObtainStates
    /\ \A u \in Users : owner = u <=> pc[u] = "critical"
    /\ depth = IF owner = None THEN 0
               ELSE IF owner = Runner /\ pc[Runner] = "critical" THEN 2 ELSE 1

(* The stage is held exactly by a thread on its way to the lock; Runner,
   which has the lock when a callback asks for it, never has to block. *)
StageInv ==
    /\ \A t \in Threads :
            stage = t <=> pc[t] \in {"try", "signal", "block", "run_lock"}
    /\ pc[Runner] \notin {"signal", "block"}

(* From its dispatch until its handler returns the source is registered. *)
DispatchInv ==
    /\ current # None <=> pc[Runner] \in {"callback"} \cup ObtainStates
    /\ current \notin {None, Runner} => current \in sources

(* SdEventExclusive and DispatchedSourceAlive speak of the threads' places;
   they are inductive only with what the two mutexes say of these places. *)
IInv == TypeOK /\ LockInv /\ StageInv /\ DispatchInv

USE DEF Threads

(* The steps of a thread that do not touch the sources. *)
ObtainSteps(t) ==
    \/ CallObtainLock(t) \/ TakeStage(t) \/ TryLock(t) \/ SignalRunner(t)
    \/ BlockOnLock(t)
SourceSteps(t) == AddSource(t) \/ UnrefSource(t)
RunSteps ==
    \/ CallRunOne \/ RunStage \/ RunLock \/ DispatchWakeup \/ Timeout
    \/ ReturnFromRunOne

(* Nobody is in sd_event initially, and no mutex is held. *)
LEMMA InitIInv == Init => IInv
<1> SUFFICES ASSUME Init PROVE IInv
  OBVIOUS
<1>1. TypeOK
  <2>1. /\ pc \in [Threads -> {"out"} \cup ObtainStates \cup RunStates]
        /\ \A u \in Users : pc[u] \notin RunStates
    BY DEF Init, RunStates
  <2>2. depth \in 0..2 /\ (depth = 0 <=> owner = None)
    BY DEF Init
  <2> QED BY <2>1, <2>2 DEF Init, TypeOK
<1>2. LockInv /\ StageInv /\ DispatchInv
  BY RunnerIsNoUser DEF Init, LockInv, StageInv, DispatchInv, ObtainStates
<1> QED BY <1>1, <1>2 DEF IInv

(* On the way to the lock: the stage, the two attempts, the signal. *)
LEMMA ObtainIInv ==
    ASSUME IInv, NEW t \in Threads, ObtainSteps(t)
    PROVE  IInv'
<1> USE RunnerIsNoUser DEF IInv, Goto
<1>1. CASE CallObtainLock(t)
  <2>1. TypeOK'
    BY <1>1 DEF CallObtainLock, TypeOK, ObtainStates, RunStates
  <2>2. LockInv' /\ StageInv' /\ DispatchInv'
    BY <1>1 DEF CallObtainLock, TypeOK, LockInv, StageInv, DispatchInv, ObtainStates
  <2> QED BY <2>1, <2>2
<1>2. CASE TakeStage(t)
  <2>1. TypeOK'
    BY <1>2 DEF TakeStage, TypeOK, ObtainStates, RunStates
  <2>2. LockInv' /\ StageInv' /\ DispatchInv'
    BY <1>2 DEF TakeStage, TypeOK, LockInv, StageInv, DispatchInv, ObtainStates
  <2> QED BY <2>1, <2>2
<1>3. CASE TryLock(t) /\ CanLock(t)
  <2>1. /\ owner' = t /\ depth' = depth + 1 /\ stage' = None /\ pc[t] = "try"
        /\ pc' = [pc EXCEPT ![t] = "critical"]
        /\ UNCHANGED <<wakeup, sources, ready, current>>
    BY <1>3 DEF TryLock, Acquire
  <2>2. depth \in {0, 1} /\ (depth = 1 <=> owner = Runner) /\ (owner = Runner => t = Runner)
    BY <1>3, <2>1 DEF CanLock, LockInv, TypeOK, ObtainStates
  <2>3. TypeOK'
    BY <2>1, <2>2 DEF TypeOK, ObtainStates, RunStates
  <2>4. LockInv'
    BY <1>3, <2>1, <2>2 DEF CanLock, LockInv, TypeOK, ObtainStates
  <2>5. StageInv' /\ DispatchInv'
    BY <2>1 DEF StageInv, DispatchInv, TypeOK, ObtainStates
  <2> QED BY <2>3, <2>4, <2>5
<1>4. CASE TryLock(t) /\ ~CanLock(t)
  <2>1. /\ pc[t] = "try" /\ pc' = [pc EXCEPT ![t] = "signal"]
        /\ UNCHANGED <<stage, owner, depth, wakeup, sources, ready, current>>
    BY <1>4 DEF TryLock
  <2>2. t # Runner
    BY <1>4, <2>1 DEF CanLock, LockInv, ObtainStates
  <2>3. TypeOK'
    BY <2>1 DEF TypeOK, ObtainStates, RunStates
  <2>4. LockInv' /\ StageInv' /\ DispatchInv'
    BY <2>1, <2>2 DEF TypeOK, LockInv, StageInv, DispatchInv, ObtainStates
  <2> QED BY <2>3, <2>4
<1>5. CASE SignalRunner(t)
  <2>1. t # Runner
    BY <1>5 DEF SignalRunner, StageInv
  <2>2. TypeOK'
    BY <1>5 DEF SignalRunner, TypeOK, ObtainStates, RunStates
  <2>3. LockInv' /\ StageInv' /\ DispatchInv'
    BY <1>5, <2>1 DEF SignalRunner, TypeOK, LockInv, StageInv, DispatchInv, ObtainStates
  <2> QED BY <2>2, <2>3
<1>6. CASE BlockOnLock(t)
  <2>1. /\ t # Runner /\ t \in Users /\ CanLock(t)
        /\ owner' = t /\ depth' = depth + 1 /\ stage' = None /\ pc[t] = "block"
        /\ pc' = [pc EXCEPT ![t] = "critical"]
        /\ UNCHANGED <<wakeup, sources, ready, current>>
    BY <1>6 DEF BlockOnLock, StageInv, Acquire
  <2>2. owner = None /\ depth = 0
    BY <2>1 DEF CanLock, LockInv
  <2>3. TypeOK'
    BY <2>1, <2>2 DEF TypeOK, ObtainStates, RunStates
  <2>4. LockInv'
    BY <2>1, <2>2 DEF LockInv, TypeOK, ObtainStates
  <2>5. StageInv' /\ DispatchInv'
    BY <2>1 DEF StageInv, DispatchInv, TypeOK, ObtainStates
  <2> QED BY <2>3, <2>4, <2>5
<1> QED BY <1>1, <1>2, <1>3, <1>4, <1>5, <1>6 DEF ObtainSteps

(* In the critical section: a user that destroys its source holds the lock,
   so that no handler runs. *)
LEMMA SourceIInv ==
    ASSUME IInv, NEW t \in Threads, SourceSteps(t)
    PROVE  IInv'
<1> USE RunnerIsNoUser DEF IInv, Goto
<1> DEFINE label == IF t = Runner THEN "callback" ELSE "out"
<1>1. /\ pc[t] = "critical" /\ pc' = [pc EXCEPT ![t] = label]
      /\ depth' = depth - 1 /\ owner' = IF depth = 1 THEN None ELSE owner
      /\ UNCHANGED <<stage, wakeup, current>>
      /\ sources' \in {sources \cup {t}, sources \ {t}}
      /\ ready' \in {ready, ready \ {t}}
      /\ sources' \subseteq Threads /\ ready' \subseteq sources'
  BY DEF SourceSteps, AddSource, UnrefSource, EndCritical, Release, TypeOK
<1>2. /\ t = Runner => owner = Runner /\ depth = 2
      /\ t # Runner => owner = t /\ depth = 1
  BY <1>1 DEF LockInv, ObtainStates
<1>3. TypeOK'
  BY <1>1, <1>2 DEF TypeOK, ObtainStates, RunStates
<1>4. LockInv'
  BY <1>1, <1>2 DEF LockInv, TypeOK, ObtainStates
<1>5. StageInv'
  BY <1>1 DEF StageInv, TypeOK
<1>6. DispatchInv'
  BY <1>1, <1>2 DEF DispatchInv, LockInv, TypeOK, ObtainStates
<1> QED BY <1>3, <1>4, <1>5, <1>6

(* run_one, except for the dispatch of a source. *)
LEMMA RunIInv ==
    ASSUME IInv, RunSteps
    PROVE  IInv'
<1> USE RunnerIsNoUser DEF IInv, Goto
<1>1. CASE CallRunOne \/ RunStage
  <2>1. TypeOK'
    BY <1>1 DEF CallRunOne, RunStage, TypeOK, ObtainStates, RunStates
  <2>2. LockInv' /\ StageInv' /\ DispatchInv'
    BY <1>1 DEF CallRunOne, RunStage, TypeOK, LockInv, StageInv, DispatchInv, ObtainStates
  <2> QED BY <2>1, <2>2
<1>2. CASE RunLock
  <2>1. owner = None /\ depth = 0
    BY <1>2 DEF RunLock, CanLock, LockInv, ObtainStates
  <2>2. TypeOK'
    BY <1>2, <2>1 DEF RunLock, Acquire, TypeOK, ObtainStates, RunStates
  <2>3. LockInv' /\ StageInv' /\ DispatchInv'
    BY <1>2, <2>1 DEF RunLock, Acquire, TypeOK, LockInv, StageInv, DispatchInv, ObtainStates
  <2> QED BY <2>2, <2>3
<1>3. CASE DispatchWakeup \/ Timeout
  <2>1. TypeOK'
    BY <1>3 DEF DispatchWakeup, Timeout, TypeOK, ObtainStates, RunStates
  <2>2. LockInv' /\ StageInv' /\ DispatchInv'
    BY <1>3 DEF DispatchWakeup, Timeout, TypeOK, LockInv, StageInv, DispatchInv, ObtainStates
  <2> QED BY <2>1, <2>2
<1>4. CASE ReturnFromRunOne
  <2>1. owner = Runner /\ depth = 1
    BY <1>4 DEF ReturnFromRunOne, LockInv
  <2>2. TypeOK'
    BY <1>4, <2>1 DEF ReturnFromRunOne, Release, TypeOK, ObtainStates, RunStates
  <2>3. LockInv' /\ StageInv' /\ DispatchInv'
    BY <1>4, <2>1
       DEF ReturnFromRunOne, Release, TypeOK, LockInv, StageInv, DispatchInv, ObtainStates
  <2> QED BY <2>2, <2>3
<1> QED BY <1>1, <1>2, <1>3, <1>4 DEF RunSteps

(* The dispatch of a source, its handler's end, and the outside world. *)
LEMMA DispatchIInv ==
    ASSUME IInv, DispatchSource \/ CallbackDone \/ Occur
    PROVE  IInv'
<1> USE RunnerIsNoUser DEF IInv, Goto
<1>1. CASE DispatchSource
  <2>1. PICK s \in ready : current' = s /\ ready' = ready \ {s}
    BY <1>1 DEF DispatchSource
  <2>2. s \in sources /\ s \in Threads
    BY <2>1 DEF TypeOK
  <2>3. TypeOK'
    BY <1>1, <2>1, <2>2 DEF DispatchSource, TypeOK, ObtainStates, RunStates
  <2>4. LockInv' /\ StageInv' /\ DispatchInv'
    BY <1>1, <2>1, <2>2
       DEF DispatchSource, TypeOK, LockInv, StageInv, DispatchInv, ObtainStates
  <2> QED BY <2>3, <2>4
<1>2. CASE CallbackDone
  <2>1. TypeOK'
    BY <1>2 DEF CallbackDone, TypeOK, ObtainStates, RunStates
  <2>2. LockInv' /\ StageInv' /\ DispatchInv'
    BY <1>2 DEF CallbackDone, TypeOK, LockInv, StageInv, DispatchInv, ObtainStates
  <2> QED BY <2>1, <2>2
<1>3. CASE Occur
  BY <1>3 DEF Occur, TypeOK, LockInv, StageInv, DispatchInv
<1> QED BY <1>1, <1>2, <1>3

(* Every step keeps the inductive invariant. *)
LEMMA NextIInv == IInv /\ [Next]_vars => IInv'
<1> SUFFICES ASSUME IInv, [Next]_vars PROVE IInv'
  OBVIOUS
<1>1. CASE UNCHANGED vars
  BY <1>1 DEF vars, IInv, TypeOK, LockInv, StageInv, DispatchInv
<1>2. ASSUME NEW t \in Threads, CallObtainLock(t) \/ ObtainLock(t) PROVE IInv'
  BY <1>2, ObtainIInv, SourceIInv DEF ObtainLock, ObtainSteps, SourceSteps
<1>3. ASSUME NEW t \in Threads, BreakRun(t) PROVE IInv'
  BY <1>3 DEF BreakRun, IInv, TypeOK, LockInv, StageInv, DispatchInv
<1>4. CASE CallRunOne \/ RunOne \/ Timeout
  BY <1>4, RunIInv, DispatchIInv DEF RunOne, RunSteps
<1>5. CASE Occur
  BY <1>5, DispatchIInv
<1> QED BY <1>1, <1>2, <1>3, <1>4, <1>5 DEF Next

(* The inductive invariant holds of every reachable state, and with it the
   types: obtain_lock and run_one keep the mutexes and their places in step. *)
THEOREM Invariance == Spec => []IInv
  BY InitIInv, NextIInv, PTL DEF Spec

(* Every variable keeps its type: a thread is at a place of its own code, the
   recursive mutex is never taken deeper than twice. *)
THEOREM TypesHold == Spec => []TypeOK
<1>1. IInv => TypeOK
  BY DEF IInv
<1> QED BY <1>1, Invariance, PTL

(* No two threads are inside sd_event, which is not thread-safe: whoever is
   there owns the lock. *)
THEOREM SdEventExclusiveHolds == Spec => []SdEventExclusive
<1>1. IInv => SdEventExclusive
  BY RunnerIsNoUser
     DEF IInv, TypeOK, LockInv, SdEventExclusive, InSdEvent, ObtainStates, RunStates
<1> QED BY <1>1, Invariance, PTL

(* No thread destroys the source whose handler runs. *)
THEOREM DispatchedSourceAliveHolds == Spec => []DispatchedSourceAlive
<1>1. IInv => DispatchedSourceAlive
  BY DEF IInv, DispatchInv, DispatchedSourceAlive
<1> QED BY <1>1, Invariance, PTL

(* Runner does not overtake a thread that is past the stage: to enter
   sd_event_run it has to hold the stage itself. *)
THEOREM StageHasPriorityHolds == Spec => StageHasPriority
<1> DEFINE Overtakes == pc[Runner] # "run" /\ pc'[Runner] = "run"
<1>1. ASSUME IInv, [Next]_vars, Overtakes PROVE RunLock
  <2>1. ~UNCHANGED vars
    BY <1>1 DEF vars
  <2>2. ASSUME NEW t \in Threads, CallObtainLock(t) \/ ObtainLock(t) \/ BreakRun(t)
        PROVE  ~Overtakes
    <3>1. \/ UNCHANGED pc
          \/ \E label \in {"stage", "try", "signal", "block", "critical",
                           "callback", "out"} : pc' = [pc EXCEPT ![t] = label]
      BY <2>2 DEF CallObtainLock, ObtainLock, TakeStage, TryLock, SignalRunner,
           BlockOnLock, AddSource, UnrefSource, EndCritical, BreakRun, Goto
    <3> QED BY <3>1, <1>1 DEF IInv, TypeOK
  <2>3. ASSUME CallRunOne \/ RunStage \/ DispatchWakeup \/ DispatchSource
                 \/ CallbackDone \/ ReturnFromRunOne \/ Timeout \/ Occur
        PROVE  ~Overtakes
    BY <2>3, <1>1 DEF CallRunOne, RunStage, DispatchWakeup, DispatchSource,
         CallbackDone, ReturnFromRunOne, Timeout, Occur, Goto, IInv, TypeOK
  <2> QED BY <1>1, <2>1, <2>2, <2>3 DEF Next, RunOne
<1>2. ASSUME IInv, RunLock, NEW u \in Users PROVE ~Contending(u)
  BY <1>2, RunnerIsNoUser DEF IInv, StageInv, RunLock, Contending
<1>3. IInv /\ [Next]_vars =>
        [\A u \in Users : Contending(u) => ~Overtakes]_vars
  BY <1>1, <1>2
<1> QED BY <1>3, Invariance, PTL DEF Spec, StageHasPriority
=============================================================================
