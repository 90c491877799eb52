------------------------------ MODULE AsyncFdio ------------------------------
(***************************************************************************)
(* sdbusplus::async::fdio (include/sdbusplus/async/fdio.hpp,               *)
(* src/async/fdio.cpp): a task awaits a file descriptor to become readable *)
(* or a timeout.  The task starts its operation on the worker thread and   *)
(* resumes there, as async::task does; the two handlers run on the caller  *)
(* of async::context::run, one after the other.  A step is one critical    *)
(* section of the fdio's mutex, one call of event_t or of a completion.    *)
(*                                                                         *)
(* Not part of the specification but broken variants of the definition     *)
(* that follows each: TakeForgetsExchange, ResumeKeepingTimer,             *)
(* StartWithoutTimer. A property that matters is violated with one of them *)
(* in its place.                                                           *)
(***************************************************************************)
EXTENDS Naturals

CONSTANTS
    Tasks,
    NoTask      \* fdio::complete is null

VARIABLES
    op,         \* the state of each task's fdio_operation
    starting,   \* has its start published it and not yet added the timer?
    timer,      \* fdio_completion::source of each operation
    complete,   \* fdio::complete
    timed,      \* does the fdio have a timeout?  Chosen at construction
    data,       \* is the descriptor readable?
    ready       \* is fdio::source pending in the event loop?

vars == <<op, starting, timer, complete, timed, data, ready>>

(* "data", "late": taken by a handler that is about to complete it with a
   value or with fdio_timeout_exception; "value", "error": completed. *)
OpStates == {"none", "waiting", "data", "late", "value", "error", "terminated"}

TypeOK ==
    /\ op \in [Tasks -> OpStates]
    /\ starting \in [Tasks -> BOOLEAN]
    /\ timer \in [Tasks -> {"none", "armed", "elapsed"}]
    /\ complete \in Tasks \cup {NoTask}
    /\ {timed, data, ready} \subseteq BOOLEAN

Init ==
    /\ op = [t \in Tasks |-> "none"]
    /\ starting = [t \in Tasks |-> FALSE]
    /\ timer = [t \in Tasks |-> "none"]
    /\ complete = NoTask
    /\ timed \in BOOLEAN
    /\ data = FALSE /\ ready = FALSE

StartWithoutTimer(t) ==
    /\ op[t] = "none" /\ complete = NoTask
    /\ complete' = t
    /\ op' = [op EXCEPT ![t] = "waiting"]
    /\ UNCHANGED <<starting, timer, timed, data, ready>>

(* start publishes the operation; a second awaiting task is fatal. *)
Start(t) ==
    /\ op[t] = "none"
    /\ complete' = t
    /\ op' = [op EXCEPT ![t] = IF complete = NoTask THEN "waiting" ELSE "terminated"]
    /\ starting' = [starting EXCEPT ![t] = timed]
    /\ UNCHANGED <<timer, timed, data, ready>>

(* The rest of start: the operation may have been completed meanwhile. *)
AddTimer(t) ==
    /\ starting[t]
    /\ starting' = [starting EXCEPT ![t] = FALSE]
    /\ timer' = [timer EXCEPT ![t] = "armed"]
    /\ UNCHANGED <<op, complete, timed, data, ready>>

(* Somebody writes, time passes, and the event loop takes note. *)
Arrive ==
    /\ ~data /\ data' = TRUE
    /\ UNCHANGED <<op, starting, timer, complete, timed, ready>>

Poll ==
    /\ data /\ ~ready /\ ready' = TRUE
    /\ UNCHANGED <<op, starting, timer, complete, timed, data>>

Elapse(t) ==
    /\ timer[t] = "armed"
    /\ timer' = [timer EXCEPT ![t] = "elapsed"]
    /\ UNCHANGED <<op, starting, complete, timed, data, ready>>

(* No handler of the event loop is about to complete an operation. *)
CallerIdle == \A t \in Tasks : op[t] \notin {"data", "late"}

TakeForgetsExchange(result) ==
    /\ complete' = complete
    /\ op' = IF complete = NoTask THEN op ELSE [op EXCEPT ![complete] = result]

(* A handler takes the operation that waits, if there is one. *)
Take(result) ==
    /\ complete' = NoTask
    /\ op' = IF complete = NoTask THEN op ELSE [op EXCEPT ![complete] = result]

HandleEvent ==
    /\ ready /\ CallerIdle
    /\ ready' = FALSE
    /\ Take("data")
    /\ UNCHANGED <<starting, timer, timed, data>>

(* The handler belongs to the fdio: it looks for data before it tells
   whichever operation waits that its time is over. *)
HandleTimeout(t) ==
    /\ timer[t] = "elapsed" /\ CallerIdle
    /\ timer' = [timer EXCEPT ![t] = "none"]
    /\ Take(IF data THEN "data" ELSE "late")
    /\ UNCHANGED <<starting, timed, data, ready>>

(* c->complete or c->error, with the mutex released. *)
Signal(t) ==
    /\ op[t] \in {"data", "late"}
    /\ op' = [op EXCEPT ![t] = IF @ = "data" THEN "value" ELSE "error"]
    /\ UNCHANGED <<starting, timer, complete, timed, data, ready>>

ResumeKeepingTimer(t) ==
    /\ op[t] \in {"value", "error"} /\ ~starting[t]
    /\ op' = [op EXCEPT ![t] = "none"]
    /\ data' \in {data, FALSE}
    /\ UNCHANGED <<starting, complete, timer, timed, ready>>

(* Once the worker is done with start the task goes on: it destroys the
   operation and its timer, and may read what has arrived. *)
Resume(t) ==
    /\ op[t] \in {"value", "error"} /\ ~starting[t]
    /\ op' = [op EXCEPT ![t] = "none"]
    /\ timer' = [timer EXCEPT ![t] = "none"]
    /\ complete' = IF complete = t THEN NoTask ELSE complete
    /\ data' \in {data, FALSE}
    /\ UNCHANGED <<starting, timed, ready>>

---------------------------------------------------------------------------
(* The fdio knows exactly the operation that waits: one that was taken by a
   handler cannot be taken again by the other handler. *)
WaiterIsKnown ==
    \A t \in Tasks : op[t] = "waiting" <=> complete = t

(* The timer calls back the fdio and not its operation.  All the same no
   operation is told that the time is over when its own timer has not
   elapsed, or when there is something to read. *)
TimeoutIsDue ==
    [][\A t \in Tasks :
            op[t] = "waiting" /\ op'[t] = "late" => timer[t] = "elapsed" /\ ~data]_vars

(* With a timeout, or with something to read, the wait ends, also when the
   event comes between the two halves of start. *)
InUse == \E t \in Tasks : op[t] \notin {"none", "terminated"}
WaitEnds == InUse /\ (timed \/ data) ~> ~InUse
=============================================================================
