--------------------------- MODULE SdEventWrapper ---------------------------
(***************************************************************************)
(* sdbusplus::asio::sd_event_wrapper (include/sdbusplus/asio/sd_event.hpp) *)
(* runs an sd_event loop from the handlers of an io_context: each handler  *)
(* does one of sd_event_prepare, sd_event_wait and sd_event_dispatch,      *)
(* whichever the loop's state asks for, and leaves a successor, itself or  *)
(* a wait for the loop's descriptor.  The loop has a Timer and one other   *)
(* source, whose callbacks and the program's other handlers start and stop *)
(* the timer.                                                              *)
(*                                                                         *)
(* Not part of the specification but broken variants of the definition     *)
(* that follows each: RunArmedOnSuccess.  A property that matters is        *)
(* violated with it in its place.                                          *)
(***************************************************************************)
EXTENDS Naturals, Sequences

CONSTANTS
    MaxRequests,    \* bound: starts and stops from outside the timer's callback
    MaxEvents       \* bound: events of the other source

VARIABLES
    handlers,   \* io_context: the handlers that are ready
    loop,       \* sd_event_get_state
    fdWait,     \* is descriptor.async_wait pending?
    timer,      \* the Timer
    source,     \* the other source; "older" is pending since an earlier iteration
    exiting,    \* has somebody called sd_event_exit?
    requests, events    \* so many yet

vars == <<handlers, loop, fdWait, timer, source, exiting, requests, events>>

T == INSTANCE Timer

TypeOK ==
    /\ handlers \in Seq({"run"})
    /\ loop \in {"initial", "armed", "pending", "finished"}
    /\ fdWait \in BOOLEAN /\ exiting \in BOOLEAN
    /\ timer \in T!Timers
    /\ source \in {"idle", "ready", "pending", "older"}
    /\ requests \in 0..MaxRequests /\ events \in 0..MaxEvents

Init ==
    /\ handlers = <<"run">> /\ loop = "initial" /\ fdWait = FALSE
    /\ timer = T!Initialize /\ source = "idle" /\ exiting = FALSE
    /\ requests = 0 /\ events = 0

SourcePending == source \in {"pending", "older"}
Pending == timer.pending \/ SourcePending
TimerIsDue == T!IsRunning(timer) /\ timer.due

(* sd_event_wait(0): notes what is ready by now. *)
Poll(t) ==
    /\ timer' = IF TimerIsDue THEN [t EXCEPT !.pending = TRUE, !.armed = FALSE] ELSE t
    /\ source' = IF source = "ready" THEN "pending" ELSE source
    /\ loop' = IF timer'.pending \/ source' \in {"pending", "older"} \/ exiting
               THEN "pending" ELSE "initial"

AsyncRun == handlers' = Append(Tail(handlers), "run") /\ UNCHANGED fdWait
AsyncWait == handlers' = Tail(handlers) /\ fdWait' = TRUE

(* SD_EVENT_INITIAL: prepare arms the descriptor for the timer, and polls at
   once when something is pending already. *)
RunInitial ==
    LET t == [timer EXCEPT !.armed = T!IsRunning(timer)] IN
    IF Pending \/ exiting
    THEN Poll(t) /\ AsyncRun
    ELSE /\ timer' = t /\ loop' = "armed" /\ UNCHANGED source
         /\ AsyncWait

RunArmedOnSuccess ==
    /\ Poll(timer)
    /\ IF loop' = "pending" THEN AsyncRun
       ELSE handlers' = Tail(handlers) /\ UNCHANGED fdWait

(* SD_EVENT_ARMED: wait may find that nothing is left, and the loop goes on. *)
RunArmed == Poll(timer) /\ AsyncRun

(* What a callback, or a handler of the io_context, asks of the timer. *)
AskTimer(request) ==
    /\ requests < MaxRequests /\ requests' = requests + 1
    /\ timer' = T!Ask(timer, request, FALSE)

(* SD_EVENT_PENDING: dispatch the source that has been pending for longest. *)
RunPending ==
    \/ /\ exiting /\ loop' = "finished"
       /\ handlers' = Tail(handlers)
       /\ UNCHANGED <<fdWait, timer, source, requests>>
    \/ /\ ~exiting /\ loop' = "initial"
       /\ AsyncRun
       /\ \/ /\ timer.pending /\ source # "older"
             /\ source' = IF source = "pending" THEN "older" ELSE source
             /\ \E request \in T!Requests \cup {"none"} :
                    timer' = T!TimeoutHandler(timer, request)
             /\ UNCHANGED requests
          \/ /\ SourcePending
             /\ source' = "idle"
             /\ \/ UNCHANGED <<timer, requests>>
                \/ \E request \in T!Requests : AskTimer(request)
          \/ /\ ~Pending
             /\ UNCHANGED <<timer, source, requests>>

RunHandler ==
    /\ handlers # <<>> /\ UNCHANGED <<exiting, events>>
    /\ \/ loop = "initial" /\ RunInitial /\ UNCHANGED requests
       \/ loop = "armed" /\ RunArmed /\ UNCHANGED requests
       \/ loop = "pending" /\ RunPending

(* Another handler of the io_context. *)
OtherHandler ==
    /\ \E request \in T!Requests : AskTimer(request)
    /\ UNCHANGED <<handlers, loop, fdWait, source, exiting, events>>

Exit ==
    /\ ~exiting /\ exiting' = TRUE
    /\ UNCHANGED <<handlers, loop, fdWait, timer, source, requests, events>>

(* The descriptor is ready: the handler of the wait is run. *)
CompleteWait ==
    /\ fdWait /\ ((TimerIsDue /\ timer.armed) \/ source = "ready")
    /\ fdWait' = FALSE /\ handlers' = Append(handlers, "run")
    /\ UNCHANGED <<loop, timer, source, exiting, requests, events>>

TimerElapses ==
    /\ T!IsRunning(timer) /\ ~timer.due
    /\ timer' = [timer EXCEPT !.due = TRUE]
    /\ UNCHANGED <<handlers, loop, fdWait, source, exiting, requests, events>>

Event ==
    /\ source = "idle" /\ source' = "ready"
    /\ events < MaxEvents /\ events' = events + 1
    /\ UNCHANGED <<handlers, loop, fdWait, timer, exiting, requests>>

Next ==
    \/ RunHandler \/ OtherHandler \/ Exit
    \/ CompleteWait \/ TimerElapses \/ Event

(***************************************************************************)
(* Properties.                                                             *)
(***************************************************************************)
(* The timer is on only as its user last asked, a one-shot timer expires once
   for each start, and one that was started elsewhere than in its callback
   is on until it expires or is stopped (the handler stops it otherwise). *)
TimerHonoursRequests ==
    /\ timer.enabled \in {"off", timer.asked}
    /\ timer.enabled = "oneshot" => ~timer.expired
    /\ timer.asked \in T!RunTypes => T!IsRunning(timer) \/ timer.expired \/ timer.inside

(* Whatever becomes of what woke the loop, the handlers of the io_context keep
   it going until somebody ends it: an event of its other source is dispatched,
   and so is a timer the loop has seen before it waits, unless the timer is
   stopped or started again meanwhile. *)
SourcesDispatched ==
    /\ source # "idle" ~> source = "idle" \/ exiting
    /\ timer.enabled = "oneshot" /\ (timer.armed \/ timer.pending)
        ~> timer.enabled # "oneshot" \/ ~(timer.armed \/ timer.pending) \/ exiting
=============================================================================
