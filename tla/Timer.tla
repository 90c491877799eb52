------------------------------- MODULE Timer -------------------------------
(***************************************************************************)
(* sdbusplus::Timer (include/sdbusplus/timer.hpp): a time source of        *)
(* sd-event with a user callback.  A timer is a record; each method is a   *)
(* function of it, and TimeoutHandler is all that happens while sd-event   *)
(* dispatches the source, with what the user's callback does in it.        *)
(*                                                                         *)
(* Not part of the specification but broken variants of the definition     *)
(* that follows each: StartedWithoutReset.  A property that matters is     *)
(* violated with it in its place.                                          *)
(***************************************************************************)

RunTypes == {"oneshot", "on"}

(* What a user does with a timer; "none" is a callback that leaves it alone. *)
Requests == {"stop"} \cup RunTypes

Timers == [
    enabled: {"off"} \cup RunTypes,     \* SD_EVENT_OFF, ONESHOT, ON
    runType: RunTypes,
    expired: BOOLEAN,
    due: BOOLEAN,       \* the source's time has passed
    armed: BOOLEAN,     \* the event loop's descriptor will tell when it does
    pending: BOOLEAN,   \* sd-event has noticed
    asked: {"nothing"} \cup Requests,   \* the user's last request
    inside: BOOLEAN]    \* was it made by the callback?

(* The constructor adds the source with an infinite time and stops it. *)
Initialize ==
    [enabled |-> "off", runType |-> "oneshot", expired |-> FALSE, due |-> FALSE,
     armed |-> FALSE, pending |-> FALSE, asked |-> "nothing", inside |-> FALSE]

(* setEnabled: a source that is off is not pending. *)
SetEnabled(t, type) ==
    [t EXCEPT !.enabled = type, !.pending = IF type = "off" THEN FALSE ELSE @]

IsRunning(t) == t.enabled # "off"

Stopped(t) == SetEnabled(t, "off")

StartedWithoutReset(t, type) ==
    SetEnabled([t EXCEPT !.runType = type], type)

(* start: sd_event_source_set_time takes a pending source back, and leaves
   it to the loop's next iteration to arm the descriptor. *)
Started(t, type) ==
    SetEnabled([Stopped(t) EXCEPT !.expired = FALSE, !.runType = type,
                                  !.due = FALSE, !.armed = FALSE], type)

Requested(t, request) ==
    IF request = "stop" THEN Stopped(t) ELSE Started(t, request)

(* A request of the user's, inside the callback or not. *)
Ask(t, request, inside) ==
    [Requested(t, request) EXCEPT !.asked = request, !.inside = inside]

(* timeoutHandler.  sd-event turns a one-shot source off before it calls the
   handler: one that is on afterwards was started again by the callback. *)
TimeoutHandler(t, request) ==
    LET dispatched ==
            IF t.enabled = "oneshot" THEN Stopped(t) ELSE [t EXCEPT !.pending = FALSE]
        rearmed ==
            IF t.runType = "on"
            THEN [dispatched EXCEPT !.due = FALSE, !.armed = FALSE] ELSE dispatched
        expired == [rearmed EXCEPT !.expired = TRUE]
        called == IF request = "none" THEN expired ELSE Ask(expired, request, TRUE)
    IN IF called.enabled = "oneshot" THEN Stopped(called) ELSE called
=============================================================================
