--------------------------- MODULE AsioConnection ---------------------------
(***************************************************************************)
(* sdbusplus::asio::connection (include/sdbusplus/asio/connection.hpp,     *)
(* asio/detail/async_send_handler.hpp): a bus that is processed by the     *)
(* handlers of a boost::asio::io_context.  The io_context runs one handler *)
(* at a time, in the order in which they became ready.  A handler of the   *)
(* connection processes at most one thing the bus has to do and leaves a   *)
(* successor: itself, or waits for the bus' descriptor and for the         *)
(* earliest timeout of a method call.                                      *)
(*                                                                         *)
(* BusCalls are made by a match's handler, from within process_discard;    *)
(* YieldCalls by coroutines that the io_context runs beside the connection.*)
(* The bus stays connected: process_discard throws when it does not.       *)
(*                                                                         *)
(* Not part of the specification but broken variants of the definition     *)
(* that follows each: DoUnpackAnyReply, AddReadWait,                       *)
(* OnFdEventCancelLate, OnTimerEventReturns.  A property that matters is   *)
(* violated with one of them in its place.                                 *)
(***************************************************************************)
EXTENDS Naturals, Sequences

CONSTANTS
    BusCalls,
    YieldCalls,
    Signal,         \* an incoming message that is no reply
    MaxSignals,     \* bound: signals received
    MaxStalls       \* bound: times the peer stops reading from the socket

AllCalls == BusCalls \cup YieldCalls

VARIABLES
    handlers,   \* io_context: the handlers that are ready, oldest first
    waits,      \* socket: the async_waits that are pending, by event
    timerFor,   \* timer: the calls the pending async_wait is for, none if there is none
    inbox,      \* sd_bus: messages received and not processed
    outbox,     \* sd_bus: calls not written to the socket yet
    writable,   \* may the socket be written to?
    peer,       \* calls the peer has received and not answered
    state,      \* each call, as its caller's sd_bus knows it
    outcomes,   \* each call: what its completion handler was called with
    signals, stalls     \* so many yet

busVars == <<inbox, outbox, peer, state, outcomes>>
worldVars == <<writable, signals, stalls>>
vars == <<handlers, waits, timerFor, busVars, worldVars>>

Handlers == {"process", "fd", "fd aborted", "timer", "timer aborted"} \cup YieldCalls

TypeOK ==
    /\ handlers \in Seq(Handlers)
    /\ waits \in [read: Nat, write: Nat]
    /\ timerFor \subseteq AllCalls /\ writable \in BOOLEAN
    /\ inbox \in Seq(AllCalls \cup {Signal}) /\ outbox \in Seq(AllCalls)
    /\ peer \subseteq AllCalls
    /\ state \in [AllCalls -> {"none", "spawned", "waiting", "expired", "done"}]
    /\ outcomes \in [AllCalls -> Seq({"reply", "error", "invalid_argument", "timeout",
                                     "not built", "not sent", "not made"})]
    /\ signals \in 0..MaxSignals /\ stalls \in 0..MaxStalls

NoWaits == [read |-> 0, write |-> 0]
Times(n, handler) == [i \in 1..n |-> handler]
In(s) == {c \in AllCalls : state[c] = s}

(* The constructor posts the first process. *)
Init ==
    /\ handlers = <<"process">>
    /\ waits = NoWaits /\ timerFor = {}
    /\ inbox = <<>> /\ outbox = <<>> /\ peer = {}
    /\ state = [c \in AllCalls |-> "none"]
    /\ outcomes = [c \in AllCalls |-> <<>>]
    /\ writable = TRUE /\ signals = 0 /\ stalls = 0

(***************************************************************************)
(* Method calls.                                                           *)
(***************************************************************************)
CallHandler(c, outcome) ==
    /\ state' = [state EXCEPT ![c] = "done"]
    /\ outcomes' = [outcomes EXCEPT ![c] = Append(@, outcome)]

(* unpack: the arguments are read unless the call has failed. *)
Unpack(result) == IF result = "reply" THEN {"reply", "invalid_argument"} ELSE {result}

(* yield_method_call goes on: whatever has come back is read, an error, too,
   and when that fails the result is lost. *)
ResumeYield(result) == {result, "invalid_argument"}

Complete(c, result) ==
    \E outcome \in IF c \in YieldCalls THEN ResumeYield(result) ELSE Unpack(result) :
        CallHandler(c, outcome)

(* async_send_handler: what cannot be sent completes at once. *)
AsyncSend(c) ==
    \/ Complete(c, "not sent") /\ UNCHANGED <<outbox, peer>>
    \/ /\ state' = [state EXCEPT ![c] = "waiting"]
       /\ UNCHANGED outcomes
       /\ IF writable /\ outbox = <<>>
          THEN peer' = peer \cup {c} /\ UNCHANGED outbox
          ELSE outbox' = Append(outbox, c) /\ UNCHANGED peer

(* async_method_call_timed *)
AsyncMethodCall(c) ==
    \/ CallHandler(c, "not built") /\ UNCHANGED <<outbox, peer>>
    \/ AsyncSend(c)

(* yield_method_call, up to its wait: a coroutine whose ec is set, by an earlier
   call, makes no call. *)
YieldMethodCall(c) ==
    \/ \E outcome \in {"not made", "not built"} : CallHandler(c, outcome) /\ UNCHANGED <<outbox, peer>>
    \/ AsyncSend(c)

DoUnpackAnyReply(c) == \E result \in {"reply", "error"} : Complete(c, result)

(* do_unpack: sd_bus drops an answer nobody waits for. *)
DoUnpack(c) ==
    IF state[c] = "waiting"
    THEN \E result \in {"reply", "error"} : Complete(c, result)
    ELSE UNCHANGED <<state, outcomes>>

(* process_discard when there is something to do: calls that are past their
   timeout come first, then what waits to be written, then one message. *)
ProcessDiscard ==
    \/ \E c \in In("expired") :
        Complete(c, "timeout") /\ UNCHANGED <<inbox, outbox, peer>>
    \/ /\ In("expired") = {} /\ outbox # <<>> /\ writable
       /\ outbox' = Tail(outbox) /\ peer' = peer \cup {Head(outbox)}
       /\ UNCHANGED <<inbox, state, outcomes>>
    \/ /\ In("expired") = {} /\ ~(outbox # <<>> /\ writable) /\ inbox # <<>>
       /\ inbox' = Tail(inbox)
       /\ IF Head(inbox) # Signal
          THEN DoUnpack(Head(inbox)) /\ UNCHANGED <<outbox, peer>>
          ELSE \/ UNCHANGED <<outbox, peer, state, outcomes>>
               \/ \E c \in BusCalls : state[c] = "none" /\ AsyncMethodCall(c)

NothingToDo == In("expired") = {} /\ ~(outbox # <<>> /\ writable) /\ inbox = <<>>

(***************************************************************************)
(* The connection's handlers.  ready, pending and timed are the handlers,  *)
(* the waits and the timer's wait once the handler has cancelled what it   *)
(* cancels.                                                                *)
(***************************************************************************)
CancelTimer(ready) ==
    IF timerFor = {} THEN ready ELSE Append(ready, "timer aborted")

AddReadWait(pending) == [pending EXCEPT !.read = @ + 1]

(* get_events asks for reading, and for writing while something waits for it. *)
AddWaits(pending) ==
    [read |-> pending.read + 1,
     write |-> IF outbox = <<>> THEN pending.write ELSE pending.write + 1]

(* get_timeout has none without outstanding calls.  expires_at cancels the
   timer's wait. *)
ReadWait(ready, pending, timed) ==
    /\ waits' = AddWaits(pending)
    /\ timerFor' = IF In("waiting") = {} THEN timed ELSE In("waiting")
    /\ handlers' = IF timed = {} \/ In("waiting") = {} THEN ready
                  ELSE Append(ready, "timer aborted")

Process(ready, pending, timed) ==
    \/ /\ ProcessDiscard
       /\ handlers' = Append(ready, "process")         \* read_immediate
       /\ waits' = pending /\ timerFor' = timed
    \/ /\ NothingToDo /\ UNCHANGED busVars
       /\ ReadWait(ready, pending, timed)

OnFdEventCancelLate ==
    /\ timerFor' = {}
    /\ \/ /\ ProcessDiscard /\ UNCHANGED waits
          /\ handlers' = CancelTimer(Append(Tail(handlers), "process"))
       \/ /\ NothingToDo /\ UNCHANGED busVars
          /\ waits' = AddWaits(waits) /\ handlers' = CancelTimer(Tail(handlers))

OnFdEvent == Process(CancelTimer(Tail(handlers)), waits, {})

OnTimerEventReturns ==
    /\ handlers' = Tail(handlers) \o Times(waits.read + waits.write, "fd aborted")
    /\ waits' = NoWaits /\ UNCHANGED <<timerFor, busVars>>

OnTimerEvent ==
    Process(Tail(handlers) \o Times(waits.read + waits.write, "fd aborted"),
            NoWaits, timerFor)

(* io_context::run: the next handler. *)
RunHandler ==
    /\ handlers # <<>> /\ UNCHANGED worldVars
    /\ \/ Head(handlers) = "process" /\ Process(Tail(handlers), waits, timerFor)
       \/ Head(handlers) = "fd" /\ OnFdEvent
       \/ Head(handlers) = "timer" /\ OnTimerEvent
       \/ /\ Head(handlers) \in {"fd aborted", "timer aborted"}
          /\ handlers' = Tail(handlers) /\ UNCHANGED <<waits, timerFor, busVars>>
       \/ /\ Head(handlers) \in YieldCalls /\ YieldMethodCall(Head(handlers))
          /\ handlers' = Tail(handlers) /\ UNCHANGED <<waits, timerFor, inbox>>

(* boost::asio::spawn of a coroutine that will make the call. *)
Spawn(c) ==
    /\ state[c] = "none" /\ state' = [state EXCEPT ![c] = "spawned"]
    /\ handlers' = Append(handlers, c)
    /\ UNCHANGED <<waits, timerFor, inbox, outbox, peer, outcomes, worldVars>>

(***************************************************************************)
(* The reactor of the io_context, the peer and the clock.                  *)
(***************************************************************************)
Ready(event) == IF event = "read" THEN inbox # <<>> ELSE writable

CompleteWaits(event) ==
    /\ waits[event] > 0 /\ Ready(event)
    /\ handlers' = handlers \o Times(waits[event], "fd")
    /\ waits' = [waits EXCEPT ![event] = 0]
    /\ UNCHANGED <<timerFor, busVars, worldVars>>

(* Not before the earliest of its calls is due, which may be over by then. *)
TimerExpires ==
    /\ \E c \in timerFor : state[c] # "waiting"
    /\ timerFor' = {}
    /\ handlers' = Append(handlers, "timer")
    /\ UNCHANGED <<waits, busVars, worldVars>>

Receive ==
    /\ UNCHANGED <<handlers, waits, timerFor, outbox, state, outcomes, writable, stalls>>
    /\ \/ /\ signals < MaxSignals /\ signals' = signals + 1
          /\ inbox' = Append(inbox, Signal) /\ UNCHANGED peer
       \/ \E c \in peer :
            /\ peer' = peer \ {c} /\ inbox' = Append(inbox, c) /\ UNCHANGED signals

Expire(c) ==
    /\ state[c] = "waiting" /\ state' = [state EXCEPT ![c] = "expired"]
    /\ UNCHANGED <<handlers, waits, timerFor, inbox, outbox, peer, outcomes, worldVars>>

Stall ==
    /\ writable /\ stalls < MaxStalls
    /\ writable' = FALSE /\ stalls' = stalls + 1
    /\ UNCHANGED <<handlers, waits, timerFor, busVars, signals>>

Unstall ==
    /\ ~writable /\ writable' = TRUE
    /\ UNCHANGED <<handlers, waits, timerFor, busVars, signals, stalls>>

Next ==
    \/ RunHandler \/ TimerExpires
    \/ \E event \in {"read", "write"} : CompleteWaits(event)
    \/ \E c \in AllCalls : Expire(c)
    \/ Receive \/ Stall \/ Unstall
    \/ \E c \in YieldCalls : Spawn(c)

(***************************************************************************)
(* Properties.                                                             *)
(***************************************************************************)
(* A completion handler is called exactly once, also when the answer comes
   after the call has timed out or the call could not be sent at all. *)
HandlerCalledOnce ==
    \A c \in AllCalls : Len(outcomes[c]) = IF state[c] = "done" THEN 1 ELSE 0

(* When no handler of the connection is about to process the bus, the socket
   is watched for what the bus has to do, and the timer for the timeout of
   every call that was made while the bus was processed.  Cancelled waits
   and timers of one chain of handlers never leave another one without. *)
Idle == \A i \in DOMAIN handlers : handlers[i] \notin {"process", "fd", "timer"}
IdleIsWatched ==
    Idle =>
        /\ waits.read > 0
        /\ \A c \in BusCalls : state[c] \in {"waiting", "expired"} => c \in timerFor
        /\ \A i \in DOMAIN outbox : outbox[i] \in BusCalls => waits.write > 0

(* Whatever is received is processed. *)
MessagesProcessed == inbox # <<>> ~> inbox = <<>>

(* A call made by a match's handler completes: it is answered or times out. *)
BusCallsEnd == \A c \in BusCalls : state[c] = "waiting" ~> state[c] = "done"
=============================================================================
