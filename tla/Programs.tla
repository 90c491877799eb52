------------------------------ MODULE Programs ------------------------------
(***************************************************************************)
(* Programs that use one part of the library each: a connection of a       *)
(* boost::asio::io_context, an sd_event loop with a timer, interfaces of   *)
(* an asio::object_server, composed server objects, the transaction ids    *)
(* of threads that serve a bus each, messages with typed contents, object  *)
(* paths, the callbacks of slots, and properties that are unpacked.  These *)
(* parts share no state, so that each program is explored by itself:       *)
(* program is chosen at the start, and the variables of the other parts    *)
(* stay as they are.                                                       *)
(***************************************************************************)
EXTENDS Naturals, Sequences

CONSTANTS
    BusCalls, YieldCalls, Signal, MaxSignals, MaxStalls,    \* AsioConnection
    MaxRequests, MaxEvents,                                 \* SdEventWrapper
    Interfaces, Calls, None, MaxRegistrations,              \* ObjectServer
    Objects, Composed,                                      \* ServerObject
    Threads, BusHash, ThreadHash, Width, Cookies, MaxTime,  \* Transactions
    MaxNesting, Strings, VectorLengths, MapLengths,         \* Marshalling
    Sendable, Readable, MaxArguments,                       \* Messages
    Characters, MaxCharacters,                              \* ObjectPaths
    Slots, NoSlot,                                          \* Slots
    Keys, MaxEntries, MaxAnswers                            \* PropertyUnpacking

ASSUME CallsAssumption ==
    /\ Signal \notin BusCalls \cup YieldCalls
    /\ YieldCalls \cap BusCalls = {}
    (* In the queue of the io_context a coroutine is told by its call. *)
    /\ YieldCalls \cap {"process", "fd", "fd aborted", "timer", "timer aborted"} = {}
ASSUME InterfacesAssumption == None \notin Interfaces
ASSUME BoundsAssumption ==
    {MaxSignals, MaxStalls, MaxRequests, MaxEvents, MaxRegistrations, MaxTime,
     MaxNesting, MaxArguments, MaxCharacters, MaxEntries, MaxAnswers} \subseteq Nat
ASSUME SlotsAssumption == NoSlot \notin Slots
ASSUME HashAssumption ==
    /\ Width \in Nat
    /\ BusHash \in [Threads -> 0..2^Width - 1]
    /\ ThreadHash \in [Threads -> 0..2^Width - 1]
ASSUME CookiesAssumption == Cookies \subseteq Nat \ {0}
ASSUME CharactersAssumption == Characters \subseteq 0..255
ASSUME LengthsAssumption == VectorLengths \cup MapLengths \subseteq Nat

VARIABLES
    program,
    handlers, waits, timerFor, inbox, outbox, writable, peer, state, outcomes, signals,
    stalls,
    runs, loop, fdWait, timer, source, exiting, requests, events,
    interfaces, served, manager, announced, cached, calls, registrations, undefined,
    life, signalstate, added, registered, listed,
    id, handling, time,
    sent, unread, last,
    path, history,
    owned, kind, installed, callback, calling,
    answer, answers, variables, unpacked

connectionVars == <<handlers, waits, timerFor, inbox, outbox, writable, peer, state,
                    outcomes, signals, stalls>>
sdEventVars == <<runs, loop, fdWait, timer, source, exiting, requests, events>>
serverVars == <<interfaces, served, manager, announced, cached, calls, registrations,
                undefined>>
objectVars == <<life, signalstate, added, registered, listed>>
transactionVars == <<id, handling, time>>
messageVars == <<sent, unread, last>>
pathVars == <<path, history>>
slotVars == <<owned, kind, installed, callback, calling>>
unpackingVars == <<answer, answers, variables, unpacked>>
vars == <<program, connectionVars, sdEventVars, serverVars, objectVars,
          transactionVars, messageVars, pathVars, slotVars, unpackingVars>>

Connection == INSTANCE AsioConnection
SdEvents == INSTANCE SdEventWrapper WITH handlers <- runs
Server == INSTANCE ObjectServer
ServerObjects == INSTANCE ServerObject
TransactionIds == INSTANCE Transactions
Messaging == INSTANCE Messages
ASSUME TypesAssumption == Sendable \cup Readable \subseteq Messaging!CompleteTypes
Paths == INSTANCE ObjectPaths
Callbacks == INSTANCE Slots
Unpacking == INSTANCE PropertyUnpacking

AllPrograms == {"connection", "sd_event", "object_server", "server_object",
                "transactions", "messages", "paths", "slots", "unpacking"}

TypeOK ==
    /\ program \in AllPrograms
    /\ Connection!TypeOK /\ SdEvents!TypeOK /\ Server!TypeOK /\ ServerObjects!TypeOK
    /\ TransactionIds!TypeOK /\ Messaging!TypeOK /\ Paths!TypeOK
    /\ Callbacks!TypeOK /\ Unpacking!TypeOK

Init ==
    /\ program \in AllPrograms
    /\ Connection!Init /\ SdEvents!Init /\ Server!Init /\ ServerObjects!Init
    /\ TransactionIds!Init /\ Messaging!Init /\ Paths!Init
    /\ Callbacks!Init
    /\ IF program = "unpacking" THEN Unpacking!Init ELSE Unpacking!NoProgram

(* What all programs but one leave alone. *)
OthersUnchanged ==
    /\ UNCHANGED program
    /\ IF program = "connection" THEN TRUE ELSE UNCHANGED connectionVars
    /\ IF program = "sd_event" THEN TRUE ELSE UNCHANGED sdEventVars
    /\ IF program = "object_server" THEN TRUE ELSE UNCHANGED serverVars
    /\ IF program = "server_object" THEN TRUE ELSE UNCHANGED objectVars
    /\ IF program = "transactions" THEN TRUE ELSE UNCHANGED transactionVars
    /\ IF program = "messages" THEN TRUE ELSE UNCHANGED messageVars
    /\ IF program = "paths" THEN TRUE ELSE UNCHANGED pathVars
    /\ IF program = "slots" THEN TRUE ELSE UNCHANGED slotVars
    /\ IF program = "unpacking" THEN TRUE ELSE UNCHANGED unpackingVars

RunConnection == program = "connection" /\ Connection!Next /\ OthersUnchanged
RunSdEvents == program = "sd_event" /\ SdEvents!Next /\ OthersUnchanged
RunServer == program = "object_server" /\ Server!Next /\ OthersUnchanged
RunServerObjects == program = "server_object" /\ ServerObjects!Next /\ OthersUnchanged
RunTransactions == program = "transactions" /\ TransactionIds!Next /\ OthersUnchanged
RunMessages == program = "messages" /\ Messaging!Next /\ OthersUnchanged
RunPaths == program = "paths" /\ Paths!Next /\ OthersUnchanged
RunSlots == program = "slots" /\ Callbacks!Next /\ OthersUnchanged
RunUnpacking == program = "unpacking" /\ Unpacking!Next /\ OthersUnchanged

Next ==
    \/ RunConnection \/ RunSdEvents
    \/ RunServer \/ RunServerObjects
    \/ RunTransactions
    \/ RunMessages \/ RunPaths
    \/ RunSlots \/ RunUnpacking

Spec == Init /\ [][Next]_vars

(* The io_context runs its handlers, its reactor reports what is ready, and time
   passes; a peer that has stopped reading goes on.  No answer is promised. *)
StepOf(p, step) == program = p /\ step /\ OthersUnchanged

FairSpec ==
    /\ Spec
    /\ WF_vars(StepOf("connection", Connection!RunHandler))
    /\ WF_vars(StepOf("connection", Connection!TimerExpires))
    /\ WF_vars(StepOf("connection", Connection!CompleteWaits("read")))
    /\ WF_vars(StepOf("connection", Connection!CompleteWaits("write")))
    /\ \A c \in BusCalls \cup YieldCalls : WF_vars(StepOf("connection", Connection!Expire(c)))
    /\ WF_vars(StepOf("connection", Connection!Unstall))
    /\ WF_vars(StepOf("sd_event", SdEvents!RunHandler))
    /\ WF_vars(StepOf("sd_event", SdEvents!CompleteWait))
    /\ WF_vars(StepOf("sd_event", SdEvents!TimerElapses))

-----------------------------------------------------------------------------
(* A completion handler is called exactly once (do_unpack), and the object of a
   callback is there whenever sd-bus calls it (slot). *)
CallbacksAreSound == Connection!HandlerCalledOnce /\ Callbacks!CallbackHasObject

(* Between two of its handlers a connection watches the bus and its timeouts
   (read_wait). *)
IdleIsWatched == Connection!IdleIsWatched

(* What a connection receives is processed (process). *)
MessagesProcessed == Connection!MessagesProcessed

(* A call made from a connection's handler ends (on_timer_event). *)
BusCallsEnd == Connection!BusCallsEnd

(* A timer expires as the last request to it asks for, whoever makes that and
   when, but one made in its own callback, after which the handler may stop the
   timer (Timer::timeoutHandler). *)
TimerHonoursRequests == SdEvents!TimerHonoursRequests

(* An sd_event source that is pending is dispatched (sd_event_wrapper::run). *)
SourcesDispatched == SdEvents!SourcesDispatched

(* What clients have been told to exist is registered with sd-bus
   (~dbus_interface, object::~object). *)
AnnouncedIsServed == Server!AnnouncedIsServed /\ ServerObjects!ListedIsRegistered

(* A client that listens to signals knows the value of a property
   (set_property, set_handler), and one that reads properties has unpacked what
   was answered (unpackProperties). *)
PropertiesAreKnown == Server!CacheIsCurrent /\ Unpacking!UnpackedIsAnswered

(* A method call is answered, and not twice (after_spawn). *)
AnsweredOnce == Server!AnsweredOnce

(* An error that a method's handler throws is what its caller gets
   (asio/object_server.hpp:290). *)
ErrorIsAnswered == Server!ErrorIsAnswered

(* The transaction id in a handler is the id of the call (set_id). *)
TransactionOfCall == TransactionIds!TransactionOfCall

(* The journal entries of a handler have one transaction id
   (server/README.md:18). *)
TransactionKept == TransactionIds!TransactionKept

(* What is read from a message is what was sent (read). *)
ReadsWhatWasSent == Messaging!ReadsWhatWasAppended

(* An element that is appended to an object path is its filename
   (string_path_wrapper). *)
PathsRoundTrip == Paths!PathsRoundTrip
=============================================================================
