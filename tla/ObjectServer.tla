---------------------------- MODULE ObjectServer ----------------------------
(***************************************************************************)
(* sdbusplus::asio::object_server and dbus_interface                       *)
(* (asio/object_server.hpp): the application registers a property and      *)
(* methods with an interface, initializes it, changes the property and     *)
(* drops the interface, while clients get and set the property and call    *)
(* the methods.  All interfaces here have the same path and name, so that  *)
(* sd-bus serves at most one of them.  A handler runs to its end, except   *)
(* for methods that are coroutines.                                        *)
(*                                                                         *)
(* A client is known by what the signals tell it: whether the interface    *)
(* exists and the value of the property.  Signals arrive in order.         *)
(*                                                                         *)
(* Not part of the specification but broken variants of the definition     *)
(* that follows each: StoreComparingRequest, RefuseCallAndGoOn,            *)
(* ReleaseSilently.  A property that matters is violated with it in its    *)
(* place.                                                                  *)
(***************************************************************************)
EXTENDS Naturals

CONSTANTS Interfaces, Calls, None, MaxRegistrations

VARIABLES
    interfaces,     \* the dbus_interface objects
    served,         \* the one whose vtable sd-bus has, or None
    manager,        \* is there an object manager?
    announced,      \* does the client know that the interface exists?
    cached,         \* the value of the property that it was last told, or None
    calls,          \* method calls
    registrations,  \* how many there have been, up to MaxRegistrations
    undefined       \* has something been used after its end?

vars == <<interfaces, served, manager, announced, cached, calls, registrations,
          undefined>>

Values == 0..1

(* register_property by what it leaves to the application: a read-only
   property, one with a setter (the default one is a setter that stores what
   it is asked to), and one with a getter of its own as well. *)
PropertyKinds == {"readOnly", "setter", "custom"}

(* "faulty": sd-bus refuses the table, because of a name of a method (which
   register_method does not look at) or a name used twice. *)
MethodKinds == {"methods", "faulty"}

Tables == [
    built: BOOLEAN,
    property: {"none"} \cup PropertyKinds,
    methods: {"none"} \cup MethodKinds]

NoTable == [built |-> FALSE, property |-> "none", methods |-> "none"]

Absent == [
    owners |-> {},
    isNew |-> TRUE,
    isInitialized |-> FALSE,
    property |-> "none",
    methods |-> "none",
    table |-> NoTable,      \* vtable_, up to its first end
    dangling |-> FALSE,     \* do its entries point to elements that moved?
    value |-> 0]

Idle == [state |-> "none", interface |-> None, wantsMessage |-> FALSE,
         outcome |-> "none", answers |-> 0]

TypeOK ==
    /\ interfaces \in [Interfaces -> [
            owners: SUBSET {"application", "server"}, isNew: BOOLEAN,
            isInitialized: BOOLEAN, property: {"none"} \cup PropertyKinds,
            methods: {"none"} \cup MethodKinds, table: Tables,
            dangling: BOOLEAN, value: Values]]
    /\ served \in Interfaces \cup {None}
    /\ manager \in BOOLEAN /\ announced \in BOOLEAN /\ undefined \in BOOLEAN
    /\ cached \in Values \cup {None}
    /\ registrations \in 0..MaxRegistrations
    /\ calls \in [Calls -> [
            state: {"none", "spawned", "running", "over"},
            interface: Interfaces \cup {None}, wantsMessage: BOOLEAN,
            outcome: {"none", "returned", "raised", "unreadable", "badEnum"},
            answers: 0..2]]

Init ==
    /\ interfaces = [i \in Interfaces |-> Absent]
    /\ served = None
    /\ manager = FALSE
    /\ announced = FALSE
    /\ cached = None
    /\ calls = [k \in Calls |-> Idle]
    /\ registrations = 0
    /\ undefined = FALSE

clientVars == <<announced, cached>>

HasHandle(i) == "application" \in interfaces[i].owners

-----------------------------------------------------------------------------
(* The life of an interface. *)

(* object_server's constructor, or add_manager later. *)
AddManager ==
    /\ ~manager
    /\ manager' = TRUE
    /\ UNCHANGED <<interfaces, served, clientVars, calls, undefined, registrations>>

AddInterface(i) ==
    /\ interfaces[i].isNew
    /\ interfaces' = [interfaces EXCEPT ![i].isNew = FALSE,
                                        ![i].owners = {"application", "server"}]
    /\ UNCHANGED <<served, manager, clientVars, calls, undefined, registrations>>

(* A registration makes the vector of its kind grow: a table built before
   has pointers to where the elements were.  The property of the model is the
   first one registered. *)
MayRegister(i) == HasHandle(i) /\ ~interfaces[i].isInitialized

CountRegistration ==
    registrations < MaxRegistrations /\ registrations' = registrations + 1

RegisterProperty(i, kind) ==
    /\ MayRegister(i)
    /\ interfaces' = [interfaces EXCEPT
            ![i].property = IF @ = "none" THEN kind ELSE @,
            ![i].dangling = @ \/ interfaces[i].table.property # "none"]
    /\ CountRegistration
    /\ UNCHANGED <<served, manager, clientVars, calls, undefined>>

RegisterMethod(i, kind) ==
    /\ MayRegister(i)
    /\ interfaces' = [interfaces EXCEPT
            ![i].methods = IF @ = "faulty" THEN @ ELSE kind,
            ![i].dangling = @ \/ interfaces[i].table.methods # "none"]
    /\ CountRegistration
    /\ UNCHANGED <<served, manager, clientVars, calls, undefined>>

(* What on_get_ returns and stores: the value, or what the getter makes of it. *)
Got(kind, value) == IF kind = "custom" THEN Values ELSE {value}

(* initialize.  A table that was built by a failed attempt is extended, but
   sd-bus reads it up to its first end.  The client is told by InterfacesAdded,
   if there is a manager, and by PropertiesChanged, unless that is skipped;
   both read the property. *)
Initialize(i, skipPropertyChangedSignal) ==
    LET o == interfaces[i]
        table == IF o.table.built THEN o.table
                 ELSE [built |-> TRUE, property |-> o.property, methods |-> o.methods]
        refused == served # None \/ table.methods = "faulty"
        told == manager \/ ~skipPropertyChangedSignal
    IN
    /\ MayRegister(i)
    /\ \/ /\ refused
          /\ interfaces' = [interfaces EXCEPT ![i].table = table]
          /\ UNCHANGED <<served, announced, cached, undefined>>
       \/ /\ ~refused
          /\ \E value \in IF told THEN Got(table.property, o.value) ELSE {o.value} :
                /\ interfaces' = [interfaces EXCEPT ![i].table = table,
                                                    ![i].isInitialized = TRUE,
                                                    ![i].value = value]
                /\ cached' = IF told /\ table.property # "none" THEN value ELSE cached
          /\ served' = i
          /\ announced' = (announced \/ manager)
          /\ undefined' = o.dangling
    /\ UNCHANGED <<manager, calls, registrations>>

Drop(i, owner, tell) ==
    LET owners == interfaces[i].owners \ {owner}
        last == owners = {}
        told == tell /\ last /\ manager
    IN
    /\ owner \in interfaces[i].owners
    /\ interfaces' = [interfaces EXCEPT
            ![i] = IF last THEN [Absent EXCEPT !.isNew = FALSE]
                   ELSE [@ EXCEPT !.owners = owners]]
    /\ served' = IF last /\ served = i THEN None ELSE served
    /\ announced' = (announced /\ ~told)
    /\ cached' = IF told THEN None ELSE cached
    /\ UNCHANGED <<manager, calls, undefined, registrations>>

ReleaseSilently(i, owner) == Drop(i, owner, owner = "server")

(* remove_interface, and the application's handle.  The last one destroys the
   interface: whether it was initialized or not, its removal is announced,
   and then its vtable goes. *)
Release(i, owner) == Drop(i, owner, TRUE)

-----------------------------------------------------------------------------
(* The property. *)

(* The values that a setter may leave: what it was asked for, or what it
   prefers, or the old one when it is content with it; one that refuses the
   request does not change the value. *)
SetResults(kind, request) == IF kind = "readOnly" THEN {request} ELSE Values

StoreComparingRequest(i, request) ==
    LET o == interfaces[i] IN
    \E stored \in SetResults(o.property, request) :
        IF request = o.value
        THEN interfaces' = [interfaces EXCEPT ![i].value = stored] /\ UNCHANGED cached
        ELSE \E value \in Got(o.table.property, stored) :
                /\ interfaces' = [interfaces EXCEPT ![i].value = value]
                /\ cached' = IF o.table.property # "none" THEN value ELSE cached

(* callback_set_value_instance and callback_set_message_instance, and the
   signal of set_property or set_handler when the value has changed, for which
   sd-bus reads it again. *)
Store(i, request) ==
    LET o == interfaces[i] IN
    \E stored \in SetResults(o.property, request) :
        IF stored = o.value
        THEN UNCHANGED <<interfaces, cached>>
        ELSE \E value \in Got(o.table.property, stored) :
                /\ interfaces' = [interfaces EXCEPT ![i].value = value]
                /\ cached' = IF o.table.property # "none" THEN value ELSE cached

SetProperty(i, request) ==
    /\ HasHandle(i)
    /\ interfaces[i].isInitialized
    /\ interfaces[i].property # "none"
    /\ Store(i, request)
    /\ UNCHANGED <<served, manager, announced, calls, undefined, registrations>>

(* set_handler, on a client's request. *)
SetHandler(i, request) ==
    /\ served = i
    /\ interfaces[i].table.property \in {"setter", "custom"}
    /\ Store(i, request)
    /\ UNCHANGED <<served, manager, announced, calls, undefined, registrations>>

(* get_handler, on a client's request. *)
GetHandler(i) ==
    /\ served = i
    /\ \E value \in Got(interfaces[i].table.property, interfaces[i].value) :
        interfaces' = [interfaces EXCEPT ![i].value = value]
    /\ UNCHANGED <<served, manager, clientVars, calls, undefined, registrations>>

-----------------------------------------------------------------------------
(* Method calls. *)

MayCall(k, i) ==
    /\ served = i
    /\ interfaces[i].table.methods = "methods"
    /\ calls[k].state = "none"

Ends(call, outcome, answers) ==
    [state |-> "over", interface |-> None, wantsMessage |-> call.wantsMessage,
     outcome |-> outcome, answers |-> call.answers + answers]

(* callback_method_instance: the reply is sent before it returns.  Whatever it
   throws becomes the error that sd-bus replies with. *)
CallbackMethod(call) ==
    {Ends(call, outcome, 1) : outcome \in {"returned", "raised", "unreadable", "badEnum"}}

(* method_handler with a callback_method_instance. *)
MethodHandler(k, i) ==
    /\ MayCall(k, i)
    /\ \E call \in CallbackMethod(calls[k]) : calls' = [calls EXCEPT ![k] = call]
    /\ UNCHANGED <<interfaces, served, manager, clientVars, undefined, registrations>>

(* method_handler with a coroutine_method_instance: it is spawned with a copy
   of the message and a pointer to the instance. *)
SpawnMethod(k, i) ==
    /\ MayCall(k, i)
    /\ \E wantsMessage \in BOOLEAN :
        calls' = [calls EXCEPT ![k] =
            [state |-> "spawned", interface |-> i, wantsMessage |-> wantsMessage,
             outcome |-> "none", answers |-> 0]]
    /\ UNCHANGED <<interfaces, served, manager, clientVars, undefined, registrations>>

RefuseCallAndGoOn(call) == [call EXCEPT !.state = "running", !.answers = @ + 1]

(* after_spawn: the arguments are not what the method takes. *)
RefuseCall(call) == Ends(call, "unreadable", 1)

(* after_spawn: only an SdBusError is caught around the reading; that a string
   is no enumerator is another exception, and the spawn is detached. *)
ReadArguments(call) ==
    {RefuseCall(call), Ends(call, "badEnum", 0), [call EXCEPT !.state = "running"]}

(* after_spawn: the reply is sent, or the error made from the message. A
   callback that wants the message was given it: there is none to make an
   error from, and the exception this raises ends with the coroutine. *)
CompleteMethod(call) ==
    {Ends(call, "returned", 1),
     Ends(call, "raised", IF call.wantsMessage THEN 0 ELSE 1)}

(* A step of the coroutine.  The instance goes with its interface: a coroutine
   that outlives it may or may not find the callback intact. *)
RunCoroutine(k) ==
    /\ calls[k].state \in {"spawned", "running"}
    /\ \E call \in IF calls[k].state = "spawned" THEN ReadArguments(calls[k])
                   ELSE CompleteMethod(calls[k]) :
        calls' = [calls EXCEPT ![k] = call]
    /\ undefined' \in IF interfaces[calls[k].interface].owners = {} THEN BOOLEAN ELSE {FALSE}
    /\ UNCHANGED <<interfaces, served, manager, clientVars, registrations>>

-----------------------------------------------------------------------------
Next ==
    /\ ~undefined
    /\ \/ AddManager
       \/ \E i \in Interfaces :
            \/ AddInterface(i)
            \/ \E kind \in PropertyKinds : RegisterProperty(i, kind)
            \/ \E kind \in MethodKinds : RegisterMethod(i, kind)
            \/ \E skip \in BOOLEAN : Initialize(i, skip)
            \/ \E owner \in {"application", "server"} : Release(i, owner)
            \/ \E request \in Values : SetProperty(i, request) \/ SetHandler(i, request)
            \/ GetHandler(i)
            \/ \E k \in Calls : MethodHandler(k, i) \/ SpawnMethod(k, i)
       \/ \E k \in Calls : RunCoroutine(k)

-----------------------------------------------------------------------------
(* What the client has been told exists is there: the removal of an interface
   is announced, and before its vtable goes, and its addition is not announced
   unless sd-bus has taken it (~dbus_interface and initialize). *)
AnnouncedIsServed == announced => served # None

(* The client's value of the property is the property's, as long as it is read
   by the default getter: whoever sets it, and whatever the setter makes of the
   request, a change is signalled (set_property, set_handler). *)
CacheIsCurrent ==
    \A i \in Interfaces :
        announced /\ served = i /\ ~undefined
            /\ interfaces[i].table.property \in {"readOnly", "setter"} =>
        cached = interfaces[i].value

(* A method call is never answered twice, and it has been answered when its
   method has returned, or has failed and was not given the message. *)
AnsweredOnce ==
    \A k \in Calls :
        LET call == calls[k] IN
        /\ call.answers <= (IF call.state = "over" THEN 1 ELSE 0)
        /\ \/ call.outcome = "returned"
           \/ call.outcome = "raised" /\ ~call.wantsMessage
           => call.answers = 1

(* "Catch D-Bus error explicitly called by method handler"
   (asio/object_server.hpp:290): an error that a method's handler throws is
   what the caller gets. *)
ErrorIsAnswered ==
    \A k \in Calls : calls[k].outcome = "raised" => calls[k].answers = 1
=============================================================================
