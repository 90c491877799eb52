---------------------------- MODULE ServerObject ----------------------------
(***************************************************************************)
(* sdbusplus::server::object and server::interface (server/object.hpp,     *)
(* server/interface.hpp): objects composed of interfaces, all at one path, *)
(* that register with sd-bus and announce themselves with the signals of   *)
(* an object manager.  What a client that listens to them believes to      *)
(* exist is listed.  A registration that sd-bus refuses ends the           *)
(* constructor, and the bases built before it go: nothing is left of it.   *)
(*                                                                         *)
(* Not part of the specification but a broken variant of the definition    *)
(* that follows it: DestroyDeferredSilently.  A property that matters is   *)
(* violated with it in its place.                                          *)
(***************************************************************************)
EXTENDS FiniteSets

CONSTANTS
    Objects,
    Composed    \* the interfaces that an object is composed of

VARIABLES
    life,           \* of each object: "new", "alive", "destroyed"
    signalstate,    \* __sdbusplus_server_object_signalstate
    added,          \* the interfaces whose _interface_added is set
    registered,     \* the interfaces that sd-bus serves
    listed          \* the interfaces that the client knows of

vars == <<life, signalstate, added, registered, listed>>

Action == {"emit_object_added", "emit_interface_added", "defer_emit", "emit_no_signals"}

(* An interface is named by its object and its type. *)
InterfacesOf(o) == {o} \X Composed
All == Objects \X Composed

TypeOK ==
    /\ life \in [Objects -> {"new", "alive", "destroyed"}]
    /\ signalstate \in [Objects -> Action]
    /\ added \subseteq All /\ registered \subseteq All /\ listed \subseteq All

Init ==
    /\ life = [o \in Objects |-> "new"]
    /\ signalstate = [o \in Objects |-> "defer_emit"]
    /\ added = {} /\ registered = {} /\ listed = {}

(* sd_bus_emit_object_added and sd_bus_emit_object_removed tell of everything
   that is registered at the path, whoever registered it. *)
AtPath == registered

(* object's constructor: the interfaces are registered first, and then
   check_action announces them as it was told. *)
Construct(o, action) ==
    /\ life[o] = "new"
    /\ life' = [life EXCEPT ![o] = "alive"]
    /\ registered' = registered \cup InterfacesOf(o)
    /\ signalstate' = [signalstate EXCEPT
            ![o] = IF action = "emit_interface_added" THEN "emit_no_signals" ELSE action]
    /\ added' = IF action = "emit_interface_added" THEN added \cup InterfacesOf(o) ELSE added
    /\ listed' = CASE action = "emit_object_added" -> listed \cup registered'
                   [] action = "emit_interface_added" -> listed \cup InterfacesOf(o)
                   [] OTHER -> listed

(* emit_object_added, of a deferred object. *)
EmitObjectAdded(o) ==
    /\ life[o] = "alive"
    /\ signalstate[o] = "defer_emit"
    /\ listed' = listed \cup AtPath
    /\ signalstate' = [signalstate EXCEPT ![o] = "emit_object_added"]
    /\ UNCHANGED <<life, added, registered>>

(* interface::emit_added *)
EmitAdded(f) ==
    /\ f \in registered \ added
    /\ listed' = listed \cup {f}
    /\ added' = added \cup {f}
    /\ UNCHANGED <<life, signalstate, registered>>

(* interface::emit_removed *)
EmitRemoved(f) ==
    /\ f \in registered \cap added
    /\ listed' = listed \ {f}
    /\ added' = added \ {f}
    /\ UNCHANGED <<life, signalstate, registered>>

DestroyTelling(o, states) ==
    /\ life[o] = "alive"
    /\ life' = [life EXCEPT ![o] = "destroyed"]
    /\ listed' = (listed \ IF signalstate[o] \in states THEN AtPath ELSE {})
                    \ (added \cap InterfacesOf(o))
    /\ added' = added \ InterfacesOf(o)
    /\ registered' = registered \ InterfacesOf(o)
    /\ UNCHANGED signalstate

DestroyDeferredSilently(o) == DestroyTelling(o, {"emit_object_added"})

(* ~object announces the removal of the object, and the destructors of its
   interfaces then their own before they give the vtable up. *)
Destroy(o) == DestroyTelling(o, Action \ {"emit_no_signals"})

Next ==
    \/ \E o \in Objects :
        \/ \E action \in Action : Construct(o, action)
        \/ EmitObjectAdded(o)
        \/ Destroy(o)
    \/ \E f \in All : EmitAdded(f) \/ EmitRemoved(f)

(* What the client takes for present and is gone belonged to an object that was
   never to announce itself as one: with any other, each announcement is taken
   back by the destructors before sd-bus lets go of the interface, also one that
   another object at the path made for it (~object, ~interface). *)
ListedIsRegistered ==
    \A f \in listed \ registered : signalstate[f[1]] = "emit_no_signals"
=============================================================================
