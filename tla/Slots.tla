------------------------------- MODULE Slots -------------------------------
(***************************************************************************)
(* Callbacks that sd-bus holds for a C++ program: those of its matches     *)
(* (bus/match.cpp) and of message::call_async (message.hpp), each with a   *)
(* slot (slot.hpp) that its owner may destroy at any time, also while a    *)
(* callback runs.  sd_bus_process runs one callback at a time.             *)
(*                                                                         *)
(* A match is not destroyed by its own callback, which would go with it.   *)
(*                                                                         *)
(* Not part of the specification but a broken variant of the definition    *)
(* that follows it: DeletesAtOnce.  A property that matters is violated    *)
(* with it in its place.                                                   *)
(***************************************************************************)
CONSTANTS
    Slots,
    NoSlot

VARIABLES
    owned,      \* has the owner the slot?
    kind,       \* what it is a slot of
    installed,  \* will sd-bus call the callback?
    callback,   \* the callback's object
    calling     \* the slot whose callback runs, or NoSlot

vars == <<owned, kind, installed, callback, calling>>

TypeOK ==
    /\ owned \in [Slots -> BOOLEAN]
    /\ kind \in [Slots -> {"none", "match", "call"}]
    /\ installed \in [Slots -> BOOLEAN]
    /\ callback \in [Slots -> {"none", "alive", "deleted"}]
    /\ calling \in Slots \cup {NoSlot}

Init ==
    /\ owned = [s \in Slots |-> FALSE]
    /\ kind = [s \in Slots |-> "none"]
    /\ installed = [s \in Slots |-> FALSE]
    /\ callback = [s \in Slots |-> "none"]
    /\ calling = NoSlot

-----------------------------------------------------------------------------
Install(s, of) ==
    /\ callback[s] = "none"
    /\ owned' = [owned EXCEPT ![s] = TRUE]
    /\ kind' = [kind EXCEPT ![s] = of]
    /\ installed' = [installed EXCEPT ![s] = TRUE]
    /\ callback' = [callback EXCEPT ![s] = "alive"]
    /\ UNCHANGED calling

(* The callback is made first, and makeMatch adds it. *)
AddMatch(s) == Install(s, "match")

(* The call is sent first; the copy of the callback follows, and belongs to
   sd-bus. *)
CallAsync(s) == Install(s, "call")

DeletesAtOnce(s, references) == kind[s] = "call"

(* sd_bus_slot_unref: with the last reference to the slot of a call goes, by
   call_async_del, the callback. *)
Deletes(s, references) == kind[s] = "call" /\ references = {}

(* ~slot, and for a match ~callback_t after it. *)
DropSlot(s) ==
    /\ installed' = [installed EXCEPT ![s] = FALSE]
    /\ callback' = [callback EXCEPT ![s] =
            IF kind[s] = "match" \/ Deletes(s, {calling} \cap {s}) THEN "deleted" ELSE @]

Destroy(s) ==
    /\ owned[s]
    /\ ~(kind[s] = "match" /\ calling = s)
    /\ owned' = [owned EXCEPT ![s] = FALSE]
    /\ DropSlot(s)
    /\ UNCHANGED <<kind, calling>>

-----------------------------------------------------------------------------
(* sd_bus_process, with a message for a match, or the answer to a call or its
   timeout, after which sd-bus calls it no more. *)
Dispatch(s) ==
    /\ calling = NoSlot /\ installed[s]
    /\ calling' = s
    /\ installed' = [installed EXCEPT ![s] = (kind[s] = "match")]
    /\ UNCHANGED <<owned, kind, callback>>

(* matchCallback and call_async_cb return; sd-bus drops its reference. *)
CallbackReturns ==
    /\ calling # NoSlot
    /\ calling' = NoSlot
    /\ callback' = [callback EXCEPT ![calling] =
            IF ~owned[calling] /\ Deletes(calling, {}) THEN "deleted" ELSE @]
    /\ UNCHANGED <<owned, kind, installed>>

Next ==
    \/ \E s \in Slots : AddMatch(s) \/ CallAsync(s) \/ Destroy(s) \/ Dispatch(s)
    \/ CallbackReturns

-----------------------------------------------------------------------------
(* Whatever is destroyed by which callback: the object of a callback lives as
   long as its slot has an owner or it runs, and no longer, and sd-bus has no
   callback whose object is gone (match::match, call_async). *)
CallbackHasObject ==
    /\ \A s \in Slots : callback[s] = "alive" <=> owned[s] \/ calling = s
    /\ \A s \in Slots : installed[s] => callback[s] = "alive"
=============================================================================
