---------------------------- MODULE Transactions ----------------------------
(***************************************************************************)
(* The transaction id (server/transaction.cpp): the callbacks of the       *)
(* generated servers set it from the message they are called with, and     *)
(* the journal entries made by the handler carry it.  Each thread serves   *)
(* a bus of its own.                                                       *)
(*                                                                         *)
(* Not part of the specification but a broken variant of the definition    *)
(* that follows it: SetIdForAll.  A property that matters is violated with *)
(* it in its place.                                                        *)
(***************************************************************************)
EXTENDS Integers, FiniteSets, FiniteSetsExt

CONSTANTS
    Threads,
    BusHash,        \* of each thread's bus: the hash of its unique name
    ThreadHash,
    Width,          \* bits of an id
    Cookies,
    MaxTime         \* of the clocks

VARIABLES
    id,             \* details::id of each thread
    handling,       \* the handler that each thread is in
    time

vars == <<id, handling, time>>

Ids == 0..2^Width - 1

Handlers == [
    kind: {"none", "method", "set", "get"},
    cookie: {0} \cup Cookies,
    signalled: BOOLEAN,     \* has it changed a property?
    logged: SUBSET Ids]     \* the ids of its journal entries

NoHandler == [kind |-> "none", cookie |-> 0, signalled |-> FALSE, logged |-> {}]

TypeOK ==
    /\ id \in [Threads -> Ids]
    /\ handling \in [Threads -> Handlers]
    /\ time \in 0..MaxTime

Init ==
    /\ id = [t \in Threads |-> 0]
    /\ handling = [t \in Threads |-> NoHandler]
    /\ time = 0

-----------------------------------------------------------------------------
Bits(n) == {k \in 0..Width - 1 : (n \div 2^k) % 2 = 1}
Xor(m, n) == MapThenSumSet(LAMBDA k : 2^k, SymDiff(Bits(m), Bits(n)))

(* boost's hash_combine(); the constant is that of the code, which is 1 in the
   few bits of the model. *)
Combine(hash1, hash2) ==
    Xor(hash1, hash2 + 1 + (hash1 * 2^6) + (hash1 \div 4))

(* The message that a callback is given: a method or a setter has the call
   itself, and a getter the reply to it or, when sd-bus composes a signal that
   carries the property, that signal, which has no cookie yet. *)
MessageHash(m) ==
    CASE m.type \in {"methodReturn", "methodError"} -> m.replyCookie
      [] m.type = "methodCall" -> m.cookie
      [] m.type = "signal" -> time

Call(cookie) == [type |-> "methodCall", cookie |-> cookie, replyCookie |-> 0]
Reply(cookie) == [type |-> "methodReturn", cookie |-> 0, replyCookie |-> cookie]
SignalMessage == [type |-> "signal", cookie |-> 0, replyCookie |-> 0]

SetIdForAll(t, value) == id' = [u \in Threads |-> value]

(* set_id, of a thread_local. *)
SetId(t, value) == id' = [id EXCEPT ![t] = value]

SetIdOf(t, m) == SetId(t, Combine(BusHash[t], MessageHash(m)))

-----------------------------------------------------------------------------
(* method_callback, and property_callback of a setter or of a getter, up to
   the handler.  Whether the arguments can be read does not matter. *)
Enter(t, kind, cookie) ==
    /\ handling[t].kind = "none"
    /\ SetIdOf(t, IF kind = "get" THEN Reply(cookie) ELSE Call(cookie))
    /\ handling' = [handling EXCEPT ![t] =
            [NoHandler EXCEPT !.kind = kind, !.cookie = cookie]]
    /\ UNCHANGED time

(* A generated property's setter, called by the application or by a handler:
   sd-bus asks the property_callback for the value that the signal carries. *)
ChangeProperty(t) ==
    /\ SetIdOf(t, SignalMessage)
    /\ handling' = IF handling[t].kind = "none" THEN handling
                   ELSE [handling EXCEPT ![t].signalled = TRUE]
    /\ UNCHANGED time

(* details::Transaction, whose hash depends on the time and on the thread. *)
GeneratedId(t) == Combine(time, ThreadHash[t])

(* get_id, for a journal entry: an id that has not been initialized, or that
   is zero all the same, is generated. *)
Log(t) ==
    LET got == IF id[t] = 0 THEN GeneratedId(t) ELSE id[t] IN
    /\ id' = [id EXCEPT ![t] = got]
    /\ handling' = IF handling[t].kind = "none" THEN handling
                   ELSE [handling EXCEPT ![t].logged = @ \cup {got}]
    /\ UNCHANGED time

(* The handler returns or throws: the id stays. *)
Leave(t) ==
    /\ handling[t].kind # "none"
    /\ handling' = [handling EXCEPT ![t] = NoHandler]
    /\ UNCHANGED <<id, time>>

Tick ==
    /\ time < MaxTime
    /\ time' = time + 1
    /\ UNCHANGED <<id, handling>>

Next ==
    \/ \E t \in Threads :
        \/ \E kind \in {"method", "set", "get"}, cookie \in Cookies : Enter(t, kind, cookie)
        \/ ChangeProperty(t)
        \/ Log(t)
        \/ Leave(t)
    \/ Tick

-----------------------------------------------------------------------------
(* The journal entries of a handler that changes no property have the id of the
   call they were made for, whatever other threads handle meanwhile, and whether
   sd-bus gave the callback the call or the reply to it (set_id).  A call whose
   id would be zero has a generated one. *)
TransactionOfCall ==
    \A t \in Threads :
        LET callId == Combine(BusHash[t], handling[t].cookie) IN
        handling[t].kind # "none" /\ ~handling[t].signalled /\ callId # 0 =>
            id[t] = callId /\ handling[t].logged \subseteq {callId}

(* "Therefore all journal entries created within a message have the same
   transaction id value" (include/sdbusplus/server/README.md:18). *)
TransactionKept == \A t \in Threads : Cardinality(handling[t].logged) <= 1
=============================================================================
