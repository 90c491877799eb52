----------------------------- MODULE AsyncMatch -----------------------------
(***************************************************************************)
(* sdbusplus::async::match (include/sdbusplus/async/match.hpp,             *)
(* src/async/match.cpp): the messages of a signal match, queued until a    *)
(* task awaits the sender of next().  A step is one critical section of    *)
(* the match's mutex or one completion, which is called without it.        *)
(*                                                                         *)
(* Not part of the specification but broken variants of the definition     *)
(* that follows each: StartIgnoringQueue, HandleCompletionNewest. A        *)
(* property that matters is violated with one of them in its place.        *)
(***************************************************************************)
EXTENDS Naturals, Sequences

CONSTANTS
    Tasks,
    Messages,
    NoMessage,  \* the task has received none
    NoTask,     \* match::complete is null
    MaxQueue    \* bound: messages nobody has awaited yet

VARIABLES
    op,         \* the state of each task's match_operation
    message,    \* the message that its completion carries
    received,   \* the message completed last
    queue,      \* match::queue
    complete,   \* match::complete
    destroyed   \* has the destructor run?

vars == <<op, message, received, queue, complete, destroyed>>

(* "taken": removed from the match with a message, its completion is about
   to be called; "stopping": the same without one; "terminated": a second
   task awaited the match while the first still did. *)
OpStates == {"none", "waiting", "taken", "stopping", "value", "stopped", "terminated"}

TypeOK ==
    /\ op \in [Tasks -> OpStates]
    /\ message \in [Tasks -> Messages \cup {NoMessage}]
    /\ received \in Messages \cup {NoMessage}
    /\ queue \in Seq(Messages)
    /\ complete \in Tasks \cup {NoTask}
    /\ destroyed \in BOOLEAN

Init ==
    /\ op = [t \in Tasks |-> "none"]
    /\ message = [t \in Tasks |-> NoMessage]
    /\ received = NoMessage
    /\ queue = <<>> /\ complete = NoTask
    /\ destroyed = FALSE

HandleCompletionNewest(waiter, messages) ==
    IF waiter = NoTask \/ messages = <<>>
    THEN /\ complete' = waiter /\ queue' = messages
         /\ op' = IF waiter = NoTask THEN op ELSE [op EXCEPT ![waiter] = "waiting"]
         /\ UNCHANGED message
    ELSE /\ complete' = NoTask /\ queue' = SubSeq(messages, 1, Len(messages) - 1)
         /\ op' = [op EXCEPT ![waiter] = "taken"]
         /\ message' = [message EXCEPT ![waiter] = messages[Len(messages)]]

(* handle_completion, with the waiter and the queue as start or handle_match
   have just made them. *)
HandleCompletion(waiter, messages) ==
    IF waiter = NoTask \/ messages = <<>>
    THEN /\ complete' = waiter /\ queue' = messages
         /\ op' = IF waiter = NoTask THEN op ELSE [op EXCEPT ![waiter] = "waiting"]
         /\ UNCHANGED message
    ELSE /\ complete' = NoTask /\ queue' = Tail(messages)
         /\ op' = [op EXCEPT ![waiter] = "taken"]
         /\ message' = [message EXCEPT ![waiter] = Head(messages)]

StartIgnoringQueue(t) ==
    /\ op[t] = "none" /\ ~destroyed /\ complete = NoTask
    /\ complete' = t
    /\ op' = [op EXCEPT ![t] = "waiting"]
    /\ UNCHANGED <<message, received, queue, destroyed>>

(* A second awaiting task is fatal. *)
Start(t) ==
    /\ op[t] = "none" /\ ~destroyed
    /\ IF complete = NoTask
       THEN HandleCompletion(t, queue)
       ELSE /\ op' = [op EXCEPT ![t] = "terminated"]
            /\ UNCHANGED <<message, queue, complete>>
    /\ UNCHANGED <<received, destroyed>>

HandleMatch ==
    /\ ~destroyed /\ Len(queue) < MaxQueue
    /\ \E m \in Messages : HandleCompletion(complete, Append(queue, m))
    /\ UNCHANGED <<received, destroyed>>

(* c->complete or c->stop, with the mutex released. *)
Signal(t) ==
    \/ /\ op[t] = "taken"
       /\ op' = [op EXCEPT ![t] = "value"]
       /\ received' = message[t]
       /\ message' = [message EXCEPT ![t] = NoMessage]
       /\ UNCHANGED <<queue, complete, destroyed>>
    \/ /\ op[t] = "stopping"
       /\ op' = [op EXCEPT ![t] = "stopped"]
       /\ UNCHANGED <<message, received, queue, complete, destroyed>>

(* The task goes on and its operation is gone. *)
Resume(t) ==
    /\ op[t] \in {"value", "stopped"}
    /\ op' = [op EXCEPT ![t] = "none"]
    /\ UNCHANGED <<message, received, queue, complete, destroyed>>

DestroyForgettingWaiter ==
    /\ ~destroyed /\ destroyed' = TRUE
    /\ complete' = NoTask /\ queue' = <<>>
    /\ UNCHANGED <<op, message, received>>

Destroy ==
    /\ ~destroyed /\ destroyed' = TRUE
    /\ complete' = NoTask /\ queue' = <<>>
    /\ op' = IF complete = NoTask THEN op ELSE [op EXCEPT ![complete] = "stopping"]
    /\ UNCHANGED <<message, received>>

---------------------------------------------------------------------------
(* The match knows exactly the operation that waits, and none waits while a
   message is there for it: the two were paired whichever came first. *)
WaiterIsPaired ==
    /\ \A t \in Tasks : op[t] = "waiting" <=> complete = t
    /\ ~(complete # NoTask /\ queue # <<>>)

(* The match is a channel that delivers every message once and in order; the
   message of an operation that is about to be completed is still in it. *)
Taken == {t \in Tasks : op[t] = "taken"}
Channel ==
    IF Taken = {} THEN queue ELSE <<message[CHOOSE t \in Taken : TRUE]>> \o queue
Abstract == INSTANCE MessageChannel
    WITH channel <- Channel, last <- received, closed <- destroyed
IsChannel == Abstract!Spec
=============================================================================
