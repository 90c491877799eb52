------------------------------ MODULE FifoLock ------------------------------
(***************************************************************************)
(* What sdbusplus::async::mutex promises the tasks that share it: one task *)
(* holds the lock, the others get it in the order in which they asked.     *)
(***************************************************************************)
EXTENDS Sequences

CONSTANT Tasks

VARIABLES holders, queue

vars == <<holders, queue>>

Init == holders = {} /\ queue = <<>>

Asked == holders \cup {queue[i] : i \in DOMAIN queue}

Request(t) ==
    /\ t \notin Asked
    /\ IF holders = {}
       THEN holders' = {t} /\ UNCHANGED queue
       ELSE queue' = Append(queue, t) /\ UNCHANGED holders

Release(t) ==
    /\ holders = {t}
    /\ IF queue = <<>>
       THEN holders' = {} /\ UNCHANGED queue
       ELSE holders' = {Head(queue)} /\ queue' = Tail(queue)

Next == \E t \in Tasks : Request(t) \/ Release(t)

Spec == Init /\ [][Next]_vars
=============================================================================
