--------------------------- MODULE MessageChannel ---------------------------
(***************************************************************************)
(* What sdbusplus::async::match promises the task that awaits it: each     *)
(* matching message once, in the order of arrival, until it is destroyed.  *)
(***************************************************************************)
EXTENDS Naturals, Sequences

CONSTANTS Messages, NoMessage

VARIABLES
    channel,    \* arrived and not yet received
    last,       \* the message received last
    closed      \* was the match destroyed?

vars == <<channel, last, closed>>

Init == channel = <<>> /\ last = NoMessage /\ closed = FALSE

Send(m) ==
    /\ ~closed
    /\ channel' = Append(channel, m)
    /\ UNCHANGED <<last, closed>>

Receive ==
    /\ channel # <<>>
    /\ last' = Head(channel) /\ channel' = Tail(channel)
    /\ UNCHANGED closed

(* Of the messages not received the first may still be on its way. *)
Close ==
    /\ ~closed /\ closed' = TRUE
    /\ \E n \in 0..Len(channel) : n <= 1 /\ channel' = SubSeq(channel, 1, n)
    /\ UNCHANGED last

Next == (\E m \in Messages : Send(m)) \/ Receive \/ Close

Spec == Init /\ [][Next]_vars
=============================================================================
