------------------------------ MODULE Messages ------------------------------
(***************************************************************************)
(* A message with typed contents (message::append, message::read): a       *)
(* sender appends values of its C++ types, and a receiver reads them into  *)
(* variables of types of its own.                                          *)
(***************************************************************************)
EXTENDS Marshalling

CONSTANTS
    Sendable,       \* the types of the sender's values
    Readable,       \* the types of the receiver's variables
    MaxArguments

VARIABLES
    sent,           \* the arguments appended: [type, value]
    unread,         \* the elements after the receiver's position
    last            \* the receiver's last read: [count, type, outcome, value, lost]

vars == <<sent, unread, last>>

Arguments == UNION {{[type |-> t, value |-> v] : v \in ValuesOf[t]} : t \in Sendable}

NothingRead ==
    [count |-> 0, type |-> Basic("int"), outcome |-> "read", value |-> Datum(""), lost |-> FALSE]

TypeOK ==
    /\ sent \in Seq(Arguments) /\ Len(sent) <= MaxArguments
    /\ Len(unread) <= MaxArguments
    /\ last.count \in 0..MaxArguments
    /\ last.outcome \in {"read", "mistyped", "badEnum"}

Init == sent = <<>> /\ unread = <<>> /\ last = NothingRead

(* append *)
AppendArgument(argument) ==
    /\ Len(sent) < MaxArguments
    /\ last = NothingRead
    /\ sent' = Append(sent, argument)
    /\ unread' = Append(unread, AppendSingle[argument.type][argument.value])
    /\ UNCHANGED last

(* read, into a variable that holds the default of its type; a failure is an
   exception, after which the message is left alone. *)
ReadArgument(t) ==
    LET r == ReadSingle[t][unread] IN
    /\ Len(sent) = MaxArguments
    /\ last.count < MaxArguments
    /\ last.outcome = "read"
    /\ last' = [count |-> last.count + 1, type |-> t, outcome |-> r.outcome,
                value |-> r.value, lost |-> r.lost]
    /\ unread' = r.rest
    /\ UNCHANGED sent

Next ==
    \/ \E argument \in Arguments : AppendArgument(argument)
    \/ \E t \in Readable : ReadArgument(t)

-----------------------------------------------------------------------------
(* Each read gets the argument it is for, whatever the reads before it made of
   theirs.  A value that was read with nothing lost, dropped or wrapped in another
   variant, would be sent as what has been received, also when the receiver's type
   is not the sender's; with the sender's type, if its alternatives can be told
   apart and none takes the strings of another, the read succeeds and gives the
   value that was sent, unless a variant of it holds the enumeration as well as
   strings (read_single and append_single). *)
ReadsWhatWasAppended ==
    LET argument == sent[last.count] IN
    last.count > 0 =>
        /\ last.outcome = "read" /\ ~last.lost =>
            AppendSingle[last.type][last.value] = AppendSingle[argument.type][argument.value]
        /\ last.type = argument.type /\ last.type \in Unambiguous =>
            /\ last.outcome = "read" /\ ~last.lost
            /\ last.type \in Converting \/ last.value = argument.value
=============================================================================
