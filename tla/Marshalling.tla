---------------------------- MODULE Marshalling ----------------------------
(***************************************************************************)
(* How typed values become the elements of a message and are read from it  *)
(* (message/append.hpp, message/read.hpp, message/types.hpp and the        *)
(* conversions of message/native_types.hpp).                               *)
(*                                                                         *)
(* A type is [kind, of], where of are the types it is made of.  A value is *)
(* [data, alt, parts]: the data of a basic type, the alternative that a    *)
(* variant holds, and the values that it is made of; the entries of a map  *)
(* are in the order they came in.  An element of a message is [code,       *)
(* contents, data, parts] with the signature of what a container holds.    *)
(*                                                                         *)
(* What the code does by templates that instantiate each other is defined  *)
(* level by level: XTo[n] is for the types that are nested at most n deep, *)
(* by what XTo[n - 1] is for those they are made of.                       *)
(*                                                                         *)
(* Not part of the specification but a broken variant of the definition    *)
(* that follows it: LeaveUnmatched.  A property that matters is violated   *)
(* with it in its place.                                                   *)
(***************************************************************************)
EXTENDS Naturals, Sequences, SequencesExt

CONSTANTS
    MaxNesting,                 \* of types, and with them of values and elements
    Strings,                    \* the strings that are sent
    VectorLengths, MapLengths   \* how many elements vectors and maps are sent with

Basic(kind) == [kind |-> kind, of |-> <<>>]
Made(kind, of) == [kind |-> kind, of |-> of]

Code == [bool |-> "b", int |-> "i", string |-> "s", path |-> "o", enum |-> "s"]
Basics == {Basic(kind) : kind \in DOMAIN Code}

(* The alternative of a variant that stands for no value. *)
Monostate == Basic("monostate")

(* What sd-bus takes and what compiles: an array is of one type, a dictionary
   entry is an element of an array and has a key of a basic type, and the
   alternatives of a variant are different types. *)
IsLegal(t) ==
    /\ t.kind \in {"vector", "map"} => Len(t.of) = 1
    /\ t.kind = "map" => t.of[1].kind = "pair"
    /\ t.kind = "pair" => Len(t.of) = 2 /\ t.of[1].kind \in DOMAIN Code
    /\ t.kind \notin {"vector", "map"} => \A k \in DOMAIN t.of : t.of[k].kind # "pair"
    /\ t.kind = "variant" => IsInjective(t.of)

TypesOver(simpler) ==
    Basics
    \cup {t \in [kind: {"vector", "map", "pair", "tuple"}, of: Seq(simpler) \ {<<>>}]
                \cup [kind: {"variant"}, of: Seq(simpler \cup {Monostate}) \ {<<>>}] :
            IsLegal(t)}
TypesTo[n \in 0..MaxNesting] == IF n = 0 THEN {} ELSE TypesOver(TypesTo[n - 1])
Types == TypesTo[MaxNesting]

(* The types of arguments: the signature of one is a complete type. *)
CompleteTypes == {t \in Types : t.kind # "pair"}

(* The data of basic types: defaults, enumerators and what is sent. *)
Texts == {"", "false", "0", "E.A", "E.B", "true", "1"} \cup Strings

ValuesOver(simpler) == [data: Texts, alt: Nat, parts: Seq(simpler)]
ValuesTo[n \in 0..MaxNesting] == IF n = 0 THEN {} ELSE ValuesOver(ValuesTo[n - 1])

(* The codes of elements, and of what their signatures are made of. *)
Codes == {"b", "i", "s", "o", "v", "a", "e", "r", "{", "}", "(", ")"}

ElementsOver(simpler) ==
    [code: Codes, contents: Seq(Codes), data: Texts, parts: Seq(simpler)]
ElementsTo[n \in 0..MaxNesting] == IF n = 0 THEN {} ELSE ElementsOver(ElementsTo[n - 1])

(* type_id: the code of a type, without the null terminator.  The type that
   stands for no value has an empty one, that of a variant is "v" whatever its
   alternatives are. *)
SignatureOver(n, simpler) ==
    [t \in TypesTo[n] \cup {Monostate} |->
        LET inner == FlattenSeq([k \in DOMAIN t.of |-> simpler[t.of[k]]]) IN
        CASE t.kind \in DOMAIN Code -> <<Code[t.kind]>>
          [] t.kind = "monostate" -> <<>>
          [] t.kind = "variant" -> <<"v">>
          [] t.kind \in {"vector", "map"} -> <<"a">> \o inner
          [] t.kind = "pair" -> <<"{">> \o inner \o <<"}">>
          [] t.kind = "tuple" -> <<"(">> \o inner \o <<")">>]
SignatureTo[n \in 0..MaxNesting] ==
    IF n = 0 THEN [t \in {Monostate} |-> <<>>] ELSE SignatureOver(n, SignatureTo[n - 1])
Signature == SignatureTo[MaxNesting]

Signatures(types) == FlattenSeq([k \in DOMAIN types |-> Signature[types[k]]])

(* The enumerators of the one enumeration, by the string that stands for each
   on the bus. *)
Enumerators == {"E.A", "E.B"}

-----------------------------------------------------------------------------
(* Appending. *)

AppendBasic(t, v) == [code |-> Code[t.kind], contents |-> <<>>, data |-> v.data, parts |-> <<>>]

Container(code, contents, parts) ==
    [code |-> code, contents |-> contents, data |-> "", parts |-> parts]

(* What a container is made of is appended by single, which is append_single. *)
AppendArray(single, t, v) ==
    Container("a", Signature[t.of[1]],
              [k \in DOMAIN v.parts |-> single[t.of[1]][v.parts[k]]])

TupleType(t) == IF t.kind = "pair" THEN "e" ELSE "r"

AppendTuple(single, t, v) ==
    Container(TupleType(t), Signatures(t.of),
              [k \in DOMAIN t.of |-> single[t.of[k]][v.parts[k]]])

AppendVariant(single, t, v) ==
    Container("v", Signature[t.of[v.alt]], <<single[t.of[v.alt]][v.parts[1]]>>)

AppendOver(n, single) ==
    [t \in TypesTo[n] |-> [v \in ValuesTo[n] |->
        CASE t.kind \in DOMAIN Code -> AppendBasic(t, v)
          [] t.kind \in {"vector", "map"} -> AppendArray(single, t, v)
          [] t.kind \in {"pair", "tuple"} -> AppendTuple(single, t, v)
          [] t.kind = "variant" -> AppendVariant(single, t, v)]]
AppendTo[n \in 0..MaxNesting] == IF n = 0 THEN <<>> ELSE AppendOver(n, AppendTo[n - 1])
AppendSingle == AppendTo[MaxNesting]

-----------------------------------------------------------------------------
(* Reading, into variables that hold the default of their type.  What is left
   to read in the container is ws. *)

Datum(data) == [data |-> data, alt |-> 0, parts |-> <<>>]
Compound(parts) == [data |-> "", alt |-> 0, parts |-> parts]
Alternative(k, v) == [data |-> "", alt |-> k, parts |-> <<v>>]

DefaultOver(n, simpler) ==
    [t \in TypesTo[n] \cup {Monostate} |->
        CASE t.kind = "bool" -> Datum("false")
          [] t.kind = "int" -> Datum("0")
          [] t.kind = "enum" -> Datum("E.A")
          [] t.kind \in {"string", "path", "monostate"} -> Datum("")
          [] t.kind \in {"vector", "map"} -> Compound(<<>>)
          [] t.kind \in {"pair", "tuple"} -> Compound([k \in DOMAIN t.of |-> simpler[t.of[k]]])
          [] t.kind = "variant" -> Alternative(1, simpler[t.of[1]])]
DefaultTo[n \in 0..MaxNesting] ==
    IF n = 0 THEN [t \in {Monostate} |-> Datum("")] ELSE DefaultOver(n, DefaultTo[n - 1])
Default == DefaultTo[MaxNesting]

(* Is something that the message says lost: the contents of a variant, an entry of
   a map, or that a string was not in a variant of its own? *)
Got(value, rest, lost) == [outcome |-> "read", value |-> value, rest |-> rest, lost |-> lost]
Failed(outcome) == [outcome |-> outcome, value |-> Datum(""), rest |-> <<>>, lost |-> FALSE]

(* sd_bus_message_read_basic, and the conversion of what is an enumerator. *)
ReadBasic(t, ws) ==
    IF ws = <<>> \/ ws[1].code # Code[t.kind] THEN Failed("mistyped")
    ELSE IF t.kind = "enum" /\ ws[1].data \notin Enumerators THEN Failed("badEnum")
    ELSE Got(Datum(ws[1].data), Tail(ws), FALSE)

(* sd_bus_message_enter_container *)
MayEnter(code, contents, ws) ==
    ws # <<>> /\ ws[1].code = code /\ ws[1].contents = contents

(* What a container holds is read by single, which is read_single.  One more is
   read after r has been, and put behind what was read; the first failure ends
   it all. *)
ReadNext(single, t, r) ==
    LET next == single[t][r.rest] IN
    CASE r.outcome # "read" -> r
      [] r.outcome = "read" /\ next.outcome # "read" -> next
      [] OTHER -> Got(Append(r.value, next.value), next.rest, r.lost \/ next.lost)

(* emplace: a map drops an entry whose key it has already. *)
Emplaced(t, r) ==
    LET n == Len(r.value) IN
    IF /\ t.kind = "map" /\ r.outcome = "read"
       /\ \E k \in 1..n - 1 : r.value[k].parts[1] = r.value[n].parts[1]
    THEN Got(Front(r.value), r.rest, TRUE) ELSE r

(* The parts of a container, one after the other, of these types. *)
ReadParts(single, t, types, ws) ==
    LET read[k \in 0..Len(types)] ==
            IF k = 0 THEN Got(<<>>, ws, FALSE)
            ELSE Emplaced(t, ReadNext(single, types[k], read[k - 1]))
    IN read[Len(types)]

(* sd_bus_message_exit_container: nothing of what the container holds may be
   left to read. *)
ExitContainer(r, ws) ==
    CASE r.outcome # "read" -> r
      [] r.outcome = "read" /\ r.rest # <<>> -> Failed("mistyped")
      [] OTHER -> Got(Compound(r.value), Tail(ws), r.lost)

(* Vectors, of integers at once and others one by one to the end of the array,
   and maps. *)
ReadArray(single, t, ws) ==
    IF MayEnter("a", Signature[t.of[1]], ws)
    THEN LET types == [k \in DOMAIN ws[1].parts |-> t.of[1]] IN
         ExitContainer(ReadParts(single, t, types, ws[1].parts), ws)
    ELSE Failed("mistyped")

ReadTuple(single, t, ws) ==
    IF MayEnter(TupleType(t), Signatures(t.of), ws)
    THEN ExitContainer(ReadParts(single, t, t.of, ws[1].parts), ws)
    ELSE Failed("mistyped")

(* convert_from_string: what a string is converted to, the value or none.  In a
   variant that is the first alternative that it can be converted to, another
   variant among them, and as a last resort the string itself. *)
ConvertOver(n, simpler) ==
    [t \in TypesTo[n] \cup {Monostate} |-> [data \in Texts |->
        LET able == {k \in DOMAIN t.of : simpler[t.of[k]][data] # {}}
            strings == {k \in DOMAIN t.of : t.of[k].kind = "string"}
        IN CASE t.kind = "enum" -> {Datum(d) : d \in {data} \cap Enumerators}
             [] t.kind = "variant" /\ able # {} ->
                    {Alternative(Min(able), v) : v \in simpler[t.of[Min(able)]][data]}
             [] t.kind = "variant" /\ able = {} -> {Alternative(k, Datum(data)) : k \in strings}
             [] OTHER -> {}]]
ConvertTo[n \in 0..MaxNesting] ==
    IF n = 0 THEN [t \in {Monostate} |-> [data \in Texts |-> {}]]
    ELSE ConvertOver(n, ConvertTo[n - 1])

(* A string in a variant, of which it can be one of the values. *)
ReadConverted(values, t, ws) ==
    LET v == CHOOSE v \in values : TRUE IN
    IF values = {} THEN Failed("badEnum")
    ELSE Got(v, Tail(ws), t.of[v.alt].kind = "variant")

(* The contents of a variant, as its alternative k. *)
ReadAlternative(single, convert, t, k, ws) ==
    LET r == single[t.of[k]][ws[1].parts] IN
    IF t.of[k].kind \in {"enum", "string"}
    THEN ReadConverted(convert[ws[1].parts[1].data], t, ws)
    ELSE IF r.outcome = "read" THEN Got(Alternative(k, r.value), Tail(ws), r.lost)
    ELSE r

LeaveUnmatched(t, ws) == Got(Default[t], ws, TRUE)

(* A variant whose contents no alternative stands for is skipped, and read as
   the default of the first one. *)
SkipUnmatched(t, ws) == Got(Default[t], Tail(ws), TRUE)

(* The first alternative with the signature of the contents. *)
ReadVariant(single, convert, t, ws) ==
    LET match == {k \in DOMAIN t.of : MayEnter("v", Signature[t.of[k]], ws)} IN
    IF ws = <<>> \/ ws[1].code # "v" THEN Failed("mistyped")
    ELSE IF match = {} THEN SkipUnmatched(t, ws)
    ELSE ReadAlternative(single, convert, t, Min(match), ws)

ReadOver(n, single) ==
    [t \in TypesTo[n] \cup {Monostate} |-> [ws \in Seq(ElementsTo[n]) |->
        CASE t.kind \in DOMAIN Code -> ReadBasic(t, ws)
          [] t.kind = "monostate" -> Got(Default[t], ws, FALSE)
          [] t.kind \in {"vector", "map"} -> ReadArray(single, t, ws)
          [] t.kind \in {"pair", "tuple"} -> ReadTuple(single, t, ws)
          [] t.kind = "variant" -> ReadVariant(single, ConvertTo[n][t], t, ws)]]
ReadTo[n \in 0..MaxNesting] == IF n = 0 THEN <<>> ELSE ReadOver(n, ReadTo[n - 1])
ReadSingle == ReadTo[MaxNesting]

-----------------------------------------------------------------------------
(* The values that are sent, of each type. *)

Data == [bool |-> {"true"}, int |-> {"1"}, string |-> Strings, path |-> {}, enum |-> {"E.B"}]

Arrays(values, lengths) == UNION {[1..l -> values] : l \in lengths}

ValuesOfOver(n, simpler) ==
    [t \in TypesTo[n] \cup {Monostate} |->
        LET Of(k) == simpler[t.of[k]] IN
        CASE t.kind \in DOMAIN Code -> {Datum(data) : data \in Data[t.kind]}
          [] t.kind = "monostate" -> {}
          [] t.kind = "vector" -> {Compound(parts) : parts \in Arrays(Of(1), VectorLengths)}
          [] t.kind = "map" ->
                {Compound(parts) : parts \in
                    {entries \in Arrays(Of(1), MapLengths) :
                        \A k, l \in DOMAIN entries :
                            entries[k].parts[1] = entries[l].parts[1] => k = l}}
          [] t.kind \in {"pair", "tuple"} ->
                {Compound(parts) : parts \in
                    {values \in [DOMAIN t.of -> UNION {Of(k) : k \in DOMAIN t.of}] :
                        \A k \in DOMAIN t.of : values[k] \in Of(k)}}
          [] t.kind = "variant" ->
                UNION {{Alternative(k, v) : v \in Of(k)} : k \in DOMAIN t.of}]
ValuesOfTo[n \in 0..MaxNesting] ==
    IF n = 0 THEN [t \in {Monostate} |-> {}] ELSE ValuesOfOver(n, ValuesOfTo[n - 1])
ValuesOf == ValuesOfTo[MaxNesting]

(* The types that hold a variant of the enumeration and of strings: it converts a
   string that was sent to an enumerator if it can. *)
ConvertingOver(n, simpler) ==
    {t \in TypesTo[n] :
        \/ /\ t.kind = "variant"
           /\ {"enum", "string"} \subseteq {t.of[k].kind : k \in DOMAIN t.of}
        \/ \E k \in DOMAIN t.of : t.of[k] \in simpler}
ConvertingTo[n \in 0..MaxNesting] ==
    IF n = 0 THEN {} ELSE ConvertingOver(n, ConvertingTo[n - 1])
Converting == ConvertingTo[MaxNesting]

(* Does the alternative l take what was sent as the alternative k: a variant, for
   a string that it converts, or for an enumerator if it comes first? *)
Takes(n, t, l, k) ==
    /\ t.of[l].kind = "variant"
    /\ t.of[k].kind = "string" \/ (t.of[k].kind = "enum" /\ l < k)
    /\ \E data \in Texts : ConvertTo[n - 1][t.of[l]][data] # {}

(* The types that are read back as they were sent: the alternatives of a variant
   can be told apart by what is in the message, or are the enumeration and the
   string, and none takes the strings of another. *)
UnambiguousOver(n, simpler) ==
    {t \in TypesTo[n] :
        /\ \A k \in DOMAIN t.of : t.of[k] \in simpler \cup {Monostate}
        /\ t.kind = "variant" =>
            \A k, l \in DOMAIN t.of :
                /\ ~Takes(n, t, l, k)
                /\ k # l /\ Signature[t.of[k]] = Signature[t.of[l]] =>
                        {t.of[k].kind, t.of[l].kind} = {"enum", "string"}}
UnambiguousTo[n \in 0..MaxNesting] ==
    IF n = 0 THEN {} ELSE UnambiguousOver(n, UnambiguousTo[n - 1])
Unambiguous == UnambiguousTo[MaxNesting]
=============================================================================
