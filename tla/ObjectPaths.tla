----------------------------- MODULE ObjectPaths -----------------------------
(***************************************************************************)
(* The object paths of message::details::string_path_wrapper               *)
(* (message/native_types.cpp): a path is extended by names that may hold   *)
(* any character, and taken apart again.  A string is a sequence of        *)
(* character codes.                                                        *)
(*                                                                         *)
(* Not part of the specification but a broken variant of the definition    *)
(* that follows it: PlainUnlessRequired.  A property that matters is       *)
(* violated with it in its place.                                          *)
(***************************************************************************)
EXTENDS Integers, Sequences, SequencesExt

CONSTANTS
    Characters,     \* the characters of names
    MaxCharacters   \* of all the names of a path

VARIABLES
    path,
    history         \* the name that each step added, and the path before it

vars == <<path, history>>

Slash == 47
Underscore == 95
Digits == 48..57
Letters == 65..90 \cup 97..122
HexLetters == 97..102

TypeOK ==
    /\ path \in Seq(0..255)
    /\ \A i \in DOMAIN history : history[i].name \in Seq(Characters)

Init == path = <<Slash>> /\ history = <<>>

-----------------------------------------------------------------------------
Hex(n) == IF n < 10 THEN 48 + n ELSE 97 + n - 10

Unhex(c) ==
    CASE c \in Digits -> c - 48
      [] c \in 65..70 -> c - 65 + 10
      [] c \in HexLetters -> c - 97 + 10
      [] OTHER -> -1

ShouldEscape(c) == c \notin Digits \cup Letters
RequiresEscape(c) == ShouldEscape(c) /\ c # Underscore
Escape(c) == <<Underscore, Hex(c \div 16), Hex(c % 16)>>

PlainUnlessRequired(name) == \A i \in DOMAIN name : ~RequiresEscape(name[i])

(* Is a name appended as it is? *)
Plain(name) ==
    /\ ~ShouldEscape(name[1])
    /\ \A i \in 2..Len(name) : ~RequiresEscape(name[i])

(* The first character of any other name is escaped: a name that starts with
   an underscore is one that has been escaped. *)
Encode(name) ==
    IF Plain(name) THEN name
    ELSE FlattenSeq([i \in DOMAIN name |->
            IF i = 1 \/ ShouldEscape(name[i]) THEN Escape(name[i]) ELSE <<name[i]>>])

(* operator/= *)
Extend(p, name) ==
    (IF p # <<>> /\ Last(p) # Slash THEN Append(p, Slash) ELSE p) \o Encode(name)

(* rfind('/'), from 1; 0 when there is none. *)
LastSlash(p) == LET at == {i \in DOMAIN p : p[i] = Slash} IN IF at = {} THEN 0 ELSE Max(at)

(* The decoding of an escaped name, or the empty name when it cannot be
   decoded: from[i] is what is left from character i on. *)
Decode(name) ==
    LET n == Len(name)
        Digit(i) == Unhex(name[i])
        Escaped(i) == i + 2 <= n /\ Digit(i + 1) # -1 /\ Digit(i + 2) # -1
        from[i \in 1..n + 1] ==
            IF i = n + 1 THEN [good |-> TRUE, text |-> <<>>]
            ELSE IF name[i] # Underscore
                 THEN [from[i + 1] EXCEPT !.text = <<name[i]>> \o @]
            ELSE IF Escaped(i)
                 THEN [from[i + 3] EXCEPT !.text = <<Digit(i + 1) * 16 + Digit(i + 2)>> \o @]
            ELSE [good |-> FALSE, text |-> <<>>]
    IN IF from[1].good THEN from[1].text ELSE <<>>

Filename(p) ==
    LET name == SubSeq(p, LastSlash(p) + 1, Len(p)) IN
    CASE LastSlash(p) = 0 -> <<>>
      [] name = <<>> \/ name[1] # Underscore -> name
      [] OTHER -> Decode(name)

ParentPath(p) == IF LastSlash(p) <= 2 THEN <<Slash>> ELSE SubSeq(p, 1, LastSlash(p) - 1)

-----------------------------------------------------------------------------
CharactersUsed == Len(FlattenSeq([i \in DOMAIN history |-> history[i].name]))

(* operator/, which throws for the empty name. *)
Descend(name) ==
    /\ CharactersUsed + Len(name) <= MaxCharacters
    /\ path' = Extend(path, name)
    /\ history' = Append(history, [name |-> name, parent |-> path])

Ascend ==
    /\ history # <<>>
    /\ path' = ParentPath(path)
    /\ history' = Front(history)

Next ==
    \/ \E n \in 1..MaxCharacters : \E name \in [1..n -> Characters] : Descend(name)
    \/ Ascend

-----------------------------------------------------------------------------
(* A name that was appended is read back as it was, whatever its characters,
   and so is the path it was appended to: the escapes of operator/= are the
   ones that filename takes for escapes, and no name brings a slash along
   (operator/=, filename and parent_path). *)
PathsRoundTrip ==
    /\ history = <<>> => path = <<Slash>>
    /\ history # <<>> =>
        /\ Filename(path) = Last(history).name
        /\ ParentPath(path) = Last(history).parent
=============================================================================
