------------------------- MODULE PropertyUnpacking -------------------------
(***************************************************************************)
(* unpackProperties and unpackPropertiesNoThrow (unpack_properties.hpp): a *)
(* client takes the properties it wants out of the answer to GetAll, an    *)
(* array of keys and variants in which a key may occur twice.  It uses the *)
(* same variables again for the answers that follow.                       *)
(*                                                                         *)
(* A value is the place where it was found, <<answer, index>>: the content *)
(* of a variable is a copy of it or, in a pointer, its address.            *)
(*                                                                         *)
(* Not part of the specification but broken variants of the definition     *)
(* that follows each: FindLastProperty, ReadAllProperties.  A property     *)
(* that matters is violated with one of them in its place.                 *)
(***************************************************************************)
EXTENDS Naturals, Sequences, SequencesExt

CONSTANTS
    Keys,
    MaxEntries,     \* bound: of an answer
    MaxAnswers      \* bound: answers unpacked

VARIABLES
    answer,         \* the entries of the latest answer: [key, fits]
    answers,        \* so many yet
    variables,      \* out-parameters, in order: [key, form, content]
    unpacked        \* what the latest call came to

vars == <<answer, answers, variables, unpacked>>

(* Does the variant hold a value of the type of the variable with its key? *)
Entries == [key: Keys, fits: BOOLEAN]

Forms == {"value", "optional", "pointer"}

(* The value that a variable is initialized with. *)
Initially == <<0, 0>>

NotYet == [result |-> "none", reasons |-> <<>>]

TypeOK ==
    /\ answer \in Seq(Entries) /\ Len(answer) <= MaxEntries
    /\ answers \in 0..MaxAnswers
    /\ \A k \in DOMAIN variables :
        variables[k] \in [key: Keys, form: Forms,
                          content: (0..MaxAnswers) \X (0..MaxEntries)]
    /\ unpacked.result \in {"none", "true", "false", "exception"}

Init ==
    /\ answer = <<>> /\ answers = 0 /\ unpacked = NotYet
    /\ variables \in [1..2 -> [key: Keys, form: Forms, content: {Initially}]]

(* Nothing is ever unpacked. *)
NoProgram == answer = <<>> /\ answers = 0 /\ unpacked = NotYet /\ variables = <<>>

-----------------------------------------------------------------------------
Found(key) == {i \in DOMAIN answer : answer[i].key = key}

FindLastProperty(key) == Max(Found(key))

(* find_if *)
FindProperty(key) == Min(Found(key))

(* readProperty: the content of the variable, or the reason why there is none.
   A property that is missing leaves an optional and a pointer alone. *)
ReadProperty(variable) ==
    LET i == FindProperty(variable.key) IN
    CASE Found(variable.key) = {} /\ variable.form = "value" ->
            [content |-> variable.content, reason |-> "missingProperty"]
      [] Found(variable.key) = {} /\ variable.form # "value" ->
            [content |-> variable.content, reason |-> "none"]
      [] Found(variable.key) # {} ->
            IF answer[i].fits THEN [content |-> <<answers, i>>, reason |-> "none"]
            ELSE [content |-> variable.content, reason |-> "wrongType"]

ReadAllProperties ==
    [k \in DOMAIN variables |-> [variables[k] EXCEPT !.content = ReadProperty(variables[k]).content]]

Failing == {k \in DOMAIN variables : ReadProperty(variables[k]).reason # "none"}

(* readProperties: one after the other, up to the first that fails. *)
ReadProperties ==
    [k \in DOMAIN variables |->
        IF \A f \in Failing : k < f
        THEN [variables[k] EXCEPT !.content = ReadProperty(variables[k]).content]
        ELSE variables[k]]

(* The callback is told the reason and the key. *)
OnErrorCallback(throws) ==
    LET variable == variables[Min(Failing)] IN
    [result |-> IF throws THEN "exception" ELSE "false",
     reasons |-> <<[reason |-> ReadProperty(variable).reason, key |-> variable.key]>>]

UnpackProperties(throws) ==
    /\ answers > 0 /\ unpacked = NotYet
    /\ variables' = ReadProperties
    /\ unpacked' = IF Failing = {} THEN [result |-> "true", reasons |-> <<>>]
                   ELSE OnErrorCallback(throws)
    /\ UNCHANGED <<answer, answers>>

(* Another answer; the one before goes. *)
GetAllProperties(entries) ==
    /\ answers < MaxAnswers /\ (answers > 0 => unpacked # NotYet)
    /\ answer' = entries /\ answers' = answers + 1 /\ unpacked' = NotYet
    /\ UNCHANGED variables

Next ==
    \/ \E throws \in BOOLEAN : UnpackProperties(throws)
    \/ \E n \in 0..MaxEntries : \E entries \in [1..n -> Entries] : GetAllProperties(entries)

-----------------------------------------------------------------------------
(* After a call that succeeds each variable has the first value with its key,
   and one without a value is an optional or a pointer that has what it had
   before, possibly of an earlier answer; after one that fails, the variable
   whose key is reported has not been set, nor has any after it, and there is
   exactly one report (unpackPropertiesCommon). *)
UnpackedIsAnswered ==
    LET Has(k) == \E i \in DOMAIN answer : answer[i].key = variables[k].key
        IsSet(k) == variables[k].content[1] = answers
        HasFirst(k) ==
            LET i == variables[k].content[2] IN
            /\ answer[i].key = variables[k].key /\ answer[i].fits
            /\ \A j \in 1..(i - 1) : answer[j].key # variables[k].key
    IN unpacked # NotYet =>
        /\ \A k \in DOMAIN variables : IsSet(k) => HasFirst(k)
        /\ unpacked.result = "true" =>
            \A k \in DOMAIN variables :
                IsSet(k) \/ (~Has(k) /\ variables[k].form # "value")
        /\ unpacked.result # "true" =>
            /\ Len(unpacked.reasons) = 1
            /\ \E f \in DOMAIN variables :
                /\ variables[f].key = unpacked.reasons[1].key
                /\ unpacked.reasons[1].reason = (IF Has(f) THEN "wrongType" ELSE "missingProperty")
                /\ \A k \in DOMAIN variables : k >= f => ~IsSet(k)
                /\ \A k \in DOMAIN variables :
                    k < f => IsSet(k) \/ (~Has(k) /\ variables[k].form # "value")
=============================================================================
