---------------------------- MODULE MCPrograms ----------------------------
(* Programs with the constants that its configuration files give.  The names
   of the two buses, and the two threads, have different hashes. *)
EXTENDS Programs, TLC

CONSTANTS t1, t2

MCHash == t1 :> 1 @@ t2 :> 2

-----------------------------------------------------------------------------
(* The types of the values and variables of programs that send messages. *)

Marshal == INSTANCE Marshalling

Bool == Marshal!Basic("bool")
Int32 == Marshal!Basic("int")
String == Marshal!Basic("string")
Enum == Marshal!Basic("enum")
Monostate == Marshal!Monostate

Variant(types) == Marshal!Made("variant", types)
Tuple(types) == Marshal!Made("tuple", types)
Vector(type) == Marshal!Made("vector", <<type>>)
PairOf(key, value) == Marshal!Made("pair", <<key, value>>)
MapOf(key, value) == Marshal!Made("map", <<PairOf(key, value)>>)

IntOrInts == Variant(<<Int32, Vector(Int32)>>)
EnumOrString == Variant(<<Enum, String>>)
StringOrEnum == Variant(<<Bool, String, Enum>>)
EnumOrNested == Variant(<<Enum, Variant(<<String>>)>>)
NestedOrString == Variant(<<Variant(<<String>>), String>>)

MCSendable == {
    Int32, String, Enum, IntOrInts, EnumOrNested, NestedOrString, Vector(EnumOrString),
    Vector(PairOf(Enum, String)), MapOf(String, EnumOrString),
    Tuple(<<Int32, Tuple(<<Bool, String>>)>>)}

MCReadable == MCSendable \cup {
    Marshal!Basic("path"), Variant(<<Enum, Int32>>),
    Variant(<<Variant(<<Enum, Bool>>), String>>), Vector(Variant(<<Monostate, Enum>>)),
    MapOf(Enum, StringOrEnum), MapOf(Enum, String)}
=============================================================================
