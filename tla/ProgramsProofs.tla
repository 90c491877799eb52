--------------------------- MODULE ProgramsProofs ---------------------------
(***************************************************************************)
(* What the programs of Programs do whatever their constants are.  A step  *)
(* of a program is a step of one part of the library and leaves the        *)
(* others alone, so that a program implements the specification of each    *)
(* part: what is proved of a connection, of an object_server, of object    *)
(* paths and of marshalled values by themselves holds of it.  Composed     *)
(* server objects, messages, timers, transaction ids, slots and unpacked   *)
(* properties have their invariants here.                                  *)
(***************************************************************************)
EXTENDS Programs, SequenceTheorems, WellFoundedInduction, TLAPS

ConnectionProofs == INSTANCE AsioConnectionProofs
ServerProofs == INSTANCE ObjectServerProofs
Contents == INSTANCE ContentsProofs

(* Whichever program runs: every part makes a step of its own or none. *)
LEMMA PartSteps ==
    ASSUME [Next]_vars
    PROVE  /\ Connection!Next \/ UNCHANGED connectionVars
           /\ SdEvents!Next \/ UNCHANGED sdEventVars
           /\ Server!Next \/ UNCHANGED serverVars
           /\ ServerObjects!Next \/ UNCHANGED objectVars
           /\ TransactionIds!Next \/ UNCHANGED transactionVars
           /\ Messaging!Next \/ UNCHANGED messageVars
           /\ Paths!Next \/ UNCHANGED pathVars
           /\ Callbacks!Next \/ UNCHANGED slotVars
           /\ Unpacking!Next \/ UNCHANGED unpackingVars
BY DEF Next, vars, OthersUnchanged, RunConnection, RunSdEvents, RunServer, RunServerObjects,
       RunTransactions, RunMessages, RunPaths, RunSlots, RunUnpacking

-----------------------------------------------------------------------------
(* The connection. *)
LEMMA ConnectionProcess ==
    ASSUME NEW ready, NEW pending, NEW timed, Connection!Process(ready, pending, timed)
    PROVE  ConnectionProofs!Process(ready, pending, timed)
BY DEF Connection!Process, ConnectionProofs!Process, Connection!busVars,
      ConnectionProofs!busVars, Connection!ReadWait, ConnectionProofs!ReadWait, Connection!In,
      ConnectionProofs!In, Connection!AllCalls, ConnectionProofs!AllCalls,
      Connection!AddWaits, ConnectionProofs!AddWaits, Connection!ProcessDiscard,
      ConnectionProofs!ProcessDiscard, Connection!DoUnpack, ConnectionProofs!DoUnpack,
      Connection!Complete, ConnectionProofs!Complete, Connection!Unpack,
      ConnectionProofs!Unpack, Connection!ResumeYield, ConnectionProofs!ResumeYield,
      Connection!CallHandler, ConnectionProofs!CallHandler, Connection!AsyncMethodCall,
      ConnectionProofs!AsyncMethodCall, Connection!AsyncSend, ConnectionProofs!AsyncSend,
      Connection!NothingToDo, ConnectionProofs!NothingToDo

LEMMA ConnectionYield ==
    ASSUME NEW c, Connection!YieldMethodCall(c)
    PROVE  ConnectionProofs!YieldMethodCall(c)
BY DEF Connection!YieldMethodCall, ConnectionProofs!YieldMethodCall,
      Connection!CallHandler, ConnectionProofs!CallHandler, Connection!AsyncSend,
      ConnectionProofs!AsyncSend, Connection!Complete, ConnectionProofs!Complete,
      Connection!Unpack, ConnectionProofs!Unpack, Connection!ResumeYield,
      ConnectionProofs!ResumeYield

LEMMA ConnectionRefines == Connection!Next => ConnectionProofs!Next
<1>1. ASSUME Connection!RunHandler PROVE ConnectionProofs!RunHandler
  BY <1>1, ConnectionProcess, ConnectionYield
    DEF Connection!RunHandler, ConnectionProofs!RunHandler, Connection!worldVars,
        ConnectionProofs!worldVars, Connection!busVars, ConnectionProofs!busVars,
        Connection!AllCalls, ConnectionProofs!AllCalls, Connection!OnTimerEvent,
        ConnectionProofs!OnTimerEvent, Connection!Times, ConnectionProofs!Times,
        Connection!NoWaits, ConnectionProofs!NoWaits, Connection!OnFdEvent,
        ConnectionProofs!OnFdEvent, Connection!CancelTimer, ConnectionProofs!CancelTimer
<1>2. ASSUME Connection!TimerExpires
      PROVE  ConnectionProofs!TimerExpires
  BY <1>2
    DEF Connection!TimerExpires, ConnectionProofs!TimerExpires, Connection!worldVars,
        ConnectionProofs!worldVars, Connection!busVars, ConnectionProofs!busVars
<1>3. ASSUME NEW event \in {"read", "write"}, Connection!CompleteWaits(event)
      PROVE  ConnectionProofs!CompleteWaits(event)
  BY <1>3
    DEF Connection!CompleteWaits, ConnectionProofs!CompleteWaits, Connection!worldVars,
        ConnectionProofs!worldVars, Connection!busVars, ConnectionProofs!busVars,
        Connection!Times, ConnectionProofs!Times, Connection!Ready, ConnectionProofs!Ready
<1>4. ASSUME NEW c \in Connection!AllCalls, Connection!Expire(c)
      PROVE  ConnectionProofs!Expire(c)
  BY <1>4
    DEF Connection!Expire, ConnectionProofs!Expire, Connection!worldVars,
        ConnectionProofs!worldVars
<1>5. ASSUME Connection!Receive
      PROVE  ConnectionProofs!Receive
  BY <1>5
    DEF Connection!Receive, ConnectionProofs!Receive
<1>6. ASSUME Connection!Stall
      PROVE  ConnectionProofs!Stall
  BY <1>6
    DEF Connection!Stall, ConnectionProofs!Stall, Connection!busVars,
        ConnectionProofs!busVars
<1>7. ASSUME Connection!Unstall
      PROVE  ConnectionProofs!Unstall
  BY <1>7
    DEF Connection!Unstall, ConnectionProofs!Unstall, Connection!busVars,
        ConnectionProofs!busVars
<1>8. ASSUME NEW c \in YieldCalls, Connection!Spawn(c)
      PROVE  ConnectionProofs!Spawn(c)
  BY <1>8
    DEF Connection!Spawn, ConnectionProofs!Spawn, Connection!worldVars,
        ConnectionProofs!worldVars
<1> QED BY <1>1, <1>2, <1>3, <1>4, <1>5, <1>6, <1>7, <1>8
  DEF Connection!Next, ConnectionProofs!Next, Connection!AllCalls,
      ConnectionProofs!AllCalls
LEMMA RunsConnection == Spec => ConnectionProofs!Spec
<1>1. Init => ConnectionProofs!Init
  BY DEF Init, Connection!Init, ConnectionProofs!Init, Connection!NoWaits,
         ConnectionProofs!NoWaits, Connection!AllCalls, ConnectionProofs!AllCalls
<1>2. [Next]_vars => [ConnectionProofs!Next]_ConnectionProofs!vars
  BY PartSteps, ConnectionRefines
    DEF connectionVars, ConnectionProofs!vars, ConnectionProofs!busVars,
        ConnectionProofs!worldVars
<1> QED BY <1>1, <1>2, PTL DEF Spec, ConnectionProofs!Spec

LEMMA ConnectionConstants == ConnectionProofs!ConstantsAssumed
BY CallsAssumption, BoundsAssumption
  DEF ConnectionProofs!ConstantsAssumed, ConnectionProofs!NamesDiffer,
      ConnectionProofs!OwnHandlers

-----------------------------------------------------------------------------
(* The object server. *)
LEMMA ServerRefines == Server!Next => ServerProofs!Next
<1>1. ASSUME Server!AddManager PROVE ServerProofs!AddManager
  BY <1>1
    DEF Server!AddManager, ServerProofs!AddManager, Server!clientVars,
        ServerProofs!clientVars
<1>2. ASSUME NEW i \in Interfaces, Server!AddInterface(i) PROVE ServerProofs!AddInterface(i)
  BY <1>2
    DEF Server!AddInterface, ServerProofs!AddInterface, Server!clientVars,
        ServerProofs!clientVars
<1>3. ASSUME NEW i \in Interfaces, NEW sort \in Server!PropertyKinds,
             Server!RegisterProperty(i, sort)
      PROVE  ServerProofs!RegisterProperty(i, sort)
  BY <1>3
    DEF Server!RegisterProperty, ServerProofs!RegisterProperty, Server!clientVars,
        ServerProofs!clientVars, Server!MayRegister, ServerProofs!MayRegister,
        Server!HasHandle, ServerProofs!HasHandle, Server!CountRegistration,
        ServerProofs!CountRegistration
<1>4. ASSUME NEW i \in Interfaces, NEW sort \in Server!MethodKinds,
             Server!RegisterMethod(i, sort)
      PROVE  ServerProofs!RegisterMethod(i, sort)
  BY <1>4
    DEF Server!RegisterMethod, ServerProofs!RegisterMethod, Server!clientVars,
        ServerProofs!clientVars, Server!MayRegister, ServerProofs!MayRegister,
        Server!HasHandle, ServerProofs!HasHandle, Server!CountRegistration,
        ServerProofs!CountRegistration
<1>5. ASSUME NEW i \in Interfaces, NEW skip \in BOOLEAN, Server!Initialize(i, skip)
      PROVE  ServerProofs!Initialize(i, skip)
  BY <1>5
    DEF Server!Initialize, ServerProofs!Initialize, Server!MayRegister,
        ServerProofs!MayRegister, Server!HasHandle, ServerProofs!HasHandle, Server!Got,
        ServerProofs!Got, Server!Values, ServerProofs!Values
<1>6. ASSUME NEW i \in Interfaces, NEW owner \in {"application", "server"},
             Server!Release(i, owner)
      PROVE  ServerProofs!Release(i, owner)
  BY <1>6
    DEF Server!Release, ServerProofs!Release, Server!Drop, ServerProofs!Drop,
        Server!Absent, ServerProofs!Absent, Server!NoTable, ServerProofs!NoTable
<1>7. ASSUME NEW i \in Interfaces, NEW request \in Server!Values, Server!SetProperty(i, request)
      PROVE  ServerProofs!SetProperty(i, request)
  BY <1>7
    DEF Server!SetProperty, ServerProofs!SetProperty, Server!Store, ServerProofs!Store,
        Server!SetResults, ServerProofs!SetResults, Server!Values, ServerProofs!Values,
        Server!Got, ServerProofs!Got, Server!HasHandle, ServerProofs!HasHandle
<1>8. ASSUME NEW i \in Interfaces, NEW request \in Server!Values, Server!SetHandler(i, request)
      PROVE  ServerProofs!SetHandler(i, request)
  BY <1>8
    DEF Server!SetHandler, ServerProofs!SetHandler, Server!Store, ServerProofs!Store,
        Server!SetResults, ServerProofs!SetResults, Server!Values, ServerProofs!Values,
        Server!Got, ServerProofs!Got
<1>9. ASSUME NEW i \in Interfaces, Server!GetHandler(i) PROVE ServerProofs!GetHandler(i)
  BY <1>9
    DEF Server!GetHandler, ServerProofs!GetHandler, Server!clientVars,
        ServerProofs!clientVars, Server!Got, ServerProofs!Got, Server!Values,
        ServerProofs!Values
<1>10. ASSUME NEW i \in Interfaces, NEW k \in Calls, Server!MethodHandler(k, i)
      PROVE  ServerProofs!MethodHandler(k, i)
  BY <1>10
    DEF Server!MethodHandler, ServerProofs!MethodHandler, Server!clientVars,
        ServerProofs!clientVars, Server!MayCall, ServerProofs!MayCall,
        Server!CallbackMethod, ServerProofs!CallbackMethod, Server!Ends, ServerProofs!Ends
<1>11. ASSUME NEW i \in Interfaces, NEW k \in Calls, Server!SpawnMethod(k, i)
      PROVE  ServerProofs!SpawnMethod(k, i)
  BY <1>11
    DEF Server!SpawnMethod, ServerProofs!SpawnMethod, Server!clientVars,
        ServerProofs!clientVars, Server!MayCall, ServerProofs!MayCall
<1>12. ASSUME NEW k \in Calls, Server!RunCoroutine(k) PROVE ServerProofs!RunCoroutine(k)
  BY <1>12
    DEF Server!RunCoroutine, ServerProofs!RunCoroutine, Server!clientVars,
        ServerProofs!clientVars, Server!ReadArguments, ServerProofs!ReadArguments,
        Server!RefuseCall, ServerProofs!RefuseCall, Server!Ends, ServerProofs!Ends,
        Server!CompleteMethod, ServerProofs!CompleteMethod
<1> QED BY <1>1, <1>2, <1>3, <1>4, <1>5, <1>6, <1>7, <1>8, <1>9, <1>10, <1>11, <1>12
  DEF Server!Next, ServerProofs!Next, Server!PropertyKinds, ServerProofs!PropertyKinds,
      Server!MethodKinds, ServerProofs!MethodKinds, Server!Values, ServerProofs!Values

LEMMA RunsServer == Spec => ServerProofs!Spec
<1>1. Init => ServerProofs!Init
  BY DEF Init, Server!Init, ServerProofs!Init, Server!Idle, ServerProofs!Idle,
         Server!Absent, ServerProofs!Absent, Server!NoTable, ServerProofs!NoTable
<1>2. [Next]_vars => [ServerProofs!Next]_ServerProofs!vars
  BY PartSteps, ServerRefines DEF serverVars, ServerProofs!vars
<1> QED BY <1>1, <1>2, PTL DEF Spec, ServerProofs!Spec

-----------------------------------------------------------------------------
(* The composed objects. *)

(* The types are all that is needed beside the property itself: an interface
   is named by its object, so that registering it again, of which the client
   might have kept a trace, concerns that object's signalstate only. *)
ObjectsInv == ServerObjects!TypeOK /\ ServerObjects!ListedIsRegistered

(* The interfaces of an object are those named after it (compose). *)
LEMMA InterfacesOfObject ==
    ASSUME NEW o \in Objects
    PROVE  /\ ServerObjects!InterfacesOf(o) \subseteq ServerObjects!All
           /\ \A f \in ServerObjects!All : f \in ServerObjects!InterfacesOf(o) <=> f[1] = o
BY DEF ServerObjects!InterfacesOf, ServerObjects!All

(* Nothing is listed when an object is constructed that is neither registered
   by it nor was listed before (object::object, check_action). *)
LEMMA ConstructPreservesObjectsInv ==
    ASSUME ObjectsInv, NEW o \in Objects, NEW action \in ServerObjects!Action,
           ServerObjects!Construct(o, action)
    PROVE  ObjectsInv'
<1>1. /\ signalstate' \in [Objects -> ServerObjects!Action]
      /\ \A p \in Objects \ {o} : signalstate'[p] = signalstate[p]
    BY DEF ObjectsInv, ServerObjects!TypeOK, ServerObjects!Construct, ServerObjects!Action
<1>2. registered' = registered \cup ServerObjects!InterfacesOf(o)
    BY DEF ServerObjects!Construct
<1>3. listed' \in {listed, listed \cup registered', listed \cup ServerObjects!InterfacesOf(o)}
    BY DEF ServerObjects!Construct, ServerObjects!Action
<1>4. ServerObjects!TypeOK'
  <2>1. life' \in [Objects -> {"new", "alive", "destroyed"}]
      BY DEF ObjectsInv, ServerObjects!TypeOK, ServerObjects!Construct
  <2>2. registered' \subseteq ServerObjects!All /\ listed' \subseteq ServerObjects!All
      BY <1>2, <1>3, InterfacesOfObject DEF ObjectsInv, ServerObjects!TypeOK
  <2>3. added' \subseteq ServerObjects!All
      BY InterfacesOfObject DEF ObjectsInv, ServerObjects!TypeOK, ServerObjects!Construct
  <2> QED BY <1>1, <2>1, <2>2, <2>3 DEF ServerObjects!TypeOK
<1>5. ServerObjects!ListedIsRegistered'
  <2> SUFFICES ASSUME NEW f \in listed' \ registered'
               PROVE  signalstate'[f[1]] = "emit_no_signals"
      BY DEF ServerObjects!ListedIsRegistered
  <2>1. f \in listed \ registered BY <1>2, <1>3
  <2>2. f \in ServerObjects!All /\ f[1] \in Objects
      BY <2>1 DEF ObjectsInv, ServerObjects!TypeOK, ServerObjects!All
  <2>3. f[1] # o BY <1>2, <2>2, InterfacesOfObject
  <2> QED BY <1>1, <2>1, <2>2, <2>3 DEF ObjectsInv, ServerObjects!ListedIsRegistered
<1> QED BY <1>4, <1>5 DEF ObjectsInv

(* What a deferred object announces is registered (object::emit_object_added). *)
LEMMA EmitObjectAddedPreservesObjectsInv ==
    ASSUME ObjectsInv, NEW o \in Objects, ServerObjects!EmitObjectAdded(o)
    PROVE  ObjectsInv'
<1>1. /\ signalstate' \in [Objects -> ServerObjects!Action]
      /\ \A p \in Objects :
            signalstate[p] = "emit_no_signals" => signalstate'[p] = signalstate[p]
    BY DEF ObjectsInv, ServerObjects!TypeOK, ServerObjects!EmitObjectAdded, ServerObjects!Action
<1>2. ServerObjects!TypeOK'
  BY <1>1 DEF ObjectsInv, ServerObjects!TypeOK, ServerObjects!EmitObjectAdded,
              ServerObjects!AtPath
<1>3. ServerObjects!ListedIsRegistered'
  <2> SUFFICES ASSUME NEW f \in listed' \ registered'
               PROVE  signalstate'[f[1]] = "emit_no_signals"
      BY DEF ServerObjects!ListedIsRegistered
  <2>1. f \in listed \ registered BY DEF ServerObjects!EmitObjectAdded, ServerObjects!AtPath
  <2>2. f[1] \in Objects BY <2>1 DEF ObjectsInv, ServerObjects!TypeOK, ServerObjects!All
  <2> QED BY <1>1, <2>1, <2>2 DEF ObjectsInv, ServerObjects!ListedIsRegistered
<1> QED BY <1>2, <1>3 DEF ObjectsInv

(* An object that goes takes back what is announced of its interfaces, unless
   it was never to announce itself (~object, ~interface). *)
LEMMA DestroyPreservesObjectsInv ==
    ASSUME ObjectsInv, NEW o \in Objects, ServerObjects!Destroy(o)
    PROVE  ObjectsInv'
<1> USE DEF ServerObjects!Destroy, ServerObjects!DestroyTelling
<1>1. ServerObjects!TypeOK'
  <2>1. life' \in [Objects -> {"new", "alive", "destroyed"}]
      BY DEF ObjectsInv, ServerObjects!TypeOK
  <2> QED BY <2>1 DEF ObjectsInv, ServerObjects!TypeOK
<1>2. ServerObjects!ListedIsRegistered'
  <2> SUFFICES ASSUME NEW f \in listed' \ registered'
               PROVE  signalstate[f[1]] = "emit_no_signals"
      BY DEF ServerObjects!ListedIsRegistered
  <2>1. f \in listed /\ f \in ServerObjects!All BY DEF ObjectsInv, ServerObjects!TypeOK
  <2>2. CASE f \notin registered BY <2>1, <2>2 DEF ObjectsInv, ServerObjects!ListedIsRegistered
  <2>3. CASE f \in registered
    <3>1. f \in ServerObjects!InterfacesOf(o) BY <2>3
    <3>2. f[1] = o BY <2>1, <3>1, InterfacesOfObject
    <3>3. signalstate[o] \notin ServerObjects!Action \ {"emit_no_signals"}
      BY <2>3 DEF ServerObjects!AtPath
    <3> QED BY <3>2, <3>3 DEF ObjectsInv, ServerObjects!TypeOK
  <2> QED BY <2>2, <2>3
<1> QED BY <1>1, <1>2 DEF ObjectsInv

LEMMA ObjectSteps ==
    ASSUME ObjectsInv, ServerObjects!Next
    PROVE  ObjectsInv'
<1>1. ASSUME NEW o \in Objects, NEW action \in ServerObjects!Action,
             ServerObjects!Construct(o, action)
      PROVE  ObjectsInv'
  BY <1>1, ConstructPreservesObjectsInv
<1>2. ASSUME NEW o \in Objects, ServerObjects!EmitObjectAdded(o) PROVE ObjectsInv'
  BY <1>2, EmitObjectAddedPreservesObjectsInv
<1>3. ASSUME NEW o \in Objects, ServerObjects!Destroy(o) PROVE ObjectsInv'
  BY <1>3, DestroyPreservesObjectsInv
<1>4. ASSUME NEW f \in ServerObjects!All, ServerObjects!EmitAdded(f) PROVE ObjectsInv'
  BY <1>4 DEF ObjectsInv, ServerObjects!TypeOK, ServerObjects!ListedIsRegistered,
              ServerObjects!EmitAdded
<1>5. ASSUME NEW f \in ServerObjects!All, ServerObjects!EmitRemoved(f) PROVE ObjectsInv'
  BY <1>5 DEF ObjectsInv, ServerObjects!TypeOK, ServerObjects!ListedIsRegistered,
              ServerObjects!EmitRemoved
<1> QED BY <1>1, <1>2, <1>3, <1>4, <1>5 DEF ServerObjects!Next

-----------------------------------------------------------------------------
(* Messages. *)

(* What Contents shows of the marshalling is about that of Messages. *)
LEMMA MarshallingIsTheSame ==
    /\ Messaging!Types = Contents!Types
    /\ Messaging!ValuesOf = Contents!ValuesOf
    /\ Messaging!ElementsTo = Contents!ElementsTo
    /\ Messaging!AppendSingle = Contents!AppendSingle
    /\ Messaging!ReadSingle = Contents!ReadSingle
    /\ Messaging!Converting = Contents!Converting
    /\ Messaging!Unambiguous = Contents!Unambiguous
<1>1. Messaging!TypesTo = Contents!TypesTo /\ Messaging!Monostate = Contents!Monostate
  BY SMT DEF Messaging!TypesTo, Contents!TypesTo, Messaging!TypesOver, Contents!TypesOver,
      Messaging!Basics, Contents!Basics, Messaging!Basic, Contents!Basic, Messaging!Code,
      Contents!Code, Messaging!Monostate, Contents!Monostate, Messaging!IsLegal,
      Contents!IsLegal, Messaging!IsInjective, Contents!IsInjective
<1>2. Messaging!ValuesTo = Contents!ValuesTo /\ Messaging!ElementsTo = Contents!ElementsTo
  BY SMT DEF Messaging!ValuesTo, Contents!ValuesTo, Messaging!ValuesOver,
      Contents!ValuesOver, Messaging!ElementsTo, Contents!ElementsTo,
      Messaging!ElementsOver, Contents!ElementsOver, Messaging!Texts, Contents!Texts,
      Messaging!Codes, Contents!Codes
<1>3. Messaging!Signature = Contents!Signature
  BY SMT, <1>1 DEF Messaging!Signature, Contents!Signature, Messaging!SignatureTo,
      Contents!SignatureTo, Messaging!SignatureOver, Contents!SignatureOver, Messaging!Code,
      Contents!Code, Messaging!FlattenSeq, Contents!FlattenSeq
<1>4. Messaging!AppendSingle = Contents!AppendSingle
  BY SMT, <1>1, <1>2, <1>3 DEF Messaging!Signatures, Contents!Signatures,
      Messaging!FlattenSeq, Contents!FlattenSeq, Messaging!AppendSingle, Contents!AppendSingle,
      Messaging!AppendTo, Contents!AppendTo, Messaging!AppendOver, Contents!AppendOver,
      Messaging!AppendBasic, Contents!AppendBasic, Messaging!AppendArray,
      Contents!AppendArray, Messaging!AppendTuple, Contents!AppendTuple,
      Messaging!AppendVariant, Contents!AppendVariant, Messaging!Container,
      Contents!Container, Messaging!TupleType, Contents!TupleType, Messaging!Code,
      Contents!Code
<1>5. Messaging!Default = Contents!Default
  BY SMT, <1>1 DEF Messaging!Default, Contents!Default, Messaging!DefaultTo,
      Contents!DefaultTo, Messaging!DefaultOver, Contents!DefaultOver, Messaging!Datum,
      Contents!Datum, Messaging!Compound, Contents!Compound, Messaging!Alternative,
      Contents!Alternative
<1>6. \A single, t, types, ws :
        Messaging!ReadParts(single, t, types, ws) = Contents!ReadParts(single, t, types, ws)
  BY SMT
  DEF Messaging!ReadParts, Contents!ReadParts, Messaging!ReadNext, Contents!ReadNext,
      Messaging!Emplaced, Contents!Emplaced, Messaging!Got, Contents!Got, Messaging!Front,
      Contents!Front
<1>7. \A r, ws : Messaging!ExitContainer(r, ws) = Contents!ExitContainer(r, ws)
  BY SMT
  DEF Messaging!ExitContainer, Contents!ExitContainer, Messaging!Got, Contents!Got,
      Messaging!Failed, Contents!Failed, Messaging!Compound, Contents!Compound,
      Messaging!Datum, Contents!Datum
<1>8. /\ \A outcome : Messaging!Failed(outcome) = Contents!Failed(outcome)
      /\ \A code, contents, ws :
            Messaging!MayEnter(code, contents, ws) = Contents!MayEnter(code, contents, ws)
  BY SMT
  DEF Messaging!Failed, Contents!Failed, Messaging!Datum, Contents!Datum,
      Messaging!MayEnter, Contents!MayEnter
<1>9. /\ \A t : Messaging!TupleType(t) = Contents!TupleType(t)
      /\ \A types : Messaging!Signatures(types) = Contents!Signatures(types)
  BY SMT, <1>3
  DEF Messaging!TupleType, Contents!TupleType, Messaging!Signatures, Contents!Signatures,
      Messaging!FlattenSeq, Contents!FlattenSeq
<1>10. \A single, t, ws : Messaging!ReadArray(single, t, ws) = Contents!ReadArray(single, t, ws)
  BY Zenon, <1>3, <1>6, <1>7, <1>8
  DEF Messaging!ReadArray, Contents!ReadArray
<1>11. \A single, t, ws : Messaging!ReadTuple(single, t, ws) = Contents!ReadTuple(single, t, ws)
  BY Zenon, <1>6, <1>7, <1>8, <1>9
  DEF Messaging!ReadTuple, Contents!ReadTuple
<1>12. /\ \A values, t, ws :
            Messaging!ReadConverted(values, t, ws) = Contents!ReadConverted(values, t, ws)
       /\ \A k, v : Messaging!Alternative(k, v) = Contents!Alternative(k, v)
       /\ \A v, rest, lost : Messaging!Got(v, rest, lost) = Contents!Got(v, rest, lost)
  BY SMT
  DEF Messaging!ReadConverted, Contents!ReadConverted, Messaging!Got, Contents!Got,
      Messaging!Failed, Contents!Failed, Messaging!Datum, Contents!Datum,
      Messaging!Alternative, Contents!Alternative
<1>13. \A single, convert, t, k, ws :
        Messaging!ReadAlternative(single, convert, t, k, ws)
            = Contents!ReadAlternative(single, convert, t, k, ws)
  BY SMT, <1>12 DEF Messaging!ReadAlternative, Contents!ReadAlternative
<1>14. Messaging!ConvertTo = Contents!ConvertTo
  BY SMT, <1>1
  DEF Messaging!ConvertTo, Contents!ConvertTo, Messaging!ConvertOver, Contents!ConvertOver,
      Messaging!Texts, Contents!Texts, Messaging!Min, Contents!Min, Messaging!Datum,
      Contents!Datum, Messaging!Alternative, Contents!Alternative, Messaging!Enumerators,
      Contents!Enumerators
<1>15. /\ \A t, ws : Messaging!SkipUnmatched(t, ws) = Contents!SkipUnmatched(t, ws)
      /\ \A S : Messaging!Min(S) = Contents!Min(S)
  BY SMT, <1>5
  DEF Messaging!SkipUnmatched, Contents!SkipUnmatched, Messaging!Got, Contents!Got,
      Messaging!Min, Contents!Min
<1>16. \A single, convert, t, ws :
        Messaging!ReadVariant(single, convert, t, ws)
            = Contents!ReadVariant(single, convert, t, ws)
  BY Zenon, <1>3, <1>8, <1>13, <1>15
  DEF Messaging!ReadVariant, Contents!ReadVariant
<1>17. \A t, ws : Messaging!ReadBasic(t, ws) = Contents!ReadBasic(t, ws)
  BY SMT
  DEF Messaging!ReadBasic, Contents!ReadBasic, Messaging!Enumerators,
      Contents!Enumerators, Messaging!Got, Contents!Got, Messaging!Failed,
      Contents!Failed, Messaging!Datum, Contents!Datum, Messaging!Code, Contents!Code
<1>18. Messaging!Code = Contents!Code
      /\ \A v, rest, lost : Messaging!Got(v, rest, lost) = Contents!Got(v, rest, lost)
  BY SMT
  DEF Messaging!Code, Contents!Code, Messaging!Got, Contents!Got
<1>19. ASSUME NEW n, NEW single
       PROVE  Messaging!ReadOver(n, single) = Contents!ReadOver(n, single)
  <2> DEFINE Read(t, ws) ==
              CASE t.kind \in DOMAIN Messaging!Code -> Messaging!ReadBasic(t, ws)
              [] t.kind = "monostate" -> Messaging!Got(Messaging!Default[t], ws, FALSE)
              [] t.kind \in {"vector", "map"} -> Messaging!ReadArray(single, t, ws)
              [] t.kind \in {"pair", "tuple"} -> Messaging!ReadTuple(single, t, ws)
              [] t.kind = "variant" ->
                    Messaging!ReadVariant(single, Messaging!ConvertTo[n][t], t, ws)
             ReadHere(t, ws) ==
              CASE t.kind \in DOMAIN Contents!Code -> Contents!ReadBasic(t, ws)
              [] t.kind = "monostate" -> Contents!Got(Contents!Default[t], ws, FALSE)
              [] t.kind \in {"vector", "map"} -> Contents!ReadArray(single, t, ws)
              [] t.kind \in {"pair", "tuple"} -> Contents!ReadTuple(single, t, ws)
              [] t.kind = "variant" ->
                    Contents!ReadVariant(single, Contents!ConvertTo[n][t], t, ws)
  <2>1. ASSUME NEW t, NEW ws PROVE Read(t, ws) = ReadHere(t, ws)
    <3>1. /\ Messaging!ReadBasic(t, ws) = Contents!ReadBasic(t, ws)
          /\ Messaging!Got(Messaging!Default[t], ws, FALSE)
                = Contents!Got(Contents!Default[t], ws, FALSE)
      BY <1>5, <1>17, <1>18
    <3>2. /\ Messaging!ReadArray(single, t, ws) = Contents!ReadArray(single, t, ws)
          /\ Messaging!ReadTuple(single, t, ws) = Contents!ReadTuple(single, t, ws)
          /\ Messaging!ReadVariant(single, Messaging!ConvertTo[n][t], t, ws)
                = Contents!ReadVariant(single, Contents!ConvertTo[n][t], t, ws)
      BY <1>10, <1>11, <1>16, <1>14
    <3> QED BY <1>18, <3>1, <3>2
  <2> HIDE DEF Read, ReadHere
  <2>2. [t \in Messaging!TypesTo[n] \cup {Messaging!Monostate} |->
            [ws \in Seq(Messaging!ElementsTo[n]) |-> Read(t, ws)]]
        = [t \in Contents!TypesTo[n] \cup {Contents!Monostate} |->
            [ws \in Seq(Contents!ElementsTo[n]) |-> ReadHere(t, ws)]]
    BY <1>1, <1>2, <2>1
  <2> QED BY <2>2 DEF Read, ReadHere, Messaging!ReadOver, Contents!ReadOver
<1>20. Messaging!ReadTo = Contents!ReadTo
  BY Zenon, <1>19 DEF Messaging!ReadTo, Contents!ReadTo
<1>21. Messaging!ValuesOf = Contents!ValuesOf
  BY SMT, <1>1 DEF Messaging!ValuesOf, Contents!ValuesOf, Messaging!ValuesOfTo,
      Contents!ValuesOfTo, Messaging!ValuesOfOver, Contents!ValuesOfOver, Messaging!Data,
      Contents!Data, Messaging!Arrays, Contents!Arrays, Messaging!Datum, Contents!Datum,
      Messaging!Compound, Contents!Compound, Messaging!Alternative, Contents!Alternative,
      Messaging!Code, Contents!Code
<1>22. Messaging!Converting = Contents!Converting
  BY SMT, <1>1 DEF Messaging!Converting, Contents!Converting, Messaging!ConvertingTo,
      Contents!ConvertingTo, Messaging!ConvertingOver, Contents!ConvertingOver
<1>23. Messaging!Unambiguous = Contents!Unambiguous
  BY SMT, <1>1, <1>3, <1>14 DEF Messaging!Unambiguous, Contents!Unambiguous,
      Messaging!UnambiguousTo, Contents!UnambiguousTo, Messaging!UnambiguousOver,
      Contents!UnambiguousOver, Messaging!Takes, Contents!Takes, Messaging!Texts,
      Contents!Texts
<1> QED BY <1>1, <1>2, <1>4, <1>20, <1>21, <1>22, <1>23
   DEF Messaging!Types, Contents!Types, Messaging!ReadSingle, Contents!ReadSingle

(* The elements of messages, and the one of an argument. *)
Elements == Messaging!ElementsTo[MaxNesting]
Appended(argument) == Messaging!AppendSingle[argument.type][argument.value]

(* Until everything is there nothing is read; until a read fails, the elements
   after the receiver's position are those of the arguments it has not read. *)
MessagesInv ==
    /\ sent \in Seq(Messaging!Arguments) /\ Len(sent) <= MaxArguments
    /\ last.count \in 0..MaxArguments
    /\ Len(sent) < MaxArguments => last = Messaging!NothingRead
    /\ last.outcome = "read" =>
        /\ unread \in Seq(Elements) /\ Len(unread) = Len(sent) - last.count
        /\ \A j \in 1..Len(unread) : unread[j] = Appended(sent[last.count + j])
    /\ Messaging!ReadsWhatWasAppended

(* The element of an argument, and what a receiver reads of it. *)
LEMMA ArgumentReadsBack ==
    ASSUME NEW argument \in Messaging!Arguments
    PROVE  /\ Appended(argument) \in Elements
           /\ \A t \in Messaging!Types, ws \in Seq(Elements) :
                ws # <<>> /\ ws[1] = Appended(argument) =>
                    LET r == Messaging!ReadSingle[t][ws] IN
                    /\ r.outcome = "read" => r.rest = Tail(ws)
                    /\ r.outcome = "read" /\ ~r.lost =>
                        Messaging!AppendSingle[t][r.value] = Appended(argument)
                    /\ t = argument.type /\ t \in Messaging!Unambiguous =>
                        /\ r.outcome = "read" /\ ~r.lost
                        /\ t \in Messaging!Converting \/ r.value = argument.value
<1> DEFINE s == argument.type
           v == argument.value
<1>1. MaxNesting \in Nat /\ VectorLengths \cup MapLengths \subseteq Nat
  BY BoundsAssumption, LengthsAssumption
<1>2. s \in Messaging!Types /\ v \in Messaging!ValuesOf[s]
  BY TypesAssumption DEF Messaging!Arguments, Messaging!CompleteTypes
<1>3. s \in Contents!Types /\ v \in Contents!ValuesOf[s]
  BY <1>2, MarshallingIsTheSame
<1> HIDE DEF s, v
<1>4. Contents!AppendSingle[s][v] \in Contents!ElementsTo[MaxNesting]
  BY <1>1, <1>3, Contents!WrittenIsElement
<1>5. MaxNesting \in 0..MaxNesting BY <1>1
<1>6. Contents!ReadsBack(MaxNesting) BY <1>1, <1>5, Contents!EverythingReadsBack
<1>7. ASSUME NEW t \in Contents!Types, NEW ws \in Seq(Contents!ElementsTo[MaxNesting]),
             ws # <<>>, ws[1] = Contents!AppendSingle[s][v]
      PROVE  Contents!Reads(MaxNesting, s, v, t, ws)
  BY <1>3, <1>6, <1>7
  DEF Contents!ReadsBack, Contents!Types, Contents!ValuesOf, Contents!AppendSingle
<1>8. ASSUME NEW t \in Contents!Types, NEW ws \in Seq(Contents!ElementsTo[MaxNesting]),
             ws # <<>>, ws[1] = Contents!AppendSingle[s][v]
      PROVE  LET r == Contents!ReadSingle[t][ws] IN
             /\ r.outcome = "read" => r.rest = Tail(ws)
             /\ r.outcome = "read" /\ ~r.lost =>
                    Contents!AppendSingle[t][r.value] = Contents!AppendSingle[s][v]
             /\ t = s /\ t \in Contents!Unambiguous =>
                    /\ r.outcome = "read" /\ ~r.lost
                    /\ t \in Contents!Converting \/ r.value = v
  BY <1>7, <1>8
  DEF Contents!Reads, Contents!Converts, Contents!AppendSingle, Contents!ReadSingle,
      Contents!Converting, Contents!Unambiguous
<1> QED BY <1>4, <1>8, MarshallingIsTheSame DEF Appended, Elements, s, v

(* append puts the element of the argument behind the others. *)
LEMMA AppendPreservesMessagesInv ==
    ASSUME MessagesInv, NEW argument \in Messaging!Arguments,
           Messaging!AppendArgument(argument)
    PROVE  MessagesInv'
<1> DEFINE element == Appended(argument)
           l == Len(sent)
<1>1. /\ l < MaxArguments /\ last = Messaging!NothingRead /\ last' = last
      /\ sent' = Append(sent, argument) /\ unread' = Append(unread, element)
  BY DEF Messaging!AppendArgument, Appended
<1>2. last.count = 0 /\ last.outcome = "read" BY <1>1 DEF Messaging!NothingRead
<1>3. MaxArguments \in Nat /\ element \in Elements BY BoundsAssumption, ArgumentReadsBack
<1>4. /\ sent \in Seq(Messaging!Arguments) /\ unread \in Seq(Elements) /\ l \in Nat
      /\ Len(unread) = l /\ \A j \in 1..l : unread[j] = Appended(sent[j])
  BY <1>2 DEF MessagesInv
<1> HIDE DEF l, element
<1>5. /\ sent' \in Seq(Messaging!Arguments) /\ Len(sent') = l + 1
      /\ sent'[l + 1] = argument /\ \A j \in 1..l : sent'[j] = sent[j]
  BY <1>1, <1>4, AppendProperties DEF l
<1>6. /\ unread' \in Seq(Elements) /\ Len(unread') = l + 1
      /\ unread'[l + 1] = element /\ \A j \in 1..l : unread'[j] = unread[j]
  BY <1>1, <1>3, <1>4, AppendProperties
<1>7. \A j \in 1..l + 1 : unread'[j] = Appended(sent'[j])
  <2>1. \A j \in 1..l + 1 : j \in 1..l \/ j = l + 1 BY <1>4
  <2> QED BY <1>4, <1>5, <1>6, <2>1 DEF element
<1>8. l + 1 <= MaxArguments /\ l + 1 = (l + 1) - 0 /\ \A j \in 1..l + 1 : 0 + j = j
  BY <1>1, <1>3, <1>4
<1>10. Messaging!ReadsWhatWasAppended'
  BY <1>1, <1>2 DEF Messaging!ReadsWhatWasAppended
<1> QED BY <1>1, <1>2, <1>3, <1>5, <1>6, <1>7, <1>8, <1>10 DEF MessagesInv

(* read takes the element of the next argument, or fails. *)
LEMMA ReadPreservesMessagesInv ==
    ASSUME MessagesInv, NEW t \in Readable, Messaging!ReadArgument(t)
    PROVE  MessagesInv'
<1> DEFINE r == Messaging!ReadSingle[t][unread]
           c == last.count
           m == Len(unread)
           argument == sent[c + 1]
<1>1. /\ Len(sent) = MaxArguments /\ c < MaxArguments /\ last.outcome = "read"
      /\ unread' = r.rest /\ sent' = sent
      /\ last' = [count |-> c + 1, type |-> t, outcome |-> r.outcome,
                  value |-> r.value, lost |-> r.lost]
  BY DEF Messaging!ReadArgument
<1>2. /\ sent \in Seq(Messaging!Arguments) /\ c \in 0..MaxArguments /\ MaxArguments \in Nat
      /\ unread \in Seq(Elements) /\ m = MaxArguments - c
      /\ \A j \in 1..m : unread[j] = Appended(sent[c + j])
  BY <1>1, BoundsAssumption DEF MessagesInv
<1> HIDE DEF r, c, m
<1>3. c + 1 \in 1..MaxArguments /\ 1 \in 1..m /\ m \in Nat /\ m - 1 = MaxArguments - (c + 1)
      /\ \A j \in 1..m - 1 : j + 1 \in 1..m /\ c + (j + 1) = (c + 1) + j
  BY <1>1, <1>2
<1>4. argument \in Messaging!Arguments BY <1>1, <1>2, <1>3
<1>5. unread # <<>> /\ unread[1] = Appended(argument)
  BY <1>2, <1>3, EmptySeq DEF m
<1> HIDE DEF argument
<1>6. /\ r.outcome = "read" => r.rest = Tail(unread)
      /\ r.outcome = "read" /\ ~r.lost =>
            Messaging!AppendSingle[t][r.value] = Appended(argument)
      /\ t = argument.type /\ t \in Messaging!Unambiguous =>
            /\ r.outcome = "read" /\ ~r.lost
            /\ t \in Messaging!Converting \/ r.value = argument.value
  <2>1. t \in Messaging!Types BY TypesAssumption DEF Messaging!CompleteTypes
  <2> QED BY <1>2, <1>4, <1>5, <2>1, ArgumentReadsBack DEF r
<1>7. last'.count = c + 1 /\ last'.type = t /\ last'.outcome = r.outcome
      /\ last'.value = r.value /\ last'.lost = r.lost
  BY <1>1
<1>8. last'.outcome = "read" =>
        /\ unread' \in Seq(Elements) /\ Len(unread') = Len(sent') - last'.count
        /\ \A j \in 1..Len(unread') : unread'[j] = Appended(sent'[last'.count + j])
  <2> SUFFICES ASSUME last'.outcome = "read"
               PROVE  /\ unread' \in Seq(Elements) /\ Len(unread') = Len(sent') - last'.count
                      /\ \A j \in 1..Len(unread') :
                            unread'[j] = Appended(sent'[last'.count + j])
    OBVIOUS
  <2>1. unread' = Tail(unread) BY <1>1, <1>6, <1>7
  <2>2. Tail(unread) \in Seq(Elements) /\ Len(Tail(unread)) = m - 1
        /\ \A j \in 1..m - 1 : Tail(unread)[j] = unread[j + 1]
    BY <1>2, <1>5, HeadTailProperties DEF m
  <2> QED BY <1>1, <1>2, <1>3, <1>7, <2>1, <2>2
<1>9. Messaging!ReadsWhatWasAppended'
  <2>1. sent'[last'.count] = argument BY <1>1, <1>7 DEF argument
  <2> QED BY <1>6, <1>7, <2>1 DEF Messaging!ReadsWhatWasAppended, Appended
<1> QED BY <1>1, <1>2, <1>3, <1>7, <1>8, <1>9 DEF MessagesInv

LEMMA MessageSteps ==
    ASSUME MessagesInv, Messaging!Next
    PROVE  MessagesInv'
BY AppendPreservesMessagesInv, ReadPreservesMessagesInv DEF Messaging!Next

-----------------------------------------------------------------------------
(* Object paths. *)
LEMMA PathsRefine == Paths!Next => Contents!Next
BY DEF Paths!Next, Contents!Next, Paths!Descend, Contents!Descend, Paths!Ascend,
       Contents!Ascend, Paths!CharactersUsed, Contents!CharactersUsed, Paths!Extend,
       Contents!Extend, Paths!Encode, Contents!Encode, Paths!Plain, Contents!Plain,
       Paths!ShouldEscape, Contents!ShouldEscape, Paths!RequiresEscape,
       Contents!RequiresEscape, Paths!Escape, Contents!Escape, Paths!Hex,
       Contents!Hex, Paths!Digits, Contents!Digits, Paths!Letters, Contents!Letters,
       Paths!Slash, Contents!Slash, Paths!Underscore, Contents!Underscore,
       Paths!ParentPath, Contents!ParentPath, Paths!LastSlash, Contents!LastSlash,
       Paths!FlattenSeq, Contents!FlattenSeq, Paths!Last, Contents!Last, Paths!Front,
       Contents!Front, Paths!Max, Contents!Max

LEMMA RunsPaths == Spec => Contents!Spec
<1>1. Init => Contents!Init
  BY DEF Init, Paths!Init, Contents!Init, Paths!Slash, Contents!Slash
<1>2. [Next]_vars => [Contents!Next]_Contents!vars
  BY PartSteps, PathsRefine DEF pathVars, Contents!vars
<1> QED BY <1>1, <1>2, PTL DEF Spec, Contents!Spec

-----------------------------------------------------------------------------
(* The timer. *)
(* What its methods keep of a timer. *)
Honours(t) ==
    /\ t \in SdEvents!T!Timers
    /\ t.enabled \in {"off", t.asked}
    /\ t.enabled = "oneshot" => ~t.expired
    /\ t.asked \in SdEvents!T!RunTypes =>
            SdEvents!T!IsRunning(t) \/ t.expired \/ t.inside

(* A request leaves it as asked: off, or on and not expired (start, stop). *)
LEMMA AskHonours ==
    ASSUME NEW t, Honours(t), NEW request \in SdEvents!T!Requests, NEW inside \in BOOLEAN
    PROVE  Honours(SdEvents!T!Ask(t, request, inside))
BY DEF Honours, SdEvents!T!Timers, SdEvents!T!RunTypes, SdEvents!T!Requests,
       SdEvents!T!IsRunning, SdEvents!T!Ask, SdEvents!T!Requested, SdEvents!T!Stopped,
       SdEvents!T!Started, SdEvents!T!SetEnabled

(* Whatever the user's callback asks for: the handler leaves a one-shot timer
   off and expired, unless another kind was started (timeoutHandler). *)
LEMMA TimeoutHonours ==
    ASSUME NEW t, Honours(t), NEW request \in SdEvents!T!Requests \cup {"none"}
    PROVE  Honours(SdEvents!T!TimeoutHandler(t, request))
<1> USE DEF Honours, SdEvents!T!Timers, SdEvents!T!RunTypes, SdEvents!T!Requests,
            SdEvents!T!IsRunning, SdEvents!T!Stopped, SdEvents!T!SetEnabled
<1> DEFINE dispatched ==
              IF t.enabled = "oneshot" THEN SdEvents!T!Stopped(t)
              ELSE [t EXCEPT !.pending = FALSE]
           rearmed ==
              IF t.runType = "on" THEN [dispatched EXCEPT !.due = FALSE, !.armed = FALSE]
              ELSE dispatched
           expired == [rearmed EXCEPT !.expired = TRUE]
           called ==
              IF request = "none" THEN expired ELSE SdEvents!T!Ask(expired, request, TRUE)
<1>1. /\ dispatched \in SdEvents!T!Timers /\ dispatched.asked = t.asked
      /\ dispatched.enabled \in {"off", t.asked} \ {"oneshot"}
  OBVIOUS
<1> HIDE DEF dispatched
<1>2. /\ rearmed \in SdEvents!T!Timers /\ rearmed.asked = t.asked
      /\ rearmed.enabled \in {"off", t.asked} \ {"oneshot"}
  BY <1>1
<1> HIDE DEF rearmed
<1>3. Honours(expired) /\ expired.enabled # "oneshot"
  BY <1>2
<1> HIDE DEF expired
<1>4. Honours(called) /\ (called.enabled = "oneshot" => called.inside)
  <2>1. CASE request = "none" BY <2>1, <1>3
  <2>2. CASE request # "none"
    <3>1. Honours(SdEvents!T!Ask(expired, request, TRUE)) BY <1>3, <2>2, AskHonours
    <3>2. SdEvents!T!Ask(expired, request, TRUE).inside
      BY <1>3, <2>2 DEF SdEvents!T!Ask, SdEvents!T!Requested, SdEvents!T!Started
    <3> QED BY <2>2, <3>1, <3>2
  <2> QED BY <2>1, <2>2
<1> HIDE DEF called
<1>5. Honours(IF called.enabled = "oneshot" THEN SdEvents!T!Stopped(called) ELSE called)
  BY <1>4
<1> QED BY <1>5 DEF called, expired, rearmed, dispatched, SdEvents!T!TimeoutHandler

LEMMA TimerSteps ==
    ASSUME Honours(timer), SdEvents!Next
    PROVE  Honours(timer')
<1>1. ASSUME NEW t, Honours(t), SdEvents!Poll(t) PROVE Honours(timer')
  BY <1>1 DEF SdEvents!Poll, Honours, SdEvents!T!Timers, SdEvents!T!RunTypes,
              SdEvents!T!Requests, SdEvents!T!IsRunning
<1>2. ASSUME NEW request \in SdEvents!T!Requests, SdEvents!AskTimer(request)
      PROVE  Honours(timer')
  BY <1>2, AskHonours DEF SdEvents!AskTimer
<1>3. ASSUME SdEvents!RunHandler PROVE Honours(timer')
  <2> DEFINE t == [timer EXCEPT !.armed = SdEvents!T!IsRunning(timer)]
  <2>1. Honours(t)
    BY DEF Honours, SdEvents!T!Timers, SdEvents!T!RunTypes, SdEvents!T!Requests,
           SdEvents!T!IsRunning
  <2>2. CASE SdEvents!RunInitial
    BY <2>1, <2>2, <1>1 DEF SdEvents!RunInitial
  <2>3. CASE SdEvents!RunArmed
    BY <2>3, <1>1 DEF SdEvents!RunArmed
  <2>4. CASE SdEvents!RunPending
    BY <2>4, <1>2, TimeoutHonours DEF SdEvents!RunPending
  <2> QED BY <1>3, <2>2, <2>3, <2>4 DEF SdEvents!RunHandler
<1>4. ASSUME SdEvents!OtherHandler PROVE Honours(timer')
  BY <1>4, <1>2 DEF SdEvents!OtherHandler
<1>5. ASSUME SdEvents!TimerElapses PROVE Honours(timer')
  BY <1>5 DEF SdEvents!TimerElapses, Honours, SdEvents!T!Timers, SdEvents!T!RunTypes,
              SdEvents!T!Requests, SdEvents!T!IsRunning
<1>6. ASSUME SdEvents!Exit \/ SdEvents!CompleteWait \/ SdEvents!Event PROVE Honours(timer')
  BY <1>6 DEF SdEvents!Exit, SdEvents!CompleteWait, SdEvents!Event
<1> QED BY <1>3, <1>4, <1>5, <1>6 DEF SdEvents!Next

-----------------------------------------------------------------------------
(* Transaction ids. *)
IsHandler(h) ==
    h \in [kind: {h.kind}, cookie: {h.cookie}, signalled: BOOLEAN, logged: {h.logged}]

(* TransactionOfCall is inductive: nothing but the shape of the state is
   missing. *)
TransactionsInv ==
    /\ id = [t \in Threads |-> id[t]]
    /\ handling = [t \in Threads |-> handling[t]]
    /\ \A t \in Threads : IsHandler(handling[t])
    /\ TransactionIds!TransactionOfCall

(* The id that a thread's handler has, whatever became of it: the call's. *)
OfCall(t) ==
    LET callId == TransactionIds!Combine(BusHash[t], handling[t].cookie) IN
    handling[t].kind # "none" /\ ~handling[t].signalled /\ callId # 0 =>
        id[t] = callId /\ handling[t].logged \subseteq {callId}

(* A step of one thread leaves the ids of the others alone (the id is
   thread_local). *)
LEMMA ThreadStep ==
    ASSUME TransactionsInv, NEW t \in Threads, NEW value, NEW h, IsHandler(h),
           id' = [id EXCEPT ![t] = value], handling' = [handling EXCEPT ![t] = h],
           OfCall(t)'
    PROVE  TransactionsInv'
<1>1. /\ id' = [u \in Threads |-> id'[u]] /\ handling' = [u \in Threads |-> handling'[u]]
      /\ handling'[t] = h
      /\ \A u \in Threads \ {t} : id'[u] = id[u] /\ handling'[u] = handling[u]
  BY DEF TransactionsInv
<1>2. \A u \in Threads : IsHandler(handling'[u])
  BY <1>1 DEF TransactionsInv
<1>3. ASSUME NEW u \in Threads PROVE OfCall(u)'
  <2>1. CASE u = t BY <2>1
  <2>2. CASE u # t
    <3>1. OfCall(u) BY DEF TransactionsInv, TransactionIds!TransactionOfCall, OfCall
    <3> QED BY <1>1, <2>2, <3>1 DEF OfCall
  <2> QED BY <2>1, <2>2
<1> QED BY <1>1, <1>2, <1>3 DEF TransactionsInv, TransactionIds!TransactionOfCall, OfCall

LEMMA TransactionSteps ==
    ASSUME TransactionsInv, TransactionIds!Next
    PROVE  TransactionsInv'
<1>1. ASSUME NEW t \in Threads
      PROVE  /\ IsHandler(handling[t]) /\ OfCall(t)
             /\ \A x : [id EXCEPT ![t] = x][t] = x
             /\ \A x : [handling EXCEPT ![t] = x][t] = x
  BY DEF TransactionsInv, TransactionIds!TransactionOfCall, OfCall
<1>2. ASSUME NEW t \in Threads, NEW of \in {"method", "set", "get"}, NEW cookie \in Cookies,
             TransactionIds!Enter(t, of, cookie)
      PROVE  TransactionsInv'
  <2> DEFINE h == [TransactionIds!NoHandler EXCEPT !.kind = of, !.cookie = cookie]
             callId == TransactionIds!Combine(BusHash[t], cookie)
  <2>1. /\ TransactionIds!MessageHash(TransactionIds!Call(cookie)) = cookie
        /\ TransactionIds!MessageHash(TransactionIds!Reply(cookie)) = cookie
    BY DEF TransactionIds!MessageHash, TransactionIds!Call, TransactionIds!Reply
  <2>2. id' = [id EXCEPT ![t] = callId]
    BY <1>2, <2>1 DEF TransactionIds!Enter, TransactionIds!SetIdOf, TransactionIds!SetId
  <2>3. handling' = [handling EXCEPT ![t] = h]
    BY <1>2 DEF TransactionIds!Enter
  <2>4. h.cookie = cookie /\ h.logged = {} /\ IsHandler(h)
    BY DEF IsHandler, TransactionIds!NoHandler
  <2> HIDE DEF h
  <2>5. id'[t] = callId /\ handling'[t] = h BY <1>1, <2>2, <2>3
  <2>6. OfCall(t)' BY <2>4, <2>5 DEF OfCall
  <2> QED BY <2>2, <2>3, <2>4, <2>6, ThreadStep
<1>3. ASSUME NEW t \in Threads, TransactionIds!ChangeProperty(t)
      PROVE  TransactionsInv'
  <2>1. PICK value : id' = [id EXCEPT ![t] = value]
    BY <1>3 DEF TransactionIds!ChangeProperty, TransactionIds!SetIdOf, TransactionIds!SetId
  <2>2. CASE handling[t].kind = "none"
    <3>1. handling' = [handling EXCEPT ![t] = handling[t]]
      BY <1>3, <2>2 DEF TransactionIds!ChangeProperty, TransactionsInv
    <3>2. OfCall(t)' BY <1>1, <2>2, <3>1 DEF OfCall
    <3> QED BY <1>1, <2>1, <3>1, <3>2, ThreadStep
  <2>3. CASE handling[t].kind # "none"
    <3> DEFINE h == [handling[t] EXCEPT !.signalled = TRUE]
    <3>1. handling' = [handling EXCEPT ![t] = h]
      BY <1>3, <2>3 DEF TransactionIds!ChangeProperty, TransactionsInv
    <3>2. IsHandler(h) /\ h.signalled BY <1>1 DEF IsHandler
    <3> HIDE DEF h
    <3>3. OfCall(t)' BY <1>1, <3>1, <3>2 DEF OfCall
    <3> QED BY <2>1, <3>1, <3>2, <3>3, ThreadStep
  <2> QED BY <2>2, <2>3
<1>4. ASSUME NEW t \in Threads, TransactionIds!Log(t)
      PROVE  TransactionsInv'
  <2> DEFINE got == IF id[t] = 0 THEN TransactionIds!GeneratedId(t) ELSE id[t]
  <2>1. id' = [id EXCEPT ![t] = got]
    BY <1>4 DEF TransactionIds!Log
  <2>2. CASE handling[t].kind = "none"
    <3>1. handling' = [handling EXCEPT ![t] = handling[t]]
      BY <1>4, <2>2 DEF TransactionIds!Log, TransactionsInv
    <3>2. OfCall(t)' BY <1>1, <2>2, <3>1 DEF OfCall
    <3> QED BY <1>1, <2>1, <3>1, <3>2, ThreadStep
  <2>3. CASE handling[t].kind # "none"
    <3> DEFINE h == [handling[t] EXCEPT !.logged = @ \cup {got}]
    <3>1. handling' = [handling EXCEPT ![t] = h]
      BY <1>4, <2>3 DEF TransactionIds!Log, TransactionsInv
    <3>2. /\ IsHandler(h) /\ h.kind = handling[t].kind /\ h.cookie = handling[t].cookie
          /\ h.signalled = handling[t].signalled /\ h.logged = handling[t].logged \cup {got}
      BY <1>1 DEF IsHandler
    <3> HIDE DEF h
    <3>3. OfCall(t)' BY <1>1, <2>1, <3>1, <3>2 DEF OfCall
    <3> QED BY <2>1, <3>1, <3>2, <3>3, ThreadStep
  <2> QED BY <2>2, <2>3
<1>5. ASSUME NEW t \in Threads, TransactionIds!Leave(t)
      PROVE  TransactionsInv'
  <2> DEFINE h == [kind |-> "none", cookie |-> 0, signalled |-> FALSE, logged |-> {}]
  <2>1. id' = [id EXCEPT ![t] = id[t]] /\ handling' = [handling EXCEPT ![t] = h]
    BY <1>5 DEF TransactionIds!Leave, TransactionIds!NoHandler, TransactionsInv
  <2>2. IsHandler(h) BY DEF IsHandler
  <2>3. OfCall(t)' BY <1>1, <2>1 DEF OfCall
  <2> QED BY <2>1, <2>2, <2>3, ThreadStep
<1>6. ASSUME TransactionIds!Tick PROVE TransactionsInv'
  BY <1>6 DEF TransactionIds!Tick, TransactionsInv, TransactionIds!TransactionOfCall
<1> QED BY <1>2, <1>3, <1>4, <1>5, <1>6 DEF TransactionIds!Next

-----------------------------------------------------------------------------
(* Slots. *)

(* What CallbackHasObject rests on: sd-bus has the callback of a slot only while
   the slot has an owner, and the owner of a slot whose callback runs can be gone
   only if it is the slot of a call, whose object sd-bus deletes. *)
OwnersInv ==
    \A s \in Slots :
        /\ owned[s] => kind[s] \in {"match", "call"}
        /\ installed[s] => owned[s]
        /\ calling = s /\ ~owned[s] => kind[s] = "call"

SlotsInv == Callbacks!TypeOK /\ Callbacks!CallbackHasObject /\ OwnersInv

(* A slot that is installed anew had no callback, and none of the others is
   touched (match::match, message::call_async). *)
LEMMA InstallPreservesSlotsInv ==
    ASSUME SlotsInv, NEW s \in Slots, NEW of \in {"match", "call"}, Callbacks!Install(s, of)
    PROVE  SlotsInv'
<1>1. Callbacks!TypeOK' BY DEF SlotsInv, Callbacks!TypeOK, Callbacks!Install
<1>2. Callbacks!CallbackHasObject'
  BY DEF SlotsInv, Callbacks!TypeOK, Callbacks!Install, Callbacks!CallbackHasObject,
         OwnersInv
<1>3. OwnersInv'
  BY DEF SlotsInv, Callbacks!TypeOK, Callbacks!Install, Callbacks!CallbackHasObject,
         OwnersInv
<1> QED BY <1>1, <1>2, <1>3 DEF SlotsInv

(* A slot that is destroyed takes its callback along, unless that belongs to
   sd-bus and runs (~slot). *)
LEMMA DestroyPreservesSlotsInv ==
    ASSUME SlotsInv, NEW s \in Slots, Callbacks!Destroy(s)
    PROVE  SlotsInv'
<1>1. Callbacks!TypeOK'
  BY DEF SlotsInv, Callbacks!TypeOK, Callbacks!Destroy, Callbacks!DropSlot
<1>2. owned[s] /\ kind[s] \in {"match", "call"} /\ callback[s] = "alive"
  BY DEF SlotsInv, Callbacks!TypeOK, OwnersInv, Callbacks!CallbackHasObject,
         Callbacks!Destroy
<1>3. callback'[s] = "alive" <=> calling = s
  <2>1. CASE kind[s] = "match"
    <3>1. calling # s BY <2>1 DEF Callbacks!Destroy
    <3>2. callback'[s] = "deleted"
      BY <2>1 DEF SlotsInv, Callbacks!TypeOK, Callbacks!Destroy, Callbacks!DropSlot
    <3> QED BY <3>1, <3>2
  <2>2. CASE kind[s] = "call" /\ calling = s
    <3>1. ~Callbacks!Deletes(s, {calling} \cap {s}) BY <2>2 DEF Callbacks!Deletes
    <3>2. callback'[s] = callback[s]
      BY <2>2, <3>1 DEF SlotsInv, Callbacks!TypeOK, Callbacks!Destroy, Callbacks!DropSlot
    <3> QED BY <1>2, <2>2, <3>2
  <2>3. CASE kind[s] = "call" /\ calling # s
    <3>1. Callbacks!Deletes(s, {calling} \cap {s}) BY <2>3 DEF Callbacks!Deletes
    <3>2. callback'[s] = "deleted"
      BY <3>1 DEF SlotsInv, Callbacks!TypeOK, Callbacks!Destroy, Callbacks!DropSlot
    <3> QED BY <2>3, <3>2
  <2> QED BY <1>2, <2>1, <2>2, <2>3
<1>4. /\ owned'[s] = FALSE /\ installed'[s] = FALSE
      /\ kind' = kind /\ calling' = calling
      /\ \A o \in Slots \ {s} :
            owned'[o] = owned[o] /\ installed'[o] = installed[o] /\ callback'[o] = callback[o]
    BY DEF SlotsInv, Callbacks!TypeOK, Callbacks!Destroy, Callbacks!DropSlot
<1>5. Callbacks!CallbackHasObject' BY <1>3, <1>4 DEF SlotsInv, Callbacks!CallbackHasObject
<1>6. OwnersInv' BY <1>2, <1>4 DEF SlotsInv, OwnersInv, Callbacks!Destroy
<1> QED BY <1>1, <1>5, <1>6 DEF SlotsInv

(* A callback is called while its slot has an owner (sd_bus_process). *)
LEMMA DispatchPreservesSlotsInv ==
    ASSUME SlotsInv, NEW s \in Slots, Callbacks!Dispatch(s)
    PROVE  SlotsInv'
<1>1. Callbacks!TypeOK' BY DEF SlotsInv, Callbacks!TypeOK, Callbacks!Dispatch
<1>2. Callbacks!CallbackHasObject'
  BY SlotsAssumption
    DEF SlotsInv, Callbacks!TypeOK, Callbacks!Dispatch, Callbacks!CallbackHasObject,
        OwnersInv
<1>3. OwnersInv' BY DEF SlotsInv, Callbacks!TypeOK, Callbacks!Dispatch, OwnersInv
<1> QED BY <1>1, <1>2, <1>3 DEF SlotsInv

(* When a callback returns whose slot has no owner any more, its object goes
   (matchCallback, call_async_cb). *)
LEMMA CallbackReturnsPreservesSlotsInv ==
    ASSUME SlotsInv, Callbacks!CallbackReturns
    PROVE  SlotsInv'
<1>1. Callbacks!TypeOK' BY DEF SlotsInv, Callbacks!TypeOK, Callbacks!CallbackReturns
<1>2. calling \in Slots BY DEF SlotsInv, Callbacks!TypeOK, Callbacks!CallbackReturns
<1>3. callback'[calling] = "alive" <=> owned[calling]
  <2>1. CASE owned[calling]
    <3>1. callback'[calling] = callback[calling]
        BY <1>2, <2>1 DEF SlotsInv, Callbacks!TypeOK, Callbacks!CallbackReturns
    <3> QED BY <1>2, <2>1, <3>1 DEF SlotsInv, Callbacks!CallbackHasObject
  <2>2. CASE ~owned[calling]
    <3>1. Callbacks!Deletes(calling, {})
      BY <1>2, <2>2 DEF SlotsInv, OwnersInv, Callbacks!Deletes
    <3>2. callback'[calling] = "deleted"
      BY <1>2, <2>2, <3>1 DEF SlotsInv, Callbacks!TypeOK, Callbacks!CallbackReturns
    <3> QED BY <2>2, <3>2
  <2> QED BY <2>1, <2>2
<1>4. /\ calling' = NoSlot /\ UNCHANGED <<owned, kind, installed>>
      /\ \A o \in Slots \ {calling} : callback'[o] = callback[o]
    BY DEF SlotsInv, Callbacks!TypeOK, Callbacks!CallbackReturns
<1>5. Callbacks!CallbackHasObject'
  BY SlotsAssumption, <1>2, <1>3, <1>4 DEF SlotsInv, Callbacks!CallbackHasObject, OwnersInv
<1>6. OwnersInv' BY SlotsAssumption, <1>4 DEF SlotsInv, OwnersInv
<1> QED BY <1>1, <1>5, <1>6 DEF SlotsInv

LEMMA SlotSteps ==
    ASSUME SlotsInv, Callbacks!Next
    PROVE  SlotsInv'
<1>1. ASSUME NEW s \in Slots, Callbacks!AddMatch(s) PROVE SlotsInv'
  BY <1>1, InstallPreservesSlotsInv DEF Callbacks!AddMatch
<1>2. ASSUME NEW s \in Slots, Callbacks!CallAsync(s) PROVE SlotsInv'
  BY <1>2, InstallPreservesSlotsInv DEF Callbacks!CallAsync
<1>3. ASSUME NEW s \in Slots, Callbacks!Destroy(s) PROVE SlotsInv'
  BY <1>3, DestroyPreservesSlotsInv
<1>4. ASSUME NEW s \in Slots, Callbacks!Dispatch(s) PROVE SlotsInv'
  BY <1>4, DispatchPreservesSlotsInv
<1>5. ASSUME Callbacks!CallbackReturns PROVE SlotsInv'
  BY <1>5, CallbackReturnsPreservesSlotsInv
<1> QED BY <1>1, <1>2, <1>3, <1>4, <1>5 DEF Callbacks!Next

-----------------------------------------------------------------------------
(* Unpacked properties. *)

(* A set of numbers that is not empty has the minimum that Min takes. *)
LEMMA MinOfNumbers ==
    ASSUME NEW S \in SUBSET Nat, S # {}
    PROVE  Unpacking!Min(S) \in S /\ \A x \in S : Unpacking!Min(S) <= x
<1>1. PICK least \in S : \A y \in S : ~(<<y, least>> \in OpToRel(<, Nat))
  BY WFMin, NatLessThanWellFounded
<1>2. ASSUME NEW y \in S PROVE least <= y
  <2>1. SUFFICES ASSUME y < least PROVE FALSE OBVIOUS
  <2>2. <<y, least>> \in {ss \in Nat \X Nat : ss[1] < ss[2]} BY <2>1
  <2>3. <<y, least>> \in OpToRel(<, Nat) BY <2>2 DEF OpToRel
  <2> QED BY <1>1, <2>3
<1>3. \E x \in S : \A y \in S : x <= y BY <1>2
<1> QED BY <1>3 DEF Unpacking!Min

Variable == [key: Keys, form: Unpacking!Forms, content: Nat \X Nat]

(* What the variables hold comes from the answers that have been unpacked. *)
UnpackingInv ==
    /\ answers \in Nat /\ answer \in Seq(Unpacking!Entries)
    /\ DOMAIN variables \subseteq Nat /\ variables \in [DOMAIN variables -> Variable]
    /\ \A k \in DOMAIN variables :
        /\ variables[k].content[1] <= answers
        /\ answers > 0 /\ unpacked = Unpacking!NotYet => variables[k].content[1] < answers
    /\ Unpacking!UnpackedIsAnswered

Has(v) == \E i \in DOMAIN answer : answer[i].key = v.key

(* The content of a variable is the first entry of the latest answer with its
   key. *)
HoldsFirst(v, content) ==
    LET i == content[2] IN
    /\ content[1] = answers
    /\ answer[i].key = v.key /\ answer[i].fits
    /\ \A j \in 1..(i - 1) : answer[j].key # v.key

(* One property is read: its first value, or a reason why there is none
   (readProperty). *)
LEMMA ReadOne ==
    ASSUME answers \in Nat, answer \in Seq(Unpacking!Entries), NEW v \in Variable,
           NEW r, r = Unpacking!ReadProperty(v)
    PROVE  /\ r.content \in Nat \X Nat
           /\ r.reason = "none" => HoldsFirst(v, r.content)
                                  \/ (~Has(v) /\ v.form # "value" /\ r.content = v.content)
           /\ r.reason # "none" =>
                r.reason = (IF Has(v) THEN "wrongType" ELSE "missingProperty")
<1>1. Unpacking!Found(v.key) = {} <=> ~Has(v)
  BY DEF Unpacking!Found, Has
<1>2. CASE ~Has(v)
  BY <1>1, <1>2 DEF Unpacking!ReadProperty, Variable, Unpacking!Forms
<1>3. CASE Has(v)
  <2> DEFINE i == Unpacking!FindProperty(v.key)
  <2>1. /\ i \in DOMAIN answer /\ answer[i].key = v.key
        /\ \A j \in DOMAIN answer : answer[j].key = v.key => i <= j
    <3>1. Unpacking!Found(v.key) \in SUBSET Nat BY DEF Unpacking!Found
    <3> QED BY <1>1, <1>3, <3>1, MinOfNumbers DEF Unpacking!Found, Unpacking!FindProperty
  <2>2. i \in Nat /\ i <= Len(answer) BY <2>1
  <2> HIDE DEF i
  <2>3. \A j \in 1..(i - 1) : answer[j].key # v.key
    BY <2>1, <2>2
  <2>4. r = IF answer[i].fits THEN [content |-> <<answers, i>>, reason |-> "none"]
            ELSE [content |-> v.content, reason |-> "wrongType"]
    BY <1>1, <1>3 DEF Unpacking!ReadProperty, i
  <2>5. CASE answer[i].fits
    <3>1. r.content = <<answers, i>> /\ r.reason = "none" BY <2>4, <2>5
    <3>2. HoldsFirst(v, <<answers, i>>) BY <2>1, <2>3, <2>5 DEF HoldsFirst
    <3> QED BY <2>2, <3>1, <3>2
  <2>6. CASE ~answer[i].fits
    <3>1. r.content = v.content /\ r.reason = "wrongType" BY <2>4, <2>6
    <3> QED BY <1>3, <3>1 DEF Variable
  <2> QED BY <2>5, <2>6
<1> QED BY <1>2, <1>3

(* A call sets the variables before the first that fails, and no others
   (readProperties). *)
LEMMA UnpackPreservesUnpackingInv ==
    ASSUME UnpackingInv, NEW throws \in BOOLEAN, Unpacking!UnpackProperties(throws)
    PROVE  UnpackingInv'
<1> DEFINE D == DOMAIN variables
           R(k) == Unpacking!ReadProperty(variables[k])
           F == Unpacking!Failing
           Before(k) == \A f \in F : k < f
<1>1. /\ answers \in Nat /\ answers > 0 /\ answer \in Seq(Unpacking!Entries)
      /\ D \subseteq Nat /\ variables \in [D -> Variable]
      /\ \A k \in D : variables[k].content[1] < answers
      /\ answers' = answers /\ answer' = answer
  BY DEF UnpackingInv, Unpacking!UnpackProperties
<1>2. F \subseteq D /\ \A k \in D : k \in F <=> R(k).reason # "none"
  BY DEF Unpacking!Failing
<1>3. \A k \in D : /\ R(k).content \in Nat \X Nat
                   /\ R(k).reason = "none" =>
                        HoldsFirst(variables[k], R(k).content)
                        \/ (~Has(variables[k]) /\ variables[k].form # "value"
                             /\ R(k).content = variables[k].content)
                   /\ R(k).reason # "none" =>
                        R(k).reason = (IF Has(variables[k]) THEN "wrongType"
                                       ELSE "missingProperty")
  BY <1>1, ReadOne
<1>4. variables' = [k \in D |-> IF Before(k) THEN [variables[k] EXCEPT !.content = R(k).content]
                                ELSE variables[k]]
  BY DEF Unpacking!UnpackProperties, Unpacking!ReadProperties
<1> HIDE DEF F, R
<1>5. \A k \in D : Before(k) => R(k).reason = "none"
  BY <1>1, <1>2
<1>6. /\ DOMAIN variables' = D
      /\ \A k \in D : /\ variables'[k] \in Variable
                       /\ variables'[k].key = variables[k].key
                       /\ variables'[k].form = variables[k].form
                       /\ variables'[k].content =
                            IF Before(k) THEN R(k).content ELSE variables[k].content
  <2>1. ASSUME NEW k \in D
        PROVE  /\ variables'[k] \in Variable
               /\ variables'[k].key = variables[k].key
               /\ variables'[k].form = variables[k].form
               /\ variables'[k].content =
                    IF Before(k) THEN R(k).content ELSE variables[k].content
    <3>1. variables[k] \in Variable /\ R(k).content \in Nat \X Nat BY <1>1, <1>3
    <3>2. CASE Before(k)
      <4>1. variables'[k] = [variables[k] EXCEPT !.content = R(k).content] BY <1>4, <3>2
      <4> QED BY <3>1, <3>2, <4>1 DEF Variable
    <3>3. CASE ~Before(k)
      <4>1. variables'[k] = variables[k] BY <1>4, <3>3
      <4> QED BY <3>1, <3>3, <4>1
    <3> QED BY <3>2, <3>3
  <2> QED BY <1>4, <2>1
<1>7. variables' \in [DOMAIN variables' -> Variable]
  BY <1>4, <1>6
<1>8. \A k \in D :
        \/ /\ Before(k) /\ HoldsFirst(variables[k], variables'[k].content)
        \/ /\ Before(k) /\ ~Has(variables[k]) /\ variables[k].form # "value"
           /\ variables'[k].content = variables[k].content
        \/ ~Before(k) /\ variables'[k].content = variables[k].content
  BY <1>3, <1>5, <1>6
<1>9. \A k \in D :
        /\ variables'[k].content[1] <= answers
        /\ variables'[k].content[1] = answers =>
                Before(k) /\ HoldsFirst(variables[k], variables'[k].content)
        /\ Before(k) => \/ variables'[k].content[1] = answers
                        \/ ~Has(variables[k]) /\ variables[k].form # "value"
  <2>1. ASSUME NEW k \in D
        PROVE  variables[k].content[1] < answers /\ variables[k].content[1] \in Nat
    BY <1>1 DEF Variable
  <2> QED BY <1>1, <1>8, <2>1 DEF HoldsFirst
<1>10. unpacked' # Unpacking!NotYet
  BY DEF Unpacking!UnpackProperties, Unpacking!OnErrorCallback, Unpacking!NotYet
<1>11. CASE F = {}
  <2>1. unpacked'.result = "true"
    BY <1>11 DEF Unpacking!UnpackProperties, F
  <2>2. \A k \in D : Before(k) BY <1>11
  <2>3. Unpacking!UnpackedIsAnswered'
    BY <1>1, <1>6, <1>9, <2>1, <2>2 DEF Unpacking!UnpackedIsAnswered, HoldsFirst, Has
  <2> QED BY <1>1, <1>6, <1>7, <1>9, <1>10, <2>3 DEF UnpackingInv
<1>12. CASE F # {}
  <2> DEFINE f == Unpacking!Min(F)
  <2>1. f \in F /\ f \in D /\ \A g \in F : f <= g
    BY <1>1, <1>2, <1>12, MinOfNumbers
  <2>2. unpacked' = Unpacking!OnErrorCallback(throws)
    BY <1>12 DEF Unpacking!UnpackProperties, F
  <2>3. /\ unpacked'.result # "true" /\ Len(unpacked'.reasons) = 1
        /\ unpacked'.reasons[1].key = variables[f].key
        /\ unpacked'.reasons[1].reason = R(f).reason
    BY <2>2 DEF Unpacking!OnErrorCallback, F, R
  <2> HIDE DEF f
  <2>4. \A k \in D : Before(k) <=> k < f
    BY <1>1, <1>2, <2>1
  <2>5. R(f).reason = (IF Has(variables[f]) THEN "wrongType" ELSE "missingProperty")
    BY <1>2, <1>3, <2>1
  <2>6. \A k \in D : /\ k >= f => variables'[k].content[1] # answers
                     /\ k < f => \/ variables'[k].content[1] = answers
                                 \/ ~Has(variables[k]) /\ variables[k].form # "value"
    BY <1>1, <1>9, <2>1, <2>4
  <2>7. Unpacking!UnpackedIsAnswered'
    BY <1>1, <1>6, <1>9, <2>1, <2>3, <2>5, <2>6
      DEF Unpacking!UnpackedIsAnswered, HoldsFirst, Has
  <2> QED BY <1>1, <1>6, <1>7, <1>9, <1>10, <2>7 DEF UnpackingInv
<1> QED BY <1>11, <1>12

(* What an earlier answer left is older than the answer that comes. *)
LEMMA AnswerPreservesUnpackingInv ==
    ASSUME UnpackingInv, NEW n \in Nat, NEW entries \in [1..n -> Unpacking!Entries],
           Unpacking!GetAllProperties(entries)
    PROVE  UnpackingInv'
<1>1. /\ answers' = answers + 1 /\ answers \in Nat /\ answer' \in Seq(Unpacking!Entries)
      /\ variables' = variables /\ unpacked' = Unpacking!NotYet
  BY DEF Unpacking!GetAllProperties, UnpackingInv
<1>2. \A k \in DOMAIN variables :
        variables[k].content[1] \in Nat /\ variables[k].content[1] <= answers
  BY DEF UnpackingInv, Variable
<1>3. Unpacking!UnpackedIsAnswered'
  BY <1>1 DEF Unpacking!UnpackedIsAnswered
<1> QED BY <1>1, <1>2, <1>3 DEF UnpackingInv

LEMMA UnpackingSteps ==
    ASSUME UnpackingInv, Unpacking!Next
    PROVE  UnpackingInv'
<1>1. ASSUME NEW throws \in BOOLEAN, Unpacking!UnpackProperties(throws) PROVE UnpackingInv'
  BY <1>1, UnpackPreservesUnpackingInv
<1>2. ASSUME NEW n \in 0..MaxEntries, NEW entries \in [1..n -> Unpacking!Entries],
             Unpacking!GetAllProperties(entries)
      PROVE  UnpackingInv'
  <2>1. n \in Nat BY BoundsAssumption
  <2> QED BY <1>2, <2>1, AnswerPreservesUnpackingInv
<1> QED BY <1>1, <1>2 DEF Unpacking!Next

-----------------------------------------------------------------------------
(* Whichever callback destroys which slot, sd-bus never calls a callback whose
   object is gone, and no object is left behind (match::match, call_async);
   whatever fails, is answered late or expires, a completion handler is called
   once (do_unpack). *)
THEOREM CallbacksAreSoundHolds == Spec => []CallbacksAreSound
<1>1. Init => SlotsInv
  BY SlotsAssumption DEF Init, Callbacks!Init, SlotsInv, Callbacks!TypeOK,
                         Callbacks!CallbackHasObject, OwnersInv
<1>2. SlotsInv /\ [Next]_vars => SlotsInv'
  <2>1. ASSUME SlotsInv, UNCHANGED slotVars PROVE SlotsInv'
    BY <2>1 DEF slotVars, SlotsInv, Callbacks!TypeOK, Callbacks!CallbackHasObject, OwnersInv
  <2> QED BY <2>1, PartSteps, SlotSteps
<1>3. SlotsInv => Callbacks!CallbackHasObject BY DEF SlotsInv
<1>4. ConnectionProofs!HandlerCalledOnce <=> Connection!HandlerCalledOnce
  BY DEF Connection!HandlerCalledOnce, ConnectionProofs!HandlerCalledOnce,
         Connection!AllCalls, ConnectionProofs!AllCalls
<1>5. Spec => []ConnectionProofs!HandlerCalledOnce
  BY RunsConnection, ConnectionConstants, ConnectionProofs!HandlerCalledOnceHolds, PTL
<1> QED BY <1>1, <1>2, <1>3, <1>4, <1>5, PTL DEF Spec, CallbacksAreSound

(* However the peer behaves and whatever waits are cancelled: between two of
   its handlers a connection watches the bus and its timeouts (read_wait). *)
THEOREM IdleIsWatchedHolds == Spec => []IdleIsWatched
<1>1. ConnectionProofs!IdleIsWatched <=> IdleIsWatched
  BY DEF IdleIsWatched, Connection!IdleIsWatched, ConnectionProofs!IdleIsWatched,
         Connection!Idle, ConnectionProofs!Idle
<1> QED BY <1>1, RunsConnection, ConnectionConstants,
           ConnectionProofs!IdleIsWatchedHolds, PTL

(* A timer expires as the last request to it asks for, if another callback or a
   handler of the io_context makes that, in whichever state of the loop; after one
   made in the timer's own callback the handler may stop the timer
   (Timer::timeoutHandler). *)
THEOREM TimerHonoursRequestsHolds == Spec => []TimerHonoursRequests
<1>1. Init => Honours(timer)
  BY DEF Init, SdEvents!Init, Honours, SdEvents!T!Initialize, SdEvents!T!Timers,
         SdEvents!T!RunTypes, SdEvents!T!Requests, SdEvents!T!IsRunning
<1>2. Honours(timer) /\ [Next]_vars => Honours(timer)'
  BY PartSteps, TimerSteps DEF sdEventVars
<1>3. Honours(timer) => TimerHonoursRequests
  BY DEF Honours, TimerHonoursRequests, SdEvents!TimerHonoursRequests
<1> QED BY <1>1, <1>2, <1>3, PTL DEF Spec

(* Whatever objects come and go at a path, and whoever announced what: ObjectsInv
   holds of every behaviour (object::object, ~object, ~interface). *)
THEOREM ObjectsInvariance == Spec => []ObjectsInv
<1>1. Init => ObjectsInv
  BY DEF Init, ServerObjects!Init, ObjectsInv, ServerObjects!TypeOK,
         ServerObjects!ListedIsRegistered, ServerObjects!Action
<1>2. ObjectsInv /\ [Next]_vars => ObjectsInv'
  <2>1. ASSUME ObjectsInv, UNCHANGED objectVars PROVE ObjectsInv'
    BY <2>1 DEF objectVars, ObjectsInv, ServerObjects!TypeOK,
                ServerObjects!ListedIsRegistered
  <2> QED BY <2>1, PartSteps, ObjectSteps
<1> QED BY <1>1, <1>2, PTL DEF Spec

(* Whatever is registered, initialized or released in which order: what clients
   have been told to exist is registered with sd-bus, unless it belonged to an
   object told to emit no signals (~dbus_interface, ~object, ~interface). *)
THEOREM AnnouncedIsServedHolds == Spec => []AnnouncedIsServed
<1>1. ServerProofs!AnnouncedIsServed /\ ObjectsInv => AnnouncedIsServed
  BY DEF AnnouncedIsServed, Server!AnnouncedIsServed, ServerProofs!AnnouncedIsServed,
         ObjectsInv
<1> QED BY <1>1, RunsServer, ObjectsInvariance, InterfacesAssumption,
           ServerProofs!AnnouncedIsServedHolds, PTL

(* A client that listens to signals knows the value of a property, whoever sets
   it (set_property, set_handler), and one that unpacks an answer has the first
   value of each key in it, up to the first that is missing or of another type
   (unpackPropertiesCommon). *)
THEOREM PropertiesAreKnownHolds == Spec => []PropertiesAreKnown
<1>1. Init => UnpackingInv
  <2>1. SUFFICES ASSUME Init PROVE UnpackingInv OBVIOUS
  <2>2. answer = <<>> /\ answers = 0 /\ unpacked = Unpacking!NotYet
    BY <2>1 DEF Init, Unpacking!Init, Unpacking!NoProgram
  <2>3. DOMAIN variables \subseteq Nat /\ variables \in [DOMAIN variables -> Variable]
        /\ \A k \in DOMAIN variables : variables[k].content = <<0, 0>>
    <3>1. CASE variables = <<>> BY <3>1
    <3>2. CASE variables \in [1..2 -> [key: Keys, form: Unpacking!Forms,
                                       content: {<<0, 0>>}]]
      BY <3>2 DEF Variable
    <3> QED BY <2>1, <3>1, <3>2
              DEF Init, Unpacking!Init, Unpacking!NoProgram, Unpacking!Initially
  <2>4. Unpacking!UnpackedIsAnswered BY <2>2 DEF Unpacking!UnpackedIsAnswered
  <2> QED BY <2>2, <2>3, <2>4 DEF UnpackingInv
<1>2. UnpackingInv /\ [Next]_vars => UnpackingInv'
  <2>1. ASSUME UnpackingInv, UNCHANGED unpackingVars PROVE UnpackingInv'
    BY <2>1 DEF unpackingVars, UnpackingInv, Unpacking!UnpackedIsAnswered
  <2> QED BY <2>1, PartSteps, UnpackingSteps
<1>3. ServerProofs!CacheIsCurrent /\ UnpackingInv => PropertiesAreKnown
  BY DEF PropertiesAreKnown, Server!CacheIsCurrent, ServerProofs!CacheIsCurrent, UnpackingInv
<1> QED BY <1>1, <1>2, <1>3, RunsServer, InterfacesAssumption,
           ServerProofs!CacheIsCurrentHolds, PTL DEF Spec

(* A method call is answered, and not twice (after_spawn). *)
THEOREM AnsweredOnceHolds == Spec => []AnsweredOnce
<1>1. ServerProofs!AnsweredOnce => AnsweredOnce
  BY DEF AnsweredOnce, Server!AnsweredOnce, ServerProofs!AnsweredOnce
<1> QED BY <1>1, RunsServer, InterfacesAssumption, ServerProofs!AnsweredOnceHolds, PTL

(* Whatever has been sent, and whatever types the receiver reads it with: a value
   that was read with nothing lost would be sent as what was received, and is the
   one that was sent if it is of the sender's type, its alternatives can be told
   apart, none takes the strings of another, and no variant of it converts strings
   to enumerators; then the read does not fail (append_single, read_single). *)
THEOREM ReadsWhatWasSentHolds == Spec => []ReadsWhatWasSent
<1>1. Init => MessagesInv
  <2> SUFFICES ASSUME Init PROVE MessagesInv OBVIOUS
  <2>1. sent = <<>> /\ unread = <<>> /\ last = Messaging!NothingRead
    BY DEF Init, Messaging!Init
  <2>2. last.count = 0 /\ MaxArguments \in Nat
    BY <2>1, BoundsAssumption DEF Messaging!NothingRead
  <2>3. sent \in Seq(Messaging!Arguments) /\ unread \in Seq(Elements)
        /\ Len(sent) = 0 /\ Len(unread) = 0 /\ 1..0 = {} /\ 0 = 0 - 0
    BY <2>1
  <2>4. Messaging!ReadsWhatWasAppended BY <2>2 DEF Messaging!ReadsWhatWasAppended
  <2> QED BY <2>1, <2>2, <2>3, <2>4 DEF MessagesInv
<1>2. MessagesInv /\ [Next]_vars => MessagesInv'
  <2>1. ASSUME MessagesInv, UNCHANGED messageVars PROVE MessagesInv'
    BY <2>1 DEF messageVars, MessagesInv, Messaging!ReadsWhatWasAppended, Appended
  <2> QED BY <2>1, PartSteps, MessageSteps
<1>3. MessagesInv => ReadsWhatWasSent
  BY DEF MessagesInv, ReadsWhatWasSent
<1> QED BY <1>1, <1>2, <1>3, PTL DEF Spec

(* Whatever names a path is extended by and however often it is left: its last
   element is the name that was appended, and its parent the path that it was
   appended to (operator/=, filename, parent_path). *)
THEOREM PathsRoundTripHolds == Spec => []PathsRoundTrip
<1>1. MaxCharacters \in Nat BY BoundsAssumption
<1>2. Contents!PathsRoundTrip => PathsRoundTrip
  BY DEF PathsRoundTrip, Paths!PathsRoundTrip, Contents!PathsRoundTrip, Paths!Filename,
         Contents!Filename, Paths!Decode, Contents!Decode, Paths!Unhex,
         Contents!Unhex, Paths!Digits, Contents!Digits, Paths!HexLetters,
         Contents!HexLetters, Paths!ParentPath, Contents!ParentPath, Paths!LastSlash,
         Contents!LastSlash, Paths!Slash, Contents!Slash, Paths!Underscore,
         Contents!Underscore, Paths!Last, Contents!Last, Paths!Max, Contents!Max
<1> QED BY <1>1, <1>2, RunsPaths, CharactersAssumption, Contents!PathsRoundTripHolds, PTL

(* Whatever other threads handle meanwhile: the transaction id in a handler is
   the id of the call (set_id). *)
THEOREM TransactionOfCallHolds == Spec => []TransactionOfCall
<1>1. Init => TransactionsInv
  BY DEF Init, TransactionIds!Init, TransactionIds!NoHandler, TransactionsInv, IsHandler,
         TransactionIds!TransactionOfCall
<1>2. TransactionsInv /\ [Next]_vars => TransactionsInv'
  <2>1. ASSUME TransactionsInv, UNCHANGED transactionVars PROVE TransactionsInv'
    BY <2>1 DEF transactionVars, TransactionsInv, TransactionIds!TransactionOfCall
  <2> QED BY <2>1, PartSteps, TransactionSteps
<1>3. TransactionsInv => TransactionOfCall
  BY DEF TransactionsInv, TransactionOfCall
<1> QED BY <1>1, <1>2, <1>3, PTL DEF Spec
=============================================================================
