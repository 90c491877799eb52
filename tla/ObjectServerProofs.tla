------------------------- MODULE ObjectServerProofs -------------------------
(***************************************************************************)
(* For any number of interfaces and calls: what a client has been told     *)
(* exists is served, its value of the property is the property's, and      *)
(* calls are answered once.                                                *)
(***************************************************************************)
EXTENDS ObjectServer, TLAPS

Spec == Init /\ [][Next]_vars

InterfaceObjects == [
    owners: SUBSET {"application", "server"}, isNew: BOOLEAN,
    isInitialized: BOOLEAN, property: {"none"} \cup PropertyKinds,
    methods: {"none"} \cup MethodKinds, table: Tables,
    dangling: BOOLEAN, value: Values]

CallStates == [
    state: {"none", "spawned", "running", "over"},
    interface: Interfaces \cup {None}, wantsMessage: BOOLEAN,
    outcome: {"none", "returned", "raised", "unreadable", "badEnum"},
    answers: 0..2]

(* The types on which the properties depend. *)
Types ==
    /\ interfaces \in [Interfaces -> InterfaceObjects]
    /\ calls \in [Calls -> CallStates]
    /\ announced \in BOOLEAN /\ manager \in BOOLEAN

(* sd-bus serves the one interface that is initialized, and a client that has
   been told of it has been told by the object manager. *)
ServedInv ==
    /\ \A i \in Interfaces : interfaces[i].isInitialized <=> served = i
    /\ announced => manager

(* Until a call is over nothing has been answered. *)
OpenCallsInv ==
    \A k \in Calls :
        calls[k].state # "over" => calls[k].answers = 0 /\ calls[k].outcome = "none"

IInv ==
    /\ Types
    /\ ServedInv /\ AnnouncedIsServed /\ CacheIsCurrent
    /\ OpenCallsInv /\ AnsweredOnce

(* What a setter may leave, and what a getter may make of it, are values. *)
LEMMA ValuesOfProperty ==
    ASSUME NEW value \in Values, NEW kind
    PROVE  /\ SetResults(kind, value) \subseteq Values
           /\ Got(kind, value) \subseteq Values
           /\ kind \in {"readOnly", "setter"} => Got(kind, value) = {value}
BY DEF SetResults, Got

(* A setter leaves a changed value together with the signal that tells of it,
   and nothing else changes in the interface (set_property, set_handler). *)
LEMMA StoreSignals ==
    ASSUME Types, NEW i \in Interfaces, NEW request \in Values, Store(i, request)
    PROVE  /\ interfaces' \in [Interfaces -> InterfaceObjects]
           /\ \A j \in Interfaces :
                /\ interfaces'[j].isInitialized = interfaces[j].isInitialized
                /\ interfaces'[j].table = interfaces[j].table
                /\ j # i => interfaces'[j] = interfaces[j]
           /\ \/ interfaces'[i].value = interfaces[i].value /\ cached' = cached
              \/ interfaces[i].table.property = "none"
              \/ cached' = interfaces'[i].value
<1> DEFINE o == interfaces[i]
<1>1. PICK stored \in SetResults(o.property, request) :
        IF stored = o.value
        THEN UNCHANGED <<interfaces, cached>>
        ELSE \E value \in Got(o.table.property, stored) :
                /\ interfaces' = [interfaces EXCEPT ![i].value = value]
                /\ cached' = IF o.table.property # "none" THEN value ELSE cached
    BY DEF Store
<1>2. CASE stored = o.value
    BY <1>1, <1>2 DEF Types
<1>3. CASE stored # o.value
  <2>1. stored \in Values BY ValuesOfProperty
  <2>2. PICK value \in Got(o.table.property, stored) :
            /\ interfaces' = [interfaces EXCEPT ![i].value = value]
            /\ cached' = IF o.table.property # "none" THEN value ELSE cached
      BY <1>1, <1>3
  <2>3. value \in Values BY <2>1, <2>2, ValuesOfProperty
  <2>4. interfaces' \in [Interfaces -> InterfaceObjects]
      BY <2>2, <2>3 DEF Types, InterfaceObjects
  <2>5. interfaces'[i].value = value
      BY <2>2 DEF Types, InterfaceObjects
  <2> QED BY <2>2, <2>4, <2>5 DEF Types, InterfaceObjects
<1> QED BY <1>2, <1>3

(* A step that only stores a value keeps the invariant. *)
LEMMA StorePreservesIInv ==
    ASSUME None \notin Interfaces, IInv, NEW i \in Interfaces, NEW request \in Values,
           Store(i, request), served = i,
           UNCHANGED <<served, manager, announced, calls, undefined, registrations>>
    PROVE  IInv'
<1>1. Types' BY StoreSignals DEF IInv, Types
<1>2. ServedInv' BY StoreSignals DEF IInv, ServedInv
<1>3. AnnouncedIsServed' BY DEF IInv, AnnouncedIsServed
<1>4. CacheIsCurrent' BY StoreSignals DEF IInv, CacheIsCurrent
<1>5. OpenCallsInv' /\ AnsweredOnce' BY DEF IInv, OpenCallsInv, AnsweredOnce
<1> QED BY <1>1, <1>2, <1>3, <1>4, <1>5 DEF IInv

(* What a client reads is the value it has been told, unless a getter of the
   application makes another of it (get_handler). *)
LEMMA GetHandlerPreservesIInv ==
    ASSUME None \notin Interfaces, IInv, NEW i \in Interfaces, GetHandler(i)
    PROVE  IInv'
<1>1. PICK value \in Got(interfaces[i].table.property, interfaces[i].value) :
        interfaces' = [interfaces EXCEPT ![i].value = value]
    BY DEF GetHandler
<1>2. interfaces[i].value \in Values BY DEF IInv, Types, InterfaceObjects
<1>3. value \in Values BY <1>1, <1>2, ValuesOfProperty
<1>4. /\ interfaces' \in [Interfaces -> InterfaceObjects]
      /\ interfaces'[i].value = value
      /\ \A j \in Interfaces :
            /\ interfaces'[j].isInitialized = interfaces[j].isInitialized
            /\ interfaces'[j].table = interfaces[j].table
            /\ j # i => interfaces'[j] = interfaces[j]
    BY <1>1, <1>3 DEF IInv, Types, InterfaceObjects
<1>5. interfaces[i].table.property \in {"readOnly", "setter"} => value = interfaces[i].value
    BY <1>1, <1>2, ValuesOfProperty
<1>6. UNCHANGED <<served, manager, announced, cached, calls, undefined>>
    BY DEF GetHandler, clientVars
<1>7. Types' BY <1>4, <1>6 DEF IInv, Types
<1>8. ServedInv' BY <1>4, <1>6 DEF IInv, ServedInv
<1>9. AnnouncedIsServed' BY <1>6 DEF IInv, AnnouncedIsServed
<1>10. CacheIsCurrent' BY <1>4, <1>5, <1>6 DEF IInv, CacheIsCurrent
<1>11. OpenCallsInv' /\ AnsweredOnce' BY <1>6 DEF IInv, OpenCallsInv, AnsweredOnce
<1> QED BY <1>7, <1>8, <1>9, <1>10, <1>11 DEF IInv

(* What is registered with an interface, and whether it has an owner, matters
   only once it is initialized. *)
LEMMA BuildingPreservesIInv ==
    ASSUME IInv, interfaces' \in [Interfaces -> InterfaceObjects],
           \A j \in Interfaces :
                /\ interfaces'[j].isInitialized = interfaces[j].isInitialized
                /\ interfaces'[j].value = interfaces[j].value
                /\ served = j => interfaces'[j].table = interfaces[j].table,
           UNCHANGED <<served, manager, announced, cached, calls, undefined>>
    PROVE  IInv'
<1>1. Types' BY DEF IInv, Types
<1>2. ServedInv' BY DEF IInv, ServedInv
<1>3. AnnouncedIsServed' BY DEF IInv, AnnouncedIsServed
<1>4. CacheIsCurrent' BY DEF IInv, CacheIsCurrent
<1>5. OpenCallsInv' /\ AnsweredOnce' BY DEF IInv, OpenCallsInv, AnsweredOnce
<1> QED BY <1>1, <1>2, <1>3, <1>4, <1>5 DEF IInv

(* add_interface, register_property and register_method. *)
LEMMA RegisterPreservesIInv ==
    ASSUME IInv, NEW i \in Interfaces,
           \/ AddInterface(i)
           \/ \E kind \in PropertyKinds : RegisterProperty(i, kind)
           \/ \E kind \in MethodKinds : RegisterMethod(i, kind)
    PROVE  IInv'
<1>1. CASE AddInterface(i)
  <2>1. interfaces' = [interfaces EXCEPT ![i].isNew = FALSE,
                                         ![i].owners = {"application", "server"}]
      BY <1>1 DEF AddInterface
  <2> DEFINE first == [interfaces EXCEPT ![i].isNew = FALSE]
  <2>2. interfaces' \in [Interfaces -> InterfaceObjects]
    <3>1. first \in [Interfaces -> InterfaceObjects]
        BY DEF IInv, Types, InterfaceObjects
    <3>2. interfaces' = [first EXCEPT ![i].owners = {"application", "server"}]
        BY <2>1 DEF IInv, Types, InterfaceObjects
    <3> HIDE DEF first
    <3> QED BY <3>1, <3>2 DEF InterfaceObjects
  <2> QED BY <1>1, <2>1, <2>2, BuildingPreservesIInv
          DEF AddInterface, clientVars, IInv, Types, InterfaceObjects
<1>2. ASSUME NEW kind \in PropertyKinds, RegisterProperty(i, kind) PROVE IInv'
  <2> DEFINE property == IF interfaces[i].property = "none" THEN kind ELSE interfaces[i].property
             dangling == interfaces[i].dangling \/ interfaces[i].table.property # "none"
  <2>1. interfaces' = [interfaces EXCEPT ![i].property = property, ![i].dangling = dangling]
      BY <1>2, Zenon DEF RegisterProperty
  <2>2. property \in {"none"} \cup PropertyKinds /\ dangling \in BOOLEAN
      BY DEF IInv, Types, InterfaceObjects
  <2> HIDE DEF property, dangling
  <2> DEFINE first == [interfaces EXCEPT ![i].property = property]
  <2>3. interfaces' \in [Interfaces -> InterfaceObjects]
    <3>1. first \in [Interfaces -> InterfaceObjects]
        BY <2>2 DEF IInv, Types, InterfaceObjects
    <3>2. interfaces' = [first EXCEPT ![i].dangling = dangling]
        BY <2>1 DEF IInv, Types, InterfaceObjects
    <3> HIDE DEF first
    <3> QED BY <2>2, <3>1, <3>2 DEF InterfaceObjects
  <2>4. \A j \in Interfaces :
            /\ interfaces'[j].isInitialized = interfaces[j].isInitialized
            /\ interfaces'[j].value = interfaces[j].value
            /\ interfaces'[j].table = interfaces[j].table
      BY <2>1 DEF IInv, Types, InterfaceObjects
  <2> QED BY <1>2, <2>3, <2>4, BuildingPreservesIInv DEF RegisterProperty, clientVars
<1>3. ASSUME NEW kind \in MethodKinds, RegisterMethod(i, kind) PROVE IInv'
  <2> DEFINE methods == IF interfaces[i].methods = "faulty" THEN interfaces[i].methods ELSE kind
             dangling == interfaces[i].dangling \/ interfaces[i].table.methods # "none"
  <2>1. interfaces' = [interfaces EXCEPT ![i].methods = methods, ![i].dangling = dangling]
      BY <1>3, Zenon DEF RegisterMethod
  <2>2. methods \in {"none"} \cup MethodKinds /\ dangling \in BOOLEAN
      BY DEF IInv, Types, InterfaceObjects
  <2> HIDE DEF methods, dangling
  <2> DEFINE first == [interfaces EXCEPT ![i].methods = methods]
  <2>3. interfaces' \in [Interfaces -> InterfaceObjects]
    <3>1. first \in [Interfaces -> InterfaceObjects]
        BY <2>2 DEF IInv, Types, InterfaceObjects
    <3>2. interfaces' = [first EXCEPT ![i].dangling = dangling]
        BY <2>1 DEF IInv, Types, InterfaceObjects
    <3> HIDE DEF first
    <3> QED BY <2>2, <3>1, <3>2 DEF InterfaceObjects
  <2>4. \A j \in Interfaces :
            /\ interfaces'[j].isInitialized = interfaces[j].isInitialized
            /\ interfaces'[j].value = interfaces[j].value
            /\ interfaces'[j].table = interfaces[j].table
      BY <2>1 DEF IInv, Types, InterfaceObjects
  <2> QED BY <1>3, <2>3, <2>4, BuildingPreservesIInv DEF RegisterMethod, clientVars
<1> QED BY <1>1, <1>2, <1>3

(* Adding a manager changes what later steps announce. *)
LEMMA AddManagerPreservesIInv ==
    ASSUME IInv, AddManager
    PROVE  IInv'
BY DEF IInv, Types, ServedInv, AnnouncedIsServed, CacheIsCurrent, OpenCallsInv,
       AnsweredOnce, AddManager, clientVars

(* An interface that sd-bus takes is the only one it serves, and what the
   client is told of its property is the value it has then (initialize). *)
LEMMA InitializePreservesIInv ==
    ASSUME None \notin Interfaces, IInv, NEW i \in Interfaces, NEW skip \in BOOLEAN,
           Initialize(i, skip)
    PROVE  IInv'
<1> DEFINE o == interfaces[i]
           table == IF o.table.built THEN o.table
                    ELSE [built |-> TRUE, property |-> o.property, methods |-> o.methods]
           refused == served # None \/ table.methods = "faulty"
           told == manager \/ ~skip
<1>1. o \in InterfaceObjects BY DEF IInv, Types
<1>2. o.table \in Tables /\ o.property \in {"none"} \cup PropertyKinds
      /\ o.methods \in {"none"} \cup MethodKinds /\ o.value \in Values
    BY <1>1 DEF InterfaceObjects
<1>3. table \in Tables BY <1>2 DEF Tables
<1>4. ~o.isInitialized BY DEF Initialize, MayRegister
<1>5. CASE refused
  <2>1. interfaces' = [interfaces EXCEPT ![i].table = table]
      /\ UNCHANGED <<served, announced, cached, undefined, manager, calls>>
      BY <1>5 DEF Initialize
  <2> HIDE DEF table
  <2>2. interfaces' \in [Interfaces -> InterfaceObjects]
      BY <2>1, <1>3 DEF IInv, Types, InterfaceObjects
  <2>3. served # i BY <1>4 DEF IInv, ServedInv
  <2>4. \A j \in Interfaces :
            /\ interfaces'[j].isInitialized = interfaces[j].isInitialized
            /\ interfaces'[j].value = interfaces[j].value
            /\ j # i => interfaces'[j].table = interfaces[j].table
      BY <2>1 DEF IInv, Types, InterfaceObjects
  <2> QED BY <2>1, <2>2, <2>3, <2>4, BuildingPreservesIInv
<1>6. CASE ~refused
  <2>1. PICK value \in IF told THEN Got(table.property, o.value) ELSE {o.value} :
            /\ interfaces' = [interfaces EXCEPT ![i].table = table,
                                                ![i].isInitialized = TRUE,
                                                ![i].value = value]
            /\ cached' = IF told /\ table.property # "none" THEN value ELSE cached
      BY <1>6 DEF Initialize
  <2>2. served = None /\ served' = i /\ announced' = (announced \/ manager)
        /\ UNCHANGED <<manager, calls>>
      BY <1>6 DEF Initialize
  <2>3. value \in Values BY <2>1, <1>2, ValuesOfProperty
  <2> HIDE DEF table
  <2> DEFINE first == [interfaces EXCEPT ![i].table = table]
             second == [first EXCEPT ![i].isInitialized = TRUE]
  <2>4. interfaces' \in [Interfaces -> InterfaceObjects]
    <3>1. first \in [Interfaces -> InterfaceObjects]
        BY <1>3 DEF IInv, Types, InterfaceObjects
    <3>2. interfaces' = [second EXCEPT ![i].value = value]
        BY <2>1 DEF IInv, Types, InterfaceObjects
    <3> HIDE DEF first
    <3>3. second \in [Interfaces -> InterfaceObjects]
        BY <3>1 DEF InterfaceObjects
    <3> HIDE DEF second
    <3> QED BY <2>3, <3>2, <3>3 DEF InterfaceObjects
  <2>5. /\ interfaces'[i].isInitialized /\ interfaces'[i].value = value
        /\ interfaces'[i].table = table
        /\ \A j \in Interfaces \ {i} : interfaces'[j] = interfaces[j]
      BY <2>1 DEF IInv, Types, InterfaceObjects
  <2>6. Types' BY <2>2, <2>4 DEF IInv, Types
  <2>7. ServedInv' BY <2>2, <2>5 DEF IInv, ServedInv, Types
  <2>8. AnnouncedIsServed' BY <2>2 DEF AnnouncedIsServed
  <2>9. CacheIsCurrent'
    <3>1. ~announced BY <2>2 DEF IInv, AnnouncedIsServed
    <3>2. announced' /\ table.property # "none" => cached' = value
        BY <3>1, <2>1, <2>2
    <3> QED BY <3>2, <2>2, <2>5 DEF CacheIsCurrent
  <2>10. OpenCallsInv' /\ AnsweredOnce' BY <2>2 DEF IInv, OpenCallsInv, AnsweredOnce
  <2> QED BY <2>6, <2>7, <2>8, <2>9, <2>10 DEF IInv
<1> QED BY <1>5, <1>6

(* The removal of the interface that is served is announced as it goes; that
   of another leaves the client without one (~dbus_interface). *)
LEMMA ReleasePreservesIInv ==
    ASSUME None \notin Interfaces, IInv, NEW i \in Interfaces,
           NEW owner \in {"application", "server"}, Release(i, owner)
    PROVE  IInv'
<1> DEFINE owners == interfaces[i].owners \ {owner}
           last == owners = {}
<1>1. /\ interfaces' = [interfaces EXCEPT
            ![i] = IF last THEN [Absent EXCEPT !.isNew = FALSE]
                   ELSE [@ EXCEPT !.owners = owners]]
      /\ served' = IF last /\ served = i THEN None ELSE served
      /\ announced' = (announced /\ ~(last /\ manager))
      /\ cached' = IF last /\ manager THEN None ELSE cached
      /\ UNCHANGED <<manager, calls, undefined>>
    BY DEF Release, Drop
<1>2. CASE ~last
  <2>1. interfaces' = [interfaces EXCEPT ![i].owners = owners]
      BY <1>1, <1>2
  <2>2. owners \in SUBSET {"application", "server"}
      BY DEF IInv, Types, InterfaceObjects
  <2> HIDE DEF owners
  <2>3. interfaces' \in [Interfaces -> InterfaceObjects]
        /\ \A j \in Interfaces :
            /\ interfaces'[j].isInitialized = interfaces[j].isInitialized
            /\ interfaces'[j].value = interfaces[j].value
            /\ interfaces'[j].table = interfaces[j].table
      BY <2>1, <2>2 DEF IInv, Types, InterfaceObjects
  <2>4. UNCHANGED <<served, manager, announced, cached, calls, undefined>>
      BY <1>1, <1>2 DEF IInv, Types
  <2> QED BY <2>3, <2>4, BuildingPreservesIInv
<1>3. CASE last
  <2>1. /\ interfaces'[i] = [Absent EXCEPT !.isNew = FALSE]
        /\ \A j \in Interfaces \ {i} : interfaces'[j] = interfaces[j]
      BY <1>1, <1>3 DEF IInv, Types
  <2>2. [Absent EXCEPT !.isNew = FALSE] \in InterfaceObjects
    <3>1. NoTable \in Tables BY DEF NoTable, Tables
    <3>2. Absent \in InterfaceObjects BY <3>1 DEF Absent, InterfaceObjects, Values
    <3> QED BY <3>2 DEF InterfaceObjects
  <2>3. interfaces' \in [Interfaces -> InterfaceObjects]
      BY <1>1, <1>3, <2>2 DEF IInv, Types
  <2>4. ~interfaces'[i].isInitialized BY <2>1 DEF Absent
  <2>5. ~announced' BY <1>1, <1>3 DEF IInv, ServedInv
  <2>6. Types' BY <1>1, <2>3 DEF IInv, Types
  <2>7. ServedInv' BY <1>1, <1>3, <2>1, <2>4, <2>5 DEF IInv, ServedInv
  <2>8. AnnouncedIsServed' /\ CacheIsCurrent' BY <2>5 DEF AnnouncedIsServed, CacheIsCurrent
  <2>9. OpenCallsInv' /\ AnsweredOnce' BY <1>1 DEF IInv, OpenCallsInv, AnsweredOnce
  <2> QED BY <2>6, <2>7, <2>8, <2>9 DEF IInv
<1> QED BY <1>2, <1>3

(* A call that is open and unanswered, or over and answered unless it failed in
   one of the two ways that lose the answer. *)
SoundCall(call) ==
    /\ call \in CallStates
    /\ call.state # "over" => call.answers = 0 /\ call.outcome = "none"
    /\ call.state = "over" => call.answers <= 1
    /\ call.outcome = "returned" => call.answers = 1
    /\ call.outcome = "raised" => call.wantsMessage \/ call.answers = 1

LEMMA EndsIsSound ==
    ASSUME NEW call \in CallStates, call.answers = 0,
           NEW outcome \in {"returned", "raised", "unreadable", "badEnum"},
           NEW answers \in {0, 1},
           outcome = "returned" => answers = 1,
           outcome = "raised" => call.wantsMessage \/ answers = 1
    PROVE  SoundCall(Ends(call, outcome, answers))
BY DEF SoundCall, Ends, CallStates

(* Only the call that goes on matters. *)
LEMMA CallPreservesIInv ==
    ASSUME IInv, NEW k \in Calls, NEW call, SoundCall(call),
           calls' = [calls EXCEPT ![k] = call],
           UNCHANGED <<interfaces, served, manager, announced, cached>>,
           ~undefined
    PROVE  IInv'
<1>1. Types' BY DEF IInv, Types, SoundCall
<1>2. ServedInv' BY DEF IInv, ServedInv
<1>3. AnnouncedIsServed' BY DEF IInv, AnnouncedIsServed
<1>4. CacheIsCurrent' BY DEF IInv, CacheIsCurrent
<1>5. OpenCallsInv' BY DEF IInv, Types, OpenCallsInv, SoundCall
<1>6. AnsweredOnce' BY DEF IInv, Types, AnsweredOnce, SoundCall, CallStates
<1> QED BY <1>1, <1>2, <1>3, <1>4, <1>5, <1>6 DEF IInv

(* method_handler with a method that is no coroutine, and the spawn of one. *)
LEMMA CallMethodPreservesIInv ==
    ASSUME None \notin Interfaces, IInv, ~undefined, NEW k \in Calls, NEW i \in Interfaces,
           MethodHandler(k, i) \/ SpawnMethod(k, i)
    PROVE  IInv'
<1>1. calls[k] \in CallStates BY DEF IInv, Types
<1>2. calls[k].answers = 0 /\ calls[k].state = "none"
    BY DEF IInv, OpenCallsInv, MethodHandler, SpawnMethod, MayCall
<1>3. UNCHANGED <<interfaces, served, manager, announced, cached>>
    BY DEF MethodHandler, SpawnMethod, clientVars
<1>4. CASE MethodHandler(k, i)
  <2>1. PICK outcome \in {"returned", "raised", "unreadable", "badEnum"} :
            calls' = [calls EXCEPT ![k] = Ends(calls[k], outcome, 1)]
      BY <1>4 DEF MethodHandler, CallbackMethod
  <2> DEFINE call == Ends(calls[k], outcome, 1)
  <2>2. SoundCall(call) BY <1>1, <1>2, EndsIsSound
  <2>3. calls' = [calls EXCEPT ![k] = call] BY <2>1
  <2> HIDE DEF call
  <2> QED BY <1>3, <2>2, <2>3, CallPreservesIInv
<1>5. CASE SpawnMethod(k, i)
  <2>1. PICK wantsMessage \in BOOLEAN :
            calls' = [calls EXCEPT ![k] =
                [state |-> "spawned", interface |-> i, wantsMessage |-> wantsMessage,
                 outcome |-> "none", answers |-> 0]]
      BY <1>5 DEF SpawnMethod
  <2> DEFINE call == [state |-> "spawned", interface |-> i, wantsMessage |-> wantsMessage,
                      outcome |-> "none", answers |-> 0]
  <2>2. calls' = [calls EXCEPT ![k] = call] BY <2>1
  <2>3. SoundCall(call) BY DEF SoundCall, CallStates
  <2> HIDE DEF call
  <2> QED BY <1>3, <2>2, <2>3, CallPreservesIInv
<1> QED BY <1>4, <1>5

(* A coroutine that goes on either refuses the call, starts its method or ends,
   with the answer or, where after_spawn loses it, without. *)
LEMMA RunCoroutinePreservesIInv ==
    ASSUME IInv, ~undefined, NEW k \in Calls, RunCoroutine(k)
    PROVE  IInv'
<1>1. calls[k] \in CallStates BY DEF IInv, Types
<1>2. calls[k].answers = 0 /\ calls[k].outcome = "none"
    BY DEF IInv, OpenCallsInv, RunCoroutine
<1>3. UNCHANGED <<interfaces, served, manager, announced, cached>>
    BY DEF RunCoroutine, clientVars
<1>4. PICK call \in ReadArguments(calls[k]) \cup CompleteMethod(calls[k]) :
        calls' = [calls EXCEPT ![k] = call]
    BY DEF RunCoroutine
<1>5. SoundCall(call)
  <2>1. CASE call = [calls[k] EXCEPT !.state = "running"]
      BY <1>1, <1>2, <2>1 DEF SoundCall, CallStates
  <2>2. CASE call \in {RefuseCall(calls[k]), Ends(calls[k], "badEnum", 0)}
      BY <1>1, <1>2, <2>2, EndsIsSound DEF RefuseCall
  <2>3. CASE call = Ends(calls[k], "returned", 1)
      BY <1>1, <1>2, <2>3, EndsIsSound
  <2>4. CASE call = Ends(calls[k], "raised", IF calls[k].wantsMessage THEN 0 ELSE 1)
    <3>1. CASE calls[k].wantsMessage BY <1>1, <1>2, <2>4, <3>1, EndsIsSound
    <3>2. CASE ~calls[k].wantsMessage BY <1>1, <1>2, <2>4, <3>2, EndsIsSound
    <3> QED BY <3>1, <3>2
  <2> QED BY <1>4, <2>1, <2>2, <2>3, <2>4 DEF ReadArguments, CompleteMethod
<1> QED BY <1>3, <1>4, <1>5, CallPreservesIInv

(* The inductive invariant holds of every behaviour. *)
THEOREM Invariance ==
    ASSUME None \notin Interfaces
    PROVE  Spec => []IInv
<1>1. Init => IInv
  <2> SUFFICES ASSUME Init PROVE IInv OBVIOUS
  <2>1. NoTable \in Tables BY DEF NoTable, Tables
  <2>2. Absent \in InterfaceObjects BY <2>1 DEF Absent, InterfaceObjects, Values
  <2>3. Idle \in CallStates /\ Idle.answers = 0 /\ Idle.outcome = "none"
      BY DEF Idle, CallStates
  <2>4. ~Absent.isInitialized BY DEF Absent
  <2>5. Types BY <2>2, <2>3 DEF Init, Types
  <2>6. ServedInv BY <2>4 DEF Init, ServedInv
  <2>7. AnnouncedIsServed /\ CacheIsCurrent BY DEF Init, AnnouncedIsServed, CacheIsCurrent
  <2>8. OpenCallsInv /\ AnsweredOnce BY <2>3 DEF Init, OpenCallsInv, AnsweredOnce
  <2> QED BY <2>5, <2>6, <2>7, <2>8 DEF IInv
<1>2. IInv /\ [Next]_vars => IInv'
  <2> SUFFICES ASSUME IInv, [Next]_vars PROVE IInv' OBVIOUS
  <2>1. CASE UNCHANGED vars
      BY <2>1 DEF vars, IInv, Types, ServedInv, AnnouncedIsServed, CacheIsCurrent,
                  OpenCallsInv, AnsweredOnce
  <2>2. CASE Next
    <3>1. ~undefined BY <2>2 DEF Next
    <3>2. CASE AddManager BY <3>2, AddManagerPreservesIInv
    <3>3. ASSUME NEW i \in Interfaces,
                 \/ AddInterface(i)
                 \/ \E kind \in PropertyKinds : RegisterProperty(i, kind)
                 \/ \E kind \in MethodKinds : RegisterMethod(i, kind)
          PROVE  IInv'
        BY <3>3, RegisterPreservesIInv
    <3>4. ASSUME NEW i \in Interfaces, NEW skip \in BOOLEAN, Initialize(i, skip) PROVE IInv'
        BY <3>4, InitializePreservesIInv
    <3>5. ASSUME NEW i \in Interfaces, NEW owner \in {"application", "server"},
                 Release(i, owner)
          PROVE  IInv'
        BY <3>5, ReleasePreservesIInv
    <3>6. ASSUME NEW i \in Interfaces, NEW request \in Values,
                 SetProperty(i, request) \/ SetHandler(i, request)
          PROVE  IInv'
      <4>1. served = i BY <3>6 DEF IInv, ServedInv, SetProperty, SetHandler
      <4> QED BY <3>6, <4>1, StorePreservesIInv DEF SetProperty, SetHandler
    <3>7. ASSUME NEW i \in Interfaces, GetHandler(i) PROVE IInv'
        BY <3>7, GetHandlerPreservesIInv
    <3>8. ASSUME NEW i \in Interfaces, NEW k \in Calls,
                 MethodHandler(k, i) \/ SpawnMethod(k, i)
          PROVE  IInv'
        BY <3>1, <3>8, CallMethodPreservesIInv
    <3>9. ASSUME NEW k \in Calls, RunCoroutine(k) PROVE IInv'
        BY <3>1, <3>9, RunCoroutinePreservesIInv
    <3> QED BY <2>2, <3>2, <3>3, <3>4, <3>5, <3>6, <3>7, <3>8, <3>9 DEF Next
  <2> QED BY <2>1, <2>2
<1> QED BY <1>1, <1>2, PTL DEF Spec

(* Also when other interfaces of its name come and go: while a client believes
   in the interface sd-bus serves one (initialize, ~dbus_interface). *)
THEOREM AnnouncedIsServedHolds ==
    ASSUME None \notin Interfaces
    PROVE  Spec => []AnnouncedIsServed
<1>1. IInv => AnnouncedIsServed BY DEF IInv
<1> QED BY <1>1, Invariance, PTL

(* The client's copy of a property with the default getter is the property's
   value (set_property, set_handler). *)
THEOREM CacheIsCurrentHolds ==
    ASSUME None \notin Interfaces
    PROVE  Spec => []CacheIsCurrent
<1>1. IInv => CacheIsCurrent BY DEF IInv
<1> QED BY <1>1, Invariance, PTL

(* No call is answered twice, and none that returned is left without an answer
   (callback_method_instance, after_spawn). *)
THEOREM AnsweredOnceHolds ==
    ASSUME None \notin Interfaces
    PROVE  Spec => []AnsweredOnce
<1>1. IInv => AnsweredOnce BY DEF IInv
<1> QED BY <1>1, Invariance, PTL
=============================================================================
