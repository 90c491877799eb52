------------------------ MODULE AsioConnectionProofs ------------------------
(***************************************************************************)
(* For any sets of calls, whoever makes them, and however much the peer    *)
(* sends: a completion handler is called exactly once, and a connection    *)
(* whose handlers have all run watches for what its bus has to do.         *)
(***************************************************************************)
EXTENDS AsioConnection, SequenceTheorems, TLAPS

Spec == Init /\ [][Next]_vars

(* What the constants stand for: a handler that the io_context has is either a
   coroutine's or the connection's, and a call has one kind of caller. *)
OwnHandlers == {"process", "fd", "fd aborted", "timer", "timer aborted"}
NamesDiffer == YieldCalls \cap (OwnHandlers \cup BusCalls) = {}

InQueue(h, q) == \E i \in DOMAIN q : q[i] = h

CallsOnce(q) ==
    \A i, j \in DOMAIN q : q[i] \in YieldCalls /\ q[i] = q[j] => i = j

(* A coroutine is in the queue of the io_context once, until it makes its
   call: it then completes, or waits for an answer. *)
SpawnedInv ==
    /\ CallsOnce(handlers)
    /\ \A c \in YieldCalls : InQueue(c, handlers) => state[c] = "spawned"

IInv == TypeOK /\ SpawnedInv /\ HandlerCalledOnce /\ IdleIsWatched

-----------------------------------------------------------------------------
(* What becomes of the queue of handlers while one of them runs: p comes from
   q, and whatever coroutine it has was there. *)
From(p, q) ==
    /\ p \in Seq(Handlers)
    /\ CallsOnce(q) => CallsOnce(p)
    /\ \A c \in YieldCalls : InQueue(c, p) => InQueue(c, q)

LEMMA AppendHandler ==
    ASSUME NEW q \in Seq(Handlers), NEW h \in Handlers
    PROVE  /\ Append(q, h) \in Seq(Handlers)
           /\ \A x : InQueue(x, Append(q, h)) <=> InQueue(x, q) \/ x = h
           /\ CallsOnce(q) /\ ~(h \in YieldCalls /\ InQueue(h, q)) => CallsOnce(Append(q, h))
<1> DEFINE p == Append(q, h)
<1>1. /\ p \in Seq(Handlers) /\ Len(q) + 1 \in DOMAIN p /\ p[Len(q) + 1] = h
      /\ \A i \in DOMAIN q : i \in DOMAIN p /\ p[i] = q[i]
      /\ \A i \in DOMAIN p : i \in DOMAIN q \/ i = Len(q) + 1
  OBVIOUS
<1> HIDE DEF p
<1>2. \A x : InQueue(x, p) <=> InQueue(x, q) \/ x = h
  BY <1>1 DEF InQueue
<1>3. CallsOnce(q) /\ ~(h \in YieldCalls /\ InQueue(h, q)) => CallsOnce(p)
  BY <1>1 DEF InQueue, CallsOnce
<1> QED BY <1>1, <1>2, <1>3 DEF p

LEMMA RepeatHandler ==
    ASSUME NEW q \in Seq(Handlers), NEW h \in OwnHandlers, NEW n \in Nat, NamesDiffer
    PROVE  /\ From(q \o Times(n, h), q)
           /\ n > 0 => InQueue(h, q \o Times(n, h))
<1> DEFINE r == Times(n, h)
           p == q \o r
<1>0. h \in Handlers BY DEF Handlers, OwnHandlers
<1>1. r \in Seq(Handlers) /\ Len(r) = n /\ \A i \in 1..n : r[i] = h
  BY <1>0 DEF Times
<1> HIDE DEF r
<1>2. /\ p \in Seq(Handlers)
      /\ \A i \in DOMAIN p : i \in DOMAIN q \/ (i - Len(q) \in 1..n /\ p[i] = r[i - Len(q)])
      /\ \A i \in DOMAIN q : i \in DOMAIN p /\ p[i] = q[i]
      /\ n > 0 => Len(q) + 1 \in DOMAIN p /\ p[Len(q) + 1] = r[1]
  BY <1>1
<1> HIDE DEF p
<1>3. \A i \in DOMAIN p : p[i] \in YieldCalls => i \in DOMAIN q
  BY <1>1, <1>2 DEF NamesDiffer
<1>4. From(p, q)
  BY <1>2, <1>3 DEF From, CallsOnce, InQueue
<1>5. n > 0 => InQueue(h, p)
  BY <1>1, <1>2 DEF InQueue
<1> QED BY <1>4, <1>5 DEF p, r

LEMMA TakeHandler ==
    ASSUME handlers \in Seq(Handlers), handlers # <<>>
    PROVE  /\ From(Tail(handlers), handlers)
           /\ Head(handlers) \in Handlers /\ InQueue(Head(handlers), handlers)
           /\ \A x : InQueue(x, handlers) => InQueue(x, Tail(handlers)) \/ x = Head(handlers)
           /\ CallsOnce(handlers) /\ Head(handlers) \in YieldCalls =>
                    ~InQueue(Head(handlers), Tail(handlers))
<1> DEFINE q == Tail(handlers)
<1>1. /\ q \in Seq(Handlers) /\ Head(handlers) = handlers[1] /\ 1 \in DOMAIN handlers
      /\ Head(handlers) \in Handlers
      /\ \A i \in DOMAIN q : i \in Nat /\ i >= 1 /\ i + 1 \in DOMAIN handlers
                /\ q[i] = handlers[i + 1]
      /\ \A i \in DOMAIN handlers : i \in Nat
                /\ (i # 1 => i - 1 \in DOMAIN q /\ q[i - 1] = handlers[i])
  OBVIOUS
<1> HIDE DEF q
<1>2. From(q, handlers)
  <2>1. CallsOnce(handlers) => CallsOnce(q)
    <3> SUFFICES ASSUME CallsOnce(handlers), NEW i \in DOMAIN q, NEW j \in DOMAIN q,
                        q[i] \in YieldCalls, q[i] = q[j]
                 PROVE  i = j
      BY DEF CallsOnce
    <3>1. i + 1 = j + 1 BY <1>1 DEF CallsOnce
    <3> QED BY <1>1, <3>1
  <2> QED BY <1>1, <2>1 DEF From, InQueue
<1>3. CallsOnce(handlers) /\ handlers[1] \in YieldCalls => ~InQueue(handlers[1], q)
  <2> SUFFICES ASSUME CallsOnce(handlers), NEW i \in DOMAIN q, handlers[1] \in YieldCalls,
                      q[i] = handlers[1]
               PROVE  FALSE
    BY DEF InQueue
  <2>1. i + 1 = 1 BY <1>1 DEF CallsOnce
  <2> QED BY <1>1, <2>1
<1> QED BY <1>1, <1>2, <1>3 DEF InQueue, q

LEMMA OwnHandler ==
    ASSUME NEW q, From(q, handlers), NEW h \in OwnHandlers, NamesDiffer
    PROVE  From(Append(q, h), handlers) /\ InQueue(h, Append(q, h))
<1>1. q \in Seq(Handlers) /\ h \in Handlers /\ h \notin YieldCalls
  BY DEF From, Handlers, OwnHandlers, NamesDiffer
<1> DEFINE p == Append(q, h)
<1>2. /\ p \in Seq(Handlers)
      /\ \A x : InQueue(x, p) <=> InQueue(x, q) \/ x = h
      /\ CallsOnce(q) => CallsOnce(p)
  BY <1>1, AppendHandler
<1> HIDE DEF p
<1> QED BY <1>1, <1>2 DEF From, p

LEMMA OwnHandlersRepeated ==
    ASSUME NEW q, From(q, handlers), NEW h \in OwnHandlers, NEW n \in Nat, NamesDiffer
    PROVE  From(q \o Times(n, h), handlers) /\ (n > 0 => InQueue(h, q \o Times(n, h)))
<1>1. q \in Seq(Handlers) BY DEF From
<1> DEFINE p == q \o Times(n, h)
<1>2. From(p, q) /\ (n > 0 => InQueue(h, p)) BY <1>1, RepeatHandler
<1> HIDE DEF p
<1> QED BY <1>2 DEF From, p
-----------------------------------------------------------------------------
(* The calls of the bus, and what may be said of them at any time. *)
States == {"none", "spawned", "waiting", "expired", "done"}
Results == {"reply", "error", "invalid_argument", "timeout", "not built", "not sent",
            "not made"}

BusInv ==
    /\ inbox \in Seq(AllCalls \cup {Signal}) /\ outbox \in Seq(AllCalls)
    /\ peer \subseteq AllCalls
    /\ state \in [AllCalls -> States] /\ outcomes \in [AllCalls -> Seq(Results)]
    /\ HandlerCalledOnce

(* Completing a call that is not done. *)
LEMMA CallHandlerBusInv ==
    ASSUME BusInv, NEW c \in AllCalls, state[c] # "done", NEW outcome \in Results,
           CallHandler(c, outcome)
    PROVE  /\ state' = [state EXCEPT ![c] = "done"] /\ state' \in [AllCalls -> States]
           /\ outcomes' \in [AllCalls -> Seq(Results)]
           /\ HandlerCalledOnce'
<1>1. /\ state' = [state EXCEPT ![c] = "done"]
      /\ outcomes' = [outcomes EXCEPT ![c] = Append(outcomes[c], outcome)]
  BY DEF CallHandler
<1>2. outcomes[c] \in Seq(Results) /\ Len(outcomes[c]) = 0
  BY DEF BusInv, HandlerCalledOnce
<1> DEFINE o == Append(outcomes[c], outcome)
<1>3. o \in Seq(Results) /\ Len(o) = 1 BY <1>2
<1> HIDE DEF o
<1>4. state' \in [AllCalls -> States] BY <1>1 DEF BusInv, States
<1>5. outcomes' = [outcomes EXCEPT ![c] = o] BY <1>1 DEF o
<1>6. outcomes' \in [AllCalls -> Seq(Results)] BY <1>3, <1>5 DEF BusInv
<1>7. HandlerCalledOnce'
  <2> SUFFICES ASSUME NEW d \in AllCalls
               PROVE  Len(outcomes'[d]) = IF state'[d] = "done" THEN 1 ELSE 0
    BY DEF HandlerCalledOnce
  <2>1. CASE d = c BY <1>1, <1>3, <1>5, <2>1 DEF BusInv
  <2>2. CASE d # c BY <1>1, <1>5, <2>2 DEF BusInv, HandlerCalledOnce
  <2> QED BY <2>1, <2>2
<1> QED BY <1>1, <1>4, <1>6, <1>7

LEMMA CompleteBusInv ==
    ASSUME BusInv, NEW c \in AllCalls, state[c] # "done",
           NEW result \in {"reply", "error", "timeout", "not sent"}, Complete(c, result)
    PROVE  /\ state' = [state EXCEPT ![c] = "done"] /\ state' \in [AllCalls -> States]
           /\ outcomes' \in [AllCalls -> Seq(Results)]
           /\ HandlerCalledOnce'
<1>1. PICK outcome \in Results : CallHandler(c, outcome)
  BY DEF Complete, ResumeYield, Unpack, Results
<1> QED BY <1>1, CallHandlerBusInv

(* Making a call, from a handler of the connection or from a coroutine. *)
LEMMA CallBusInv ==
    ASSUME BusInv, NEW c \in AllCalls, state[c] \in {"none", "spawned"},
           AsyncMethodCall(c) \/ YieldMethodCall(c),
           inbox' \in Seq(AllCalls \cup {Signal})
    PROVE  /\ BusInv'
           /\ \A d \in AllCalls : d # c => state'[d] = state[d]
           /\ \A i \in DOMAIN outbox' : outbox'[i] = c
                \/ (i \in DOMAIN outbox /\ outbox'[i] = outbox[i])
<1>1. /\ outbox \in Seq(AllCalls) /\ peer \subseteq AllCalls /\ state[c] # "done"
  BY DEF BusInv
<1>2. CASE \/ UNCHANGED <<outbox, peer>> /\ Complete(c, "not sent")
           \/ UNCHANGED <<outbox, peer>> /\ \E outcome \in {"not built", "not made"} :
                                                CallHandler(c, outcome)
  <2>1. PICK outcome \in Results : CallHandler(c, outcome)
    BY <1>2 DEF Complete, ResumeYield, Unpack, Results
  <2>2. /\ state' = [state EXCEPT ![c] = "done"] /\ state' \in [AllCalls -> States]
        /\ outcomes' \in [AllCalls -> Seq(Results)] /\ HandlerCalledOnce'
    BY <1>1, <2>1, CallHandlerBusInv
  <2>3. \A d \in AllCalls : d # c => state'[d] = state[d]
    BY <2>2 DEF BusInv
  <2> QED BY <1>1, <1>2, <2>2, <2>3 DEF BusInv
<1>3. CASE /\ state' = [state EXCEPT ![c] = "waiting"] /\ UNCHANGED outcomes
           /\ \/ peer' = peer \cup {c} /\ UNCHANGED outbox
              \/ outbox' = Append(outbox, c) /\ UNCHANGED peer
  <2>1. state' \in [AllCalls -> States] BY <1>3 DEF BusInv, States
  <2>2. HandlerCalledOnce' BY <1>1, <1>3 DEF HandlerCalledOnce, BusInv
  <2>3. /\ outbox' \in Seq(AllCalls) /\ peer' \subseteq AllCalls
        /\ \A i \in DOMAIN outbox' : outbox'[i] = c
                \/ (i \in DOMAIN outbox /\ outbox'[i] = outbox[i])
    BY <1>1, <1>3
  <2>4. \A d \in AllCalls : d # c => state'[d] = state[d]
    BY <1>3 DEF BusInv
  <2> QED BY <1>1, <1>3, <2>1, <2>2, <2>3, <2>4 DEF BusInv
<1> QED BY <1>2, <1>3 DEF AsyncMethodCall, YieldMethodCall, AsyncSend

(* Whatever process_discard does, it touches no coroutine that has not made its
   call yet. *)
LEMMA ProcessDiscardBusInv ==
    ASSUME BusInv, NamesDiffer, ProcessDiscard
    PROVE  BusInv' /\ \A c \in YieldCalls : state[c] = "spawned" => state'[c] = "spawned"
<1>1. CASE \E c \in In("expired") : Complete(c, "timeout") /\ UNCHANGED <<inbox, outbox, peer>>
  <2>1. PICK c \in AllCalls : /\ state[c] = "expired" /\ Complete(c, "timeout")
                              /\ UNCHANGED <<inbox, outbox, peer>>
    BY <1>1 DEF In
  <2>2. /\ state' = [state EXCEPT ![c] = "done"] /\ state' \in [AllCalls -> States]
        /\ outcomes' \in [AllCalls -> Seq(Results)] /\ HandlerCalledOnce'
    BY <2>1, CompleteBusInv
  <2> QED BY <2>1, <2>2 DEF BusInv, AllCalls
<1>2. CASE /\ outbox # <<>> /\ outbox' = Tail(outbox) /\ peer' = peer \cup {Head(outbox)}
           /\ UNCHANGED <<inbox, state, outcomes>>
  <2>1. outbox \in Seq(AllCalls) BY DEF BusInv
  <2>2. Tail(outbox) \in Seq(AllCalls) /\ Head(outbox) \in AllCalls BY <1>2, <2>1
  <2> QED BY <1>2, <2>2 DEF BusInv, HandlerCalledOnce
<1>3. CASE /\ inbox # <<>> /\ inbox' = Tail(inbox)
           /\ \/ /\ Head(inbox) # Signal /\ DoUnpack(Head(inbox)) /\ UNCHANGED <<outbox, peer>>
              \/ UNCHANGED <<outbox, peer, state, outcomes>>
  <2>1. inbox \in Seq(AllCalls \cup {Signal}) BY DEF BusInv
  <2>2. Tail(inbox) \in Seq(AllCalls \cup {Signal}) /\ Head(inbox) \in AllCalls \cup {Signal}
    BY <1>3, <2>1
  <2>3. CASE UNCHANGED <<outbox, peer, state, outcomes>>
    BY <1>3, <2>2, <2>3 DEF BusInv, HandlerCalledOnce
  <2>4. CASE /\ UNCHANGED <<outbox, peer>>
             /\ \E c \in AllCalls : \E result \in {"reply", "error"} :
                    state[c] = "waiting" /\ Complete(c, result)
    <3>1. PICK c \in AllCalls, result \in {"reply", "error"} :
             state[c] = "waiting" /\ Complete(c, result)
      BY <2>4
    <3>2. /\ state' = [state EXCEPT ![c] = "done"] /\ state' \in [AllCalls -> States]
          /\ outcomes' \in [AllCalls -> Seq(Results)] /\ HandlerCalledOnce'
      BY <3>1, CompleteBusInv
    <3> QED BY <1>3, <2>2, <2>4, <3>1, <3>2 DEF BusInv, AllCalls
  <2> QED BY <1>3, <2>2, <2>3, <2>4 DEF DoUnpack
<1>4. CASE /\ inbox # <<>> /\ inbox' = Tail(inbox)
           /\ \E c \in BusCalls : state[c] = "none" /\ AsyncMethodCall(c)
  <2>1. PICK c \in BusCalls : state[c] = "none" /\ AsyncMethodCall(c) BY <1>4
  <2>2. inbox \in Seq(AllCalls \cup {Signal}) /\ c \in AllCalls BY DEF BusInv, AllCalls
  <2>3. inbox' \in Seq(AllCalls \cup {Signal}) BY <1>4, <2>2
  <2>4. BusInv' /\ \A d \in AllCalls : d # c => state'[d] = state[d]
    BY <2>1, <2>2, <2>3, CallBusInv
  <2> QED BY <2>1, <2>4 DEF AllCalls
<1> QED BY <1>1, <1>2, <1>3, <1>4 DEF ProcessDiscard

(* The rest of the types: what the io_context and the world have. *)
Waits == [read: Nat, write: Nat]
RestOK ==
    /\ handlers \in Seq(Handlers) /\ waits \in Waits /\ timerFor \subseteq AllCalls
    /\ writable \in BOOLEAN /\ signals \in 0..MaxSignals /\ stalls \in 0..MaxStalls

LEMMA Parts ==
    /\ IInv <=> RestOK /\ BusInv /\ SpawnedInv /\ IdleIsWatched
    /\ IInv' <=> RestOK' /\ BusInv' /\ SpawnedInv' /\ IdleIsWatched'
<1>1. TypeOK /\ HandlerCalledOnce <=> RestOK /\ BusInv
  BY DEF TypeOK, RestOK, BusInv, States, Results, Waits
<1>2. TypeOK' /\ HandlerCalledOnce' <=> RestOK' /\ BusInv'
  BY DEF TypeOK, RestOK, BusInv, States, Results, Waits
<1> QED BY <1>1, <1>2 DEF IInv

(* Calls that have been spawned stay so while the queue loses coroutines. *)
LEMMA SpawnedStay ==
    ASSUME SpawnedInv, From(handlers', handlers),
           \A c \in YieldCalls :
                InQueue(c, handlers') /\ state[c] = "spawned" => state'[c] = "spawned"
    PROVE  SpawnedInv'
<1>1. CallsOnce(handlers)' BY DEF SpawnedInv, From, CallsOnce
<1>2. \A c \in YieldCalls : InQueue(c, handlers)' => state'[c] = "spawned"
  BY DEF SpawnedInv, From, InQueue
<1> QED BY <1>1, <1>2 DEF SpawnedInv

LEMMA IdleMeans ==
    /\ Idle <=> \A h \in {"process", "fd", "timer"} : ~InQueue(h, handlers)
    /\ Idle' <=> \A h \in {"process", "fd", "timer"} : ~InQueue(h, handlers')
BY DEF Idle, InQueue

(* A handler of the connection: it leaves a successor, or has the bus watched. *)
LEMMA ProcessIInv ==
    ASSUME IInv, NamesDiffer, UNCHANGED worldVars,
           NEW ready, From(ready, handlers), NEW pending \in Waits,
           NEW timed \in SUBSET AllCalls, Process(ready, pending, timed)
    PROVE  IInv'
<1>1. RestOK /\ BusInv /\ SpawnedInv BY Parts
<1>2. UNCHANGED <<writable, signals, stalls>> BY DEF worldVars
<1>3. CASE /\ ProcessDiscard /\ handlers' = Append(ready, "process")
           /\ waits' = pending /\ timerFor' = timed
  <2>1. From(handlers', handlers) /\ InQueue("process", handlers')
    BY <1>3, OwnHandler DEF OwnHandlers
  <2>2. BusInv' /\ \A c \in YieldCalls : state[c] = "spawned" => state'[c] = "spawned"
    BY <1>1, <1>3, ProcessDiscardBusInv
  <2>3. RestOK' BY <1>1, <1>2, <1>3, <2>1 DEF RestOK, From
  <2>4. SpawnedInv' BY <1>1, <2>1, <2>2, SpawnedStay
  <2>5. ~Idle' BY <2>1, IdleMeans
  <2> QED BY <2>2, <2>3, <2>4, <2>5, Parts DEF IdleIsWatched
<1>4. CASE NothingToDo /\ UNCHANGED busVars /\ ReadWait(ready, pending, timed)
  <2>1. From(handlers', handlers)
    BY <1>4, OwnHandler DEF ReadWait, OwnHandlers
  <2>2. UNCHANGED <<inbox, outbox, peer, state, outcomes>> BY <1>4 DEF busVars
  <2>3. BusInv' BY <1>1, <2>2 DEF BusInv, HandlerCalledOnce
  <2>4. SpawnedInv' BY <1>1, <2>1, <2>2, SpawnedStay
  <2>5. /\ waits' \in Waits /\ waits'.read > 0
        /\ outbox # <<>> => waits'.write > 0
    <3>1. pending.read \in Nat /\ pending.write \in Nat BY DEF Waits
    <3>2. waits' = [read |-> pending.read + 1,
                    write |-> IF outbox = <<>> THEN pending.write ELSE pending.write + 1]
      BY <1>4 DEF ReadWait, AddWaits
    <3>3. waits'.read = pending.read + 1 /\ (outbox # <<>> => waits'.write = pending.write + 1)
      BY <3>2
    <3> QED BY <3>1, <3>2, <3>3 DEF Waits
  <2>6. timerFor' \subseteq AllCalls /\ In("waiting") \subseteq timerFor'
    BY <1>4 DEF ReadWait, In
  <2>7. RestOK' BY <1>1, <1>2, <2>1, <2>5, <2>6 DEF RestOK, From
  <2>8. \A c \in BusCalls : state'[c] \in {"waiting", "expired"} => c \in timerFor'
    BY <1>4, <2>2, <2>6 DEF NothingToDo, In, AllCalls
  <2>9. \A i \in DOMAIN outbox' : outbox'[i] \in BusCalls => waits'.write > 0
    BY <1>1, <2>2, <2>5 DEF BusInv
  <2> QED BY <2>3, <2>4, <2>5, <2>7, <2>8, <2>9, Parts DEF IdleIsWatched
<1> QED BY <1>3, <1>4 DEF Process

(* A handler that is called because a wait was cancelled, which does nothing,
   or a coroutine up to its wait: what was watched still is. *)
LEMMA OtherHandlerIInv ==
    ASSUME IInv, NamesDiffer, handlers # <<>>, handlers' = Tail(handlers),
           UNCHANGED <<waits, timerFor, worldVars>>,
           \/ Head(handlers) \in {"fd aborted", "timer aborted"} /\ UNCHANGED busVars
           \/ /\ Head(handlers) \in YieldCalls /\ YieldMethodCall(Head(handlers))
              /\ UNCHANGED inbox
    PROVE  IInv'
<1> DEFINE h == Head(handlers)
<1>1. RestOK /\ BusInv /\ SpawnedInv /\ IdleIsWatched BY Parts
<1>2. UNCHANGED <<writable, signals, stalls>> BY DEF worldVars
<1>3. /\ From(handlers', handlers) /\ h \in Handlers /\ InQueue(h, handlers)
      /\ \A x : InQueue(x, handlers) => InQueue(x, handlers') \/ x = h
      /\ h \in YieldCalls => ~InQueue(h, handlers')
  BY <1>1, TakeHandler DEF RestOK, SpawnedInv
<1>4. h \notin {"process", "fd", "timer"}
  BY DEF NamesDiffer, OwnHandlers
<1> HIDE DEF h
<1>5. Idle' => Idle BY <1>3, <1>4, IdleMeans
<1>6. RestOK' BY <1>1, <1>2, <1>3 DEF RestOK, From
<1>7. CASE UNCHANGED busVars
  <2>1. UNCHANGED <<inbox, outbox, peer, state, outcomes>> BY <1>7 DEF busVars
  <2>2. BusInv' BY <1>1, <2>1 DEF BusInv, HandlerCalledOnce
  <2>3. SpawnedInv' BY <1>1, <1>3, <2>1, SpawnedStay
  <2>4. IdleIsWatched' BY <1>1, <1>5, <2>1 DEF IdleIsWatched
  <2> QED BY <1>6, <2>2, <2>3, <2>4, Parts
<1>8. CASE h \in YieldCalls /\ YieldMethodCall(h) /\ UNCHANGED inbox
  <2>1. state[h] = "spawned" /\ h \in AllCalls /\ h \notin BusCalls
    BY <1>1, <1>3, <1>8 DEF SpawnedInv, AllCalls, NamesDiffer
  <2>2. /\ BusInv'
        /\ \A d \in AllCalls : d # h => state'[d] = state[d]
        /\ \A i \in DOMAIN outbox' : outbox'[i] = h
                \/ (i \in DOMAIN outbox /\ outbox'[i] = outbox[i])
    BY <1>1, <1>8, <2>1, CallBusInv DEF BusInv
  <2>3. SpawnedInv' BY <1>1, <1>3, <1>8, <2>2, SpawnedStay DEF AllCalls
  <2>4. IdleIsWatched'
    BY <1>1, <1>5, <2>1, <2>2 DEF IdleIsWatched, AllCalls
  <2> QED BY <1>6, <2>2, <2>3, <2>4, Parts
<1> QED BY <1>7, <1>8 DEF h

LEMMA RunHandlerIInv ==
    ASSUME IInv, NamesDiffer, RunHandler
    PROVE  IInv'
<1>1. RestOK /\ handlers # <<>> /\ UNCHANGED worldVars BY Parts DEF RunHandler
<1> DEFINE q == Tail(handlers)
<1>2. From(q, handlers) BY <1>1, TakeHandler DEF RestOK
<1>3. /\ waits \in Waits /\ timerFor \in SUBSET AllCalls /\ waits.read + waits.write \in Nat
      /\ NoWaits \in Waits
  BY <1>1 DEF RestOK, Waits, NoWaits
<1>4. CASE Process(q, waits, timerFor) BY <1>1, <1>2, <1>3, <1>4, ProcessIInv
<1>5. CASE OnFdEvent
  <2>1. From(CancelTimer(q), handlers)
    BY <1>2, OwnHandler DEF CancelTimer, OwnHandlers
  <2> QED BY <1>1, <1>3, <1>5, <2>1, ProcessIInv DEF OnFdEvent
<1>6. CASE OnTimerEvent
  <2>1. From(q \o Times(waits.read + waits.write, "fd aborted"), handlers)
    BY <1>2, <1>3, OwnHandlersRepeated DEF OwnHandlers
  <2> QED BY <1>1, <1>3, <1>6, <2>1, ProcessIInv DEF OnTimerEvent
<1>7. CASE \/ Process(q, waits, timerFor) \/ OnFdEvent \/ OnTimerEvent
  BY <1>4, <1>5, <1>6, <1>7
<1> QED BY <1>1, <1>7, OtherHandlerIInv DEF RunHandler
-----------------------------------------------------------------------------
(* A coroutine's handler comes last, and once. *)
LEMMA SpawnIInv ==
    ASSUME IInv, NamesDiffer, NEW c \in YieldCalls, Spawn(c)
    PROVE  IInv'
<1>1. RestOK /\ BusInv /\ SpawnedInv /\ IdleIsWatched BY Parts
<1>2. /\ state[c] = "none" /\ state' = [state EXCEPT ![c] = "spawned"]
      /\ handlers' = Append(handlers, c) /\ c \in Handlers
      /\ UNCHANGED <<waits, timerFor, inbox, outbox, peer, outcomes>>
      /\ UNCHANGED <<writable, signals, stalls>>
      /\ c \in AllCalls /\ c \notin BusCalls /\ c \notin OwnHandlers
  BY DEF Spawn, worldVars, Handlers, AllCalls, NamesDiffer
<1>3. ~InQueue(c, handlers) BY <1>1, <1>2 DEF SpawnedInv
<1>4. /\ handlers' \in Seq(Handlers) /\ CallsOnce(handlers')
      /\ \A x : InQueue(x, handlers') <=> InQueue(x, handlers) \/ x = c
  BY <1>1, <1>2, <1>3, AppendHandler DEF RestOK, SpawnedInv
<1>5. RestOK' BY <1>1, <1>2, <1>4 DEF RestOK
<1>6. state \in [AllCalls -> States] BY <1>1 DEF BusInv
<1>7. BusInv'
  <2>1. state' \in [AllCalls -> States] BY <1>2, <1>6 DEF States
  <2>2. HandlerCalledOnce' BY <1>1, <1>2, <1>6 DEF BusInv, HandlerCalledOnce
  <2> QED BY <1>1, <1>2, <2>1, <2>2 DEF BusInv
<1>8. SpawnedInv'
  <2>1. CallsOnce(handlers)' BY <1>4 DEF CallsOnce
  <2>2. \A d \in YieldCalls : InQueue(d, handlers)' => state'[d] = "spawned"
    BY <1>1, <1>2, <1>4, <1>6 DEF SpawnedInv, InQueue, AllCalls
  <2> QED BY <2>1, <2>2 DEF SpawnedInv
<1>9. IdleIsWatched'
  <2>1. Idle' => Idle BY <1>4, IdleMeans
  <2>2. \A d \in BusCalls : state'[d] = state[d] BY <1>2, <1>6 DEF AllCalls
  <2> QED BY <1>1, <1>2, <2>1, <2>2 DEF IdleIsWatched
<1> QED BY <1>5, <1>7, <1>8, <1>9, Parts

(* What the reactor and the clock of the io_context report is handled. *)
LEMMA ReactorIInv ==
    ASSUME IInv, NamesDiffer,
           TimerExpires \/ \E event \in {"read", "write"} : CompleteWaits(event)
    PROVE  IInv'
<1>1. RestOK /\ BusInv /\ SpawnedInv /\ IdleIsWatched BY Parts
<1>2. /\ UNCHANGED <<inbox, outbox, peer, state, outcomes>>
      /\ UNCHANGED <<writable, signals, stalls>>
  BY DEF TimerExpires, CompleteWaits, busVars, worldVars
<1>3. waits \in Waits /\ waits.read \in Nat /\ waits.write \in Nat
  BY <1>1 DEF RestOK, Waits
<1>4. From(handlers, handlers) BY <1>1 DEF RestOK, From
<1>5. /\ From(handlers', handlers) /\ waits' \in Waits /\ timerFor' \subseteq AllCalls
      /\ InQueue("timer", handlers') \/ InQueue("fd", handlers')
  <2>1. CASE TimerExpires
    <3>1. handlers' = Append(handlers, "timer") /\ timerFor' = {} /\ UNCHANGED waits
      BY <2>1 DEF TimerExpires
    <3> QED BY <1>3, <1>4, <3>1, OwnHandler DEF OwnHandlers
  <2>2. CASE CompleteWaits("read")
    <3>1. /\ handlers' = handlers \o Times(waits.read, "fd") /\ waits.read > 0
          /\ waits' = [waits EXCEPT !.read = 0] /\ UNCHANGED timerFor
      BY <2>2 DEF CompleteWaits
    <3>2. From(handlers', handlers) /\ InQueue("fd", handlers')
      BY <1>3, <1>4, <3>1, OwnHandlersRepeated DEF OwnHandlers
    <3>3. waits' \in Waits BY <1>3, <3>1 DEF Waits
    <3> QED BY <1>1, <3>1, <3>2, <3>3 DEF RestOK
  <2>3. CASE CompleteWaits("write")
    <3>1. /\ handlers' = handlers \o Times(waits.write, "fd") /\ waits.write > 0
          /\ waits' = [waits EXCEPT !.write = 0] /\ UNCHANGED timerFor
      BY <2>3 DEF CompleteWaits
    <3>2. From(handlers', handlers) /\ InQueue("fd", handlers')
      BY <1>3, <1>4, <3>1, OwnHandlersRepeated DEF OwnHandlers
    <3>3. waits' \in Waits BY <1>3, <3>1 DEF Waits
    <3> QED BY <1>1, <3>1, <3>2, <3>3 DEF RestOK
  <2> QED BY <2>1, <2>2, <2>3
<1>6. RestOK' BY <1>1, <1>2, <1>5 DEF RestOK, From
<1>7. BusInv' BY <1>1, <1>2 DEF BusInv, HandlerCalledOnce
<1>8. SpawnedInv' BY <1>1, <1>2, <1>5, SpawnedStay
<1>9. IdleIsWatched' BY <1>5, IdleMeans DEF IdleIsWatched
<1> QED BY <1>6, <1>7, <1>8, <1>9, Parts

(* A call that is past its timeout stays watched by the timer until the bus is
   processed. *)
LEMMA ExpireIInv ==
    ASSUME IInv, NEW c \in AllCalls, Expire(c)
    PROVE  IInv'
<1>1. RestOK /\ BusInv /\ SpawnedInv /\ IdleIsWatched BY Parts
<1>2. /\ state[c] = "waiting" /\ state' = [state EXCEPT ![c] = "expired"]
      /\ UNCHANGED <<handlers, waits, timerFor, inbox, outbox, peer, outcomes>>
      /\ UNCHANGED <<writable, signals, stalls>>
  BY DEF Expire, worldVars
<1>3. state \in [AllCalls -> States] BY <1>1 DEF BusInv
<1>4. RestOK' BY <1>1, <1>2 DEF RestOK
<1>5. BusInv'
  <2>1. state' \in [AllCalls -> States] BY <1>2, <1>3 DEF States
  <2>2. HandlerCalledOnce' BY <1>1, <1>2, <1>3 DEF BusInv, HandlerCalledOnce
  <2> QED BY <1>1, <1>2, <2>1, <2>2 DEF BusInv
<1>6. SpawnedInv'
  <2>1. From(handlers', handlers) BY <1>1, <1>2 DEF RestOK, From
  <2> QED BY <1>1, <1>2, <1>3, <2>1, SpawnedStay DEF AllCalls
<1>7. IdleIsWatched'
  BY <1>1, <1>2, <1>3 DEF IdleIsWatched, Idle, AllCalls
<1> QED BY <1>4, <1>5, <1>6, <1>7, Parts

(* The peer sends, stops reading and goes on. *)
LEMMA PeerIInv ==
    ASSUME IInv, Receive \/ Stall \/ Unstall, MaxSignals \in Nat, MaxStalls \in Nat
    PROVE  IInv'
<1>1. RestOK /\ BusInv /\ SpawnedInv /\ IdleIsWatched BY Parts
<1>2. UNCHANGED <<handlers, waits, timerFor, outbox, state, outcomes>>
  BY DEF Receive, Stall, Unstall, busVars
<1>3. RestOK'
  <2>1. signals' \in {signals, signals + 1} /\ (signals' # signals => signals < MaxSignals)
    BY DEF Receive, Stall, Unstall
  <2>2. stalls' \in {stalls, stalls + 1} /\ (stalls' # stalls => stalls < MaxStalls)
    BY DEF Receive, Stall, Unstall
  <2>3. signals' \in 0..MaxSignals /\ stalls' \in 0..MaxStalls
    BY <1>1, <2>1, <2>2 DEF RestOK
  <2>4. writable' \in BOOLEAN
    BY <1>1 DEF RestOK, Receive, Stall, Unstall
  <2> QED BY <1>1, <1>2, <2>3, <2>4 DEF RestOK
<1>4. inbox' \in Seq(AllCalls \cup {Signal}) /\ peer' \subseteq AllCalls
  <2>1. /\ inbox \in Seq(AllCalls \cup {Signal}) /\ peer \subseteq AllCalls
    BY <1>1 DEF BusInv
  <2> QED BY <2>1 DEF Receive, Stall, Unstall, busVars
<1>5. BusInv' BY <1>1, <1>2, <1>4 DEF BusInv, HandlerCalledOnce
<1>6. SpawnedInv'
  BY <1>1, <1>2 DEF SpawnedInv, CallsOnce, InQueue
<1>7. IdleIsWatched' BY <1>1, <1>2 DEF IdleIsWatched, Idle
<1> QED BY <1>3, <1>5, <1>6, <1>7, Parts
-----------------------------------------------------------------------------
ConstantsAssumed == NamesDiffer /\ MaxSignals \in Nat /\ MaxStalls \in Nat

(* In every state that the io_context, the peer and the callers can bring the
   connection to. *)
THEOREM Invariance ==
    ASSUME ConstantsAssumed
    PROVE  Spec => []IInv
<1>1. Init => IInv
  <2> SUFFICES ASSUME Init PROVE IInv OBVIOUS
  <2>1. RestOK
    <3>1. handlers \in Seq(Handlers)
      <4>1. "process" \in Handlers BY DEF Handlers
      <4> QED BY <4>1 DEF Init
    <3> QED BY <3>1 DEF Init, ConstantsAssumed, RestOK, NoWaits, Waits
  <2>2. BusInv
    <3>1. <<>> \in Seq(AllCalls \cup {Signal}) /\ <<>> \in Seq(AllCalls)
          /\ <<>> \in Seq(Results) /\ Len(<<>>) = 0
      OBVIOUS
    <3> QED BY <3>1 DEF Init, BusInv, States, HandlerCalledOnce
  <2>3. DOMAIN handlers = {1} /\ handlers[1] = "process" BY DEF Init
  <2>4. SpawnedInv
    BY <2>3 DEF SpawnedInv, CallsOnce, InQueue, ConstantsAssumed, NamesDiffer, OwnHandlers
  <2>5. IdleIsWatched BY <2>3 DEF IdleIsWatched, Idle
  <2> QED BY <2>1, <2>2, <2>4, <2>5, Parts
<1>2. IInv /\ [Next]_vars => IInv'
  <2> SUFFICES ASSUME IInv, [Next]_vars PROVE IInv' OBVIOUS
  <2>1. CASE UNCHANGED vars
    <3>1. UNCHANGED <<handlers, waits, timerFor, inbox, outbox, peer, state, outcomes,
                      writable, signals, stalls>>
      BY <2>1 DEF vars, busVars, worldVars
    <3> QED BY <3>1 DEF IInv, TypeOK, SpawnedInv, CallsOnce, InQueue, HandlerCalledOnce,
          IdleIsWatched, Idle
  <2>2. CASE Next
    BY <2>2, RunHandlerIInv, ReactorIInv, ExpireIInv, PeerIInv, SpawnIInv
       DEF Next, ConstantsAssumed
  <2> QED BY <2>1, <2>2
<1> QED BY <1>1, <1>2, PTL DEF Spec

(* The handler of a call is called once, whether the answer, its timeout, both
   or nothing comes, or the call could not be made (do_unpack). *)
THEOREM HandlerCalledOnceHolds ==
    ASSUME ConstantsAssumed
    PROVE  Spec => []HandlerCalledOnce
<1>1. IInv => HandlerCalledOnce BY DEF IInv
<1> QED BY <1>1, Invariance, PTL

(* No chain of handlers leaves a connection that waits for nothing (read_wait,
   on_fd_event, on_timer_event). *)
THEOREM IdleIsWatchedHolds ==
    ASSUME ConstantsAssumed
    PROVE  Spec => []IdleIsWatched
<1>1. IInv => IdleIsWatched BY DEF IInv
<1> QED BY <1>1, Invariance, PTL
=============================================================================
