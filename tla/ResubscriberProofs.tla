------------------------ MODULE ResubscriberProofs ------------------------
(***************************************************************************)
(* The safety properties of Resubscriber, for any channels, applications   *)
(* and number of reorganizations.                                          *)
(*                                                                         *)
(* A handler that stays is always somewhere: in the member list, or in the *)
(* list of the one loop that may run.  So a loop that takes the member     *)
(* list takes all of them, unless the stop has come, from which on nothing *)
(* enters the member list again.                                           *)
(*                                                                         *)
(* Last, the safety property of Sequencer, for any sends.                  *)
(***************************************************************************)
EXTENDS Resubscriber, Sequencer, FiniteSetTheorems, TLAPS

\* Who may be where: one loop at a time, and no reorganization once a stop began.
Locks ==
  /\ \A i \in Invoker : at[i] = "loop" <=> invoke_mutex_ = i
  /\ at["organizer"] # "done" /\ at["strand"] # "done"
  /\ validation_mutex_ = "organizer" <=> at["organizer"] \in {"wait", "loop"}
  /\ validation_mutex_ = "stopper" <=> at["stopper"] \in {"wait", "loop"}
  /\ at["organizer"] # "idle" => at["stopper"] = "idle"
  /\ stopped_ <=> at["stopper"] # "idle"
  /\ at["strand"] # "idle" => relayed > 0

\* What a loop has in hand.
Hands ==
  /\ \A i \in Invoker : at[i] # "loop" => rest[i] = {}
  /\ \A i \in Invoker : calling[i] # None => calling[i] \in rest[i]
  /\ \A i \in Invoker : i # "stopper" /\ calling[i] \in Staying => keep[i]
  /\ calling["stopper"] # None => calling["stopper"] \in told
  /\ subscriptions_ \subseteq known
  /\ \A i \in Invoker : rest[i] \subseteq known
  /\ \A i \in Invoker : subscriptions_ \cap rest[i] = {}
  /\ \A h \in Handler \ known : heard[h] = 0

\* Before the stop, whoever stays is in a list.
Listed ==
  ~stopped_ => known \cap Staying \subseteq subscriptions_ \cup rest["organizer"] \cup rest["strand"]

\* After it, whoever would have stayed was told, will be, or is with the strand.
AfterStop ==
  /\ stopped_ => /\ known \cap Staying \subseteq told \cup caught \cup subscriptions_ \cup rest["stopper"]
                 /\ rest["strand"] \subseteq caught
  /\ at["stopper"] \in {"loop", "done"} => subscriptions_ = {} /\ rest["strand"] = {}

IInv == TypeOK /\ Locks /\ Hands /\ NoEventIsMissed /\ Listed /\ AfterStop

\* A new subscriber is in the list, or is told at once; it has missed nothing.
LEMMA SubscribeKeeps ==
  ASSUME IInv, NEW h \in Handler, Subscribe(h)
  PROVE  IInv'
<1> USE ResubscriberAssumption DEF IInv, Handler, Invoker
<1>1. TypeOK'
  BY DEF TypeOK, Subscribe, Locks, lists, locks, world, record
<1>2. Locks'
  BY DEF TypeOK, Subscribe, Locks, lists, locks, world, record
<1>3. Hands'
  BY DEF TypeOK, Subscribe, Locks, Hands, Staying, lists, locks, world, record
<1>4. NoEventIsMissed'
  BY DEF TypeOK, Subscribe, Locks, Hands, Listed, NoEventIsMissed, Staying, lists, locks, world, record
<1>5. Listed'
  BY DEF TypeOK, Subscribe, Locks, Hands, Listed, Staying, lists, locks, world, record
<1>6. AfterStop'
  BY DEF TypeOK, Subscribe, Locks, Hands, Listed, AfterStop, Staying, lists, locks, world, record
<1> QED BY <1>1, <1>2, <1>3, <1>4, <1>5, <1>6

\* A channel that stops only makes fewer handlers stay.
LEMMA CloseKeeps ==
  ASSUME IInv, NEW c \in Channel, Close(c)
  PROVE  IInv'
<1> USE ResubscriberAssumption DEF IInv, Handler, Invoker
<1>1. TypeOK'
  BY DEF TypeOK, Close, Locks, lists, locks, world, record
<1>2. Locks'
  BY DEF TypeOK, Close, Locks, lists, locks, world, record
<1>3. Hands'
  BY DEF TypeOK, Close, Locks, Hands, Staying, lists, locks, world, record
<1>4. NoEventIsMissed'
  BY DEF TypeOK, Close, Locks, Hands, Listed, NoEventIsMissed, Staying, lists, locks, world, record
<1>5. Listed'
  BY DEF TypeOK, Close, Locks, Hands, Listed, Staying, lists, locks, world, record
<1>6. AfterStop'
  BY DEF TypeOK, Close, Locks, Hands, Listed, AfterStop, Staying, lists, locks, world, record
<1> QED BY <1>1, <1>2, <1>3, <1>4, <1>5, <1>6

\* The organizer waits for the invoke mutex with no stop begun.
LEMMA NotifyKeeps ==
  ASSUME IInv, Notify
  PROVE  IInv'
<1> USE ResubscriberAssumption DEF IInv, Handler, Invoker
<1>1. TypeOK'
  BY DEF TypeOK, Notify, Locks, lists, locks, world, record
<1>2. Locks'
  BY DEF TypeOK, Notify, Locks, lists, locks, world, record
<1>3. Hands'
  BY DEF TypeOK, Notify, Locks, Hands, Staying, lists, locks, world, record
<1>4. NoEventIsMissed'
  BY DEF TypeOK, Notify, Locks, Hands, Listed, NoEventIsMissed, Staying, lists, locks, world, record
<1>5. Listed'
  BY DEF TypeOK, Notify, Locks, Hands, Listed, Staying, lists, locks, world, record
<1>6. AfterStop'
  BY DEF TypeOK, Notify, Locks, Hands, Listed, AfterStop, Staying, lists, locks, world, record
<1> QED BY <1>1, <1>2, <1>3, <1>4, <1>5, <1>6

\* The strand waits with its event still counted.
LEMMA UnsubscribeKeeps ==
  ASSUME IInv, Unsubscribe
  PROVE  IInv'
<1> USE ResubscriberAssumption DEF IInv, Handler, Invoker
<1>1. TypeOK'
  BY DEF TypeOK, Unsubscribe, Locks, lists, locks, world, record
<1>2. Locks'
  BY DEF TypeOK, Unsubscribe, Locks, lists, locks, world, record
<1>3. Hands'
  BY DEF TypeOK, Unsubscribe, Locks, Hands, Staying, lists, locks, world, record
<1>4. NoEventIsMissed'
  BY DEF TypeOK, Unsubscribe, Locks, Hands, Listed, NoEventIsMissed, Staying, lists, locks, world, record
<1>5. Listed'
  BY DEF TypeOK, Unsubscribe, Locks, Hands, Listed, Staying, lists, locks, world, record
<1>6. AfterStop'
  BY DEF TypeOK, Unsubscribe, Locks, Hands, Listed, AfterStop, Staying, lists, locks, world, record
<1> QED BY <1>1, <1>2, <1>3, <1>4, <1>5, <1>6

\* When the stop begins, whoever stays is listed or with the strand.
LEMMA StopKeeps ==
  ASSUME IInv, Stop
  PROVE  IInv'
<1> USE ResubscriberAssumption DEF IInv, Handler, Invoker
<1>1. TypeOK'
  BY DEF TypeOK, Stop, Locks, lists, locks, world, record
<1>2. Locks'
  BY DEF TypeOK, Stop, Locks, lists, locks, world, record
<1>3. Hands'
  BY DEF TypeOK, Stop, Locks, Hands, Staying, lists, locks, world, record
<1>4. NoEventIsMissed'
  BY DEF TypeOK, Stop, Locks, Hands, Listed, NoEventIsMissed, Staying, lists, locks, world, record
<1>5. Listed'
  BY DEF TypeOK, Stop, Locks, Hands, Listed, Staying, lists, locks, world, record
<1>6. AfterStop'
  BY DEF TypeOK, Stop, Locks, Hands, Listed, AfterStop, Staying, lists, locks, world, record
<1> QED BY <1>1, <1>2, <1>3, <1>4, <1>5, <1>6

\* The loop that takes the list takes all of it: no other has a handler in hand.
LEMMA TakeKeeps ==
  ASSUME IInv, NEW i \in Invoker, Take(i)
  PROVE  IInv'
<1> USE ResubscriberAssumption DEF IInv, Handler, Invoker
<1>1. TypeOK'
  BY DEF TypeOK, Take, Locks, lists, locks, world, record
<1>2. Locks'
  BY DEF TypeOK, Take, Locks, lists, locks, world, record
<1>3. Hands'
  BY DEF TypeOK, Take, Locks, Hands, Staying, lists, locks, world, record
<1>4. NoEventIsMissed'
  BY DEF TypeOK, Take, Locks, Hands, Listed, NoEventIsMissed, Staying, lists, locks, world, record
<1>5. Listed'
  BY DEF TypeOK, Take, Locks, Hands, Listed, Staying, lists, locks, world, record
<1>6. AfterStop'
  BY DEF TypeOK, Take, Locks, Hands, Listed, AfterStop, Staying, lists, locks, world, record
<1> QED BY <1>1, <1>2, <1>3, <1>4, <1>5, <1>6

\* A call moves a handler from what is due to what was heard.
LEMMA CallKeeps ==
  ASSUME IInv, NEW i \in Invoker, NEW h \in Handler, Call(i, h)
  PROVE  IInv'
<1> USE ResubscriberAssumption DEF IInv, Handler, Invoker
<1>1. TypeOK'
  BY DEF TypeOK, Call, Answer, Locks, lists, locks, world, record
<1>2. Locks'
  BY DEF TypeOK, Call, Answer, Locks, lists, locks, world, record
<1>3. Hands'
  BY DEF TypeOK, Call, Answer, Locks, Hands, Staying, lists, locks, world, record
<1>4. NoEventIsMissed'
  BY DEF TypeOK, Call, Answer, Locks, Hands, Listed, NoEventIsMissed, Staying, lists, locks, world, record
<1>5. Listed'
  BY DEF TypeOK, Call, Answer, Locks, Hands, Listed, Staying, lists, locks, world, record
<1>6. AfterStop'
  BY DEF TypeOK, Call, Answer, Locks, Hands, Listed, AfterStop, Staying, lists, locks, world, record
<1> QED BY <1>1, <1>2, <1>3, <1>4, <1>5, <1>6

\* A handler that stays is listed again, unless the stop has begun.
LEMMA RenewKeeps ==
  ASSUME IInv, NEW i \in Invoker, Renew(i)
  PROVE  IInv'
<1> USE ResubscriberAssumption DEF IInv, Handler, Invoker
<1>1. TypeOK'
  BY DEF TypeOK, Renew, Locks, lists, locks, world, record
<1>2. Locks'
  BY DEF TypeOK, Renew, Locks, lists, locks, world, record
<1>3. Hands'
  BY DEF TypeOK, Renew, Locks, Hands, Staying, lists, locks, world, record
<1>4. NoEventIsMissed'
  BY DEF TypeOK, Renew, Locks, Hands, Listed, NoEventIsMissed, Staying, lists, locks, world, record
<1>5. Listed'
  BY DEF TypeOK, Renew, Locks, Hands, Listed, Staying, lists, locks, world, record
<1>6. AfterStop'
  BY DEF TypeOK, Renew, Locks, Hands, Listed, AfterStop, Staying, lists, locks, world, record
<1> QED BY <1>1, <1>2, <1>3, <1>4, <1>5, <1>6

\* A loop that ends has nothing in hand.
LEMMA LeaveKeeps ==
  ASSUME IInv, NEW i \in Invoker, Leave(i)
  PROVE  IInv'
<1> USE ResubscriberAssumption DEF IInv, Handler, Invoker
<1>1. TypeOK'
  BY DEF TypeOK, Leave, Locks, lists, locks, world, record
<1>2. Locks'
  BY DEF TypeOK, Leave, Locks, lists, locks, world, record
<1>3. Hands'
  BY DEF TypeOK, Leave, Locks, Hands, Staying, lists, locks, world, record
<1>4. NoEventIsMissed'
  BY DEF TypeOK, Leave, Locks, Hands, Listed, NoEventIsMissed, Staying, lists, locks, world, record
<1>5. Listed'
  BY DEF TypeOK, Leave, Locks, Hands, Listed, Staying, lists, locks, world, record
<1>6. AfterStop'
  BY DEF TypeOK, Leave, Locks, Hands, Listed, AfterStop, Staying, lists, locks, world, record
<1> QED BY <1>1, <1>2, <1>3, <1>4, <1>5, <1>6
-----------------------------------------------------------------------------

\* Nothing is subscribed, called or stopped at first.
LEMMA InitHolds == Init => IInv
<1> SUFFICES ASSUME Init PROVE IInv
  OBVIOUS
<1>1. /\ \A i \in Invoker : at[i] = "idle" /\ rest[i] = {} /\ calling[i] = None
      /\ {"organizer", "strand", "stopper"} = Invoker
  BY DEF Init, Invoker
<1>2. TypeOK
  <2>1. /\ at \in [Invoker -> {"idle", "wait", "loop", "done"}]
        /\ rest \in [Invoker -> SUBSET Handler]
        /\ calling \in [Invoker -> Handler \cup {None}]
    BY DEF Init
  <2>2. keep \in [Invoker -> BOOLEAN]
    BY Zenon DEF Init
  <2>3. {since, heard} \subseteq [Handler -> Nat]
    BY DEF Init
  <2> QED BY <2>1, <2>2, <2>3 DEF Init, TypeOK, Invoker, Handler
<1>3. Locks
  BY <1>1 DEF Init, Locks
<1>4. Hands
  BY <1>1, ResubscriberAssumption DEF Init, Hands, Staying, Handler
<1>5. NoEventIsMissed /\ Listed /\ AfterStop
  BY <1>1 DEF Init, NoEventIsMissed, Listed, AfterStop
<1> QED BY <1>2, <1>3, <1>4, <1>5 DEF IInv

\* Every step keeps the invariant.
LEMMA StepKeeps == IInv /\ [Next]_vars => IInv'
<1> SUFFICES ASSUME IInv, [Next]_vars PROVE IInv'
  OBVIOUS
<1>1. ASSUME NEW h \in Handler, Subscribe(h) PROVE IInv'
  BY <1>1, SubscribeKeeps
<1>2. ASSUME NEW c \in Channel, Close(c) PROVE IInv'
  BY <1>2, CloseKeeps
<1>3. CASE Notify
  BY <1>3, NotifyKeeps
<1>4. CASE Unsubscribe
  BY <1>4, UnsubscribeKeeps
<1>5. CASE Stop
  BY <1>5, StopKeeps
<1>6. ASSUME NEW i \in Invoker, Invoke(i) PROVE IInv'
  <2>1. CASE Take(i)
    BY <2>1, TakeKeeps
  <2>2. ASSUME NEW h \in Handler, Call(i, h) PROVE IInv'
    BY <2>2, CallKeeps
  <2>3. CASE Renew(i)
    BY <2>3, RenewKeeps
  <2>4. CASE Leave(i)
    BY <2>4, LeaveKeeps
  <2> QED BY <1>6, <2>1, <2>2, <2>3, <2>4 DEF Invoke
<1>7. CASE UNCHANGED vars
  BY <1>7 DEF IInv, TypeOK, Locks, Hands, NoEventIsMissed, Listed, AfterStop, Staying,
              vars, lists, locks, world, record
<1> QED BY <1>1, <1>2, <1>3, <1>4, <1>5, <1>6, <1>7 DEF Next

\* The invariant holds in every state.
THEOREM ResubscriberInvariant == Spec => []IInv
<1> QED BY InitHolds, StepKeeps, PTL DEF Spec

\* Every variable keeps its type.
THEOREM ResubscriberTypes == Spec => []TypeOK
<1>1. IInv => TypeOK
  BY DEF IInv
<1> QED BY <1>1, ResubscriberInvariant, PTL

\* A handler that stays hears every reorganization exactly once, however the
\* loops of do_invoke empty the list and fill it again.
THEOREM EveryEventIsHeard == Spec => []NoEventIsMissed
<1>1. IInv => NoEventIsMissed
  BY DEF IInv
<1> QED BY <1>1, ResubscriberInvariant, PTL

\* The destructor's assertion: from the end of the stop on the list is empty.
THEOREM StopClears == Spec => []ClearedByStop
<1>1. IInv => ClearedByStop
  BY DEF IInv, Locks, Hands, AfterStop, ClearedByStop, Held, Invoker
<1> QED BY <1>1, ResubscriberInvariant, PTL

\* Only an empty event of a stopped channel can cost a handler the stop.
THEOREM MissingTheStop == Spec => []OnlyTheCaughtMissStop
<1>1. IInv => OnlyTheCaughtMissStop
  BY DEF IInv, Locks, Hands, AfterStop, OnlyTheCaughtMissStop, Invoker
<1> QED BY <1>1, ResubscriberInvariant, PTL

-----------------------------------------------------------------------------
(* The other place where callbacks are handed on one after the other is the    *)
(* sequencer of the sends of a channel.                                        *)

Holding == {"taken", "posted", "writing", "written", "failed"}
IsOut(m) == place[m] \in {"taken", "posted", "writing"}

\* One send holds the sequencer, from its lock to the unlock of its handler; the
\* others wait in the queue, each once.
Queue ==
  /\ \A i \in DOMAIN actions : place[actions[i]] = "queued"
  /\ \A i, j \in DOMAIN actions : actions[i] = actions[j] => i = j
  /\ \A m, n \in Message : place[m] \in Holding /\ place[n] \in Holding => m = n
  /\ ~executing => actions = <<>> /\ \A m \in Message : place[m] \notin Holding
  /\ \A m \in Message : place[m] = "failed" => broken

\* Until a write fails the calls are what was written, the one that is out and the
\* queue; nothing is written after it.
Written ==
  /\ Len(wire) <= Len(order)
  /\ \A i \in DOMAIN wire : wire[i] = order[i]
  /\ ~broken =>
       /\ \A m \in Message : IsOut(m) =>
            Len(order) = Len(wire) + 1 + Len(actions) /\ order[Len(wire) + 1] = m
       /\ (\A m \in Message : ~IsOut(m)) => Len(order) = Len(wire) + Len(actions)
       /\ \A i \in DOMAIN actions : order[Len(order) - Len(actions) + i] = actions[i]

InOrder == SendingTypeOK /\ Queue /\ Written

\* Steps that only move one send within the places where it is out, or outside of
\* those where it is held.
LEMMA MovesKeep ==
  ASSUME InOrder, NEW m \in Message, NEW from, NEW to \in Places,
         Moves(m, from, to),
         \/ {from, to} \subseteq {"taken", "posted", "writing"}
         \/ {from, to} \cap (Holding \cup {"queued"}) = {},
         UNCHANGED <<actions, executing, wire, order>>,
         broken' = broken, stopped' \in BOOLEAN, shut' \in BOOLEAN, working' \in BOOLEAN
  PROVE  InOrder'
<1>1. /\ place[m] = from /\ place' \in [Message -> Places]
      /\ place'[m] = to /\ \A n \in Message \ {m} : place'[n] = place[n]
  BY DEF InOrder, SendingTypeOK, Moves
<1>2. SendingTypeOK'
  BY <1>1 DEF InOrder, SendingTypeOK
<1>3. \A n \in Message : /\ place'[n] \in Holding <=> place[n] \in Holding
                         /\ IsOut(n)' <=> IsOut(n)
                         /\ place[n] = "queued" => place'[n] = "queued"
                         /\ place'[n] = "failed" => place[n] = "failed"
  BY <1>1 DEF Holding, IsOut
<1>4. \A i \in DOMAIN actions : actions[i] \in Message
  BY DEF InOrder, SendingTypeOK
<1>5. Queue'
  BY <1>3, <1>4 DEF InOrder, Queue
<1>6. Written'
  BY <1>3 DEF InOrder, Written
<1>. QED  BY <1>2, <1>5, <1>6 DEF InOrder

\* sequencer::lock.
LEMMA LockKeeps ==
  ASSUME InOrder, NEW m \in Message, Lock(m) PROVE InOrder'
<1>1. /\ place[m] = "new" /\ place' \in [Message -> Places]
      /\ place'[m] = (IF executing THEN "queued" ELSE "taken")
      /\ \A n \in Message \ {m} : place'[n] = place[n]
      /\ executing' = TRUE /\ UNCHANGED <<wire, broken, stopped, shut, working>>
  BY DEF InOrder, SendingTypeOK, Lock, Moves, Places, socketVars
<1>2. /\ order \in Seq(Message) /\ actions \in Seq(Message) /\ wire \in Seq(Message)
      /\ executing \in BOOLEAN
  BY DEF InOrder, SendingTypeOK
<1>3. /\ order' \in Seq(Message) /\ Len(order') = Len(order) + 1
      /\ order'[Len(order) + 1] = m
      /\ \A i \in 1..Len(order) : order'[i] = order[i]
  BY <1>2 DEF Lock
<1>6. /\ Len(wire) \in Nat /\ Len(order) \in Nat /\ Len(actions) \in Nat
      /\ Len(wire) <= Len(order) /\ \A i \in 1..Len(wire) : wire[i] = order[i]
  BY <1>2 DEF InOrder, Written
<1>7. Len(wire)' <= Len(order)' /\ \A i \in DOMAIN wire' : wire'[i] = order'[i]
  <2>1. \A i \in 1..Len(wire) : i \in 1..Len(order)
    BY <1>6
  <2>2. wire' = wire /\ DOMAIN wire = 1..Len(wire)
    BY <1>1, <1>2
  <2>. QED  BY <1>3, <1>6, <2>1, <2>2
<1>4. CASE executing
  <2>1. /\ actions' \in Seq(Message) /\ Len(actions') = Len(actions) + 1
        /\ actions'[Len(actions) + 1] = m
        /\ \A i \in 1..Len(actions) : actions'[i] = actions[i]
    BY <1>2, <1>4 DEF Lock
  <2>2. \A n \in Message : (place'[n] \in Holding <=> place[n] \in Holding)
                           /\ (IsOut(n)' <=> IsOut(n))
                           /\ (place'[n] = "failed" => place[n] = "failed")
    BY <1>1, <1>4 DEF Holding, IsOut
  <2>3. \A i \in 1..Len(actions) : actions[i] \in Message /\ actions[i] # m
                                   /\ place'[actions[i]] = "queued"
    BY <1>1, <1>2 DEF InOrder, Queue
  <2>4. Queue'
    <3>1. \A i \in DOMAIN actions' : place'[actions'[i]] = "queued"
      BY <1>1, <1>2, <1>4, <2>1, <2>3
    <3>2. ASSUME NEW i \in DOMAIN actions', NEW j \in DOMAIN actions', actions'[i] = actions'[j]
          PROVE  i = j
      <4>1. (i = Len(actions) + 1 \/ i \in 1..Len(actions))
            /\ (j = Len(actions) + 1 \/ j \in 1..Len(actions))
        BY <1>2, <2>1
      <4>2. i \in 1..Len(actions) /\ j \in 1..Len(actions) => i = j
        BY <1>2, <2>1, <3>2 DEF InOrder, Queue
      <4>. QED  BY <2>1, <2>3, <3>2, <4>1, <4>2
    <3>. QED  BY <1>1, <2>2, <3>1, <3>2 DEF InOrder, Queue
  <2>5. Written'
    <3>2. ASSUME ~broken
          PROVE  /\ \A n \in Message : IsOut(n)' =>
                      Len(order') = Len(wire') + 1 + Len(actions') /\ order'[Len(wire') + 1] = n
                 /\ (\A n \in Message : ~IsOut(n)') => Len(order') = Len(wire') + Len(actions')
      <4>1. ASSUME NEW n \in Message, IsOut(n)
            PROVE  Len(order') = Len(wire) + 1 + Len(actions') /\ order'[Len(wire) + 1] = n
        <5>1. Len(order) = Len(wire) + 1 + Len(actions) /\ order[Len(wire) + 1] = n
          BY <3>2, <4>1 DEF InOrder, Written
        <5>2. Len(wire) + 1 \in 1..Len(order)
          BY <1>6, <5>1
        <5>. QED  BY <1>3, <1>6, <2>1, <5>1, <5>2
      <4>2. ASSUME \A n \in Message : ~IsOut(n) PROVE Len(order') = Len(wire) + Len(actions')
        <5>1. Len(order) = Len(wire) + Len(actions)
          BY <3>2, <4>2 DEF InOrder, Written
        <5>. QED  BY <1>3, <1>6, <2>1, <5>1
      <4>. QED  BY <1>1, <2>2, <4>1, <4>2
    <3>3. ASSUME ~broken, NEW i \in DOMAIN actions'
          PROVE  order'[Len(order') - Len(actions') + i] = actions'[i]
      <4>1. CASE i = Len(actions) + 1
        BY <1>2, <1>3, <2>1, <4>1
      <4>2. CASE i \in 1..Len(actions)
        <5>1. /\ order[Len(order) - Len(actions) + i] = actions[i]
              /\ Len(actions) <= Len(order)
          BY <1>2, <3>3, <4>2 DEF InOrder, Written
        <5>2. Len(order) - Len(actions) + i \in 1..Len(order)
          BY <1>2, <4>2, <5>1
        <5>3. Len(order') - Len(actions') + i = Len(order) - Len(actions) + i
          BY <1>2, <1>3, <2>1, <4>2
        <5>. QED  BY <1>3, <2>1, <4>2, <5>1, <5>2, <5>3
      <4>. QED  BY <1>2, <2>1, <4>1, <4>2
    <3>. QED  BY <1>1, <1>7, <3>2, <3>3 DEF Written
  <2>. QED  BY <1>1, <1>2, <1>3, <2>1, <2>4, <2>5 DEF InOrder, SendingTypeOK
<1>5. CASE ~executing
  <2>1. actions' = actions /\ actions = <<>> /\ \A n \in Message : place[n] \notin Holding
    BY <1>5 DEF Lock, InOrder, Queue
  <2>2. \A n \in Message : (place'[n] \in Holding => n = m) /\ (IsOut(n)' <=> n = m)
                           /\ place'[n] # "failed"
    BY <1>1, <1>5, <2>1 DEF Holding, IsOut
  <2>3. Queue'
    BY <1>1, <2>1, <2>2 DEF Queue
  <2>4. Written'
    <3>2. ~broken => Len(order) = Len(wire)
      <4>1. \A n \in Message : ~IsOut(n)
        BY <2>1 DEF Holding, IsOut
      <4>. QED  BY <1>2, <2>1, <4>1 DEF InOrder, Written
    <3>. QED  BY <1>1, <1>3, <1>6, <1>7, <2>1, <2>2, <3>2 DEF Written
  <2>. QED  BY <1>1, <1>2, <1>3, <2>1, <2>3, <2>4 DEF InOrder, SendingTypeOK
<1>. QED  BY <1>2, <1>4, <1>5

\* A write that ended is the next of the calls.
LEMMA WriteKeeps ==
  ASSUME InOrder, NEW m \in Message, WriteEnds(m) PROVE InOrder'
<1>1. /\ ~broken /\ place[m] = "writing" /\ place' \in [Message -> Places]
      /\ place'[m] = "written" /\ \A n \in Message \ {m} : place'[n] = place[n]
      /\ UNCHANGED <<actions, executing, broken, stopped, shut, working, order>>
  BY DEF InOrder, SendingTypeOK, WriteEnds, Moves, Places
<1>2. /\ order \in Seq(Message) /\ actions \in Seq(Message) /\ wire \in Seq(Message)
  BY DEF InOrder, SendingTypeOK
<1>3. /\ wire' \in Seq(Message) /\ Len(wire') = Len(wire) + 1
      /\ wire'[Len(wire) + 1] = m
      /\ \A i \in 1..Len(wire) : wire'[i] = wire[i]
  BY <1>2 DEF WriteEnds
<1>4. \A n \in Message : /\ place'[n] \in Holding <=> place[n] \in Holding
                         /\ IsOut(n) => n = m
                         /\ ~IsOut(n)'
                         /\ place[n] = "queued" => place'[n] = "queued"
                         /\ place'[n] = "failed" => place[n] = "failed"
  BY <1>1 DEF InOrder, Queue, Holding, IsOut
<1>5. \A i \in DOMAIN actions : actions[i] \in Message
  BY <1>2
<1>6. Queue'
  BY <1>1, <1>4, <1>5 DEF InOrder, Queue
<1>7. Len(order) = Len(wire) + 1 + Len(actions) /\ order[Len(wire) + 1] = m
      /\ Len(wire) \in Nat /\ Len(order) \in Nat /\ Len(actions) \in Nat
  BY <1>1, <1>2 DEF InOrder, Written, IsOut
<1>8. \A i \in DOMAIN wire' : wire'[i] = order[i]
  <2>1. ASSUME NEW i \in 1..Len(wire) + 1 PROVE wire'[i] = order[i]
    <3>1. i = Len(wire) + 1 \/ i \in 1..Len(wire)
      BY <1>7
    <3>2. i \in 1..Len(wire) => wire[i] = order[i]
      BY <1>2 DEF InOrder, Written
    <3>. QED  BY <1>3, <1>7, <3>1, <3>2
  <2>. QED  BY <1>3, <2>1
<1>9. \A i \in DOMAIN actions : order[Len(order) - Len(actions) + i] = actions[i]
  BY <1>1 DEF InOrder, Written
<1>10. Written'
  BY <1>1, <1>3, <1>4, <1>7, <1>8, <1>9 DEF Written
<1>. QED  BY <1>1, <1>2, <1>3, <1>6, <1>10 DEF InOrder, SendingTypeOK

\* A write that failed is the last.
LEMMA FailureKeeps ==
  ASSUME InOrder, NEW m \in Message, WriteFails(m) PROVE InOrder'
<1>1. /\ place[m] = "writing" /\ place' \in [Message -> Places]
      /\ place'[m] = "failed" /\ \A n \in Message \ {m} : place'[n] = place[n]
      /\ broken' = TRUE /\ UNCHANGED <<actions, executing, wire, stopped, shut, working, order>>
  BY DEF InOrder, SendingTypeOK, WriteFails, Moves, Places
<1>2. \A n \in Message : /\ place'[n] \in Holding <=> place[n] \in Holding
                         /\ place[n] = "queued" => place'[n] = "queued"
  BY <1>1 DEF Holding
<1>3. \A i \in DOMAIN actions : actions[i] \in Message
  BY DEF InOrder, SendingTypeOK
<1>4. Queue'
  BY <1>1, <1>2, <1>3 DEF InOrder, Queue
<1>5. Written'
  BY <1>1 DEF InOrder, Written
<1>. QED  BY <1>1, <1>4, <1>5 DEF InOrder, SendingTypeOK

\* sequencer::unlock lets out the head of the queue, the next of the calls.
LEMMA UnlockKeeps ==
  ASSUME InOrder, NEW m \in Message, Unlock(m) PROVE InOrder'
<1>0. /\ order \in Seq(Message) /\ actions \in Seq(Message) /\ wire \in Seq(Message)
      /\ place \in [Message -> Places]
      /\ place[m] \in {"written", "failed"} /\ UNCHANGED <<wire, broken, stopped, shut, working, order>>
      /\ Len(wire) \in Nat /\ Len(order) \in Nat /\ Len(actions) \in Nat
  BY DEF InOrder, SendingTypeOK, Unlock, socketVars
<1>1. \A n \in Message : /\ place[n] \in Holding => n = m
                         /\ ~IsOut(n)
  BY <1>0 DEF InOrder, Queue, Holding, IsOut
<1>2. ~broken => Len(order) = Len(wire) + Len(actions)
  BY <1>1 DEF InOrder, Written
<1>3. CASE actions = <<>>
  <2>1. /\ executing' = FALSE /\ actions' = actions
        /\ place' = [place EXCEPT ![m] = "unlocked"] /\ place' \in [Message -> Places]
    BY <1>0, <1>3 DEF Unlock, Places
  <2>2. \A n \in Message : place'[n] \notin Holding /\ ~IsOut(n)' /\ place'[n] # "failed"
    BY <1>0, <1>1, <2>1 DEF Holding, IsOut
  <2>3. Queue'
    BY <1>3, <2>1, <2>2 DEF Queue
  <2>4. Written'
    BY <1>0, <1>2, <1>3, <2>1, <2>2 DEF InOrder, Written
  <2>. QED  BY <1>0, <2>1, <2>3, <2>4 DEF InOrder, SendingTypeOK
<1>4. CASE actions # <<>>
  <2>0. PICK h \in Message : h = actions[1] /\ h = Head(actions) /\ place[h] = "queued"
    BY <1>0, <1>4 DEF InOrder, Queue
  <2>1. /\ executing' = executing /\ actions' = Tail(actions)
        /\ place' = [place EXCEPT ![m] = "unlocked", ![h] = "taken"]
        /\ place' \in [Message -> Places]
    BY <1>0, <1>4, <2>0 DEF Unlock, Places
  <2>2. /\ actions' \in Seq(Message) /\ Len(actions') = Len(actions) - 1 /\ Len(actions) >= 1
        /\ \A i \in 1..Len(actions) - 1 : actions'[i] = actions[i + 1]
    BY <1>0, <1>4, <2>1
  <2>3. /\ h # m /\ place'[h] = "taken" /\ place'[m] = "unlocked"
        /\ \A n \in Message \ {h, m} : place'[n] = place[n]
    BY <1>0, <2>0, <2>1
  <2>4. \A n \in Message : /\ place'[n] \in Holding => n = h
                           /\ IsOut(n)' <=> n = h
                           /\ place'[n] # "failed"
    BY <1>1, <2>3 DEF Holding, IsOut
  <2>5. \A i \in 1..Len(actions) - 1 :
          actions[i + 1] \in Message \ {h} /\ place[actions[i + 1]] = "queued"
    <3>1. ASSUME NEW i \in 1..Len(actions) - 1
          PROVE  actions[i + 1] \in Message \ {h} /\ place[actions[i + 1]] = "queued"
      <4>1. i + 1 \in DOMAIN actions /\ 1 \in DOMAIN actions /\ i + 1 # 1
        BY <1>0, <2>2
      <4>. QED  BY <1>0, <2>0, <4>1 DEF InOrder, Queue
    <3>. QED  BY <3>1
  <2>6. Queue'
    <3>1. \A i \in DOMAIN actions' : place'[actions'[i]] = "queued"
      <4>1. ASSUME NEW i \in 1..Len(actions) - 1 PROVE place'[actions'[i]] = "queued"
        BY <1>0, <2>2, <2>3, <2>5
      <4>. QED  BY <2>2, <4>1
    <3>2. \A i, j \in DOMAIN actions' : actions'[i] = actions'[j] => i = j
      <4>1. ASSUME NEW i \in 1..Len(actions) - 1, NEW j \in 1..Len(actions) - 1,
                   actions[i + 1] = actions[j + 1]
            PROVE  i = j
        <5>1. i + 1 \in DOMAIN actions /\ j + 1 \in DOMAIN actions
          BY <1>0
        <5>2. i + 1 = j + 1
          BY <4>1, <5>1 DEF InOrder, Queue
        <5>. QED  BY <5>2
      <4>. QED  BY <2>2, <4>1
    <3>3. executing'
      BY <1>4, <2>1 DEF InOrder, Queue
    <3>. QED  BY <2>4, <3>1, <3>2, <3>3 DEF Queue
  <2>7. Written'
    <3>1. Len(wire)' <= Len(order)' /\ \A i \in DOMAIN wire' : wire'[i] = order'[i]
      BY <1>0 DEF InOrder, Written
    <3>2. ASSUME ~broken
          PROVE  Len(order) = Len(wire) + 1 + Len(actions') /\ order[Len(wire) + 1] = h
      <4>1. order[Len(order) - Len(actions) + 1] = actions[1]
        <5>1. 1 \in DOMAIN actions
          BY <1>0, <2>2
        <5>. QED  BY <3>2, <5>1 DEF InOrder, Written
      <4>2. Len(order) = Len(wire) + Len(actions)
        BY <1>2, <3>2
      <4>3. Len(order) - Len(actions) + 1 = Len(wire) + 1
        BY <1>0, <4>2
      <4>4. Len(order) = Len(wire) + 1 + Len(actions')
        BY <1>0, <2>2, <4>2
      <4>. QED  BY <2>0, <4>1, <4>3, <4>4
    <3>3. ASSUME ~broken, NEW i \in 1..Len(actions) - 1
          PROVE  order[Len(order) - Len(actions') + i] = actions'[i]
      <4>1. i + 1 \in DOMAIN actions
        BY <1>0
      <4>2. order[Len(order) - Len(actions) + (i + 1)] = actions[i + 1]
        BY <3>3, <4>1 DEF InOrder, Written
      <4>3. Len(order) - Len(actions') + i = Len(order) - Len(actions) + (i + 1)
        BY <1>0, <2>2
      <4>. QED  BY <2>2, <4>2, <4>3
    <3>4. \A i \in DOMAIN actions' : ~broken =>
            order[Len(order) - Len(actions') + i] = actions'[i]
      BY <2>2, <3>3
    <3>5. /\ \A n \in Message : IsOut(n)' => n = h
          /\ ~\A n \in Message : ~IsOut(n)'
      BY <2>4
    <3>6. order' = order /\ wire' = wire /\ broken' = broken
      BY <1>0
    <3>. QED  BY <3>1, <3>2, <3>4, <3>5, <3>6 DEF Written
  <2>. QED  BY <1>0, <2>1, <2>2, <2>6, <2>7 DEF InOrder, SendingTypeOK
<1>. QED  BY <1>3, <1>4

\* Every step of the sends keeps the calls in line.
LEMMA InOrderStep ==
  ASSUME InOrder, [SendingNext]_(sending_vars) PROVE InOrder'
<1>1. ASSUME NEW m \in Message, Post(m) \/ DoSend(m) \/ HandleSend(m)
                                \/ HandleStopped(m)
      PROVE  InOrder'
  <2>1. {stopped, shut, working, broken} \subseteq BOOLEAN
    BY DEF InOrder, SendingTypeOK
  <2>2. CASE Post(m)
    <3>1. Moves(m, "taken", "posted") /\ "posted" \in Places
      BY <2>2 DEF Post, Places
    <3>. QED  BY <2>1, <2>2, <3>1, MovesKeep DEF Post, socketVars
  <2>3. CASE DoSend(m)
    <3>1. Moves(m, "posted", "writing") /\ "writing" \in Places
      BY <2>3 DEF DoSend, Places
    <3>. QED  BY <2>1, <2>3, <3>1, MovesKeep DEF DoSend, socketVars
  <2>4. CASE HandleSend(m)
    <3>1. PICK to \in {"stopping", "answered"} : Moves(m, "unlocked", to)
      BY <2>4 DEF HandleSend
    <3>2. to \in Places /\ {"unlocked", to} \cap (Holding \cup {"queued"}) = {}
      BY DEF Places, Holding
    <3>3. stopped' \in BOOLEAN
      BY <2>1, <2>4 DEF HandleSend, Fails
    <3>. QED  BY <2>1, <2>4, <3>1, <3>2, <3>3, MovesKeep DEF HandleSend
  <2>5. CASE HandleStopped(m)
    <3>1. Moves(m, "stopping", "answered") /\ "answered" \in Places
          /\ {"stopping", "answered"} \cap (Holding \cup {"queued"}) = {}
      BY <2>5 DEF HandleStopped, Places, Holding
    <3>. QED  BY <2>1, <2>5, <3>1, MovesKeep DEF HandleStopped, socketVars
  <2>. QED  BY <1>1, <2>2, <2>3, <2>4, <2>5
<1>2. CASE StopSending \/ Shutdown \/ Abort \/ UNCHANGED sending_vars
  <2>1. /\ UNCHANGED <<place, actions, executing, wire, broken, order>>
        /\ stopped' \in BOOLEAN /\ shut' \in BOOLEAN /\ working' \in BOOLEAN
    <3>1. {stopped, shut, working} \subseteq BOOLEAN
      BY DEF InOrder, SendingTypeOK
    <3>. QED  BY <1>2, <3>1 DEF StopSending, Shutdown, Abort, sending_vars, socketVars
  <2>2. SendingTypeOK'
    BY <2>1 DEF InOrder, SendingTypeOK
  <2>3. Queue'
    BY <2>1 DEF InOrder, Queue
  <2>4. Written'
    BY <2>1 DEF InOrder, Written, IsOut
  <2>. QED  BY <2>2, <2>3, <2>4 DEF InOrder
<1>. QED  BY <1>1, <1>2, LockKeeps, WriteKeeps, FailureKeeps, UnlockKeeps
          DEF SendingNext, Handling

\* The sends of a channel, however many there are and whichever thread they come
\* from, are written one at a time and in the order in which the sequencer took the
\* calls (dispatcher::lock), up to the first write that fails.
THEOREM SendsAreInOrder == SendingSpec => []WireIsInOrder
<1>1. SendingInit => InOrder
  <2>1. SUFFICES ASSUME SendingInit PROVE InOrder
    OBVIOUS
  <2>2. /\ place = [m \in Message |-> "new"] /\ actions = <<>> /\ wire = <<>> /\ order = <<>>
        /\ executing = FALSE /\ broken = FALSE
    BY <2>1 DEF SendingInit
  <2>3. \A m \in Message : place[m] \notin Holding /\ ~IsOut(m) /\ place[m] # "failed"
    BY <2>2 DEF Holding, IsOut
  <2>4. SendingTypeOK
    <3>1. place \in [Message -> Places]
      BY <2>2 DEF Places
    <3>2. actions \in Seq(Message) /\ wire \in Seq(Message) /\ order \in Seq(Message)
      BY <2>2
    <3>3. {executing, broken, stopped, shut, working} \subseteq BOOLEAN
      BY <2>1 DEF SendingInit
    <3>. QED  BY <3>1, <3>2, <3>3 DEF SendingTypeOK
  <2>5. Queue
    BY <2>2, <2>3 DEF Queue
  <2>6. Written
    BY <2>2, <2>3 DEF Written
  <2>. QED  BY <2>4, <2>5, <2>6 DEF InOrder
<1>2. InOrder /\ [SendingNext]_(sending_vars) => InOrder'
  BY InOrderStep
<1>3. InOrder => WireIsInOrder
  <2>1. SUFFICES ASSUME InOrder PROVE WireIsInOrder
    OBVIOUS
  <2>2. Cardinality(Out) <= 1
    <3>1. \A m, n \in Out : m = n
      BY <2>1 DEF InOrder, Queue, Holding, Out
    <3>2. CASE Out = {}
      BY <3>2, FS_EmptySet
    <3>3. CASE Out # {}
      <4>1. PICK m : Out = {m}
        BY <3>1, <3>3
      <4>2. Cardinality({m}) = 1
        BY FS_Singleton
      <4>. QED  BY <4>1, <4>2
    <3>. QED  BY <3>2, <3>3
  <2>3. IsPrefix(wire, order)
    <3>1. /\ wire \in Seq(Message) /\ order \in Seq(Message)
          /\ Len(wire) \in Nat /\ Len(order) \in Nat /\ Len(wire) <= Len(order)
          /\ \A i \in 1..Len(wire) : wire[i] = order[i]
      BY <2>1 DEF InOrder, SendingTypeOK, Written
    <3>2. SubSeq(wire, 1, Len(wire)) = SubSeq(order, 1, Len(wire))
      BY <3>1
    <3>. QED  BY <3>1, <3>2 DEF IsPrefix
  <2>4. Cardinality(Out) = Cardinality(Out)
    BY Zenon DEF Cardinality, Cardinality
  <2>5. IsPrefix(wire, order) <=> IsPrefix(wire, order)
    BY DEF IsPrefix, IsPrefix
  <2>. QED  BY <2>2, <2>3, <2>4, <2>5 DEF WireIsInOrder
<1>. QED  BY <1>1, <1>2, <1>3, PTL DEF SendingSpec
=============================================================================
