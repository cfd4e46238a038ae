--------------------------- MODULE Resubscriber ---------------------------
(***************************************************************************)
(* The resubscriber of the block organizer: those who want to hear of      *)
(* reorganizations, and of the stop, leave a handler with it, and the      *)
(* handler's answer says whether it stays.                                 *)
(*                                                                         *)
(* Three threads call the handlers, each a whole list at a time: the       *)
(* organizer with its blocks, the strand with the empty event by which a   *)
(* stopped channel asks to be forgotten, and block_chain::stop.  The order *)
(* of a list is left out: a list is the set of its handlers.               *)
(***************************************************************************)
EXTENDS Integers

CONSTANTS
  Channel,    \* channels, each with the handler of its protocol_block_out
  App,        \* handlers that stay until the stop: full_node's, an application's
  None,
  MaxBlocks   \* bound: reorganizations

ASSUME ResubscriberAssumption ==
  /\ Channel \cap App = {}
  /\ None \notin Channel \cup App
  /\ MaxBlocks \in Nat

Handler == Channel \cup App
Invoker == {"organizer", "strand", "stopper"}

VARIABLES
  stopped_,           \* of the resubscriber
  subscriptions_,     \* the member list
  invoke_mutex_,      \* who runs do_invoke, or "none"
  validation_mutex_,  \* who holds block_chain's mutex
  at,                 \* where each invoker is
  rest,               \* its temporary list, less the handlers it is done with
  calling,            \* the handler it has called, not yet renewed or dropped
  keep,               \* what that handler returned
  relayed,            \* relay: empty events that wait in the strand
  open,               \* channels that are not stopped
  known,              \* handlers that have been subscribed
  blocks,             \* reorganizations notified
  since,              \* how many there had been when a handler was subscribed
  heard,              \* how many a handler was called with
  told,               \* handlers called with service_stopped
  caught              \* handlers the strand had in hand once stop was set

lists == <<subscriptions_, rest, calling, keep>>
locks == <<invoke_mutex_, validation_mutex_, at>>
world == <<relayed, open, known, since>>
record == <<blocks, heard, told, caught>>
vars == <<stopped_, lists, locks, world, record>>

TypeOK ==
  /\ stopped_ \in BOOLEAN
  /\ subscriptions_ \subseteq Handler
  /\ invoke_mutex_ \in Invoker \cup {"none"}
  /\ validation_mutex_ \in {"organizer", "stopper", "none"}
  /\ at \in [Invoker -> {"idle", "wait", "loop", "done"}]
  /\ rest \in [Invoker -> SUBSET Handler]
  /\ calling \in [Invoker -> Handler \cup {None}]
  /\ keep \in [Invoker -> BOOLEAN]
  /\ relayed \in Nat
  /\ open \subseteq Channel
  /\ known \subseteq Handler
  /\ blocks \in Nat
  /\ {since, heard} \subseteq [Handler -> Nat]
  /\ {told, caught} \subseteq SUBSET Handler

\* The handlers that return true to anything but a stop: that of a channel that
\* is not stopped ("a channel is stopping but it's not this one"), and an
\* application's.
Staying == App \cup open

-----------------------------------------------------------------------------
(* Those who subscribe. *)

\* subscribe: once it is stopped the handler is called at once.
Subscribe(h) ==
  /\ h \notin known
  /\ known' = known \cup {h}
  /\ since' = [since EXCEPT ![h] = blocks]
  /\ IF stopped_ THEN told' = told \cup {h} /\ UNCHANGED subscriptions_
     ELSE subscriptions_' = subscriptions_ \cup {h} /\ UNCHANGED told
  /\ UNCHANGED <<stopped_, rest, calling, keep, locks, relayed, open, blocks, heard, caught>>

\* A channel stops; protocol_block_out::handle_stop calls unsubscribe, which
\* relays an empty event.  Its handler may not be subscribed yet.
Close(c) ==
  /\ c \in open
  /\ open' = open \ {c}
  /\ relayed' = relayed + 1
  /\ UNCHANGED <<stopped_, lists, locks, known, since, record>>

-----------------------------------------------------------------------------
(* The three that call do_invoke. *)

\* MUTANT of Notify: the organizer notifies after it has left the critical section.
NotifyUnlocked ==
  /\ at["organizer"] = "idle"
  /\ at["stopper"] # "done"
  /\ blocks < MaxBlocks
  /\ at' = [at EXCEPT !["organizer"] = "wait"]
  /\ UNCHANGED <<stopped_, lists, invoke_mutex_, validation_mutex_, world, record>>

\* The organizer has a reorganization to notify, inside block_chain's mutex.
Notify ==
  /\ at["organizer"] = "idle"
  /\ at["stopper"] # "done"
  /\ validation_mutex_ = "none"
  /\ blocks < MaxBlocks
  /\ validation_mutex_' = "organizer"
  /\ at' = [at EXCEPT !["organizer"] = "wait"]
  /\ UNCHANGED <<stopped_, lists, invoke_mutex_, world, record>>

\* The strand runs the relayed events one by one.
Unsubscribe ==
  /\ at["strand"] = "idle"
  /\ relayed > 0
  /\ at' = [at EXCEPT !["strand"] = "wait"]
  /\ UNCHANGED <<stopped_, lists, invoke_mutex_, validation_mutex_, world, record>>

\* MUTANT of Stop: the event first, the flag after it.
StopUnflagged ==
  /\ at["stopper"] = "idle"
  /\ validation_mutex_ = "none"
  /\ validation_mutex_' = "stopper"
  /\ caught' = rest["strand"]
  /\ at' = [at EXCEPT !["stopper"] = "wait"]
  /\ UNCHANGED <<stopped_, lists, invoke_mutex_, world, blocks, heard, told>>

\* block_chain::stop and block_organizer::stop: the flag first, then the event.
Stop ==
  /\ at["stopper"] = "idle"
  /\ validation_mutex_ = "none"
  /\ validation_mutex_' = "stopper"
  /\ stopped_' = TRUE
  /\ caught' = rest["strand"]
  /\ at' = [at EXCEPT !["stopper"] = "wait"]
  /\ UNCHANGED <<lists, invoke_mutex_, world, blocks, heard, told>>

-----------------------------------------------------------------------------
(* do_invoke. *)

\* MUTANT of Take: two loops may run at a time.
TakeBusy(i) ==
  /\ at[i] = "wait"
  /\ invoke_mutex_' = i
  /\ at' = [at EXCEPT ![i] = "loop"]
  /\ rest' = [rest EXCEPT ![i] = subscriptions_]
  /\ subscriptions_' = {}
  /\ blocks' = IF i = "organizer" THEN blocks + 1 ELSE blocks
  /\ caught' = IF i = "strand" /\ stopped_ THEN caught \cup subscriptions_ ELSE caught
  /\ UNCHANGED <<stopped_, calling, keep, validation_mutex_, world, heard, told>>

\* The invoke mutex, and the exchange of the lists.
Take(i) ==
  /\ at[i] = "wait"
  /\ invoke_mutex_ = "none"
  /\ invoke_mutex_' = i
  /\ at' = [at EXCEPT ![i] = "loop"]
  /\ rest' = [rest EXCEPT ![i] = subscriptions_]
  /\ subscriptions_' = {}
  /\ blocks' = IF i = "organizer" THEN blocks + 1 ELSE blocks
  /\ caught' = IF i = "strand" /\ stopped_ THEN caught \cup subscriptions_ ELSE caught
  /\ UNCHANGED <<stopped_, calling, keep, validation_mutex_, world, heard, told>>

\* MUTANT of Answer: a channel that has stopped does not look.
AnswerUnstopped(i, h) == i # "stopper"

\* What a handler returns.
Answer(i, h) == i # "stopper" /\ h \in Staying

\* handler(args...)
Call(i, h) ==
  /\ at[i] = "loop"
  /\ calling[i] = None
  /\ h \in rest[i]
  /\ calling' = [calling EXCEPT ![i] = h]
  /\ keep' = [keep EXCEPT ![i] = Answer(i, h)]
  /\ heard' = IF i = "organizer" THEN [heard EXCEPT ![h] = @ + 1] ELSE heard
  /\ told' = IF i = "stopper" THEN told \cup {h} ELSE told
  /\ UNCHANGED <<stopped_, subscriptions_, rest, locks, world, blocks, caught>>

\* A handler that returned true is subscribed again, unless stop came between.
Renew(i) ==
  /\ calling[i] # None
  /\ subscriptions_' = IF keep[i] /\ ~stopped_ THEN subscriptions_ \cup {calling[i]}
                       ELSE subscriptions_
  /\ rest' = [rest EXCEPT ![i] = @ \ {calling[i]}]
  /\ calling' = [calling EXCEPT ![i] = None]
  /\ keep' = [keep EXCEPT ![i] = FALSE]
  /\ UNCHANGED <<stopped_, locks, world, record>>

\* The end of the loop, and what the invoker does after it.
Leave(i) ==
  /\ at[i] = "loop"
  /\ rest[i] = {}
  /\ invoke_mutex_' = "none"
  /\ at' = [at EXCEPT ![i] = IF i = "stopper" THEN "done" ELSE "idle"]
  /\ validation_mutex_' = IF i = "strand" THEN validation_mutex_ ELSE "none"
  /\ relayed' = IF i = "strand" THEN relayed - 1 ELSE relayed
  /\ UNCHANGED <<stopped_, lists, open, known, since, record>>

-----------------------------------------------------------------------------
Init ==
  /\ stopped_ = FALSE
  /\ subscriptions_ = {}
  /\ invoke_mutex_ = "none" /\ validation_mutex_ = "none"
  /\ at = [i \in Invoker |-> "idle"]
  /\ rest = [i \in Invoker |-> {}]
  /\ calling = [i \in Invoker |-> None]
  /\ keep = [i \in Invoker |-> FALSE]
  /\ relayed = 0 /\ open = Channel /\ known = {}
  /\ blocks = 0
  /\ since = [h \in Handler |-> 0]
  /\ heard = [h \in Handler |-> 0]
  /\ told = {} /\ caught = {}

Invoke(i) == Take(i) \/ (\E h \in Handler : Call(i, h)) \/ Renew(i) \/ Leave(i)

Next ==
  \/ \E h \in Handler : Subscribe(h)
  \/ \E c \in Channel : Close(c)
  \/ Notify \/ Unsubscribe \/ Stop
  \/ \E i \in Invoker : Invoke(i)

Spec == Init /\ [][Next]_vars

(***************************************************************************)
(* Fairness: the pool runs the strand, a thread inside do_invoke goes on,  *)
(* and the mutex lets one of those that wait for it have it.               *)
(***************************************************************************)
FairSpec ==
  /\ Spec
  /\ WF_vars(Unsubscribe)
  /\ \A i \in Invoker : SF_vars(Take(i)) /\ WF_vars(Invoke(i))

-----------------------------------------------------------------------------
(* Properties. *)

\* Handlers the list or some loop still has.
Held == subscriptions_ \cup UNION {rest[i] : i \in Invoker}

\* A loop empties the member list while it runs.  A handler that stays is called
\* once with every reorganization since it was subscribed all the same: what the
\* organizer has begun and not called it with yet is still in its hands.
NoEventIsMissed ==
  \A h \in known \cap Staying :
    heard[h] + (IF h \in rest["organizer"] /\ calling["organizer"] # h THEN 1 ELSE 0)
      = blocks - since[h]

\* "resubscriber not cleared": the destructor asserts that the list is empty.
\* It is from the end of the stop on, whoever subscribes or renews meanwhile, and
\* no loop has a handler in hand.
ClearedByStop == at["stopper"] = "done" => Held = {}

\* Who is never told of the stop, of those that would have stayed: only
\* handlers the strand had in hand after the flag was set and before the loop of the
\* stop: a reorganization cannot lose one, the organizer and the stop exclude each other.
OnlyTheCaughtMissStop ==
  at["stopper"] = "done" => (known \cap Staying) \ told \subseteq caught

\* A channel that stops is forgotten, so that it can be destroyed: a handler that
\* is subscribed when an empty event waits leaves with it.  (One that is
\* subscribed after its own channel's event has run stays until the next event of
\* any kind.)  And the stop comes to an end, although it waits for other loops.
StoppedLeave ==
  /\ \A c \in Channel :
       (c \in Held \ open /\ at["strand"] = "idle" /\ relayed > 0) ~> (c \notin Held)
  /\ stopped_ ~> at["stopper"] = "done"
============================================================================
