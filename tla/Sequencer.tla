---------------------------- MODULE Sequencer ----------------------------
(***************************************************************************)
(* The sends of one channel: any thread may call proxy::send, the          *)
(* sequencer lets one write at a time out to the service, in the order of  *)
(* the calls, and handle_send lets out the next.  The connection may       *)
(* break, stop may come at any time, and the pool may be aborted.          *)
(***************************************************************************)
EXTENDS Naturals, Sequences, FiniteSets, SequencesExt

CONSTANT Message        \* the sends: each is a call of its own

VARIABLES
  place,        \* where each send is
  actions,      \* sequencer: the queue behind the write that is out
  executing,
  wire,         \* what was written
  broken,       \* the connection has failed
  stopped, shut,        \* proxy::stop: the flag, and the socket shut down
  working,      \* the pool runs its jobs
  order         \* history: the calls, as the sequencer took them

socketVars == <<wire, broken, stopped, shut, working>>
sending_vars == <<place, actions, executing, socketVars, order>>

Places == {"new", "queued", "taken", "posted", "writing", "written", "failed",
           "unlocked", "stopping", "answered"}

Moves(m, from, to) == place[m] = from /\ place' = [place EXCEPT ![m] = to]

\* sequencer::lock, the critical section.  The post is outside of it.
Lock(m) ==
  /\ Moves(m, "new", IF executing THEN "queued" ELSE "taken")
  /\ executing' = TRUE
  /\ actions' = IF executing THEN Append(actions, m) ELSE actions
  /\ order' = Append(order, m)
  /\ UNCHANGED socketVars

Post(m) ==
  /\ Moves(m, "taken", "posted")
  /\ UNCHANGED <<actions, executing, socketVars, order>>

DoSend(m) ==
  /\ working
  /\ Moves(m, "posted", "writing")
  /\ UNCHANGED <<actions, executing, socketVars, order>>

WriteEnds(m) ==
  /\ ~shut /\ ~broken
  /\ Moves(m, "writing", "written")
  /\ wire' = Append(wire, m)
  /\ UNCHANGED <<actions, executing, broken, stopped, shut, working, order>>

WriteFails(m) ==
  /\ Moves(m, "writing", "failed")
  /\ broken' = TRUE
  /\ UNCHANGED <<actions, executing, wire, stopped, shut, working, order>>

\* Mutant: the sequencer is free although the next is let out.
UnlockFree(m) ==
  /\ working /\ place[m] \in {"written", "failed"}
  /\ executing' = FALSE
  /\ place' = [x \in Message |-> IF x = m THEN "unlocked"
                ELSE IF actions # <<>> /\ x = Head(actions) THEN "taken" ELSE place[x]]
  /\ actions' = IF actions = <<>> THEN actions ELSE Tail(actions)
  /\ UNCHANGED <<socketVars, order>>

\* Mutant: a write that failed lets nothing out.
UnlockWritten(m) ==
  /\ working /\ place[m] \in {"written", "failed"}
  /\ LET next == IF place[m] = "written" THEN actions ELSE <<>> IN
     /\ executing' = (next # <<>>)
     /\ place' = [x \in Message |-> IF x = m THEN "unlocked"
                   ELSE IF next # <<>> /\ x = Head(next) THEN "taken" ELSE place[x]]
     /\ actions' = IF next = <<>> THEN actions ELSE Tail(actions)
  /\ UNCHANGED <<socketVars, order>>

\* handle_send begins with unlock: whatever came of the write, the next is let out.
Unlock(m) ==
  /\ working /\ place[m] \in {"written", "failed"}
  /\ IF actions = <<>>
     THEN /\ executing' = FALSE
          /\ place' = [place EXCEPT ![m] = "unlocked"]
          /\ UNCHANGED actions
     ELSE /\ place' = [place EXCEPT ![m] = "unlocked", ![Head(actions)] = "taken"]
          /\ actions' = Tail(actions)
          /\ UNCHANGED executing
  /\ UNCHANGED <<socketVars, order>>

\* An error stops the channel first, unless it was stopped.
Fails(m) == m \notin ToSet(wire) /\ ~stopped
HandleSend(m) ==
  /\ Moves(m, "unlocked", IF Fails(m) THEN "stopping" ELSE "answered")
  /\ stopped' = (stopped \/ Fails(m))
  /\ UNCHANGED <<actions, executing, wire, broken, shut, working, order>>

HandleStopped(m) ==
  /\ shut
  /\ Moves(m, "stopping", "answered")
  /\ UNCHANGED <<actions, executing, socketVars, order>>

\* proxy::stop, by the reader or a protocol; its last step shuts the socket down.
StopSending ==
  /\ ~stopped
  /\ stopped' = TRUE
  /\ UNCHANGED <<place, actions, executing, wire, broken, shut, working, order>>

Shutdown ==
  /\ stopped /\ ~shut
  /\ shut' = TRUE
  /\ UNCHANGED <<place, actions, executing, wire, broken, stopped, working, order>>

\* threadpool::abort: what is posted or would complete never runs.
Abort ==
  /\ working
  /\ working' = FALSE
  /\ UNCHANGED <<place, actions, executing, wire, broken, stopped, shut, order>>

SendingInit ==
  /\ place = [m \in Message |-> "new"]
  /\ actions = <<>> /\ executing = FALSE
  /\ wire = <<>> /\ broken = FALSE
  /\ stopped = FALSE /\ shut = FALSE /\ working = TRUE
  /\ order = <<>>

Handling(m) == Post(m) \/ DoSend(m) \/ Unlock(m) \/ HandleSend(m) \/ HandleStopped(m)

SendingNext == \/ StopSending \/ Shutdown \/ Abort
               \/ \E m \in Message : Lock(m) \/ WriteEnds(m) \/ WriteFails(m) \/ Handling(m)

SendingSpec == SendingInit /\ [][SendingNext]_sending_vars

\* Threads go on, the pool runs its jobs, and a write ends when the socket is
\* shut down.  Before that the peer may keep it waiting.
FairSendingSpec ==
  /\ SendingSpec
  /\ WF_sending_vars(Shutdown)
  /\ \A m \in Message : WF_sending_vars(Handling(m)) /\ WF_sending_vars(shut /\ WriteFails(m))

-----------------------------------------------------------------------------
(* Properties.                                                             *)

SendingTypeOK ==
  /\ place \in [Message -> Places]
  /\ actions \in Seq(Message) /\ wire \in Seq(Message) /\ order \in Seq(Message)
  /\ {executing, broken, stopped, shut, working} \subseteq BOOLEAN

\* However many threads send, one message is written at a time, and the peer
\* reads them in the order of the calls, none left out before the last it reads
\* ("Ordered and not concurrent", dispatcher::lock).
Out == {m \in Message : place[m] \in {"taken", "posted", "writing"}}
WireIsInOrder == Cardinality(Out) <= 1 /\ IsPrefix(wire, order)

\* Once the channel is stopped each send is answered, those in the queue too,
\* which must all be let out for it; the queue, which holds the channel, is empty
\* then ("sequencer not cleared").
SendsAreAnswered ==
  \A m \in Message : place[m] # "new" /\ stopped ~> place[m] = "answered" \/ ~working
=============================================================================
