----------------------------- MODULE Connecting -----------------------------
(***************************************************************************)
(* A slot of the outbound session looks for a channel: batch after batch   *)
(* of connectors, of which the first to connect wins.  Each connector      *)
(* resolves a name, then a timer races the connect of a socket; p2p::stop  *)
(* stops those in its table, and the pool that calls their handlers.       *)
(***************************************************************************)
EXTENDS Naturals, FiniteSets

CONSTANTS
  Connector,  \* connector objects
  BatchSize   \* connect_batch_size

ASSUME BatchAssumption == BatchSize \in Nat \ {0}

VARIABLES
  connector,  \* the connector objects
  batch,      \* the join of the running batch, and what it was answered
  table,      \* pending_connect_
  victims,    \* those pending::stop has copied and not stopped
  phase       \* how far p2p::stop is

vars == <<connector, batch, table, victims, phase>>

Steps == {"free", "created", "pended", "resolving", "posted", "racing", "answered"}
ConnectorRecord ==
  [step: Steps, mine: BOOLEAN, stopped: BOOLEAN, calls: Nat,
   timer: {"off", "running", "fired"}, socket: {"off", "pending", "connected", "refused"}]

TypeOK ==
  /\ connector \in [Connector -> ConnectorRecord]
  /\ batch \in [left: 0..BatchSize, count: 0..BatchSize, calls: Nat,
                result: BOOLEAN, won: BOOLEAN]
  /\ table \subseteq Connector /\ victims \subseteq Connector
  /\ phase \in {"running", "sessions", "table", "aborted"}

Blank ==
  [step |-> "free", mine |-> FALSE, stopped |-> FALSE, calls |-> 0,
   timer |-> "off", socket |-> "off"]
NewBatch == [left |-> BatchSize, count |-> 0, calls |-> 0, result |-> FALSE, won |-> FALSE]

sessions_stopped == phase # "running"
refusing == phase \in {"table", "aborted"}
working == phase # "aborted"

In(k, steps) == connector[k].step \in steps

-----------------------------------------------------------------------------
(* The synchronizer of the batch *)

\* Mutant: the batch ends with the first answer, whatever it is.
NextCountAny(success) == BatchSize

\* It ends with the first success, or when all have failed.
NextCount(success) == IF success THEN BatchSize ELSE batch.count + 1

Reported(success) ==
  IF batch.count = BatchSize
  THEN batch
  ELSE [batch EXCEPT
          !.count = NextCount(success),
          !.calls = IF NextCount(success) = BatchSize THEN @ + 1 ELSE @,
          !.result = IF NextCount(success) = BatchSize THEN success ELSE @]

\* won is a history variable: a connector of the batch has brought a channel.
Join(success) == batch' = [Reported(success) EXCEPT !.won = @ \/ success]

-----------------------------------------------------------------------------
(* connector *)

\* connector::stop cancels the resolver, which then fails, and a timer that has
\* not expired; the socket is not known to it.
Stopped(r) ==
  [r EXCEPT !.stopped = TRUE, !.timer = IF @ = "running" THEN "off" ELSE @]

unpend(k) == table' = table \ {k}

\* session_batch::handle_connect for k, now r: unpend stops it, then the join.
Answer(k, r, success) ==
  /\ unpend(k)
  /\ connector' = [connector EXCEPT ![k] =
       [Stopped(r) EXCEPT !.step = "answered", !.calls = @ + 1]]
  /\ IF connector[k].mine THEN Join(success) ELSE UNCHANGED batch
  /\ UNCHANGED <<victims, phase>>

Becomes(k, r) ==
  /\ connector' = [connector EXCEPT ![k] = r]
  /\ UNCHANGED <<batch, table, victims, phase>>

\* Mutant: each of the two handlers calls the caller's.
EndBoth(k, r, success) ==
  IF r.calls < 2 THEN Answer(k, r, success) ELSE Becomes(k, r)

\* The race of timer and socket: the first to end answers.
End(k, r, success) ==
  IF r.step = "racing" THEN Answer(k, r, success) ELSE Becomes(k, r)

\* connector::connect; if it is stopped the handler is posted.
Connect(k) ==
  /\ In(k, {"pended"})
  /\ Becomes(k, [connector[k] EXCEPT
       !.step = IF connector[k].stopped THEN "posted" ELSE "resolving"])

\* Mutant: the timer is made but not started.
RaceUntimed(k) ==
  /\ In(k, {"resolving"}) /\ ~connector[k].stopped
  /\ Becomes(k, [connector[k] EXCEPT !.step = "racing", !.socket = "pending"])

\* connector::handle_resolve
Race(k) ==
  /\ In(k, {"resolving"}) /\ ~connector[k].stopped
  /\ Becomes(k, [connector[k] EXCEPT
       !.step = "racing", !.timer = "running", !.socket = "pending"])

\* The name is not resolved, or the connector was stopped.
ResolveFails(k) ==
  /\ In(k, {"resolving"})
  /\ Becomes(k, [connector[k] EXCEPT !.step = "posted"])

Posted(k) == In(k, {"posted"}) /\ Answer(k, connector[k], FALSE)

\* The timer expires: its handler is queued and can not be taken back.
Expire(k) ==
  /\ connector[k].timer = "running"
  /\ Becomes(k, [connector[k] EXCEPT !.timer = "fired"])

HandleTimer(k) ==
  /\ connector[k].timer = "fired"
  /\ End(k, [connector[k] EXCEPT !.timer = "off"], FALSE)

\* The remote host answers or refuses, or the system gives it up.
SocketEnds(k, how) ==
  /\ connector[k].socket = "pending"
  /\ Becomes(k, [connector[k] EXCEPT !.socket = how])

\* The channel of a connect that comes too late is dropped unstarted.
HandleConnect(k) ==
  /\ connector[k].socket \in {"connected", "refused"}
  /\ End(k, [connector[k] EXCEPT !.socket = "off"], connector[k].socket = "connected")

Destroy(k) ==
  /\ In(k, {"answered"}) /\ k \notin victims
  /\ connector[k].timer = "off" /\ connector[k].socket = "off"
  /\ Becomes(k, Blank)

-----------------------------------------------------------------------------
(* session_batch, session_outbound, and p2p::stop *)

\* The loop of connect is at k, or between two.
Launching == \E k \in Connector : In(k, {"created", "pended"})

\* session_outbound::new_connection, again and again: one batch at a time.
NewConnection ==
  /\ ~sessions_stopped
  /\ batch.calls > 0 /\ batch.left = 0 /\ ~Launching
  /\ batch' = NewBatch
  /\ connector' = [k \in Connector |-> [connector[k] EXCEPT !.mine = FALSE]]
  /\ UNCHANGED <<table, victims, phase>>

\* session_batch::new_connect makes a connector.
Launch(k) ==
  /\ ~sessions_stopped
  /\ batch.left > 0 /\ ~Launching /\ In(k, {"free"})
  /\ batch' = [batch EXCEPT !.left = @ - 1]
  /\ connector' = [connector EXCEPT ![k] = [Blank EXCEPT !.step = "created", !.mine = TRUE]]
  /\ UNCHANGED <<table, victims, phase>>

\* The session is stopped, no address is known, or a blocked one was fetched.
LaunchFails ==
  /\ batch.left > 0 /\ ~Launching
  /\ batch' = [Reported(FALSE) EXCEPT !.left = @ - 1]
  /\ UNCHANGED <<connector, table, victims, phase>>

\* The code that pend returns is not looked at.
Pend(k) ==
  /\ In(k, {"created"})
  /\ connector' = [connector EXCEPT ![k].step = "pended"]
  /\ table' = IF refusing THEN table ELSE table \cup {k}
  /\ UNCHANGED <<batch, victims, phase>>

Stop ==
  /\ phase = "running"
  /\ phase' = "sessions"
  /\ UNCHANGED <<connector, batch, table, victims>>

StopTable ==
  /\ phase = "sessions"
  /\ phase' = "table" /\ victims' = table
  /\ UNCHANGED <<connector, batch, table>>

StopVictim(k) ==
  /\ k \in victims
  /\ victims' = victims \ {k}
  /\ connector' = [connector EXCEPT ![k] = Stopped(@)]
  /\ UNCHANGED <<batch, table, phase>>

Shutdown ==
  /\ phase = "table" /\ victims = {}
  /\ phase' = "aborted"
  /\ UNCHANGED <<connector, batch, table, victims>>

-----------------------------------------------------------------------------
Init ==
  /\ connector = [k \in Connector |-> Blank]
  /\ batch = NewBatch
  /\ table = {} /\ victims = {}
  /\ phase = "running"

Loop(k) == Launch(k) \/ Pend(k) \/ Connect(k)
Looping == LaunchFails \/ \E k \in Connector : Loop(k)
Handler(k) == Posted(k) \/ HandleTimer(k) \/ HandleConnect(k) \/ Destroy(k)
Resolve(k) == Race(k) \/ ResolveFails(k)
StopNext == StopTable \/ Shutdown \/ \E k \in Connector : StopVictim(k)

Next ==
  \/ \E k \in Connector :
       \/ Loop(k) \/ Resolve(k) \/ Handler(k) \/ Expire(k)
       \/ \E how \in {"connected", "refused"} : SocketEnds(k, how)
  \/ NewConnection \/ LaunchFails
  \/ Stop \/ StopNext

Spec == Init /\ [][Next]_vars

\* The pool runs handlers while it works, names are resolved or not, timers expire.
\* Nothing makes a remote host answer.
Pool(A) == working /\ A

Fairness ==
  /\ WF_vars(Pool(Looping)) /\ WF_vars(Pool(NewConnection)) /\ WF_vars(StopNext)
  /\ \A k \in Connector :
       WF_vars(Pool(Resolve(k))) /\ WF_vars(Pool(Handler(k))) /\ WF_vars(Pool(Expire(k)))
FairSpec == Spec /\ Fairness

-----------------------------------------------------------------------------
(* Safety *)

\* However timer, socket, resolver and stop race (connector.cpp:124 "Manage the
\* timer-connect race, returning upon first completion."), a connector calls its
\* handler once, and a batch calls that of the session once.
AnsweredOnce ==
  /\ \A k \in Connector : connector[k].calls = (IF In(k, {"answered"}) THEN 1 ELSE 0)
  /\ batch.calls = (IF batch.count = BatchSize THEN 1 ELSE 0)

\* A batch fails only if none of its connectors has brought a channel, and succeeds
\* only if one has: no channel is lost because a failure was counted first.
FirstSuccessWins ==
  batch.calls > 0 => (batch.result <=> batch.won)

\* The table holds connectors that may still be answered, and those it holds when
\* p2p::stop has stopped it were stopped, except for those still to be.
TableIsCurrent ==
  \A k \in table :
    /\ In(k, {"pended", "resolving", "posted", "racing"})
    /\ refusing => connector[k].stopped \/ k \in victims

(* Liveness *)

\* Each batch is answered, however long the hosts are silent, while the pool works.
BatchIsAnswered == batch.calls = 0 ~> (batch.calls > 0 \/ ~working)

(* What the comments say and the code does not do *)

\* connector.hpp:47 "Cancel outstanding connection attempt.": a stopped connector
\* has no socket that is still being connected.
StopCancelsAttempt ==
  \A k \in Connector : connector[k].stopped => connector[k].socket # "pending"
=============================================================================
