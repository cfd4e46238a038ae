-------------------------------- MODULE P2P --------------------------------
(***************************************************************************)
(* The connections of kth::network::p2p: how the outbound, inbound and     *)
(* manual sessions make channels, shake hands, store and lose them, and    *)
(* how p2p::stop ends all of it while that goes on.                        *)
(*                                                                         *)
(* A channel's start sequence runs from handler to handler.  Beside it, a  *)
(* timer or a failed read may stop the channel at any time, and the stop   *)
(* is relayed to the subscribers of the channel by a posted job.           *)
(***************************************************************************)
EXTENDS Naturals, FiniteSets

CONSTANTS
  Channel,        \* channel objects
  Slot,           \* the outbound connections of the settings
  BatchSize,      \* connect_batch_size
  AttemptLimit,   \* manual_attempt_limit
  InboundLimit,   \* session_inbound::connection_limit_
  Host,           \* authorities that can be connected to
  Self,           \* the authority at which this node listens
  ManualHost,     \* the one connected to by p2p::connect
  Caller,         \* authorities that connect to this node
  NoChannel,      \* the other end is a peer
  Gone            \* the other end was a channel of this node and is destroyed

ASSUME HostAssumption ==
  /\ Self \in Host /\ ManualHost \in Host
  /\ NoChannel \notin Channel /\ Gone \notin Channel /\ NoChannel # Gone
  /\ "inbound" \notin Slot /\ "manual" \notin Slot

ASSUME LimitAssumption ==
  BatchSize \in Nat \ {0} /\ AttemptLimit \in Nat /\ InboundLimit \in Nat

VARIABLES
  channel,       \* the channel objects
  handshakes,    \* pending_handshake_
  connections,   \* pending_close_
  refusing,      \* which of the two tables are stopped
  calls,         \* posted calls of new_connection, for each slot
  batch,         \* attempts of each slot's batch that may still fail
  manual,        \* the connect cycle of session_manual
  phase,         \* how far p2p::stop is
  victims        \* channels it has yet to stop

tables == <<handshakes, connections, refusing>>
sessions == <<calls, batch, manual>>
service == <<phase, victims>>
vars == <<channel, tables, sessions, service>>

Stages == {"free", "created", "registered", "pended", "starting", "opened",
           "handshaking", "stored", "open", "over"}
ChannelRecord ==
  [stage: Stages, origin: Slot \cup {"inbound", "manual"}, host: Host \cup Caller,
   link: Channel \cup {NoChannel, Gone}, inbox: SUBSET {"version", "verack"},
   stopped: BOOLEAN, closed: BOOLEAN,
   subs: SUBSET {"events", "remove"}, closing: Nat, relays: Nat, down: BOOLEAN]

TypeOK ==
  /\ channel \in [Channel -> ChannelRecord]
  /\ handshakes \subseteq Channel /\ connections \subseteq Channel
  /\ refusing \subseteq {"handshakes", "connections"}
  /\ calls \in [Slot -> Nat] /\ batch \in [Slot -> 0..BatchSize]
  /\ manual \in [state: {"posted", "connecting", "idle"}, attempts: 0..AttemptLimit \cup {1}]
  /\ phase \in {"running", "sessions", "handshakes", "connections", "aborted"}
  /\ victims \subseteq Channel

IsOutbound(c) == channel[c].origin \in Slot
IsFree(c) == channel[c].stage = "free"

\* A channel that was not started counts as stopped, and so do its subscribers.
New(stage, origin, host, link, inbox) ==
  [stage |-> stage, origin |-> origin, host |-> host, link |-> link, inbox |-> inbox,
   stopped |-> TRUE, closed |-> TRUE, subs |-> {},
   closing |-> 0, relays |-> 0, down |-> FALSE]
Blank == New("free", "inbound", Self, NoChannel, {})

\* A peer sends its version and acknowledges ours.
FromPeer(origin, host) ==
  New("created", origin, host, NoChannel, IF host = Self THEN {} ELSE {"version", "verack"})

\* The sessions' stopped_, set by p2p's stop subscriber.
sessions_stopped == phase # "running"

-----------------------------------------------------------------------------
(* The outbound and manual connect cycles *)

\* Mutant: the session is not asked whether it has stopped.
NewConnectionAlways(s) ==
  /\ calls[s] > 0
  /\ calls' = [calls EXCEPT ![s] = @ - 1]
  /\ batch' = [batch EXCEPT ![s] = BatchSize]
  /\ UNCHANGED <<channel, tables, manual, service>>

\* A slot starts a batch of connects, of which only the first success counts.
NewConnection(s) ==
  /\ calls[s] > 0
  /\ calls' = [calls EXCEPT ![s] = @ - 1]
  /\ batch' = [batch EXCEPT ![s] = IF sessions_stopped THEN @ ELSE BatchSize]
  /\ UNCHANGED <<channel, tables, manual, service>>

\* When all have failed the slot tries again after a delay.
ConnectFails(s) ==
  /\ batch[s] > 0
  /\ batch' = [batch EXCEPT ![s] = @ - 1]
  /\ calls' = [calls EXCEPT ![s] = IF batch[s] = 1 THEN @ + 1 ELSE @]
  /\ UNCHANGED <<channel, tables, manual, service>>

Connect(s, c, h) ==
  /\ batch[s] > 0
  /\ IsFree(c)
  /\ batch' = [batch EXCEPT ![s] = 0]
  /\ channel' = [channel EXCEPT ![c] = FromPeer(s, h)]
  /\ UNCHANGED <<tables, calls, manual, service>>

Idle == [state |-> "idle", attempts |-> 0]
Posted(attempts) == [state |-> "posted", attempts |-> attempts]

DialManual ==
  /\ manual.state = "posted"
  /\ manual' = IF sessions_stopped
               THEN Idle
               ELSE [manual EXCEPT !.state = "connecting",
                                   !.attempts = IF @ = 0 THEN 0 ELSE @ - 1]
  /\ UNCHANGED <<channel, tables, calls, batch, service>>

\* A limit of zero is none.
ManualFails ==
  LET remaining == IF AttemptLimit = 0 THEN 1 ELSE manual.attempts
  IN /\ manual.state = "connecting"
     /\ manual' = IF remaining > 0
                  THEN Posted(remaining)
                  ELSE Idle
     /\ UNCHANGED <<channel, tables, calls, batch, service>>

ConnectManual(c) ==
  /\ manual.state = "connecting"
  /\ IsFree(c)
  /\ manual' = Idle
  /\ channel' = [channel EXCEPT ![c] = FromPeer("manual", ManualHost)]
  /\ UNCHANGED <<tables, calls, batch, service>>

\* The handlers of the sessions for a channel that has stopped.
StoppedSlot(c) ==
  [s \in Slot |-> IF channel[c].origin = s THEN calls[s] + 1 ELSE calls[s]]

StoppedManual(c, ec) ==
  IF channel[c].origin = "manual" /\ ec # "in_use"
  THEN Posted(AttemptLimit)
  ELSE manual

HandleChannelStop(c, ec) ==
  calls' = StoppedSlot(c) /\ manual' = StoppedManual(c, ec)

-----------------------------------------------------------------------------
(* Incoming connections *)

MayAccept(c) ==
  /\ ~sessions_stopped
  /\ Cardinality(connections) < InboundLimit
  /\ IsFree(c)

Accept(c, h) ==
  /\ MayAccept(c)
  /\ channel' = [channel EXCEPT ![c] = FromPeer("inbound", h)]
  /\ UNCHANGED <<tables, sessions, service>>

\* The other end of a connection that this node has made to itself.
HasStarted(c) == channel[c].stage \notin {"free", "created", "registered", "pended",
                                          "starting", "opened"}
AcceptSelf(c, o, h) ==
  /\ MayAccept(c)
  /\ channel[o].stage \notin {"free", "over"}
  /\ channel[o].origin # "inbound" /\ channel[o].host = Self /\ channel[o].link = NoChannel
  /\ channel' = [channel EXCEPT
       ![c] = New("created", "inbound", h, o, IF HasStarted(o) THEN {"version"} ELSE {}),
       ![o].link = c]
  /\ UNCHANGED <<tables, sessions, service>>

-----------------------------------------------------------------------------
(* The start sequence: session::register_channel to session::handle_start *)

\* Of a channel that has ended only its stop matters.
Over(r) ==
  [stage |-> "over", origin |-> "inbound", host |-> Self, link |-> NoChannel, inbox |-> {},
   stopped |-> r.stopped, closed |-> r.closed, subs |-> r.subs,
   closing |-> r.closing, relays |-> r.relays, down |-> r.down]

Step(c, from, to) == channel[c].stage = from /\ channel' = [channel EXCEPT ![c].stage = to]

\* proxy::stop, as far as the first flag, the rest, and all of it.
StopBegun(r) == [r EXCEPT !.stopped = TRUE, !.closing = @ + 1]
\* Mutant: the subscribers are not told of the stop.
StopEndedUnrelayed(r) == [r EXCEPT !.closed = TRUE, !.down = TRUE]

StopEnded(r) == [r EXCEPT !.closed = TRUE, !.relays = @ + 1, !.down = TRUE]
Ended(r) == [StopEnded(r) EXCEPT !.closing = r.closing - 1]

\* Mutant: a channel that counts as stopped is not stopped again.
StoppedOnce(r) ==
  IF r.stopped THEN r ELSE StopEnded([r EXCEPT !.stopped = TRUE])

Stopped(r) == StopEnded([r EXCEPT !.stopped = TRUE])

\* Mutant: the channel stays in pending_handshake_.
UnpendNothing(c) == UNCHANGED handshakes

Unpend(c) == handshakes' = handshakes \ {c}

\* Mutant: only the start handler is called, not the stop handler.
StartFailsUntold(c, r, ec) ==
  /\ Unpend(c)
  /\ channel' = [channel EXCEPT ![c] = Over(Stopped(r))]
  /\ UNCHANGED <<connections, refusing, calls, batch, manual, service>>

\* The start of c, now r, fails: it is unpended and stopped, the session is told.
StartFails(c, r, ec) ==
  /\ Unpend(c)
  /\ channel' = [channel EXCEPT ![c] = Over(Stopped(r))]
  /\ HandleChannelStop(c, ec)
  /\ UNCHANGED <<connections, refusing, batch, service>>

Register(c) ==
  /\ ~sessions_stopped
  /\ Step(c, "created", IF IsOutbound(c) THEN "registered" ELSE "pended")
  /\ UNCHANGED <<tables, sessions, service>>

\* A stopped session calls both handlers, which are suspended in turn.
RegisterStopped(c) ==
  /\ sessions_stopped
  /\ channel[c].stage = "created"
  /\ channel' = [channel EXCEPT ![c] = Over(@)]
  /\ HandleChannelStop(c, "failed")
  /\ UNCHANGED <<tables, batch, service>>

\* Outbound channels are pended, so that a connection to self is detected.
Pend(c) ==
  /\ "handshakes" \notin refusing
  /\ Step(c, "registered", "pended")
  /\ handshakes' = handshakes \cup {c}
  /\ UNCHANGED <<connections, refusing, sessions, service>>

PendStopped(c) ==
  /\ "handshakes" \in refusing
  /\ channel[c].stage = "registered"
  /\ StartFails(c, channel[c], "failed")

\* proxy::start: the flag, the subscribers, the handshake protocol.
Start(c) ==
  /\ channel[c].stage = "pended"
  /\ channel[c].stopped
  /\ channel' = [channel EXCEPT ![c].stage = "starting", ![c].stopped = FALSE]
  /\ UNCHANGED <<tables, sessions, service>>

Open(c) ==
  /\ channel[c].stage = "starting"
  /\ channel' = [channel EXCEPT ![c].stage = "opened", ![c].closed = FALSE]
  /\ UNCHANGED <<tables, sessions, service>>

\* r with message m delivered to the channel at the other end of c.
Listens(d) == channel[d].stage \notin {"stored", "open", "over"}
Sent(r, c, m) ==
  LET d == channel[c].link
  IN IF d \in Channel /\ Listens(d) /\ ~channel[c].down THEN [r EXCEPT ![d].inbox = @ \cup {m}] ELSE r

Attach(c) ==
  /\ channel[c].stage = "opened" /\ ~channel[c].closed
  /\ channel' = Sent([channel EXCEPT ![c].stage = "handshaking", ![c].subs = {"events"}],
                     c, "version")
  /\ UNCHANGED <<tables, sessions, service>>

\* Stopped before the handshake, a version that will not do, or its timer.
HandshakeFails(c) ==
  /\ (channel[c].stage = "opened" /\ channel[c].closed) \/ channel[c].stage = "handshaking"
  /\ StartFails(c, channel[c], "failed")

\* session_inbound::handshake_complete
IsLoopback(c) == channel[c].origin = "inbound" /\ channel[c].link \in handshakes
IsConnected(h) == \E d \in connections : channel[d].host = h

\* Mutant: the table takes channels after it was stopped.
StoreCodeAlways(c) ==
  IF IsLoopback(c) THEN "failed" ELSE IF IsConnected(channel[c].host) THEN "in_use" ELSE "success"

StoreCode(c) ==
  CASE IsLoopback(c)                                         -> "failed"
    [] ~IsLoopback(c) /\ "connections" \in refusing          -> "failed"
    [] ~IsLoopback(c) /\ "connections" \notin refusing
         /\ IsConnected(channel[c].host)                     -> "in_use"
    [] OTHER                                                 -> "success"

\* One of two: the version of the other end, which is acknowledged.
HearVersion(c) ==
  /\ channel[c].stage = "handshaking" /\ ~channel[c].stopped
  /\ "version" \in channel[c].inbox
  /\ channel' = Sent([channel EXCEPT ![c].inbox = @ \ {"version"}], c, "verack")
  /\ UNCHANGED <<tables, sessions, service>>

\* Two of two: the acknowledgement, after which the channel is stored.
HearVerack(c) ==
  /\ channel[c].stage = "handshaking" /\ ~channel[c].stopped
  /\ "version" \notin channel[c].inbox /\ "verack" \in channel[c].inbox
  /\ IF StoreCode(c) = "success"
     THEN /\ channel' = [channel EXCEPT ![c].stage = "stored", ![c].inbox = {}]
          /\ connections' = connections \cup {c}
          /\ UNCHANGED <<handshakes, refusing, sessions, service>>
     ELSE StartFails(c, channel[c], StoreCode(c))

StartDone(c) ==
  /\ channel[c].stage = "stored" /\ ~channel[c].closed
  /\ Unpend(c)
  /\ channel' = [channel EXCEPT ![c].stage = "open", ![c].subs = @ \cup {"remove"}]
  /\ UNCHANGED <<connections, refusing, sessions, service>>

\* It was stopped meanwhile: the subscription is answered at once.
StartStopped(c) ==
  /\ channel[c].stage = "stored" /\ channel[c].closed
  /\ Unpend(c)
  /\ channel' = [channel EXCEPT ![c] = Over(@)]
  /\ connections' = connections \ {c}
  /\ HandleChannelStop(c, "success")
  /\ UNCHANGED <<refusing, batch, service>>

-----------------------------------------------------------------------------
(* The end of a channel *)

\* A read fails, or a timer of the channel fires.
Break(c) ==
  /\ channel[c].stage \in {"handshaking", "stored", "open", "over"}
  /\ ~channel[c].stopped
  /\ channel' = [channel EXCEPT ![c] = StopBegun(@)]
  /\ UNCHANGED <<tables, sessions, service>>

EndStop(c) ==
  /\ channel[c].closing > 0
  /\ channel' = [channel EXCEPT ![c] = Ended(@)]
  /\ UNCHANGED <<tables, sessions, service>>

\* subscriber::do_invoke on the stop subscriber takes the list and calls it.
Taken(c) == [channel[c] EXCEPT !.relays = @ - 1, !.subs = {}]

Relay(c) ==
  /\ channel[c].relays > 0
  /\ "remove" \notin channel[c].subs
  /\ IF channel[c].stage = "handshaking" /\ "events" \in channel[c].subs
     THEN StartFails(c, Taken(c), "failed")
     ELSE /\ channel' = [channel EXCEPT ![c] = Taken(c)]
          /\ UNCHANGED <<tables, sessions, service>>

\* session::handle_remove
Remove(c) ==
  /\ channel[c].relays > 0
  /\ "remove" \in channel[c].subs
  /\ channel' = [channel EXCEPT ![c] = Over(Taken(c))]
  /\ connections' = connections \ {c}
  /\ HandleChannelStop(c, "success")
  /\ UNCHANGED <<handshakes, refusing, batch, service>>

IsSilent(r) == r.closing = 0 /\ r.relays = 0

\* The read cycle refers to a channel until it is stopped, its jobs until they ran.
IsForgotten(c) == channel[c].stage = "over" /\ IsSilent(channel[c]) /\ c \notin victims

Destroy(c) ==
  /\ IsForgotten(c) /\ channel[c].stopped
  /\ channel' = [d \in Channel |-> IF d = c THEN Blank
                                   ELSE IF channel[d].link = c
                                        THEN [channel[d] EXCEPT !.link = Gone]
                                        ELSE channel[d]]
  /\ UNCHANGED <<tables, sessions, service>>

-----------------------------------------------------------------------------
(* p2p::stop, and start again *)

Stop ==
  /\ phase = "running"
  /\ phase' = "sessions"
  /\ UNCHANGED <<channel, tables, sessions, victims>>

\* pending::stop copies the elements the first time only.
Victims(table, elements) == IF table \in refusing THEN {} ELSE elements

StopTable(from, table, elements) ==
  /\ phase = from /\ victims = {}
  /\ phase' = table
  /\ victims' = Victims(table, elements)
  /\ refusing' = refusing \cup {table}
  /\ UNCHANGED <<channel, handshakes, connections, sessions>>

StopHandshakes == StopTable("sessions", "handshakes", handshakes)
StopConnections == StopTable("handshakes", "connections", connections)

StopVictim(c) ==
  /\ c \in victims
  /\ victims' = victims \ {c}
  /\ channel' = [channel EXCEPT ![c] = StopBegun(@)]
  /\ UNCHANGED <<tables, sessions, phase>>

\* threadpool::shutdown stops the io_service: what is queued stays in the queue.
Shutdown ==
  /\ phase = "connections" /\ victims = {}
  /\ phase' = "aborted"
  /\ UNCHANGED <<channel, tables, sessions, victims>>

\* p2p::stop has returned, and so has close: threadpool::join detaches the threads.
IsStopped == phase = "aborted"

Quiet ==
  /\ \A c \in Channel : IsFree(c)
  /\ \A s \in Slot : calls[s] = 0 /\ batch[s] = 0
  /\ manual.state = "idle"

\* p2p::start and run; the sessions are new.  Bound: nothing was left in the queue,
\* where it would wait for the threads of the next start.
StartAgain ==
  /\ IsStopped /\ Quiet
  /\ phase' = "running"
  /\ calls' = [s \in Slot |-> 1]
  /\ UNCHANGED <<channel, tables, batch, manual, victims>>

-----------------------------------------------------------------------------
Init ==
  /\ channel = [c \in Channel |-> Blank]
  /\ handshakes = {} /\ connections = {} /\ refusing = {}
  /\ calls = [s \in Slot |-> 1] /\ batch = [s \in Slot |-> 0]
  /\ manual = Posted(AttemptLimit)
  /\ phase = "running" /\ victims = {}

\* What the start sequence of a channel does by itself.
Proceed(c) ==
  \/ Register(c) \/ RegisterStopped(c) \/ Pend(c) \/ PendStopped(c)
  \/ Start(c) \/ Open(c) \/ Attach(c) \/ HandshakeFails(c)
  \/ StartDone(c) \/ StartStopped(c)

Cycle(s) == NewConnection(s) \/ ConnectFails(s)
ManualCycle == DialManual \/ ManualFails
StopNext ==
  StopHandshakes \/ StopConnections \/ Shutdown \/ \E c \in Channel : StopVictim(c)
Environment ==
  \E c \in Channel :
    \/ \E s \in Slot, h \in Host : Connect(s, c, h)
    \/ ConnectManual(c)
    \/ \E h \in Caller : Accept(c, h)
    \/ \E o \in Channel, h \in Caller : AcceptSelf(c, o, h)
    \/ HearVersion(c) \/ HearVerack(c)
    \/ Break(c)

Next ==
  \/ \E c \in Channel : Proceed(c) \/ EndStop(c) \/ Relay(c) \/ Remove(c) \/ Destroy(c)
  \/ \E s \in Slot : Cycle(s)
  \/ ManualCycle
  \/ Environment
  \/ Stop \/ StopNext \/ StartAgain

Spec == Init /\ [][Next]_vars

\* Posted jobs and timers come to run while the pool does, and a socket that is down
\* fails the read.  After the abort a thread may end what it runs: nothing has to happen.
Work(c) ==
  Proceed(c) \/ EndStop(c) \/ Relay(c) \/ Remove(c) \/ Destroy(c) \/ (Break(c) /\ channel[c].down)

Pool(A) == phase # "aborted" /\ A

Fairness ==
  /\ \A c \in Channel : WF_vars(Pool(Work(c)))
  /\ \A s \in Slot : WF_vars(Pool(Cycle(s)))
  /\ WF_vars(Pool(ManualCycle)) /\ WF_vars(StopNext)
FairSpec == Spec /\ Fairness

-----------------------------------------------------------------------------
(* Safety *)

IsLive(c) == channel[c].stage \notin {"free", "over"}

\* What keeps an outbound slot going: a posted call, a batch, or a channel.
Holds(s) ==
  calls[s] + (IF batch[s] > 0 THEN 1 ELSE 0)
    + Cardinality({c \in Channel : channel[c].origin = s /\ IsLive(c)})

\* However a connection of a slot ends (no host answers, the handshake fails, it
\* is refused, it is stopped before or after it is stored, by several threads),
\* session_outbound::new_connection is called once for it: a slot neither runs
\* dry nor makes a second connection.
SlotsConserved ==
  \A s \in Slot : Holds(s) <= 1 /\ (~sessions_stopped => Holds(s) = 1)

\* A channel does not stay in pending_handshake_ or pending_close_ after it has
\* ended, where its address would be refused, and it is in both for a while only.
TablesHoldTheLiving ==
  \A c \in Channel :
    /\ c \in handshakes => channel[c].stage \in
         {"pended", "starting", "opened", "handshaking", "stored"}
    /\ c \in connections =>
         channel[c].stage \in {"stored", "open"}

\* When the last reference to a channel goes, its stop subscribers have all been
\* told: the assertion of ~subscriber ("subscriber not cleared"), for a channel
\* that is stopped while it starts, and by several threads.
DestroyedClean ==
  \A c \in Channel : IsForgotten(c) /\ channel[c].stopped => channel[c].subs = {}

\* When p2p::stop returns, each connection has been stopped, those stored while
\* it ran included ("Stop creating new channels and stop those that exist").
NothingConnectedAfterStop ==
  IsStopped => \A c \in connections : channel[c].stopped

\* No two connections are to the same address (p2p::store).
AddressesAreUnique ==
  \A c, d \in connections : channel[c].host = channel[d].host => c = d

(* Liveness *)

\* A connection of an outbound slot that has stopped, for whatever reason and by
\* however many threads, is replaced: its stop is relayed, it leaves pending_close_,
\* the session is told, and the slot dials again (session_outbound.cpp:135).
DeadConnectionsAreReplaced ==
  \A c \in Channel, s \in Slot :
    (c \in connections /\ channel[c].stopped /\ channel[c].origin = s)
      ~> (batch[s] > 0 \/ sessions_stopped)

(* What the comments say and the code does not do *)

\* session_outbound.cpp:145 "Pend outgoing connections so we can detect connection
\* to self.": the two ends of a connection of an outbound slot are not both stored.
NoLoopback ==
  \A c, o \in connections : ~(channel[c].link = o /\ IsOutbound(o))

\* p2p.hpp:95 "start may be reinvoked after.": a running node takes channels.
RunningTakesChannels == phase = "running" => refusing = {}

\* p2p.hpp:100 "Blocking call to coalesce all work and then terminate all threads.":
\* when p2p::close has returned, no channel, connect cycle or retry is left.
ClosedIsQuiet == IsStopped => Quiet
=============================================================================
