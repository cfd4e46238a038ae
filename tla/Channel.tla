------------------------------ MODULE Channel ------------------------------
(***************************************************************************)
(* One channel, from its start to its release: the proxy reads messages    *)
(* one after another and writes them one at a time through a sequencer,    *)
(* the version protocol shakes hands against a timer, the ping protocol    *)
(* sends a heartbeat and answers the peer's, four timers run, and stop may *)
(* come from any thread.  What the pool runs are the reader, one strand    *)
(* for each type of message, the relay of stop, the timers and the writer, *)
(* in any order.  The peer may send anything, in any order.                *)
(***************************************************************************)
EXTENDS Integers, Sequences, SequencesExt

CONSTANTS
  Own,            \* protocol_maximum, the version declared to the peer
  Minimum,        \* protocol_minimum, the least a peer may declare
  Bip31, Bip61,   \* the levels that add nonces to pings, and rejects
  PeerVersions,   \* the versions peers declare
  MaxReads,       \* bound: messages read
  MaxPings        \* bound: pings sent

ASSUME ChannelAssumption ==
  /\ {Own, Minimum, Bip31, Bip61, MaxReads, MaxPings} \subseteq Nat
  /\ PeerVersions \subseteq Nat

VARIABLES
  stopped,                                               \* proxy
  stopSubs, relayPosted, subs, strand,                   \* subscribers
  reader, reads, armed,                                  \* read cycle, timers
  handler, events, count, told, accepted,                \* version protocol
  peer, negotiated, acked,
  pinger, heart, pending, pongs, pings,                  \* ping protocol
  sent,                                                  \* proxy::send
  answered, heard, lied, asked, early                    \* history: the peer

stopVars    == <<stopped, stopSubs, relayPosted, subs, strand>>
readVars    == <<reader, reads>>
versionVars == <<handler, events, count, told, accepted, peer, negotiated, acked>>
pingVars    == <<pinger, heart, pending, pongs, pings>>
peerVars    == <<answered, heard, lied, asked, early>>
vars == <<stopVars, readVars, armed, versionVars, pingVars, sent, peerVars>>

Strands == {"ping", "pong", "reject"}   \* of the messages that are relayed
Timers  == {"expiration", "inactivity", "handshake", "ping"}
Actors  == {"reader", "timer", "reject", "relay"}
Unknown == -1                           \* no version was received
StopMark == 0                           \* the default message of a broadcast

Pair(name, n) == [name |-> name, n |-> n]

\* Messages go out in the order of the calls (module Sequencer); that they take
\* time to arrive only makes the peer answer later.
Send(m) == sent' = Append(sent, m)

-----------------------------------------------------------------------------
(* proxy::stop.  What it broadcasts and relays is posted; the subscribers  *)
(* of version and verack have nothing to do, and leave at once.  A second  *)
(* call repeats what does nothing the second time.                         *)

StopFrom(timers, queues) ==
  /\ stopped' = TRUE
  /\ relayPosted' = (relayPosted \/ ~stopped)
  /\ strand' = IF stopped THEN queues
               ELSE [t \in Strands |-> Append(queues[t], StopMark)]
  /\ subs' = subs \ {"version", "verack"}
  /\ armed' = timers \ {"expiration", "inactivity"}

Stop == StopFrom(armed, strand)

\* p2p::stop, another protocol of the channel, or a write that failed.
Suspend ==
  /\ reader # "new" /\ ~stopped
  /\ Stop
  /\ UNCHANGED <<stopSubs, readVars, versionVars, pingVars, sent, peerVars>>

-----------------------------------------------------------------------------
(* protocol_events: an event is raised (the handler is loaded, and cleared *)
(* by a code of stop) before it is invoked.                                *)

Raise(by, code) ==
  IF handler
  THEN /\ events' = events \cup {[by |-> by, code |-> code]}
       /\ handler' = (code # "stopped")
  ELSE UNCHANGED <<handler, events>>

\* After a message the reader tests for stop, restarts the inactivity timer
\* (channel::signal_activity) and tests again before it reads.
Handled(stop) == reader' = IF stop THEN "done" ELSE "active"

\* handle_notify: the code of a stop ends the timer.
Notified(e) == IF e.code = "stopped" THEN armed \ {"handshake"} ELSE armed

\* synchronizer: cleared by two successes, or the first error.
Cleared(e) == e.code # "success" \/ count = 1

\* An event that comes late is ignored, the first success is counted.
Count(e) ==
  /\ e \in events
  /\ count = 2 \/ ~Cleared(e)
  /\ events' = events \ {e}
  /\ count' = IF count = 2 THEN 2 ELSE count + 1
  /\ armed' = Notified(e)
  /\ IF e.by = "reader" THEN Handled(stopped) ELSE UNCHANGED reader
  /\ UNCHANGED <<stopVars, reads, handler, told, accepted, peer, negotiated, acked,
                 pingVars, sent, peerVars>>

\* Mutant: a code that comes after the join was cleared is passed on.
RefuseAgain(e) ==
  /\ e \in events /\ IF count = 2 THEN e.code # "success" ELSE Cleared(e)
  /\ events' = events \ {e}
  /\ count' = 2
  /\ told' = told + 1
  /\ StopFrom(Notified(e), strand)
  /\ IF e.by = "reader" THEN Handled(TRUE) ELSE UNCHANGED reader
  /\ UNCHANGED <<stopSubs, reads, handler, accepted, peer, negotiated, acked, pingVars,
                 sent, peerVars>>

\* The session is told of a failure, or the table of connections refuses the
\* channel: session::handle_start stops it.
Refuse(e) ==
  /\ e \in events /\ count # 2 /\ Cleared(e)
  /\ events' = events \ {e}
  /\ count' = 2
  /\ told' = told + 1
  /\ StopFrom(Notified(e), strand)
  /\ IF e.by = "reader" THEN Handled(TRUE) ELSE UNCHANGED reader
  /\ UNCHANGED <<stopSubs, reads, handler, accepted, peer, negotiated, acked, pingVars,
                 sent, peerVars>>

\* The success that clears the join is the reader's: the peer is not read while
\* the session stores the channel and attaches the protocols.
Accept(e) ==
  /\ e \in events /\ count # 2 /\ Cleared(e) /\ e.code = "success"
  /\ events' = events \ {e}
  /\ count' = 2
  /\ told' = told + 1
  /\ accepted' = TRUE
  /\ reader' = "attach"
  /\ UNCHANGED <<stopVars, reads, armed, handler, peer, negotiated, acked, pingVars,
                 sent, peerVars>>

-----------------------------------------------------------------------------
(* The start: the channel and its timers, then the version protocol, all   *)
(* before the first read.                                                  *)

Start ==
  /\ reader = "new"
  /\ reader' = "handshake"
  /\ stopped' = FALSE
  /\ armed' = {"expiration", "inactivity"}
  /\ UNCHANGED <<stopSubs, relayPosted, subs, strand, reads, versionVars, pingVars,
                 sent, peerVars>>

\* Mutant: a protocol that starts on a stopped channel is not told.
StartEventsSilent ==
  /\ reader = "handshake"
  /\ reader' = "limit"
  /\ handler' = ~stopped
  /\ stopSubs' = IF stopped THEN stopSubs ELSE stopSubs \cup {"version"}
  /\ UNCHANGED <<stopped, relayPosted, subs, strand, reads, armed, events, count, told,
                 accepted, peer, negotiated, acked, pingVars, sent, peerVars>>

\* protocol_events::start: a list that takes no more answers at once.
StartEvents ==
  /\ reader = "handshake"
  /\ reader' = "limit"
  /\ IF stopped
     THEN count' = 2 /\ told' = told + 1 /\ UNCHANGED <<handler, stopSubs>>
     ELSE /\ handler' = TRUE
          /\ stopSubs' = stopSubs \cup {"version"}
          /\ UNCHANGED <<count, told>>
  /\ UNCHANGED <<stopped, relayPosted, subs, strand, reads, armed, events, accepted,
                 peer, negotiated, acked, pingVars, sent, peerVars>>

\* protocol_timer::reset_timer: the test, then the timer.
LimitHandshake ==
  /\ \/ reader = "limit" /\ reader' = (IF handler THEN "limited" ELSE "hello")
        /\ UNCHANGED armed
     \/ reader = "limited" /\ reader' = "hello"
        /\ armed' = armed \cup {"handshake"}
  /\ UNCHANGED <<stopVars, reads, versionVars, pingVars, sent, peerVars>>

\* The subscriptions and the version, then the first read.
Greeted == {"version", "verack"} \cup (IF Own >= Bip61 THEN {"reject"} ELSE {})
Hello ==
  /\ reader = "hello"
  /\ reader' = IF stopped THEN "done" ELSE "reading"
  /\ subs' = IF stopped THEN subs ELSE subs \cup Greeted
  /\ Send(Pair("version", Own))
  /\ UNCHANGED <<stopped, stopSubs, relayPosted, strand, reads, armed, versionVars,
                 pingVars, peerVars>>

-----------------------------------------------------------------------------
(* The read cycle.                                                         *)

\* handle_read_heading and handle_read_payload return when stopped.
ReadEnds ==
  /\ reader = "reading" /\ stopped
  /\ reader' = "done"
  /\ UNCHANGED <<stopVars, reads, armed, versionVars, pingVars, sent, peerVars>>

\* A broken connection, or a heading or payload that is refused, a type unknown.
ReadFails ==
  /\ reader = "reading" /\ ~stopped
  /\ reader' = "done"
  /\ Stop
  /\ UNCHANGED <<stopSubs, reads, versionVars, pingVars, sent, peerVars>>

Reading == /\ reader = "reading" /\ ~stopped
           /\ reads < MaxReads
           /\ reads' = reads + 1

LesserOf(a, b) == IF a <= b THEN a ELSE b

\* sufficient_peer: `wanted` stands for what is refused without a word, the
\* user agent and services; a version too low is told, from bip61 on.
Sufficient(v, wanted) == v >= Minimum /\ wanted

\* Mutant: the subscriber of a version or verack subscribes again.
ReadSyncAgain(t) ==
  /\ Reading
  /\ IF t \in subs /\ handler THEN reader' = "event" ELSE Handled(stopped)
  /\ UNCHANGED <<stopped, stopSubs, relayPosted, subs, strand, armed, count, told,
                 accepted, pingVars, peerVars>>

\* A version or verack is handled by its subscriber, once, before the next read.
Answering(t) == t \in subs /\ handler
ReadSync(t) == /\ Reading
               /\ subs' = subs \ {t}
               /\ IF Answering(t) THEN reader' = "event" ELSE Handled(stopped)
               /\ UNCHANGED <<stopped, stopSubs, relayPosted, strand, armed, count, told,
                              accepted, pingVars, peerVars>>

ReadVersion(v, wanted) ==
  /\ ReadSync("version")
  /\ IF ~Answering("version")
     THEN UNCHANGED <<negotiated, peer, handler, events, sent>>
     ELSE IF Sufficient(v, wanted)
     THEN /\ negotiated' = LesserOf(v, Own)
          /\ peer' = v
          /\ Send(Pair("verack", 0))
          /\ Raise("reader", "success")
     ELSE /\ IF v < Minimum /\ Own >= Bip61
             THEN Send(Pair("reject", 0)) ELSE UNCHANGED sent
          /\ Raise("reader", "stopped")
          /\ UNCHANGED <<negotiated, peer>>
  /\ UNCHANGED acked

ReadVerack ==
  /\ ReadSync("verack")
  /\ acked' = TRUE
  /\ IF "verack" \in subs
     THEN Raise("reader", "success") ELSE UNCHANGED <<handler, events>>
  /\ UNCHANGED <<peer, negotiated, sent>>

\* The others are posted to the strand of their type; the next is read meanwhile.
Relay(t, n) ==
  /\ Reading
  /\ strand' = [strand EXCEPT ![t] = Append(@, n)]
  /\ Handled(stopped)
  /\ UNCHANGED <<stopped, stopSubs, relayPosted, subs, armed, versionVars, pingVars,
                 sent>>

ReadPing ==
  /\ Relay("ping", asked + 1)
  /\ asked' = asked + 1
  /\ UNCHANGED <<answered, heard, lied, early>>

ReadReject == Relay("reject", 1) /\ UNCHANGED peerVars

\* An honest peer answers the pings it has got, once and in order; any other
\* pong has a nonce that nobody awaits, or that nobody awaits yet or still.
Wrong == MaxPings + 1
Got(n) == \E i \in DOMAIN sent : sent[i] = Pair("ping", n)
ReadPong(honest) ==
  /\ honest => Got(answered + 1)
  /\ Relay("pong", IF honest THEN answered + 1 ELSE Wrong)
  /\ answered' = IF honest THEN answered + 1 ELSE answered
  /\ lied' = (lied \/ ~honest)
  /\ UNCHANGED <<heard, asked, early>>

SignalActivity ==
  /\ reader = "active"
  /\ reader' = IF stopped THEN "done" ELSE "reading"
  /\ armed' = armed \cup {"inactivity"}
  /\ UNCHANGED <<stopVars, reads, versionVars, pingVars, sent, peerVars>>

-----------------------------------------------------------------------------
(* The session attaches the ping protocol in the reader's call: with       *)
(* nonces from bip31 on, without before.                                   *)

Nonces == negotiated >= Bip31
Attachment == {"attach", "beat", "beating", "listen"}

Attach ==
  /\ reader = "attach"
  /\ reader' = "beat"
  /\ heart' = ~stopped
  /\ stopSubs' = IF stopped THEN stopSubs ELSE stopSubs \cup {"ping"}
  /\ UNCHANGED <<stopped, relayPosted, subs, strand, reads, armed, versionVars, pinger,
                 pending, pongs, pings, sent, peerVars>>

StartHeart ==
  /\ \/ reader = "beat" /\ reader' = (IF heart THEN "beating" ELSE "listen")
        /\ UNCHANGED armed
     \/ reader = "beating" /\ reader' = "listen"
        /\ armed' = armed \cup {"ping"}
  /\ UNCHANGED <<stopVars, reads, versionVars, pingVars, sent, peerVars>>

\* The first ping simulates a heartbeat.
Listen ==
  /\ reader = "listen"
  /\ subs' = IF stopped THEN subs ELSE subs \cup {"ping"}
  /\ early' = asked
  /\ IF heart THEN reader' = "pinging" /\ pinger' = "check"
              ELSE Handled(stopped) /\ UNCHANGED pinger
  /\ UNCHANGED <<stopped, stopSubs, relayPosted, strand, reads, armed, versionVars,
                 heart, pending, pongs, pings, sent, answered, heard, lied, asked>>

\* send_ping returns: to the reader, or to the timer, which is set again.
PingReturns(stop) ==
  IF reader = "pinging" THEN Handled(stop) /\ pinger' = "idle"
                        ELSE pinger' = "reset" /\ UNCHANGED reader

\* send_ping; a heartbeat that finds the last ping unanswered stops the channel.
Beat ==
  /\ pinger = "check" /\ heart /\ ~(Nonces /\ pending)
  /\ pending' = Nonces
  /\ pinger' = IF Nonces THEN "subscribe" ELSE "send"
  /\ UNCHANGED <<stopVars, readVars, armed, versionVars, heart, pongs, pings, sent,
                 peerVars>>

SkipBeat ==
  /\ pinger = "check" /\ ~(heart /\ ~(Nonces /\ pending))
  /\ PingReturns(stopped \/ heart)
  /\ IF heart THEN Stop /\ UNCHANGED stopSubs ELSE UNCHANGED <<stopVars, armed>>
  /\ UNCHANGED <<reads, versionVars, heart, pending, pongs, pings, sent, peerVars>>

\* The pong is awaited before the ping is sent.
AwaitPong ==
  /\ pinger = "subscribe"
  /\ pinger' = "send"
  /\ pongs' = IF stopped THEN pongs ELSE pongs \cup {pings + 1}
  /\ UNCHANGED <<stopVars, readVars, armed, versionVars, heart, pending, pings,
                 sent, peerVars>>

SendPing ==
  /\ pinger = "send"
  /\ PingReturns(stopped)
  /\ pings' = pings + 1
  /\ Send(Pair("ping", pings + 1))
  /\ UNCHANGED <<stopVars, reads, armed, versionVars, heart, pending, pongs, peerVars>>

\* The perpetual timer sets itself again.
ResetHeart ==
  /\ \/ pinger = "reset" /\ pinger' = (IF heart THEN "again" ELSE "idle")
        /\ UNCHANGED armed
     \/ pinger = "again" /\ pinger' = "idle"
        /\ armed' = armed \cup {"ping"}
  /\ UNCHANGED <<stopVars, readVars, versionVars, heart, pending, pongs, pings,
                 sent, peerVars>>

-----------------------------------------------------------------------------
(* Timers.                                                                 *)

FireAlarm ==
  /\ armed \cap {"expiration", "inactivity"} # {}
  /\ IF stopped THEN armed' = armed \ {"expiration", "inactivity"} /\ UNCHANGED stopVars
                ELSE Stop /\ UNCHANGED stopSubs
  /\ UNCHANGED <<readVars, versionVars, pingVars, sent, peerVars>>

FireHandshake ==
  /\ "handshake" \in armed
  /\ armed' = armed \ {"handshake"}
  /\ Raise("timer", "timeout")
  /\ UNCHANGED <<stopVars, readVars, count, told, accepted, peer, negotiated, acked,
                 pingVars, sent, peerVars>>

\* The heartbeat is longer than the session takes to attach the protocol.
FireHeart ==
  /\ "ping" \in armed /\ reader \notin {"listen", "pinging"}
  /\ heart /\ ~pending => pings < MaxPings
  /\ armed' = armed \ {"ping"}
  /\ pinger' = IF heart THEN "check" ELSE pinger
  /\ UNCHANGED <<stopVars, readVars, versionVars, heart, pending, pongs, pings,
                 sent, peerVars>>

-----------------------------------------------------------------------------
(* The strands: the subscribers of a type of message hear it in order.     *)

Rest(t) == [strand EXCEPT ![t] = Tail(@)]
Run(t) == strand[t] # <<>> /\ strand' = Rest(t)

\* The broadcast of stop, which no subscriber survives.
RunStop(t) ==
  /\ Run(t) /\ Head(strand[t]) = StopMark
  /\ subs' = subs \ {t}
  /\ pongs' = IF t = "pong" THEN {} ELSE pongs
  /\ UNCHANGED <<stopped, stopSubs, relayPosted, readVars, armed, versionVars, pinger,
                 heart, pending, pings, sent, peerVars>>

\* Mutant: a ping is heard once.
RunPingOnce ==
  /\ Run("ping") /\ Head(strand["ping"]) # StopMark
  /\ subs' = subs \ {"ping"}
  /\ IF "ping" \in subs /\ heart /\ Nonces
     THEN Send(Pair("pong", Head(strand["ping"]))) ELSE UNCHANGED sent
  /\ UNCHANGED <<stopped, stopSubs, relayPosted, readVars, armed, versionVars, pingVars,
                 peerVars>>

\* handle_receive_ping subscribes again.
RunPing ==
  /\ Run("ping") /\ Head(strand["ping"]) # StopMark
  /\ subs' = IF heart /\ ~stopped THEN subs ELSE subs \ {"ping"}
  /\ IF "ping" \in subs /\ heart /\ Nonces
     THEN Send(Pair("pong", Head(strand["ping"]))) ELSE UNCHANGED sent
  /\ UNCHANGED <<stopped, stopSubs, relayPosted, readVars, armed, versionVars, pingVars,
                 peerVars>>

\* Mutant: the pong does not end the wait.
RunPongPending ==
  /\ strand["pong"] # <<>> /\ Head(strand["pong"]) # StopMark
  /\ heard' = Head(strand["pong"])
  /\ pongs' = {}
  /\ IF heart /\ \E n \in pongs : n # heard'
     THEN StopFrom(armed, Rest("pong"))
     ELSE strand' = Rest("pong") /\ UNCHANGED <<stopped, relayPosted, subs, armed>>
  /\ UNCHANGED <<stopSubs, readVars, versionVars, pinger, heart, pending, pings, sent,
                 answered, lied, asked, early>>

\* handle_receive_pong: whoever waits hears it, once; the wrong nonce stops.
RunPong ==
  /\ strand["pong"] # <<>> /\ Head(strand["pong"]) # StopMark
  /\ heard' = Head(strand["pong"])
  /\ pongs' = {}
  /\ pending' = (pending /\ ~(heart /\ pongs # {}))
  /\ IF heart /\ \E n \in pongs : n # heard'
     THEN StopFrom(armed, Rest("pong"))
     ELSE strand' = Rest("pong") /\ UNCHANGED <<stopped, relayPosted, subs, armed>>
  /\ UNCHANGED <<stopSubs, readVars, versionVars, pinger, heart, pings, sent,
                 answered, lied, asked, early>>

\* handle_receive_reject, of a version that is obsolete or a duplicate.
RunReject ==
  /\ Run("reject") /\ Head(strand["reject"]) # StopMark
  /\ subs' = subs \ {"reject"}
  /\ IF "reject" \in subs
     THEN Raise("reject", "stopped") ELSE UNCHANGED <<handler, events>>
  /\ UNCHANGED <<stopped, stopSubs, relayPosted, readVars, armed, count, told, accepted,
                 peer, negotiated, acked, pingVars, sent, peerVars>>

\* The relay of stop: protocol_events::handle_stopped of both protocols.
RelayStop ==
  /\ relayPosted
  /\ relayPosted' = FALSE
  /\ stopSubs' = {}
  /\ IF "version" \in stopSubs
     THEN Raise("relay", "stopped") ELSE UNCHANGED <<handler, events>>
  /\ heart' = (heart /\ "ping" \notin stopSubs)
  /\ armed' = IF "ping" \in stopSubs THEN armed \ {"ping"} ELSE armed
  /\ UNCHANGED <<stopped, subs, strand, readVars, count, told, accepted, peer,
                 negotiated, acked, pinger, pending, pongs, pings, sent, peerVars>>

-----------------------------------------------------------------------------
Init ==
  /\ stopped = TRUE /\ stopSubs = {} /\ relayPosted = FALSE
  /\ subs = {} /\ strand = [t \in Strands |-> <<>>]
  /\ reader = "new" /\ reads = 0 /\ armed = {}
  /\ handler = FALSE /\ events = {} /\ count = 0 /\ told = 0 /\ accepted = FALSE
  /\ peer = Unknown /\ negotiated = Own /\ acked = FALSE
  /\ pinger = "idle" /\ heart = FALSE /\ pending = FALSE /\ pongs = {} /\ pings = 0
  /\ sent = <<>>
  /\ answered = 0 /\ heard = 0 /\ lied = FALSE /\ asked = 0 /\ early = 0

Starting == Start \/ StartEvents \/ LimitHandshake \/ Hello
Attaching == Attach \/ StartHeart \/ Listen
Pinging == Beat \/ SkipBeat \/ AwaitPong \/ SendPing \/ ResetHeart
Firing == FireAlarm \/ FireHandshake \/ FireHeart
Running == RunPing \/ RunPong \/ RunReject \/ RelayStop \/ \E t \in Strands : RunStop(t)
Invoking == \E e \in events : Count(e) \/ Refuse(e) \/ Accept(e)
ReadMessage ==
  \/ \E v \in PeerVersions, wanted \in BOOLEAN : ReadVersion(v, wanted)
  \/ ReadVerack \/ ReadPing \/ ReadReject
  \/ \E honest \in BOOLEAN : ReadPong(honest)

Next == \/ Suspend \/ Starting \/ Attaching \/ Pinging \/ Firing \/ Running
        \/ Invoking \/ ReadMessage \/ ReadEnds \/ ReadFails \/ SignalActivity

Spec == Init /\ [][Next]_vars

\* The pool runs what is posted, timers expire, and a socket that is shut down
\* ends its reads and writes.  The peer need not do anything.
Fairness ==
  /\ WF_vars(Starting \/ Attaching \/ ReadEnds \/ SignalActivity)
  /\ WF_vars(Pinging) /\ WF_vars(Invoking) /\ WF_vars(RelayStop)
  /\ WF_vars(FireAlarm) /\ WF_vars(FireHandshake) /\ WF_vars(FireHeart)
  /\ WF_vars(RunPing \/ RunStop("ping")) /\ WF_vars(RunPong \/ RunStop("pong"))
  /\ WF_vars(RunReject \/ RunStop("reject"))

FairSpec == Spec /\ Fairness

-----------------------------------------------------------------------------
(* Properties.                                                             *)

\* The types of the variables.
Messages == [name : {"version", "verack", "reject", "ping", "pong"}, n : Nat]
Codes == {"success", "timeout", "stopped"}
ProxyTypes ==
  /\ stopped \in BOOLEAN /\ relayPosted \in BOOLEAN
  /\ stopSubs \subseteq {"version", "ping"}
  /\ subs \subseteq Strands \cup {"version", "verack"}
  /\ strand \in [Strands -> Seq(Nat)]
  /\ reader \in {"new", "handshake", "limit", "limited", "hello", "reading", "event",
                 "active", "pinging", "done"} \cup Attachment
  /\ reads \in Nat /\ armed \subseteq Timers
  /\ sent \in Seq(Messages)
VersionTypes ==
  /\ handler \in BOOLEAN /\ events \subseteq [by : Actors, code : Codes]
  /\ count \in 0..2 /\ told \in Nat /\ accepted \in BOOLEAN
  /\ peer \in Nat \cup {Unknown} /\ negotiated \in Nat /\ acked \in BOOLEAN
PingTypes ==
  /\ pinger \in {"idle", "check", "subscribe", "send", "reset", "again"}
  /\ heart \in BOOLEAN /\ pending \in BOOLEAN /\ pongs \subseteq Nat /\ pings \in Nat
PeerTypes ==
  /\ answered \in Nat /\ heard \in Nat /\ lied \in BOOLEAN
  /\ asked \in Nat /\ early \in Nat
TypeOK == ProxyTypes /\ VersionTypes /\ PingTypes /\ PeerTypes

\* The session hears of a handshake once, although its two messages, its timer, a
\* reject and the stop of the channel report it from as many threads
\* (protocol_version_31402::start, synchronizer).
HandshakeToldOnce == told <= 1

\* A channel whose protocols are attached knows the version of its peer (the
\* assertion of channel::peer_version), which is sufficient, has been
\* acknowledged, and is the one negotiated, whatever was read in what order.
PeerIsKnown ==
  accepted => /\ peer # Unknown /\ peer >= Minimum /\ acked
              /\ negotiated = LesserOf(peer, Own)

\* Each ping that is read once the protocols are attached is answered once, in
\* order, or waits on its strand: the peer is not read while the session
\* attaches the protocols, so none comes too early to be heard.
Ponged(i) == i \in DOMAIN sent /\ sent[i].name = "pong"
PingsAreAnswered ==
  /\ \A i, j \in DOMAIN sent : Ponged(i) /\ Ponged(j) /\ i < j => sent[i].n < sent[j].n
  /\ accepted /\ Nonces /\ reader \notin Attachment /\ ~stopped =>
       \A p \in early + 1 .. asked :
         \/ \E i \in DOMAIN sent : Ponged(i) /\ sent[i].n = p
         \/ \E i \in DOMAIN strand["ping"] : strand["ping"][i] = p

\* A peer that answers every ping once is not dropped for it: the pong that runs
\* finds its own nonce awaited and no other, and once it has run the next
\* heartbeat does not take the ping for one without an answer.
HonestPeerIsKept ==
  ~lied =>
    /\ \A n \in pongs : n > heard /\ n = pings + (IF pinger = "send" THEN 1 ELSE 0)
    /\ ~stopped /\ pending /\ pinger \notin {"subscribe", "send"} => heard < pings

\* Every channel that starts ends and is released: nothing is left that holds it,
\* no timer, message or handler, and the session was told of the handshake.
Released == /\ stopped /\ reader = "done" /\ armed = {} /\ pinger = "idle"
            /\ stopSubs = {} /\ subs = {} /\ pongs = {} /\ events = {} /\ told = 1
            /\ \A t \in Strands : strand[t] = <<>>
ChannelIsReleased == <>[]Released
=============================================================================
