----------------------------- MODULE P2PProofs -----------------------------
(***************************************************************************)
(* Whatever the interleaving of handshakes, failures, timers and stops:    *)
(* the tables hold live channels of different addresses, none is connected *)
(* when p2p::stop has returned, and none is destroyed with a subscriber    *)
(* untold; and a slot keeps one connection, one attempt or one channel;    *)
(* for any number of channels, slots, hosts and attempts.                  *)
(***************************************************************************)
EXTENDS P2P, FiniteSetTheorems, TLAPS

-----------------------------------------------------------------------------
(* Channel records. *)

LEMMA BlankType == Blank \in ChannelRecord
BY HostAssumption DEF Blank, New, ChannelRecord, Stages

LEMMA FromPeerType ==
  ASSUME NEW origin \in Slot \cup {"inbound", "manual"}, NEW host \in Host \cup Caller
  PROVE  FromPeer(origin, host) \in ChannelRecord
BY DEF FromPeer, New, ChannelRecord, Stages

LEMMA StopEndedType ==
  ASSUME NEW r \in ChannelRecord
  PROVE  StopEnded(r) \in ChannelRecord
<1>. DEFINE r1 == [r EXCEPT !.closed = TRUE]
            r2 == [r1 EXCEPT !.relays = r.relays + 1]
<1>0. r.relays + 1 \in Nat
  BY DEF ChannelRecord
<1>1. r1 \in ChannelRecord
  BY DEF ChannelRecord
<1>2. r2 \in ChannelRecord
  <2>. HIDE DEF r1
  <2>. QED  BY <1>0, <1>1 DEF ChannelRecord
<1>3. [r2 EXCEPT !.down = TRUE] \in ChannelRecord
  <2>. HIDE DEF r2
  <2>. QED  BY <1>2 DEF ChannelRecord
<1>. QED  BY <1>3 DEF StopEnded

LEMMA StopTypes ==
  ASSUME NEW r \in ChannelRecord
  PROVE  /\ StopBegun(r) \in ChannelRecord
         /\ Stopped(r) \in ChannelRecord
         /\ Over(r) \in ChannelRecord
<1>. DEFINE r1 == [r EXCEPT !.stopped = TRUE]
<1>1. StopBegun(r) \in ChannelRecord
  <2>1. r1 \in ChannelRecord
    BY DEF ChannelRecord
  <2>2. r.closing + 1 \in Nat
    BY DEF ChannelRecord
  <2>3. [r1 EXCEPT !.closing = r.closing + 1] \in ChannelRecord
    <3>. HIDE DEF r1
    <3>. QED  BY <2>1, <2>2 DEF ChannelRecord
  <2>4. r1.closing = r.closing
    BY DEF ChannelRecord
  <2>. QED  BY <2>3, <2>4 DEF StopBegun
<1>2. r1 \in ChannelRecord
  BY DEF ChannelRecord
<1>3. Stopped(r) \in ChannelRecord
  BY <1>2, StopEndedType DEF Stopped
<1>4. Over(r) \in ChannelRecord
  BY HostAssumption DEF Over, ChannelRecord, Stages
<1>. QED  BY <1>1, <1>3, <1>4

\* A delivery changes an inbox and nothing else.
LEMMA SentFacts ==
  ASSUME NEW r \in [Channel -> ChannelRecord], NEW c \in Channel,
         NEW m \in {"version", "verack"}
  PROVE  /\ Sent(r, c, m) \in [Channel -> ChannelRecord]
         /\ \A d \in Channel :
              /\ Sent(r, c, m)[d].stage = r[d].stage /\ Sent(r, c, m)[d].host = r[d].host
              /\ Sent(r, c, m)[d].stopped = r[d].stopped
              /\ Sent(r, c, m)[d].closed = r[d].closed
              /\ Sent(r, c, m)[d].subs = r[d].subs /\ Sent(r, c, m)[d].relays = r[d].relays
              /\ Sent(r, c, m)[d].closing = r[d].closing
              /\ Sent(r, c, m)[d].origin = r[d].origin
BY DEF Sent, ChannelRecord

-----------------------------------------------------------------------------
(* Types. *)

LEMMA TypeInit == Init => TypeOK
BY BlankType, LimitAssumption DEF Init, TypeOK, Posted

LEMMA ToldTypes ==
  ASSUME TypeOK, NEW c \in Channel, NEW ec, HandleChannelStop(c, ec)
  PROVE  /\ calls' \in [Slot -> Nat]
         /\ manual' \in [state: {"posted", "connecting", "idle"}, attempts: 0..AttemptLimit \cup {1}]
BY LimitAssumption DEF TypeOK, HandleChannelStop, StoppedSlot, StoppedManual, Posted

LEMMA StartFailsType ==
  ASSUME TypeOK, NEW c \in Channel, NEW r \in ChannelRecord, NEW ec,
         StartFails(c, r, ec)
  PROVE  TypeOK'
<1>1. Over(Stopped(r)) \in ChannelRecord
  BY StopTypes
<1>2. channel' \in [Channel -> ChannelRecord]
  BY <1>1 DEF StartFails, TypeOK
<1>. QED  BY <1>2, ToldTypes DEF StartFails, Unpend, TypeOK, service

\* Putting a record in the place of a channel.
LEMMA PutType ==
  ASSUME TypeOK, NEW c \in Channel, NEW r \in ChannelRecord,
         channel' = [channel EXCEPT ![c] = r]
  PROVE  channel' \in [Channel -> ChannelRecord]
BY DEF TypeOK

LEMMA StageType ==
  ASSUME NEW r \in ChannelRecord, NEW stage \in Stages
  PROVE  [r EXCEPT !.stage = stage] \in ChannelRecord
BY DEF ChannelRecord

LEMMA CycleType ==
  ASSUME TypeOK, (\E s \in Slot : Cycle(s)) \/ ManualCycle
  PROVE  TypeOK'
<1>1. ASSUME NEW s \in Slot, NewConnection(s) PROVE TypeOK'
  BY <1>1, LimitAssumption DEF NewConnection, TypeOK, tables, service
<1>2. ASSUME NEW s \in Slot, ConnectFails(s) PROVE TypeOK'
  BY <1>2, LimitAssumption DEF ConnectFails, TypeOK, tables, service
<1>3. CASE DialManual
  <2>. DEFINE attempts == IF manual.attempts = 0 THEN 0 ELSE manual.attempts - 1
              m == [manual EXCEPT !.state = "connecting"]
  <2>1. /\ attempts \in 0..AttemptLimit \cup {1}
        /\ m \in [state: {"posted", "connecting", "idle"}, attempts: 0..AttemptLimit \cup {1}]
        /\ m.attempts = manual.attempts
    BY LimitAssumption DEF TypeOK
  <2>2. manual' = Idle \/ manual' = [m EXCEPT !.attempts = attempts]
    BY <1>3, <2>1 DEF DialManual
  <2>3. manual' \in [state: {"posted", "connecting", "idle"}, attempts: 0..AttemptLimit \cup {1}]
    <3>. HIDE DEF attempts, m
    <3>. QED  BY <2>1, <2>2, LimitAssumption DEF Idle
  <2>. QED  BY <1>3, <2>3 DEF DialManual, TypeOK, tables, service
<1>4. CASE ManualFails
  BY <1>4, LimitAssumption DEF ManualFails, Idle, Posted, TypeOK, tables, service
<1>. QED  BY <1>1, <1>2, <1>3, <1>4 DEF Cycle, ManualCycle

LEMMA ConnectType ==
  ASSUME TypeOK, NEW c \in Channel, NEW s \in Slot, NEW h \in Host, Connect(s, c, h)
  PROVE  TypeOK'
<1>1. FromPeer(s, h) \in ChannelRecord
  BY FromPeerType
<1>2. channel' \in [Channel -> ChannelRecord]
  BY <1>1, PutType DEF Connect
<1>. QED  BY <1>2, LimitAssumption DEF Connect, TypeOK, tables, service

LEMMA ConnectManualType ==
  ASSUME TypeOK, NEW c \in Channel, ConnectManual(c)
  PROVE  TypeOK'
<1>1. FromPeer("manual", ManualHost) \in ChannelRecord
  BY FromPeerType, HostAssumption
<1>2. channel' \in [Channel -> ChannelRecord]
  BY <1>1, PutType DEF ConnectManual
<1>. QED  BY <1>2, LimitAssumption DEF ConnectManual, Idle, TypeOK, tables, service

LEMMA AcceptType ==
  ASSUME TypeOK, NEW c \in Channel, NEW o \in Channel, NEW h \in Caller,
         Accept(c, h) \/ AcceptSelf(c, o, h)
  PROVE  TypeOK'
<1>1. CASE Accept(c, h)
  <2>1. FromPeer("inbound", h) \in ChannelRecord
    BY FromPeerType
  <2>2. channel' \in [Channel -> ChannelRecord]
    BY <1>1, <2>1, PutType DEF Accept
  <2>. QED  BY <1>1, <2>2 DEF Accept, TypeOK, tables, sessions, service
<1>2. CASE AcceptSelf(c, o, h)
  <2>. DEFINE r == New("created", "inbound", h, o, IF HasStarted(o) THEN {"version"} ELSE {})
  <2>1. r \in ChannelRecord
    BY DEF New, ChannelRecord, Stages
  <2>2. c # o
    BY <1>2 DEF AcceptSelf, MayAccept, IsFree
  <2>3. [channel[o] EXCEPT !.link = c] \in ChannelRecord
    BY DEF TypeOK, ChannelRecord
  <2>4. channel' = [channel EXCEPT ![c] = r, ![o] = [channel[o] EXCEPT !.link = c]]
    BY <1>2, <2>2 DEF AcceptSelf, TypeOK
  <2>5. channel' \in [Channel -> ChannelRecord]
    <3>. HIDE DEF r
    <3>. QED  BY <2>1, <2>3, <2>4 DEF TypeOK
  <2>. QED  BY <1>2, <2>5 DEF AcceptSelf, TypeOK, tables, sessions, service
<1>. QED  BY <1>1, <1>2

LEMMA StartType ==
  ASSUME TypeOK, NEW c \in Channel,
         Register(c) \/ Pend(c) \/ Start(c) \/ Open(c)
  PROVE  TypeOK'
<1>. DEFINE r == channel[c]
<1>0. r \in ChannelRecord
  BY DEF TypeOK
<1>1. ASSUME NEW stage \in Stages
      PROVE  /\ [r EXCEPT !.stage = stage] \in ChannelRecord
             /\ [[r EXCEPT !.stage = stage] EXCEPT !.stopped = FALSE] \in ChannelRecord
             /\ [[r EXCEPT !.stage = stage] EXCEPT !.closed = FALSE] \in ChannelRecord
  <2>. DEFINE q == [r EXCEPT !.stage = stage]
  <2>1. q \in ChannelRecord
    BY <1>0, StageType
  <2>. HIDE DEF q
  <2>2. [q EXCEPT !.stopped = FALSE] \in ChannelRecord
    BY <2>1 DEF ChannelRecord
  <2>3. [q EXCEPT !.closed = FALSE] \in ChannelRecord
    BY <2>1 DEF ChannelRecord
  <2>. QED  BY <2>1, <2>2, <2>3 DEF q
<1>2. channel' \in [Channel -> ChannelRecord]
  BY <1>1 DEF Register, Pend, Start, Open, Step, TypeOK, Stages
<1>. QED  BY <1>2 DEF Register, Pend, Start, Open, TypeOK, tables, sessions, service


LEMMA HandshakeType ==
  ASSUME TypeOK, NEW c \in Channel,
         Attach(c) \/ HearVersion(c) \/ HearVerack(c) \/ HandshakeFails(c) \/ PendStopped(c)
  PROVE  TypeOK'
<1>. DEFINE r == channel[c]
<1>0. r \in ChannelRecord /\ channel \in [Channel -> ChannelRecord]
  BY DEF TypeOK
<1>1. CASE Attach(c)
  <2>. DEFINE q == [r EXCEPT !.stage = "handshaking"]
              p == [q EXCEPT !.subs = {"events"}]
  <2>1. q \in ChannelRecord
    BY <1>0, StageType DEF Stages
  <2>2. p \in ChannelRecord
    <3>. HIDE DEF q
    <3>. QED  BY <2>1 DEF ChannelRecord
  <2>3. [channel EXCEPT ![c] = p] \in [Channel -> ChannelRecord]
    BY <1>0, <2>2
  <2>4. channel' = Sent([channel EXCEPT ![c] = p], c, "version")
    BY <1>1, <1>0 DEF Attach
  <2>5. channel' \in [Channel -> ChannelRecord]
    <3>. HIDE DEF p
    <3>. QED  BY <2>3, <2>4, SentFacts
  <2>. QED  BY <1>1, <2>5 DEF Attach, TypeOK, tables, sessions, service
<1>2. CASE HearVersion(c)
  <2>. DEFINE p == [r EXCEPT !.inbox = @ \ {"version"}]
  <2>1. p \in ChannelRecord
    BY <1>0 DEF ChannelRecord
  <2>2. [channel EXCEPT ![c] = p] \in [Channel -> ChannelRecord]
    BY <1>0, <2>1
  <2>3. channel' = Sent([channel EXCEPT ![c] = p], c, "verack")
    BY <1>2, <1>0 DEF HearVersion
  <2>4. channel' \in [Channel -> ChannelRecord]
    <3>. HIDE DEF p
    <3>. QED  BY <2>2, <2>3, SentFacts
  <2>. QED  BY <1>2, <2>4 DEF HearVersion, TypeOK, tables, sessions, service
<1>3. CASE HearVerack(c)
  <2>1. CASE StoreCode(c) = "success"
    <3>. DEFINE q == [r EXCEPT !.stage = "stored"]
                p == [q EXCEPT !.inbox = {}]
    <3>1. q \in ChannelRecord
      BY <1>0, StageType DEF Stages
    <3>2. p \in ChannelRecord
      <4>. HIDE DEF q
      <4>. QED  BY <3>1 DEF ChannelRecord
    <3>3. channel' = [channel EXCEPT ![c] = p]
      BY <1>3, <1>0, <2>1 DEF HearVerack
    <3>4. channel' \in [Channel -> ChannelRecord]
      <4>. HIDE DEF p
      <4>. QED  BY <3>2, <3>3, PutType
    <3>. QED  BY <1>3, <2>1, <3>4 DEF HearVerack, TypeOK, sessions, service
  <2>2. CASE StoreCode(c) # "success"
    BY <1>0, <1>3, <2>2, StartFailsType DEF HearVerack
  <2>. QED  BY <2>1, <2>2
<1>4. CASE HandshakeFails(c) \/ PendStopped(c)
  BY <1>0, <1>4, StartFailsType DEF HandshakeFails, PendStopped
<1>. QED  BY <1>1, <1>2, <1>3, <1>4

LEMMA TakenType ==
  ASSUME TypeOK, NEW c \in Channel, channel[c].relays > 0
  PROVE  Taken(c) \in ChannelRecord
<1>. DEFINE r == channel[c]
            q == [r EXCEPT !.relays = r.relays - 1]
<1>0. r \in ChannelRecord
  BY DEF TypeOK
<1>1. r.relays - 1 \in Nat
  BY <1>0 DEF ChannelRecord
<1>2. q \in ChannelRecord
  BY <1>0, <1>1 DEF ChannelRecord
<1>3. [q EXCEPT !.subs = {}] \in ChannelRecord
  <2>. HIDE DEF q
  <2>. QED  BY <1>2 DEF ChannelRecord
<1>. QED  BY <1>3 DEF Taken

LEMMA EndType ==
  ASSUME TypeOK, NEW c \in Channel,
         \/ RegisterStopped(c) \/ StartDone(c) \/ StartStopped(c)
         \/ Break(c) \/ EndStop(c) \/ Relay(c) \/ Remove(c) \/ Destroy(c)
  PROVE  TypeOK'
<1>. DEFINE r == channel[c]
<1>0. r \in ChannelRecord /\ channel \in [Channel -> ChannelRecord]
  BY DEF TypeOK
<1>1. CASE RegisterStopped(c)
  <2>1. channel' \in [Channel -> ChannelRecord]
    BY <1>0, <1>1, StopTypes, PutType DEF RegisterStopped
  <2>. QED  BY <1>1, <2>1, ToldTypes DEF RegisterStopped, TypeOK, tables, service
<1>2. CASE StartDone(c)
  <2>. DEFINE q == [r EXCEPT !.stage = "open"]
              p == [q EXCEPT !.subs = r.subs \cup {"remove"}]
  <2>1. q \in ChannelRecord
    BY <1>0, StageType DEF Stages
  <2>2. p \in ChannelRecord
    <3>1. r.subs \cup {"remove"} \in SUBSET {"events", "remove"}
      BY <1>0 DEF ChannelRecord
    <3>. HIDE DEF q
    <3>. QED  BY <2>1, <3>1 DEF ChannelRecord
  <2>3. channel' = [channel EXCEPT ![c] = p]
    BY <1>2, <1>0 DEF StartDone, ChannelRecord
  <2>4. channel' \in [Channel -> ChannelRecord]
    <3>. HIDE DEF p
    <3>. QED  BY <2>2, <2>3, PutType
  <2>. QED  BY <1>2, <2>4 DEF StartDone, Unpend, TypeOK, sessions, service
<1>3. CASE StartStopped(c)
  <2>1. channel' \in [Channel -> ChannelRecord]
    BY <1>0, <1>3, StopTypes, PutType DEF StartStopped
  <2>. QED  BY <1>3, <2>1, ToldTypes DEF StartStopped, Unpend, TypeOK, service
<1>4. CASE Break(c)
  <2>1. channel' \in [Channel -> ChannelRecord]
    BY <1>0, <1>4, StopTypes, PutType DEF Break
  <2>. QED  BY <1>4, <2>1 DEF Break, TypeOK, tables, sessions, service
<1>5. CASE EndStop(c)
  <2>. DEFINE q == StopEnded(r)
              p == [q EXCEPT !.closing = r.closing - 1]
  <2>1. q \in ChannelRecord /\ q.closing = r.closing
    BY <1>0, StopEndedType DEF StopEnded, ChannelRecord
  <2>2. r.closing - 1 \in Nat
    BY <1>0, <1>5, <2>1 DEF EndStop, ChannelRecord
  <2>3. p \in ChannelRecord
    <3>. HIDE DEF q
    <3>. QED  BY <2>1, <2>2 DEF ChannelRecord
  <2>4. channel' = [channel EXCEPT ![c] = p]
    BY <1>5 DEF EndStop, Ended
  <2>5. channel' \in [Channel -> ChannelRecord]
    <3>. HIDE DEF p
    <3>. QED  BY <2>3, <2>4, PutType
  <2>. QED  BY <1>5, <2>5 DEF EndStop, TypeOK, tables, sessions, service
<1>6. r.relays > 0 => Taken(c) \in ChannelRecord
  BY TakenType
<1>7. CASE Relay(c)
  <2>1. Taken(c) \in ChannelRecord
    BY <1>6, <1>7 DEF Relay
  <2>2. CASE channel' = [channel EXCEPT ![c] = Taken(c)] /\ UNCHANGED <<tables, sessions, service>>
    BY <2>1, <2>2, PutType DEF TypeOK, tables, sessions, service
  <2>3. CASE StartFails(c, Taken(c), "failed")
    BY <2>1, <2>3, StartFailsType
  <2>. QED  BY <1>7, <2>2, <2>3 DEF Relay
<1>8. CASE Remove(c)
  <2>1. Over(Taken(c)) \in ChannelRecord
    BY <1>6, <1>8, StopTypes DEF Remove
  <2>2. channel' \in [Channel -> ChannelRecord]
    BY <1>8, <2>1, PutType DEF Remove
  <2>. QED  BY <1>8, <2>2, ToldTypes DEF Remove, TypeOK, service
<1>9. CASE Destroy(c)
  <2>1. ASSUME NEW d \in Channel PROVE [channel[d] EXCEPT !.link = Gone] \in ChannelRecord
    BY <1>0 DEF ChannelRecord
  <2>2. channel' \in [Channel -> ChannelRecord]
    BY <1>0, <1>9, <2>1, BlankType DEF Destroy
  <2>. QED  BY <1>9, <2>2 DEF Destroy, TypeOK, tables, sessions, service
<1>. QED  BY <1>1, <1>2, <1>3, <1>4, <1>5, <1>7, <1>8, <1>9

LEMMA ServiceType ==
  ASSUME TypeOK, Stop \/ StopNext \/ StartAgain
  PROVE  TypeOK'
<1>1. CASE Stop
  BY <1>1 DEF Stop, TypeOK, tables, sessions
<1>2. CASE StopHandshakes \/ StopConnections \/ Shutdown
  BY <1>2 DEF StopHandshakes, StopConnections, StopTable, Shutdown, Victims, TypeOK, tables,
              sessions
<1>3. ASSUME NEW c \in Channel, StopVictim(c) PROVE TypeOK'
  <2>1. channel' \in [Channel -> ChannelRecord]
    BY <1>3, StopTypes, PutType DEF StopVictim, TypeOK
  <2>. QED  BY <1>3, <2>1 DEF StopVictim, TypeOK, tables, sessions
<1>4. CASE StartAgain
  BY <1>4 DEF StartAgain, TypeOK, tables
<1>. QED  BY <1>1, <1>2, <1>3, <1>4 DEF StopNext

LEMMA TypeNext == TypeOK /\ [Next]_vars => TypeOK'
<1>. SUFFICES ASSUME TypeOK, [Next]_vars PROVE TypeOK'
  OBVIOUS
<1>1. ASSUME NEW c \in Channel, Proceed(c) PROVE TypeOK'
  BY <1>1, StartType, HandshakeType, EndType DEF Proceed
<1>2. ASSUME NEW c \in Channel, EndStop(c) \/ Relay(c) \/ Remove(c) \/ Destroy(c) PROVE TypeOK'
  BY <1>2, EndType
<1>3. CASE (\E s \in Slot : Cycle(s)) \/ ManualCycle
  BY <1>3, CycleType
<1>4. CASE Environment
  <2>1. PICK c \in Channel :
          \/ \E s \in Slot, h \in Host : Connect(s, c, h)
          \/ ConnectManual(c)
          \/ \E h \in Caller : Accept(c, h)
          \/ \E o \in Channel, h \in Caller : AcceptSelf(c, o, h)
          \/ HearVersion(c) \/ HearVerack(c)
          \/ Break(c)
    BY <1>4 DEF Environment
  <2>2. ASSUME NEW s \in Slot, NEW h \in Host, Connect(s, c, h) PROVE TypeOK'
    BY <2>2, ConnectType
  <2>3. CASE ConnectManual(c)
    BY <2>3, ConnectManualType
  <2>4. ASSUME NEW o \in Channel, NEW h \in Caller, Accept(c, h) \/ AcceptSelf(c, o, h)
        PROVE  TypeOK'
    BY <2>4, AcceptType
  <2>5. CASE HearVersion(c) \/ HearVerack(c) \/ Break(c)
    BY <2>5, HandshakeType, EndType
  <2>. QED  BY <2>1, <2>2, <2>3, <2>4, <2>5
<1>6. CASE Stop \/ StopNext \/ StartAgain
  BY <1>6, ServiceType
<1>7. CASE UNCHANGED vars
  BY <1>7 DEF vars, tables, sessions, service, TypeOK
<1>. QED  BY <1>1, <1>2, <1>3, <1>4, <1>6, <1>7 DEF Next

\* Every reachable state is well typed; no stop ends that did not begin.
THEOREM TypeCorrect == Spec => []TypeOK
BY TypeInit, TypeNext, PTL DEF Spec


-----------------------------------------------------------------------------
(* The inductive invariant. *)

\* session::handle_remove is subscribed to open channels only, nothing to new ones.
RemovesAreOpen ==
  \A c \in Channel :
    /\ "remove" \in channel[c].subs => channel[c].stage = "open"
    /\ channel[c].stage = "created" => channel[c].subs = {}

\* A list of subscribers that takes no more, or none is left to add to, has a
\* job coming that takes it.
SubsAreTold ==
  \A c \in Channel :
    channel[c].subs # {} /\ (channel[c].closed \/ channel[c].stage = "over")
      => channel[c].relays > 0

\* From the copy of pending_close_ on, nothing is added to it, and what is in it
\* was stopped or is in the copy.
StopIsThorough ==
  /\ phase \in {"connections", "aborted"} =>
       /\ "connections" \in refusing
       /\ \A c \in connections : channel[c].stopped \/ c \in victims
  /\ phase = "aborted" => victims = {}
  /\ "connections" \in refusing /\ phase \notin {"connections", "aborted"} => connections = {}

IInv ==
  /\ TypeOK /\ TablesHoldTheLiving /\ AddressesAreUnique
  /\ RemovesAreOpen /\ SubsAreTold /\ StopIsThorough

LEMMA InvInit == Init => IInv
<1>. SUFFICES ASSUME Init PROVE IInv
  OBVIOUS
<1>1. TypeOK
  BY TypeInit
<1>2. TablesHoldTheLiving /\ AddressesAreUnique /\ RemovesAreOpen /\ SubsAreTold /\ StopIsThorough
  BY DEF Init, Blank, New, TablesHoldTheLiving, AddressesAreUnique, RemovesAreOpen, SubsAreTold,
         StopIsThorough
<1>. QED  BY <1>1, <1>2 DEF IInv

LEMMA InvSafe ==
  ASSUME IInv
  PROVE  NothingConnectedAfterStop /\ DestroyedClean
BY DEF IInv, TypeOK, ChannelRecord, StopIsThorough, SubsAreTold, NothingConnectedAfterStop,
       IsStopped, DestroyedClean, IsForgotten, IsSilent

\* A step leaves a channel alone but for what the invariant does not mention.
Kept(d) ==
  /\ channel'[d].stage = channel[d].stage /\ channel'[d].host = channel[d].host
  /\ channel'[d].stopped = channel[d].stopped /\ channel'[d].closed = channel[d].closed
  /\ channel'[d].subs = channel[d].subs /\ channel'[d].relays = channel[d].relays

\* What a step of one channel has to respect.
Respects(c) ==
  /\ \A d \in Channel \ {c} : Kept(d)
  /\ handshakes' \ {c} \subseteq handshakes /\ connections' \ {c} \subseteq connections
  /\ c \in handshakes' => channel'[c].stage \in
       {"pended", "starting", "opened", "handshaking", "stored"}
  /\ c \in connections' =>
       /\ channel'[c].stage \in {"stored", "open"}
       /\ \/ /\ c \in connections /\ channel'[c].host = channel[c].host
             /\ channel[c].stopped => channel'[c].stopped
          \/ /\ "connections" \notin refusing
             /\ \A d \in connections : channel[d].host # channel'[c].host
  /\ "remove" \in channel'[c].subs => channel'[c].stage = "open"
  /\ channel'[c].stage = "created" => channel'[c].subs = {}
  /\ channel'[c].subs # {} /\ (channel'[c].closed \/ channel'[c].stage = "over")
       => channel'[c].relays > 0
  /\ UNCHANGED <<refusing, phase, victims>>

LEMMA RespectKeeps ==
  ASSUME IInv, TypeOK', NEW c \in Channel, Respects(c)
  PROVE  IInv'
<1>1. TablesHoldTheLiving'
  BY DEF IInv, TablesHoldTheLiving, Respects, Kept
<1>2. AddressesAreUnique'
  BY DEF IInv, TypeOK, AddressesAreUnique, Respects, Kept
<1>3. RemovesAreOpen' /\ SubsAreTold'
  BY DEF IInv, RemovesAreOpen, SubsAreTold, Respects, Kept
<1>4. StopIsThorough'
  BY DEF IInv, TypeOK, StopIsThorough, Respects, Kept
<1>. QED  BY <1>1, <1>2, <1>3, <1>4 DEF IInv


\* A step that puts a record in the place of a channel leaves the others.
LEMMA PutKeeps ==
  ASSUME TypeOK, NEW c \in Channel, NEW r, channel' = [channel EXCEPT ![c] = r]
  PROVE  channel'[c] = r /\ \A d \in Channel \ {c} : Kept(d)
BY DEF TypeOK, Kept

LEMMA StoppedFacts ==
  ASSUME NEW r \in ChannelRecord
  PROVE  /\ Over(Stopped(r)).stage = "over" /\ Over(Stopped(r)).relays = r.relays + 1
         /\ Over(Stopped(r)).subs = r.subs /\ r.relays \in Nat
         /\ StopBegun(r).stage = r.stage /\ StopBegun(r).host = r.host
         /\ StopBegun(r).stopped /\ StopBegun(r).closed = r.closed
         /\ StopBegun(r).subs = r.subs /\ StopBegun(r).relays = r.relays
         /\ Ended(r).stage = r.stage /\ Ended(r).host = r.host
         /\ Ended(r).stopped = r.stopped /\ Ended(r).subs = r.subs
         /\ Ended(r).relays = r.relays + 1
BY DEF Over, Stopped, StopBegun, StopEnded, Ended, ChannelRecord

LEMMA StartFailsRespects ==
  ASSUME IInv, NEW c \in Channel, NEW r \in ChannelRecord, NEW ec,
         StartFails(c, r, ec), c \notin connections, "remove" \notin r.subs
  PROVE  Respects(c)
<1>1. channel'[c] = Over(Stopped(r)) /\ \A d \in Channel \ {c} : Kept(d)
  BY PutKeeps DEF StartFails, IInv
<1>. QED  BY <1>1, StoppedFacts DEF StartFails, Unpend, service, Respects

LEMMA NewRespects ==
  ASSUME IInv, NEW c \in Channel,
         \/ \E s \in Slot, h \in Host : Connect(s, c, h)
         \/ ConnectManual(c)
         \/ \E h \in Caller : Accept(c, h)
         \/ \E o \in Channel, h \in Caller : AcceptSelf(c, o, h)
  PROVE  Respects(c)
<1>1. c \notin handshakes /\ c \notin connections
  BY DEF IInv, TablesHoldTheLiving, Connect, ConnectManual, Accept, AcceptSelf, MayAccept, IsFree
<1>2. \A d \in Channel \ {c} : Kept(d)
  <2>1. CASE \E o \in Channel, h \in Caller : AcceptSelf(c, o, h)
    BY <2>1 DEF AcceptSelf, Kept, IInv, TypeOK, ChannelRecord
  <2>2. CASE ~\E o \in Channel, h \in Caller : AcceptSelf(c, o, h)
    BY <2>2 DEF Connect, ConnectManual, Accept, Kept, IInv, TypeOK
  <2>. QED  BY <2>1, <2>2
<1>3. channel'[c].subs = {}
  <2>1. CASE \E o \in Channel, h \in Caller : AcceptSelf(c, o, h)
    <3>1. PICK o \in Channel, h \in Caller : AcceptSelf(c, o, h)
      BY <2>1
    <3>2. c # o
      BY <3>1 DEF AcceptSelf, MayAccept, IsFree
    <3>. QED  BY <3>1, <3>2 DEF AcceptSelf, New, IInv, TypeOK
  <2>2. CASE ~\E o \in Channel, h \in Caller : AcceptSelf(c, o, h)
    BY <2>2 DEF Connect, ConnectManual, Accept, FromPeer, New, IInv, TypeOK
  <2>. QED  BY <2>1, <2>2
<1>4. UNCHANGED <<handshakes, connections, refusing, phase, victims>>
  BY DEF Connect, ConnectManual, Accept, AcceptSelf, tables, service
<1>. QED  BY <1>1, <1>2, <1>3, <1>4 DEF Respects

LEMMA StartRespects ==
  ASSUME IInv, NEW c \in Channel, Register(c) \/ Pend(c) \/ Start(c) \/ Open(c)
  PROVE  Respects(c)
<1>1. /\ channel[c].stage \in {"created", "registered", "pended", "starting"}
      /\ c \notin connections /\ "remove" \notin channel[c].subs
  BY DEF IInv, TablesHoldTheLiving, RemovesAreOpen, Register, Pend, Start, Open, Step
<1>2. \A d \in Channel \ {c} : Kept(d)
  BY DEF Register, Pend, Start, Open, Step, Kept, IInv, TypeOK
<1>3. /\ channel'[c].subs = channel[c].subs /\ channel'[c].relays = channel[c].relays
      /\ channel'[c].closed => channel[c].closed
      /\ channel'[c].stage \in {"registered", "pended", "starting", "opened"}
      /\ c \in handshakes' => channel'[c].stage # "registered"
  BY <1>1 DEF Register, Pend, Start, Open, Step, IInv, TypeOK, ChannelRecord, TablesHoldTheLiving,
              tables
<1>4. /\ handshakes' \subseteq handshakes \cup {c}
      /\ UNCHANGED <<connections, refusing, phase, victims>>
  BY DEF Register, Pend, Start, Open, tables, service
<1>. QED  BY <1>1, <1>2, <1>3, <1>4 DEF Respects, IInv, SubsAreTold

LEMMA HandshakeRespects ==
  ASSUME IInv, NEW c \in Channel,
         Attach(c) \/ HearVersion(c) \/ HearVerack(c) \/ HandshakeFails(c) \/ PendStopped(c)
  PROVE  Respects(c)
<1>1. /\ channel[c].stage \in {"registered", "opened", "handshaking"}
      /\ c \notin connections /\ "remove" \notin channel[c].subs
      /\ channel \in [Channel -> ChannelRecord] /\ channel[c] \in ChannelRecord
  BY DEF IInv, TypeOK, TablesHoldTheLiving, RemovesAreOpen, Attach, HearVersion, HearVerack,
         HandshakeFails, PendStopped
<1>2. CASE Attach(c)
  <2>. DEFINE r == [channel EXCEPT ![c].stage = "handshaking", ![c].subs = {"events"}]
  <2>1. r \in [Channel -> ChannelRecord]
    <3>. DEFINE q == [channel[c] EXCEPT !.stage = "handshaking"]
    <3>1. q \in ChannelRecord
      BY <1>1, StageType DEF Stages
    <3>2. [q EXCEPT !.subs = {"events"}] \in ChannelRecord
      <4>. HIDE DEF q
      <4>. QED  BY <3>1 DEF ChannelRecord
    <3>3. r = [channel EXCEPT ![c] = [q EXCEPT !.subs = {"events"}]]
      BY <1>1
    <3>. QED  BY <1>1, <3>2, <3>3
  <2>2. /\ r[c].stage = "handshaking" /\ r[c].subs = {"events"} /\ r[c].closed = channel[c].closed
        /\ \A d \in Channel \ {c} : r[d] = channel[d]
    BY <1>1 DEF ChannelRecord
  <2>3. channel' = Sent(r, c, "version") /\ ~channel[c].closed
    BY <1>2 DEF Attach
  <2>. HIDE DEF r
  <2>4. /\ channel'[c].stage = "handshaking" /\ channel'[c].subs = {"events"}
        /\ ~channel'[c].closed /\ \A d \in Channel \ {c} : Kept(d)
    BY <2>1, <2>2, <2>3, SentFacts DEF Kept
  <2>. QED  BY <1>1, <1>2, <2>4 DEF Attach, tables, service, Respects
<1>3. CASE HearVersion(c)
  <2>. DEFINE r == [channel EXCEPT ![c].inbox = @ \ {"version"}]
  <2>1. [channel[c] EXCEPT !.inbox = @ \ {"version"}] \in ChannelRecord
    BY <1>1 DEF ChannelRecord
  <2>2. r \in [Channel -> ChannelRecord]
    BY <1>1, <2>1
  <2>3. /\ r[c].stage = channel[c].stage /\ r[c].subs = channel[c].subs
        /\ r[c].closed = channel[c].closed /\ r[c].relays = channel[c].relays
        /\ \A d \in Channel \ {c} : r[d] = channel[d]
    BY <1>1 DEF ChannelRecord
  <2>4. channel' = Sent(r, c, "verack")
    BY <1>3 DEF HearVersion
  <2>. HIDE DEF r
  <2>5. /\ channel'[c].stage = channel[c].stage /\ channel'[c].subs = channel[c].subs
        /\ channel'[c].closed = channel[c].closed /\ channel'[c].relays = channel[c].relays
        /\ \A d \in Channel \ {c} : Kept(d)
    BY <2>2, <2>3, <2>4, SentFacts DEF Kept
  <2>6. UNCHANGED <<handshakes, connections, refusing, phase, victims>>
    BY <1>3 DEF HearVersion, tables, service
  <2>. QED  BY <1>1, <2>5, <2>6 DEF Respects, IInv, SubsAreTold, TablesHoldTheLiving
<1>4. CASE HearVerack(c) /\ StoreCode(c) = "success"
  <2>1. /\ channel'[c].stage = "stored" /\ channel'[c].host = channel[c].host
        /\ channel'[c].subs = channel[c].subs /\ channel'[c].relays = channel[c].relays
        /\ channel'[c].closed = channel[c].closed
        /\ \A d \in Channel \ {c} : Kept(d)
    BY <1>1, <1>4 DEF HearVerack, Kept, ChannelRecord
  <2>2. /\ connections' = connections \cup {c}
        /\ UNCHANGED <<handshakes, refusing, phase, victims>>
    BY <1>4 DEF HearVerack, service
  <2>3. /\ "connections" \notin refusing
        /\ \A d \in connections : channel[d].host # channel[c].host
    BY <1>4 DEF StoreCode, IsConnected
  <2>. QED  BY <1>1, <2>1, <2>2, <2>3 DEF Respects, IInv, SubsAreTold
<1>5. CASE HearVerack(c) /\ StoreCode(c) # "success"
  BY <1>1, <1>5, StartFailsRespects DEF HearVerack
<1>6. CASE HandshakeFails(c) \/ PendStopped(c)
  BY <1>1, <1>6, StartFailsRespects DEF HandshakeFails, PendStopped
<1>. QED  BY <1>2, <1>3, <1>4, <1>5, <1>6


LEMMA EndRespects ==
  ASSUME IInv, NEW c \in Channel,
         \/ RegisterStopped(c) \/ StartDone(c) \/ StartStopped(c)
         \/ Break(c) \/ EndStop(c) \/ Relay(c) \/ Remove(c) \/ Destroy(c)
  PROVE  Respects(c)
<1>. DEFINE r == channel[c]
<1>0. r \in ChannelRecord /\ channel \in [Channel -> ChannelRecord]
  BY DEF IInv, TypeOK
<1>1. CASE RegisterStopped(c)
  <2>1. c \notin handshakes /\ c \notin connections /\ r.subs = {}
    BY <1>1 DEF RegisterStopped, IInv, TablesHoldTheLiving, RemovesAreOpen
  <2>2. channel'[c] = Over(r) /\ \A d \in Channel \ {c} : Kept(d)
    BY <1>1, PutKeeps DEF RegisterStopped, IInv
  <2>. QED  BY <1>1, <2>1, <2>2 DEF RegisterStopped, tables, service, Over, Respects
<1>2. CASE StartDone(c)
  <2>1. /\ channel'[c].stage = "open" /\ channel'[c].host = r.host
        /\ channel'[c].stopped = r.stopped /\ ~channel'[c].closed
        /\ \A d \in Channel \ {c} : Kept(d)
    BY <1>0, <1>2 DEF StartDone, Kept, ChannelRecord
  <2>. QED  BY <1>2, <2>1 DEF StartDone, Unpend, service, Respects
<1>3. CASE StartStopped(c)
  <2>1. "remove" \notin r.subs /\ (r.subs # {} => r.relays > 0)
    BY <1>3 DEF StartStopped, IInv, RemovesAreOpen, SubsAreTold
  <2>2. channel'[c] = Over(r) /\ \A d \in Channel \ {c} : Kept(d)
    BY <1>3, PutKeeps DEF StartStopped, IInv
  <2>. QED  BY <1>3, <2>1, <2>2 DEF StartStopped, Unpend, service, Over, Respects
<1>4. CASE Break(c)
  <2>1. channel'[c] = StopBegun(r) /\ \A d \in Channel \ {c} : Kept(d)
    BY <1>4, PutKeeps DEF Break, IInv
  <2>. QED  BY <1>0, <1>4, <2>1, StoppedFacts
       DEF Break, tables, service, Respects, IInv, TablesHoldTheLiving, RemovesAreOpen, SubsAreTold
<1>5. CASE EndStop(c)
  <2>1. channel'[c] = Ended(r) /\ \A d \in Channel \ {c} : Kept(d)
    BY <1>5, PutKeeps DEF EndStop, IInv
  <2>. QED  BY <1>0, <1>5, <2>1, StoppedFacts
       DEF EndStop, tables, service, Respects, IInv, TablesHoldTheLiving, RemovesAreOpen
<1>6. /\ Taken(c).stage = r.stage /\ Taken(c).host = r.host /\ Taken(c).stopped = r.stopped
      /\ Taken(c).subs = {}
  BY <1>0 DEF Taken, ChannelRecord
<1>7. CASE Relay(c) /\ StartFails(c, Taken(c), "failed") /\ r.stage = "handshaking"
  <2>1. Taken(c) \in ChannelRecord
    BY <1>0, <1>7, TakenType DEF Relay, IInv
  <2>2. c \notin connections
    BY <1>7 DEF IInv, TablesHoldTheLiving
  <2>. QED  BY <1>6, <1>7, <2>1, <2>2, StartFailsRespects
<1>8. CASE Relay(c) /\ channel' = [channel EXCEPT ![c] = Taken(c)]
           /\ UNCHANGED <<tables, sessions, service>>
  <2>1. channel'[c] = Taken(c) /\ \A d \in Channel \ {c} : Kept(d)
    BY <1>8, PutKeeps DEF IInv
  <2>. QED  BY <1>6, <1>8, <2>1
       DEF tables, service, Respects, IInv, TablesHoldTheLiving
<1>9. CASE Remove(c)
  <2>1. c \notin handshakes
    BY <1>9 DEF Remove, IInv, TablesHoldTheLiving, RemovesAreOpen
  <2>2. channel'[c] = Over(Taken(c)) /\ \A d \in Channel \ {c} : Kept(d)
    BY <1>9, PutKeeps DEF Remove, IInv
  <2>. QED  BY <1>6, <1>9, <2>1, <2>2 DEF Remove, service, Over, Respects
<1>10. CASE Destroy(c)
  <2>1. c \notin handshakes /\ c \notin connections
    BY <1>10 DEF Destroy, IsForgotten, IInv, TablesHoldTheLiving
  <2>2. \A d \in Channel \ {c} : Kept(d)
    BY <1>0, <1>10 DEF Destroy, Kept, ChannelRecord
  <2>3. channel'[c] = Blank
    BY <1>0, <1>10 DEF Destroy
  <2>. QED  BY <1>10, <2>1, <2>2, <2>3 DEF Destroy, tables, service, Blank, New, Respects
<1>. QED  BY <1>1, <1>2, <1>3, <1>4, <1>5, <1>7, <1>8, <1>9, <1>10 DEF Relay

LEMMA ServiceKeeps ==
  ASSUME IInv, TypeOK', Stop \/ StopNext \/ StartAgain
  PROVE  IInv'
<1>1. CASE Stop \/ StopHandshakes \/ StopConnections \/ Shutdown
  <2>1. UNCHANGED <<channel, handshakes, connections>>
    BY <1>1 DEF Stop, StopHandshakes, StopConnections, StopTable, Shutdown, tables
  <2>2. (TablesHoldTheLiving /\ AddressesAreUnique /\ RemovesAreOpen /\ SubsAreTold)'
    BY <2>1 DEF IInv, TablesHoldTheLiving, AddressesAreUnique, RemovesAreOpen, SubsAreTold
  <2>3. StopIsThorough'
    <3>1. CASE Stop
      BY <3>1 DEF Stop, tables, IInv, StopIsThorough
    <3>2. CASE StopHandshakes
      BY <3>2 DEF StopHandshakes, StopTable, IInv, StopIsThorough
    <3>3. CASE StopConnections
      BY <3>3 DEF StopConnections, StopTable, Victims, IInv, StopIsThorough
    <3>4. CASE Shutdown
      BY <3>4 DEF Shutdown, tables, IInv, StopIsThorough
    <3>. QED  BY <1>1, <3>1, <3>2, <3>3, <3>4
  <2>. QED  BY <2>2, <2>3 DEF IInv
<1>2. ASSUME NEW c \in Channel, StopVictim(c) PROVE IInv'
  <2>1. /\ channel'[c] = StopBegun(channel[c]) /\ \A d \in Channel \ {c} : Kept(d)
        /\ channel[c] \in ChannelRecord
    BY <1>2, PutKeeps DEF StopVictim, IInv, TypeOK
  <2>2. channel'[c].stopped /\ \A d \in Channel :
          /\ channel'[d].stage = channel[d].stage /\ channel'[d].host = channel[d].host
          /\ channel'[d].closed = channel[d].closed /\ channel'[d].subs = channel[d].subs
          /\ channel'[d].relays = channel[d].relays
          /\ d # c => channel'[d].stopped = channel[d].stopped
    BY <2>1, StoppedFacts DEF Kept
  <2>3. /\ UNCHANGED <<handshakes, connections, refusing, phase>> /\ victims' = victims \ {c}
    BY <1>2 DEF StopVictim, tables
  <2>4. (TablesHoldTheLiving /\ AddressesAreUnique /\ RemovesAreOpen /\ SubsAreTold)'
    BY <2>2, <2>3
    DEF IInv, TypeOK, TablesHoldTheLiving, AddressesAreUnique, RemovesAreOpen, SubsAreTold
  <2>5. StopIsThorough'
    BY <2>2, <2>3 DEF IInv, TypeOK, StopIsThorough
  <2>. QED  BY <2>4, <2>5 DEF IInv
<1>3. CASE StartAgain
  <2>1. connections = {}
    BY <1>3 DEF StartAgain, Quiet, IsFree, IInv, TypeOK, TablesHoldTheLiving
  <2>. QED  BY <1>3, <2>1
       DEF StartAgain, tables, IInv, TablesHoldTheLiving, AddressesAreUnique, RemovesAreOpen,
           SubsAreTold, StopIsThorough
<1>. QED  BY <1>1, <1>2, <1>3 DEF StopNext

LEMMA InvNext == IInv /\ [Next]_vars => IInv'
<1>. SUFFICES ASSUME IInv, [Next]_vars PROVE IInv'
  OBVIOUS
<1>0. TypeOK'
  BY TypeNext DEF IInv
<1>1. ASSUME NEW c \in Channel,
             Proceed(c) \/ EndStop(c) \/ Relay(c) \/ Remove(c) \/ Destroy(c)
      PROVE  IInv'
  BY <1>0, <1>1, StartRespects, HandshakeRespects, EndRespects, RespectKeeps DEF Proceed
<1>2. CASE Environment
  <2>1. PICK c \in Channel :
          \/ \E s \in Slot, h \in Host : Connect(s, c, h)
          \/ ConnectManual(c)
          \/ \E h \in Caller : Accept(c, h)
          \/ \E o \in Channel, h \in Caller : AcceptSelf(c, o, h)
          \/ HearVersion(c) \/ HearVerack(c)
          \/ Break(c)
    BY <1>2 DEF Environment
  <2>2. Respects(c)
    BY <2>1, NewRespects, HandshakeRespects, EndRespects
  <2>. QED  BY <1>0, <2>2, RespectKeeps
<1>3. CASE (\E s \in Slot : Cycle(s)) \/ ManualCycle \/ UNCHANGED vars
  <2>1. UNCHANGED <<channel, tables, service>>
    BY <1>3 DEF Cycle, ManualCycle, NewConnection, ConnectFails, DialManual, ManualFails, vars
  <2>. QED  BY <1>0, <2>1
       DEF tables, service, IInv, TablesHoldTheLiving, AddressesAreUnique, RemovesAreOpen,
           SubsAreTold, StopIsThorough
<1>4. CASE Stop \/ StopNext \/ StartAgain
  BY <1>0, <1>4, ServiceKeeps
<1>. QED  BY <1>1, <1>2, <1>3, <1>4 DEF Next

\* The invariant that the theorems below follow from.
THEOREM Invariance == Spec => []IInv
BY InvInit, InvNext, PTL DEF Spec

\* No channel is left in a table after its end, by whichever way it comes to it.
THEOREM TablesHold == Spec => []TablesHoldTheLiving
<1>1. IInv => TablesHoldTheLiving
  BY DEF IInv
<1>. QED  BY <1>1, Invariance, PTL

\* Two connections never share an address.
THEOREM UniqueAddresses == Spec => []AddressesAreUnique
<1>1. IInv => AddressesAreUnique
  BY DEF IInv
<1>. QED  BY <1>1, Invariance, PTL

\* p2p::stop returns with every stored channel stopped, however many handshakes
\* complete while it copies and stops the tables.
THEOREM StopReachesAll == Spec => []NothingConnectedAfterStop
BY InvSafe, Invariance, PTL

\* The assertion of ~subscriber holds for every order of start, stops and relays.
THEOREM SubscribersCleared == Spec => []DestroyedClean
BY InvSafe, Invariance, PTL

-----------------------------------------------------------------------------
(***************************************************************************)
(* A slot is served by one thing: a posted call, a batch of connects or a  *)
(* live channel; or by nothing, once the sessions have stopped.            *)
(***************************************************************************)
LiveOf(s) == {c \in Channel : channel[c].origin = s /\ IsLive(c)}

Served(s) ==
  \/ calls[s] = 1 /\ batch[s] = 0 /\ LiveOf(s) = {}
  \/ calls[s] = 0 /\ batch[s] > 0 /\ LiveOf(s) = {}
  \/ calls[s] = 0 /\ batch[s] = 0 /\ \E c \in Channel : LiveOf(s) = {c}
  \/ calls[s] = 0 /\ batch[s] = 0 /\ LiveOf(s) = {} /\ sessions_stopped

\* A channel goes on living, for the session it came from, or goes on not living.
Lives(d) ==
  /\ IsLive(d)' <=> IsLive(d)
  /\ IsLive(d) => channel'[d].origin = channel[d].origin

LEMMA ServedKept ==
  ASSUME NEW s \in Slot, Served(s), LiveOf(s)' = LiveOf(s),
         calls'[s] = calls[s], batch'[s] = batch[s], sessions_stopped => sessions_stopped'
  PROVE  Served(s)'
BY DEF Served

LEMMA LivesKeeps ==
  ASSUME NEW s, \A d \in Channel : Lives(d)
  PROVE  LiveOf(s)' = LiveOf(s)
BY DEF Lives, LiveOf

\* A step that ends no channel and makes none.
LEMMA LivesServed ==
  ASSUME NEW s \in Slot, Served(s), \A d \in Channel : Lives(d),
         UNCHANGED <<calls, batch, phase>>
  PROVE  Served(s)'
BY LivesKeeps, ServedKept DEF sessions_stopped

\* The end of a channel is one call for its slot.
LEMMA EndServed ==
  ASSUME TypeOK, NEW c \in Channel, NEW ec, IsLive(c), ~IsLive(c)',
         \A d \in Channel \ {c} : Lives(d), HandleChannelStop(c, ec),
         UNCHANGED <<batch, phase>>, NEW s \in Slot, Served(s)
  PROVE  Served(s)'
<1>1. calls'[s] = IF channel[c].origin = s THEN calls[s] + 1 ELSE calls[s]
  BY DEF HandleChannelStop, StoppedSlot
<1>2. CASE channel[c].origin = s
  <2>1. c \in LiveOf(s)
    BY <1>2 DEF LiveOf
  <2>2. calls[s] = 0 /\ batch[s] = 0 /\ LiveOf(s) = {c}
    BY <2>1 DEF Served
  <2>3. LiveOf(s)' = {}
    BY <2>2 DEF Lives, LiveOf
  <2>. QED  BY <1>1, <1>2, <2>2, <2>3 DEF Served
<1>3. CASE channel[c].origin # s
  <2>1. LiveOf(s)' = LiveOf(s)
    BY <1>3 DEF Lives, LiveOf
  <2>. QED  BY <1>1, <1>3, <2>1, ServedKept DEF sessions_stopped
<1>. QED  BY <1>2, <1>3

\* A step that puts a record in the place of a channel leaves the others.
LEMMA PutLives ==
  ASSUME TypeOK, NEW c \in Channel, NEW r, channel' = [channel EXCEPT ![c] = r]
  PROVE  channel'[c] = r /\ \A d \in Channel \ {c} : Lives(d)
BY DEF TypeOK, Lives, IsLive

LEMMA StartFailsServed ==
  ASSUME TypeOK, NEW c \in Channel, NEW r \in ChannelRecord, NEW ec, IsLive(c),
         StartFails(c, r, ec), NEW s \in Slot, Served(s)
  PROVE  Served(s)'
<1>1. channel'[c] = Over(Stopped(r)) /\ \A d \in Channel \ {c} : Lives(d)
  BY PutLives DEF StartFails
<1>2. ~IsLive(c)'
  BY <1>1, StoppedFacts DEF IsLive
<1>. QED  BY <1>1, <1>2, EndServed DEF StartFails, service


LEMMA NewServed ==
  ASSUME TypeOK, NEW c \in Channel,
         \/ \E t \in Slot, h \in Host : Connect(t, c, h)
         \/ ConnectManual(c)
         \/ \E h \in Caller : Accept(c, h)
         \/ \E o \in Channel, h \in Caller : AcceptSelf(c, o, h),
         NEW s \in Slot, Served(s)
  PROVE  Served(s)'
<1>1. ~IsLive(c) /\ channel \in [Channel -> ChannelRecord] /\ batch \in [Slot -> 0..BatchSize]
  BY DEF Connect, ConnectManual, Accept, AcceptSelf, MayAccept, IsFree, IsLive, TypeOK
<1>2. CASE \E t \in Slot, h \in Host : Connect(t, c, h)
  <2>1. PICK t \in Slot, h \in Host : Connect(t, c, h)
    BY <1>2
  <2>2. /\ batch[t] > 0 /\ batch' = [batch EXCEPT ![t] = 0]
        /\ calls' = calls /\ phase' = phase
        /\ channel' = [channel EXCEPT ![c] = FromPeer(t, h)]
    BY <2>1 DEF Connect, service
  <2>3. channel'[c].origin = t /\ IsLive(c)' /\ \A d \in Channel \ {c} : Lives(d)
    <3>1. channel'[c] = FromPeer(t, h) /\ \A d \in Channel \ {c} : Lives(d)
      BY <2>2, PutLives
    <3>2. FromPeer(t, h).origin = t /\ FromPeer(t, h).stage = "created"
      BY DEF FromPeer, New
    <3>3. channel'[c].origin = t /\ channel'[c].stage = "created"
      BY <3>1, <3>2
    <3>. QED  BY <3>1, <3>3 DEF IsLive
  <2>4. CASE s = t
    <3>1. calls[s] = 0 /\ LiveOf(s) = {}
      BY <2>2, <2>4 DEF Served
    <3>2. LiveOf(s)' = {c}
      BY <2>3, <2>4, <3>1 DEF Lives, LiveOf
    <3>3. batch'[s] = 0 /\ calls'[s] = 0
      BY <1>1, <2>2, <2>4, <3>1
    <3>. QED  BY <3>2, <3>3 DEF Served
  <2>5. CASE s # t
    <3>1. LiveOf(s)' = LiveOf(s)
      BY <1>1, <2>3, <2>5 DEF Lives, LiveOf
    <3>2. batch'[s] = batch[s] /\ calls'[s] = calls[s]
      BY <1>1, <2>2, <2>5
    <3>. QED  BY <2>2, <3>1, <3>2, ServedKept DEF sessions_stopped
  <2>. QED  BY <2>4, <2>5
<1>3. CASE ConnectManual(c) \/ \E h \in Caller : Accept(c, h)
  <2>1. \A origin, host : FromPeer(origin, host).origin = origin
    BY DEF FromPeer, New
  <2>2. channel'[c].origin # s /\ \A d \in Channel \ {c} : Lives(d)
    <3>1. CASE ConnectManual(c)
      <4>1. channel'[c] = FromPeer("manual", ManualHost) /\ \A d \in Channel \ {c} : Lives(d)
        BY <3>1, PutLives DEF ConnectManual
      <4>2. channel'[c].origin = "manual"
        BY <2>1, <4>1
      <4>. QED  BY <4>1, <4>2, HostAssumption
    <3>2. ASSUME NEW h \in Caller, Accept(c, h)
          PROVE  channel'[c].origin # s /\ \A d \in Channel \ {c} : Lives(d)
      <4>1. channel'[c] = FromPeer("inbound", h) /\ \A d \in Channel \ {c} : Lives(d)
        BY <3>2, PutLives DEF Accept
      <4>2. channel'[c].origin = "inbound"
        BY <2>1, <4>1
      <4>. QED  BY <4>1, <4>2, HostAssumption
    <3>. QED  BY <1>3, <3>1, <3>2
  <2>3. LiveOf(s)' = LiveOf(s)
    BY <1>1, <2>2 DEF Lives, LiveOf
  <2>. QED  BY <1>3, <2>3, ServedKept
       DEF ConnectManual, Accept, sessions, service, sessions_stopped
<1>4. CASE \E o \in Channel, h \in Caller : AcceptSelf(c, o, h)
  <2>1. PICK o \in Channel, h \in Caller : AcceptSelf(c, o, h)
    BY <1>4
  <2>2. c # o
    BY <2>1 DEF AcceptSelf, MayAccept, IsFree
  <2>3. channel'[c].origin = "inbound"
    BY <1>1, <2>1, <2>2 DEF AcceptSelf, New
  <2>4. \A d \in Channel \ {c} : Lives(d)
    BY <1>1, <2>1, <2>2 DEF AcceptSelf, Lives, IsLive, ChannelRecord
  <2>5. LiveOf(s)' = LiveOf(s)
    BY <1>1, <2>3, <2>4, HostAssumption DEF Lives, LiveOf
  <2>. QED  BY <2>1, <2>5, ServedKept DEF AcceptSelf, sessions, service, sessions_stopped
<1>. QED  BY <1>2, <1>3, <1>4

LEMMA StartServed ==
  ASSUME TypeOK, NEW c \in Channel,
         Register(c) \/ Pend(c) \/ Start(c) \/ Open(c) \/ StartDone(c),
         NEW s \in Slot, Served(s)
  PROVE  Served(s)'
<1>1. \A d \in Channel : Lives(d)
  BY DEF Register, Pend, Start, Open, StartDone, Step, Lives, IsLive, IsOutbound, TypeOK,
         ChannelRecord
<1>2. UNCHANGED <<calls, batch, phase>>
  BY DEF Register, Pend, Start, Open, StartDone, sessions, service
<1>. QED  BY <1>1, <1>2, LivesServed

LEMMA HandshakeServed ==
  ASSUME TypeOK, NEW c \in Channel,
         Attach(c) \/ HearVersion(c) \/ HearVerack(c) \/ HandshakeFails(c) \/ PendStopped(c),
         NEW s \in Slot, Served(s)
  PROVE  Served(s)'
<1>1. /\ channel[c].stage \in {"registered", "opened", "handshaking"} /\ IsLive(c)
      /\ channel \in [Channel -> ChannelRecord] /\ channel[c] \in ChannelRecord
  BY DEF TypeOK, Attach, HearVersion, HearVerack, HandshakeFails, PendStopped, IsLive
<1>2. CASE Attach(c)
  <2>. DEFINE q == [channel[c] EXCEPT !.stage = "handshaking"]
              p == [q EXCEPT !.subs = {"events"}]
              r == [channel EXCEPT ![c] = p]
  <2>1. q \in ChannelRecord
    BY <1>1, StageType DEF Stages
  <2>2. p \in ChannelRecord
    <3>. HIDE DEF q
    <3>. QED  BY <2>1 DEF ChannelRecord
  <2>3. p.stage = "handshaking" /\ p.origin = channel[c].origin
    BY <1>1 DEF ChannelRecord
  <2>4. channel' = Sent(r, c, "version")
    BY <1>1, <1>2 DEF Attach
  <2>5. /\ r \in [Channel -> ChannelRecord] /\ r[c] = p
        /\ \A d \in Channel \ {c} : r[d] = channel[d]
    <3>. HIDE DEF p
    <3>. QED  BY <1>1, <2>2
  <2>. HIDE DEF r, p
  <2>6. \A d \in Channel : Lives(d)
    BY <1>1, <2>3, <2>4, <2>5, SentFacts DEF Lives, IsLive
  <2>. QED  BY <1>2, <2>6, LivesServed DEF Attach, sessions, service
<1>3. CASE HearVersion(c)
  <2>. DEFINE p == [channel[c] EXCEPT !.inbox = @ \ {"version"}]
              r == [channel EXCEPT ![c] = p]
  <2>1. p \in ChannelRecord /\ p.stage = channel[c].stage /\ p.origin = channel[c].origin
    BY <1>1 DEF ChannelRecord
  <2>2. channel' = Sent(r, c, "verack")
    BY <1>3 DEF HearVersion
  <2>3. /\ r \in [Channel -> ChannelRecord] /\ r[c] = p
        /\ \A d \in Channel \ {c} : r[d] = channel[d]
    <3>. HIDE DEF p
    <3>. QED  BY <1>1, <2>1
  <2>. HIDE DEF r, p
  <2>4. \A d \in Channel : Lives(d)
    BY <1>1, <2>1, <2>2, <2>3, SentFacts DEF Lives, IsLive
  <2>. QED  BY <1>3, <2>4, LivesServed DEF HearVersion, sessions, service
<1>4. CASE HearVerack(c) /\ StoreCode(c) = "success"
  <2>1. \A d \in Channel : Lives(d)
    BY <1>1, <1>4 DEF HearVerack, Lives, IsLive, ChannelRecord
  <2>. QED  BY <1>4, <2>1, LivesServed DEF HearVerack, sessions, service
<1>5. CASE HearVerack(c) /\ StoreCode(c) # "success"
  BY <1>1, <1>5, StartFailsServed DEF HearVerack
<1>6. CASE HandshakeFails(c) \/ PendStopped(c)
  BY <1>1, <1>6, StartFailsServed DEF HandshakeFails, PendStopped
<1>. QED  BY <1>2, <1>3, <1>4, <1>5, <1>6


LEMMA EndingServed ==
  ASSUME IInv, NEW c \in Channel,
         \/ RegisterStopped(c) \/ StartStopped(c) \/ Break(c) \/ EndStop(c) \/ Relay(c)
         \/ Remove(c) \/ Destroy(c) \/ StopVictim(c),
         NEW s \in Slot, Served(s)
  PROVE  Served(s)'
<1>. DEFINE r == channel[c]
<1>0. r \in ChannelRecord /\ channel \in [Channel -> ChannelRecord] /\ TypeOK
  BY DEF IInv, TypeOK
<1>1. CASE RegisterStopped(c) \/ StartStopped(c)
  <2>1. channel'[c] = Over(r) /\ \A d \in Channel \ {c} : Lives(d)
    BY <1>0, <1>1, PutLives DEF RegisterStopped, StartStopped
  <2>2. IsLive(c) /\ ~IsLive(c)'
    BY <1>1, <2>1 DEF RegisterStopped, StartStopped, IsLive, Over
  <2>. QED  BY <1>0, <1>1, <2>1, <2>2, EndServed DEF RegisterStopped, StartStopped, service
<1>2. CASE Remove(c)
  <2>1. channel'[c] = Over(Taken(c)) /\ \A d \in Channel \ {c} : Lives(d)
    BY <1>0, <1>2, PutLives DEF Remove
  <2>2. r.stage = "open"
    BY <1>2 DEF Remove, IInv, RemovesAreOpen
  <2>3. IsLive(c) /\ ~IsLive(c)'
    BY <2>1, <2>2 DEF IsLive, Over
  <2>. QED  BY <1>0, <1>2, <2>1, <2>3, EndServed DEF Remove, service
<1>3. /\ Taken(c).stage = r.stage /\ Taken(c).origin = r.origin
      /\ StopBegun(r).stage = r.stage /\ StopBegun(r).origin = r.origin
      /\ Ended(r).stage = r.stage /\ Ended(r).origin = r.origin
  BY <1>0 DEF Taken, StopBegun, Ended, StopEnded, ChannelRecord
<1>4. CASE Break(c) \/ StopVictim(c) \/ EndStop(c)
  <2>1. /\ channel'[c] \in {StopBegun(r), Ended(r)}
        /\ \A d \in Channel \ {c} : Lives(d)
    BY <1>0, <1>4, PutLives DEF Break, StopVictim, EndStop
  <2>2. \A d \in Channel : Lives(d)
    BY <1>3, <2>1 DEF Lives, IsLive
  <2>. QED  BY <1>4, <2>2, LivesServed DEF Break, StopVictim, EndStop, sessions, service
<1>5. CASE Relay(c)
  <2>1. CASE StartFails(c, Taken(c), "failed") /\ r.stage = "handshaking"
    <3>1. Taken(c) \in ChannelRecord
      BY <1>0, <1>5, TakenType DEF Relay
    <3>2. IsLive(c)
      BY <2>1 DEF IsLive
    <3>. QED  BY <1>0, <2>1, <3>1, <3>2, StartFailsServed
  <2>2. CASE channel' = [channel EXCEPT ![c] = Taken(c)] /\ UNCHANGED <<tables, sessions, service>>
    <3>1. channel'[c] = Taken(c) /\ \A d \in Channel \ {c} : Lives(d)
      BY <1>0, <2>2, PutLives
    <3>2. \A d \in Channel : Lives(d)
      BY <1>3, <3>1 DEF Lives, IsLive
    <3>. QED  BY <2>2, <3>2, LivesServed DEF sessions, service
  <2>. QED  BY <1>5, <2>1, <2>2 DEF Relay
<1>6. CASE Destroy(c)
  <2>1. channel'[c] = Blank /\ r.stage = "over"
    BY <1>0, <1>6 DEF Destroy, IsForgotten
  <2>2. Lives(c)
    BY <2>1 DEF Lives, IsLive, Blank, New
  <2>3. \A d \in Channel \ {c} : Lives(d)
    BY <1>0, <1>6 DEF Destroy, Lives, IsLive, ChannelRecord
  <2>. QED  BY <1>6, <2>2, <2>3, LivesServed DEF Destroy, sessions, service
<1>. QED  BY <1>1, <1>2, <1>4, <1>5, <1>6

\* A call is turned into a batch, or is let drop by a session that has stopped.
LEMMA CycleServed ==
  ASSUME TypeOK, (\E t \in Slot : Cycle(t)) \/ ManualCycle, NEW s \in Slot, Served(s)
  PROVE  Served(s)'
<1>0. /\ calls \in [Slot -> Nat] /\ batch \in [Slot -> 0..BatchSize] /\ BatchSize \in Nat \ {0}
  BY LimitAssumption DEF TypeOK
<1>1. CASE ManualCycle
  <2>1. UNCHANGED <<channel, calls, batch, phase>>
    BY <1>1 DEF ManualCycle, DialManual, ManualFails, service
  <2>. QED  BY <2>1, LivesServed DEF Lives, IsLive
<1>2. ASSUME NEW t \in Slot, Cycle(t) PROVE Served(s)'
  <2>1. channel' = channel /\ phase' = phase
    BY <1>2 DEF Cycle, NewConnection, ConnectFails, service
  <2>2. LiveOf(s)' = LiveOf(s)
    BY <2>1, LivesKeeps DEF Lives, IsLive
  <2>3. CASE s # t
    <3>1. calls'[s] = calls[s] /\ batch'[s] = batch[s]
      BY <1>0, <1>2, <2>3 DEF Cycle, NewConnection, ConnectFails
    <3>. QED  BY <2>1, <2>2, <3>1, ServedKept DEF sessions_stopped
  <2>4. CASE s = t /\ NewConnection(s)
    <3>1. /\ calls[s] > 0 /\ calls'[s] = calls[s] - 1
          /\ batch'[s] = IF sessions_stopped THEN batch[s] ELSE BatchSize
      BY <1>0, <2>4 DEF NewConnection
    <3>. QED  BY <1>0, <2>1, <2>2, <3>1 DEF Served, sessions_stopped
  <2>5. CASE s = t /\ ConnectFails(s)
    <3>1. /\ batch[s] > 0 /\ batch'[s] = batch[s] - 1
          /\ calls'[s] = IF batch[s] = 1 THEN calls[s] + 1 ELSE calls[s]
      BY <1>0, <2>5 DEF ConnectFails
    <3>. QED  BY <1>0, <2>2, <3>1 DEF Served
  <2>. QED  BY <1>2, <2>3, <2>4, <2>5 DEF Cycle
<1>. QED  BY <1>1, <1>2

LEMMA ServiceServed ==
  ASSUME TypeOK, Stop \/ StopHandshakes \/ StopConnections \/ Shutdown \/ StartAgain,
         NEW s \in Slot, Served(s)
  PROVE  Served(s)'
<1>1. channel' = channel
  BY DEF Stop, StopHandshakes, StopConnections, StopTable, Shutdown, StartAgain
<1>2. LiveOf(s)' = LiveOf(s)
  BY <1>1, LivesKeeps DEF Lives, IsLive
<1>3. CASE Stop \/ StopHandshakes \/ StopConnections \/ Shutdown
  <2>1. calls' = calls /\ batch' = batch /\ sessions_stopped'
    BY <1>3 DEF Stop, StopHandshakes, StopConnections, StopTable, Shutdown, sessions,
                sessions_stopped
  <2>. QED  BY <1>2, <2>1, ServedKept
<1>4. CASE StartAgain
  <2>1. LiveOf(s) = {}
    BY <1>4 DEF StartAgain, Quiet, IsFree, LiveOf, IsLive
  <2>2. batch'[s] = 0 /\ calls'[s] = 1
    BY <1>4 DEF StartAgain, Quiet
  <2>. QED  BY <1>2, <2>1, <2>2 DEF Served
<1>. QED  BY <1>3, <1>4

SlotInv == IInv /\ \A s \in Slot : Served(s)

LEMMA SlotInit == Init => SlotInv
<1>. SUFFICES ASSUME Init PROVE SlotInv
  OBVIOUS
<1>1. ASSUME NEW s \in Slot PROVE LiveOf(s) = {}
  BY DEF Init, Blank, New, LiveOf, IsLive
<1>. QED  BY <1>1, InvInit DEF Init, SlotInv, Served

LEMMA SlotNext == SlotInv /\ [Next]_vars => SlotInv'
<1>. SUFFICES ASSUME SlotInv, [Next]_vars PROVE SlotInv'
  OBVIOUS
<1>0. IInv /\ TypeOK
  BY DEF SlotInv, IInv
<1>1. IInv'
  BY InvNext DEF SlotInv
<1>2. ASSUME NEW s \in Slot PROVE Served(s)'
  <2>0. Served(s)
    BY DEF SlotInv
  <2>1. ASSUME NEW c \in Channel,
               Proceed(c) \/ EndStop(c) \/ Relay(c) \/ Remove(c) \/ Destroy(c)
        PROVE  Served(s)'
    BY <1>0, <2>0, <2>1, StartServed, HandshakeServed, EndingServed DEF Proceed
  <2>2. CASE (\E t \in Slot : Cycle(t)) \/ ManualCycle
    BY <1>0, <2>0, <2>2, CycleServed
  <2>3. CASE Environment
    <3>1. PICK c \in Channel :
            \/ \E t \in Slot, h \in Host : Connect(t, c, h)
            \/ ConnectManual(c)
            \/ \E h \in Caller : Accept(c, h)
            \/ \E o \in Channel, h \in Caller : AcceptSelf(c, o, h)
            \/ HearVersion(c) \/ HearVerack(c)
            \/ Break(c)
      BY <2>3 DEF Environment
    <3>. QED  BY <1>0, <2>0, <3>1, NewServed, HandshakeServed, EndingServed
  <2>4. CASE Stop \/ StopNext \/ StartAgain
    BY <1>0, <2>0, <2>4, ServiceServed, EndingServed DEF StopNext
  <2>5. CASE UNCHANGED vars
    <3>1. UNCHANGED <<channel, calls, batch, phase>>
      BY <2>5 DEF vars, sessions, service
    <3>. QED  BY <2>0, <3>1, LivesServed DEF Lives, IsLive
  <2>. QED  BY <2>1, <2>2, <2>3, <2>4, <2>5 DEF Next
<1>. QED  BY <1>1, <1>2 DEF SlotInv

\* session_outbound::new_connection is called once for every end of a connection,
\* so that a slot keeps exactly one, for any number of slots and channels.
THEOREM SlotsAreConserved == Spec => []SlotsConserved
<1>1. SlotInv => SlotsConserved
  <2>. SUFFICES ASSUME SlotInv, NEW s \in Slot
       PROVE  Holds(s) <= 1 /\ (~sessions_stopped => Holds(s) = 1)
    BY DEF SlotsConserved
  <2>1. Holds(s) = calls[s] + (IF batch[s] > 0 THEN 1 ELSE 0) + Cardinality(LiveOf(s))
    BY DEF Holds, LiveOf
  <2>2. Served(s)
    BY DEF SlotInv
  <2>3. Cardinality({}) = 0 /\ \A c : Cardinality({c}) = 1
    BY FS_EmptySet, FS_Singleton
  <2>. QED  BY <2>1, <2>2, <2>3 DEF Served
<1>. QED  BY <1>1, SlotInit, SlotNext, PTL DEF Spec

=============================================================================
