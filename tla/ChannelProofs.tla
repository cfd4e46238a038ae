--------------------------- MODULE ChannelProofs ---------------------------
(***************************************************************************)
(* A channel with any versions, any number of messages in any order and    *)
(* any number of pings: the handshake is told once, protocols are attached *)
(* only to a peer that is known, a peer that answers is not dropped, and   *)
(* its own pings are answered.                                             *)
(***************************************************************************)
EXTENDS Channel, TLAPS

\* Every step is one of these.
LEMMA StepCases ==
  ASSUME [Next]_vars
  PROVE  \/ Suspend \/ Start \/ StartEvents \/ LimitHandshake \/ Hello
         \/ ReadEnds \/ ReadFails \/ SignalActivity
         \/ \E v \in PeerVersions, wanted \in BOOLEAN : ReadVersion(v, wanted)
         \/ ReadVerack \/ ReadPing \/ ReadReject \/ \E honest \in BOOLEAN : ReadPong(honest)
         \/ \E e \in events : Count(e) \/ Refuse(e) \/ Accept(e)
         \/ Attach \/ StartHeart \/ Listen
         \/ Beat \/ SkipBeat \/ AwaitPong \/ SendPing \/ ResetHeart
         \/ FireAlarm \/ FireHandshake \/ FireHeart
         \/ RunPing \/ RunPong \/ RunReject \/ RelayStop \/ \E t \in Strands : RunStop(t)
         \/ UNCHANGED vars
  BY DEF Next, Starting, Attaching, Pinging, Firing, Running, Invoking, ReadMessage

-----------------------------------------------------------------------------
(* Types.                                                                  *)

\* What StopFrom does to types.
LEMMA StopFromTypes ==
  ASSUME ProxyTypes, NEW timers \in SUBSET Timers, NEW queues \in [Strands -> Seq(Nat)],
         StopFrom(timers, queues)
  PROVE  /\ stopped' \in BOOLEAN /\ relayPosted' \in BOOLEAN
         /\ strand' \in [Strands -> Seq(Nat)]
         /\ subs' \subseteq Strands \cup {"version", "verack"}
         /\ armed' \subseteq Timers
<1>1. \A t \in Strands : Append(queues[t], StopMark) \in Seq(Nat)
  BY DEF StopMark
<1>2. strand' \in [Strands -> Seq(Nat)]
  BY <1>1 DEF StopFrom
<1> QED BY <1>2 DEF StopFrom, ProxyTypes

\* The three groups of variables a step of each kind leaves alone.
LEMMA VersionUnchanged ==
  ASSUME VersionTypes, UNCHANGED versionVars PROVE VersionTypes'
  BY DEF VersionTypes, versionVars
LEMMA PingUnchanged ==
  ASSUME PingTypes, UNCHANGED pingVars PROVE PingTypes'
  BY DEF PingTypes, pingVars
LEMMA PeerUnchanged ==
  ASSUME PeerTypes, UNCHANGED peerVars PROVE PeerTypes'
  BY DEF PeerTypes, peerVars

\* Raising an event.
LEMMA RaiseTypes ==
  ASSUME VersionTypes, NEW by \in Actors, NEW code \in Codes, Raise(by, code)
  PROVE  handler' \in BOOLEAN /\ events' \subseteq [by : Actors, code : Codes]
<1>1. [by |-> by, code |-> code] \in [by : Actors, code : Codes]
  OBVIOUS
<1>2. events' \subseteq [by : Actors, code : Codes]
  BY <1>1 DEF VersionTypes, Raise
<1>3. handler' \in BOOLEAN
  BY DEF VersionTypes, Raise
<1> QED BY <1>2, <1>3

\* Relaying a message.
LEMMA RelayTypes ==
  ASSUME ProxyTypes, NEW t \in Strands, NEW n \in Nat, Relay(t, n)
  PROVE  ProxyTypes'
<1>1. strand' \in [Strands -> Seq(Nat)]
  BY DEF ProxyTypes, Relay
<1> QED BY <1>1 DEF ProxyTypes, Relay, Reading, Handled

LEMMA SentTypes ==
  ASSUME ProxyTypes, NEW m \in Messages, Send(m)
  PROVE  sent' \in Seq(Messages)
  BY DEF ProxyTypes, Send

LEMMA RunTypes ==
  ASSUME ProxyTypes, NEW t \in Strands, strand[t] # <<>>
  PROVE  /\ Head(strand[t]) \in Nat
         /\ Rest(t) \in [Strands -> Seq(Nat)]
  BY DEF ProxyTypes, Rest

\* StopFrom by a step that leaves alone the strands, or has taken from them.
LEMMA StopTypes ==
  ASSUME ProxyTypes, Stop
  PROVE  /\ stopped' \in BOOLEAN /\ relayPosted' \in BOOLEAN
         /\ strand' \in [Strands -> Seq(Nat)]
         /\ subs' \subseteq Strands \cup {"version", "verack"}
         /\ armed' \subseteq Timers
  BY StopFromTypes DEF Stop, ProxyTypes

LEMMA TypeStep ==
  ASSUME TypeOK, [Next]_vars
  PROVE  TypeOK'
<1> USE ChannelAssumption
<1>0. ProxyTypes /\ VersionTypes /\ PingTypes /\ PeerTypes
  BY DEF TypeOK
<1>1. ASSUME Suspend PROVE TypeOK'
  <2>1. ProxyTypes'
    BY <1>0, <1>1, StopTypes DEF ProxyTypes, stopVars, readVars, Suspend
  <2>2. VersionTypes'
    BY <1>0, <1>1, VersionUnchanged DEF Suspend
  <2>3. PingTypes'
    BY <1>0, <1>1, PingUnchanged DEF Suspend
  <2>4. PeerTypes'
    BY <1>0, <1>1, PeerUnchanged DEF Suspend
  <2> QED BY <2>1, <2>2, <2>3, <2>4 DEF TypeOK
<1>2. ASSUME Start PROVE TypeOK'
  <2>1. ProxyTypes'
    BY <1>0, <1>2 DEF ProxyTypes, stopVars, readVars, Start, Timers
  <2>2. VersionTypes'
    BY <1>0, <1>2, VersionUnchanged DEF Start
  <2>3. PingTypes'
    BY <1>0, <1>2, PingUnchanged DEF Start
  <2>4. PeerTypes'
    BY <1>0, <1>2, PeerUnchanged DEF Start
  <2> QED BY <2>1, <2>2, <2>3, <2>4 DEF TypeOK
<1>3. ASSUME StartEvents PROVE TypeOK'
  <2>1. ProxyTypes'
    BY <1>0, <1>3 DEF ProxyTypes, stopVars, readVars, StartEvents
  <2>2. VersionTypes'
    <3>1. handler' \in BOOLEAN
      BY <1>0, <1>3 DEF StartEvents, VersionTypes
    <3>2. count' \in 0..2 /\ told' \in Nat
      BY <1>0, <1>3 DEF StartEvents, VersionTypes
    <3> QED BY <1>0, <1>3, <3>1, <3>2 DEF StartEvents, VersionTypes
  <2>3. PingTypes'
    BY <1>0, <1>3, PingUnchanged DEF StartEvents
  <2>4. PeerTypes'
    BY <1>0, <1>3, PeerUnchanged DEF StartEvents
  <2> QED BY <2>1, <2>2, <2>3, <2>4 DEF TypeOK
<1>4. ASSUME LimitHandshake PROVE TypeOK'
  <2>1. ProxyTypes'
    BY <1>0, <1>4 DEF ProxyTypes, stopVars, readVars, LimitHandshake, Timers
  <2>2. VersionTypes'
    BY <1>0, <1>4, VersionUnchanged DEF LimitHandshake
  <2>3. PingTypes'
    BY <1>0, <1>4, PingUnchanged DEF LimitHandshake
  <2>4. PeerTypes'
    BY <1>0, <1>4, PeerUnchanged DEF LimitHandshake
  <2> QED BY <2>1, <2>2, <2>3, <2>4 DEF TypeOK
<1>5. ASSUME Hello PROVE TypeOK'
  <2>1. ProxyTypes'
    <3>1. Pair("version", Own) \in Messages
      BY DEF Pair, Messages
    <3>2. sent' \in Seq(Messages)
      BY <1>0, <1>5, <3>1, SentTypes DEF Hello
    <3> QED BY <1>0, <1>5, <3>2 DEF ProxyTypes, stopVars, readVars, Hello, Greeted, Strands
  <2>2. VersionTypes'
    BY <1>0, <1>5, VersionUnchanged DEF Hello
  <2>3. PingTypes'
    BY <1>0, <1>5, PingUnchanged DEF Hello
  <2>4. PeerTypes'
    BY <1>0, <1>5, PeerUnchanged DEF Hello
  <2> QED BY <2>1, <2>2, <2>3, <2>4 DEF TypeOK
<1>6. ASSUME ReadEnds PROVE TypeOK'
  <2>1. ProxyTypes'
    BY <1>0, <1>6 DEF ProxyTypes, stopVars, readVars, ReadEnds
  <2>2. VersionTypes'
    BY <1>0, <1>6, VersionUnchanged DEF ReadEnds
  <2>3. PingTypes'
    BY <1>0, <1>6, PingUnchanged DEF ReadEnds
  <2>4. PeerTypes'
    BY <1>0, <1>6, PeerUnchanged DEF ReadEnds
  <2> QED BY <2>1, <2>2, <2>3, <2>4 DEF TypeOK
<1>7. ASSUME ReadFails PROVE TypeOK'
  <2>1. ProxyTypes'
    BY <1>0, <1>7, StopTypes DEF ProxyTypes, stopVars, readVars, ReadFails
  <2>2. VersionTypes'
    BY <1>0, <1>7, VersionUnchanged DEF ReadFails
  <2>3. PingTypes'
    BY <1>0, <1>7, PingUnchanged DEF ReadFails
  <2>4. PeerTypes'
    BY <1>0, <1>7, PeerUnchanged DEF ReadFails
  <2> QED BY <2>1, <2>2, <2>3, <2>4 DEF TypeOK
<1>8. ASSUME SignalActivity PROVE TypeOK'
  <2>1. ProxyTypes'
    BY <1>0, <1>8 DEF ProxyTypes, stopVars, readVars, SignalActivity, Timers
  <2>2. VersionTypes'
    BY <1>0, <1>8, VersionUnchanged DEF SignalActivity
  <2>3. PingTypes'
    BY <1>0, <1>8, PingUnchanged DEF SignalActivity
  <2>4. PeerTypes'
    BY <1>0, <1>8, PeerUnchanged DEF SignalActivity
  <2> QED BY <2>1, <2>2, <2>3, <2>4 DEF TypeOK
<1>9. ASSUME NEW v \in PeerVersions, NEW wanted \in BOOLEAN, ReadVersion(v, wanted) PROVE TypeOK'
  <2>1. ProxyTypes'
    <3>1. Pair("verack", 0) \in Messages /\ Pair("reject", 0) \in Messages
      BY DEF Pair, Messages
    <3>2. sent' \in Seq(Messages)
      BY <1>0, <1>9, <3>1, SentTypes DEF ReadVersion, ProxyTypes
    <3>3. subs' \subseteq Strands \cup {"version", "verack"}
      BY <1>0, <1>9 DEF ProxyTypes, ReadVersion, ReadSync
    <3> QED BY <1>0, <1>9, <3>2, <3>3 DEF ProxyTypes, stopVars, readVars, ReadVersion, ReadSync, Reading, Answering, Handled
  <2>2. VersionTypes'
    <3>1. v \in Nat /\ LesserOf(v, Own) \in Nat
      BY DEF LesserOf
    <3>2. "reader" \in Actors /\ "success" \in Codes /\ "stopped" \in Codes
      BY DEF Actors, Codes
    <3>3. handler' \in BOOLEAN /\ events' \subseteq [by : Actors, code : Codes]
      BY <1>0, <1>9, <3>2, RaiseTypes DEF ReadVersion, VersionTypes
    <3>4. peer' \in Nat \cup {Unknown} /\ negotiated' \in Nat
      BY <1>0, <1>9, <3>1 DEF ReadVersion, VersionTypes
    <3> QED BY <1>0, <1>9, <3>3, <3>4 DEF VersionTypes, ReadVersion, ReadSync
  <2>3. PingTypes'
    BY <1>0, <1>9, PingUnchanged DEF ReadVersion, ReadSync
  <2>4. PeerTypes'
    BY <1>0, <1>9, PeerUnchanged DEF ReadVersion, ReadSync
  <2> QED BY <2>1, <2>2, <2>3, <2>4 DEF TypeOK
<1>10. ASSUME ReadVerack PROVE TypeOK'
  <2>1. ProxyTypes'
    <3>1. subs' \subseteq Strands \cup {"version", "verack"}
      BY <1>0, <1>10 DEF ProxyTypes, ReadVerack, ReadSync
    <3> QED BY <1>0, <1>10, <3>1 DEF ProxyTypes, stopVars, readVars, ReadVerack, ReadSync, Reading, Answering, Handled
  <2>2. VersionTypes'
    <3>1. "reader" \in Actors /\ "success" \in Codes
      BY DEF Actors, Codes
    <3>2. handler' \in BOOLEAN /\ events' \subseteq [by : Actors, code : Codes]
      BY <1>0, <1>10, <3>1, RaiseTypes DEF ReadVerack, VersionTypes
    <3> QED BY <1>0, <1>10, <3>2 DEF VersionTypes, ReadVerack, ReadSync
  <2>3. PingTypes'
    BY <1>0, <1>10, PingUnchanged DEF ReadVerack, ReadSync
  <2>4. PeerTypes'
    BY <1>0, <1>10, PeerUnchanged DEF ReadVerack, ReadSync
  <2> QED BY <2>1, <2>2, <2>3, <2>4 DEF TypeOK
<1>11. ASSUME ReadPing PROVE TypeOK'
  <2>1. ProxyTypes'
    BY <1>0, <1>11, RelayTypes, "ping" \in Strands, asked + 1 \in Nat DEF ReadPing, Strands, PeerTypes
  <2>2. VersionTypes'
    BY <1>0, <1>11, VersionUnchanged DEF ReadPing, Relay
  <2>3. PingTypes'
    BY <1>0, <1>11, PingUnchanged DEF ReadPing, Relay
  <2>4. PeerTypes'
    BY <1>0, <1>11 DEF PeerTypes, ReadPing
  <2> QED BY <2>1, <2>2, <2>3, <2>4 DEF TypeOK
<1>12. ASSUME ReadReject PROVE TypeOK'
  <2>1. ProxyTypes'
    BY <1>0, <1>12, RelayTypes, "reject" \in Strands DEF ReadReject, Strands
  <2>2. VersionTypes'
    BY <1>0, <1>12, VersionUnchanged DEF ReadReject, Relay
  <2>3. PingTypes'
    BY <1>0, <1>12, PingUnchanged DEF ReadReject, Relay
  <2>4. PeerTypes'
    BY <1>0, <1>12, PeerUnchanged DEF ReadReject, Relay
  <2> QED BY <2>1, <2>2, <2>3, <2>4 DEF TypeOK
<1>13. ASSUME NEW honest \in BOOLEAN, ReadPong(honest) PROVE TypeOK'
  <2>1. ProxyTypes'
    BY <1>0, <1>13, RelayTypes, "pong" \in Strands, answered + 1 \in Nat, Wrong \in Nat DEF ReadPong, Strands, PeerTypes, Wrong
  <2>2. VersionTypes'
    BY <1>0, <1>13, VersionUnchanged DEF ReadPong, Relay
  <2>3. PingTypes'
    BY <1>0, <1>13, PingUnchanged DEF ReadPong, Relay
  <2>4. PeerTypes'
    <3>1. lied' \in BOOLEAN
      BY <1>0, <1>13 DEF PeerTypes, ReadPong
    <3> QED BY <1>0, <1>13, <3>1 DEF PeerTypes, ReadPong
  <2> QED BY <2>1, <2>2, <2>3, <2>4 DEF TypeOK
<1>14. ASSUME NEW e \in events, Count(e) PROVE TypeOK'
  <2>1. ProxyTypes'
    <3>1. armed' \subseteq Timers
      BY <1>0, <1>14 DEF ProxyTypes, Count, Notified
    <3> QED BY <1>0, <1>14, <3>1 DEF ProxyTypes, stopVars, readVars, Count, Handled
  <2>2. VersionTypes'
    BY <1>0, <1>14 DEF VersionTypes, Count
  <2>3. PingTypes'
    BY <1>0, <1>14, PingUnchanged DEF Count
  <2>4. PeerTypes'
    BY <1>0, <1>14, PeerUnchanged DEF Count
  <2> QED BY <2>1, <2>2, <2>3, <2>4 DEF TypeOK
<1>15. ASSUME NEW e \in events, Refuse(e) PROVE TypeOK'
  <2>1. ProxyTypes'
    <3>1. Notified(e) \in SUBSET Timers
      BY <1>0 DEF ProxyTypes, Notified
    <3>2. /\ stopped' \in BOOLEAN /\ relayPosted' \in BOOLEAN
          /\ strand' \in [Strands -> Seq(Nat)]
          /\ subs' \subseteq Strands \cup {"version", "verack"}
          /\ armed' \subseteq Timers
      BY <1>0, <1>15, <3>1, StopFromTypes DEF Refuse, ProxyTypes
    <3> QED BY <1>0, <1>15, <3>2 DEF ProxyTypes, stopVars, readVars, Refuse, Handled
  <2>2. VersionTypes'
    BY <1>0, <1>15 DEF VersionTypes, Refuse
  <2>3. PingTypes'
    BY <1>0, <1>15, PingUnchanged DEF Refuse
  <2>4. PeerTypes'
    BY <1>0, <1>15, PeerUnchanged DEF Refuse
  <2> QED BY <2>1, <2>2, <2>3, <2>4 DEF TypeOK
<1>16. ASSUME NEW e \in events, Accept(e) PROVE TypeOK'
  <2>1. ProxyTypes'
    BY <1>0, <1>16 DEF ProxyTypes, stopVars, readVars, Accept, Attachment
  <2>2. VersionTypes'
    BY <1>0, <1>16 DEF VersionTypes, Accept
  <2>3. PingTypes'
    BY <1>0, <1>16, PingUnchanged DEF Accept
  <2>4. PeerTypes'
    BY <1>0, <1>16, PeerUnchanged DEF Accept
  <2> QED BY <2>1, <2>2, <2>3, <2>4 DEF TypeOK
<1>17. ASSUME Attach PROVE TypeOK'
  <2>1. ProxyTypes'
    BY <1>0, <1>17 DEF ProxyTypes, stopVars, readVars, Attach, Attachment
  <2>2. VersionTypes'
    BY <1>0, <1>17, VersionUnchanged DEF Attach
  <2>3. PingTypes'
    <3>1. heart' \in BOOLEAN
      BY <1>0, <1>17 DEF ProxyTypes, Attach
    <3> QED BY <1>0, <1>17, <3>1 DEF PingTypes, Attach
  <2>4. PeerTypes'
    BY <1>0, <1>17, PeerUnchanged DEF Attach
  <2> QED BY <2>1, <2>2, <2>3, <2>4 DEF TypeOK
<1>18. ASSUME StartHeart PROVE TypeOK'
  <2>1. ProxyTypes'
    BY <1>0, <1>18 DEF ProxyTypes, stopVars, readVars, StartHeart, Attachment, Timers
  <2>2. VersionTypes'
    BY <1>0, <1>18, VersionUnchanged DEF StartHeart
  <2>3. PingTypes'
    BY <1>0, <1>18, PingUnchanged DEF StartHeart
  <2>4. PeerTypes'
    BY <1>0, <1>18, PeerUnchanged DEF StartHeart
  <2> QED BY <2>1, <2>2, <2>3, <2>4 DEF TypeOK
<1>19. ASSUME Listen PROVE TypeOK'
  <2>1. ProxyTypes'
    <3>1. subs' \subseteq Strands \cup {"version", "verack"}
      BY <1>0, <1>19 DEF ProxyTypes, Listen, Strands
    <3> QED BY <1>0, <1>19, <3>1 DEF ProxyTypes, stopVars, readVars, Listen, Handled
  <2>2. VersionTypes'
    BY <1>0, <1>19, VersionUnchanged DEF Listen
  <2>3. PingTypes'
    BY <1>0, <1>19 DEF PingTypes, Listen
  <2>4. PeerTypes'
    BY <1>0, <1>19 DEF PeerTypes, Listen
  <2> QED BY <2>1, <2>2, <2>3, <2>4 DEF TypeOK
<1>20. ASSUME Beat PROVE TypeOK'
  <2>1. ProxyTypes'
    BY <1>0, <1>20 DEF ProxyTypes, stopVars, readVars, Beat
  <2>2. VersionTypes'
    BY <1>0, <1>20, VersionUnchanged DEF Beat
  <2>3. PingTypes'
    <3>1. pending' \in BOOLEAN
      BY <1>20 DEF Beat, Nonces
    <3> QED BY <1>0, <1>20, <3>1 DEF PingTypes, Beat
  <2>4. PeerTypes'
    BY <1>0, <1>20, PeerUnchanged DEF Beat
  <2> QED BY <2>1, <2>2, <2>3, <2>4 DEF TypeOK
<1>21. ASSUME SkipBeat PROVE TypeOK'
  <2>1. ProxyTypes'
    <3>1. /\ stopped' \in BOOLEAN /\ relayPosted' \in BOOLEAN
          /\ strand' \in [Strands -> Seq(Nat)]
          /\ subs' \subseteq Strands \cup {"version", "verack"}
          /\ armed' \subseteq Timers /\ stopSubs' = stopSubs
      BY <1>0, <1>21, StopTypes DEF SkipBeat, ProxyTypes, stopVars
    <3> QED BY <1>0, <1>21, <3>1 DEF ProxyTypes, stopVars, readVars, SkipBeat, PingReturns, Handled
  <2>2. VersionTypes'
    BY <1>0, <1>21, VersionUnchanged DEF SkipBeat
  <2>3. PingTypes'
    BY <1>0, <1>21 DEF PingTypes, SkipBeat, PingReturns
  <2>4. PeerTypes'
    BY <1>0, <1>21, PeerUnchanged DEF SkipBeat
  <2> QED BY <2>1, <2>2, <2>3, <2>4 DEF TypeOK
<1>22. ASSUME AwaitPong PROVE TypeOK'
  <2>1. ProxyTypes'
    BY <1>0, <1>22 DEF ProxyTypes, stopVars, readVars, AwaitPong
  <2>2. VersionTypes'
    BY <1>0, <1>22, VersionUnchanged DEF AwaitPong
  <2>3. PingTypes'
    <3>1. pongs' \subseteq Nat
      BY <1>0, <1>22 DEF PingTypes, AwaitPong
    <3> QED BY <1>0, <1>22, <3>1 DEF PingTypes, AwaitPong
  <2>4. PeerTypes'
    BY <1>0, <1>22, PeerUnchanged DEF AwaitPong
  <2> QED BY <2>1, <2>2, <2>3, <2>4 DEF TypeOK
<1>23. ASSUME SendPing PROVE TypeOK'
  <2>1. ProxyTypes'
    <3>1. Pair("ping", pings + 1) \in Messages
      BY <1>0 DEF Pair, Messages, ProxyTypes, PingTypes
    <3>2. sent' \in Seq(Messages)
      BY <1>0, <1>23, <3>1, SentTypes DEF SendPing, ProxyTypes
    <3> QED BY <1>0, <1>23, <3>2 DEF ProxyTypes, stopVars, readVars, SendPing, PingReturns, Handled
  <2>2. VersionTypes'
    BY <1>0, <1>23, VersionUnchanged DEF SendPing
  <2>3. PingTypes'
    BY <1>0, <1>23 DEF PingTypes, SendPing, PingReturns
  <2>4. PeerTypes'
    BY <1>0, <1>23, PeerUnchanged DEF SendPing
  <2> QED BY <2>1, <2>2, <2>3, <2>4 DEF TypeOK
<1>24. ASSUME ResetHeart PROVE TypeOK'
  <2>1. ProxyTypes'
    BY <1>0, <1>24 DEF ProxyTypes, stopVars, readVars, ResetHeart, Timers
  <2>2. VersionTypes'
    BY <1>0, <1>24, VersionUnchanged DEF ResetHeart
  <2>3. PingTypes'
    BY <1>0, <1>24 DEF PingTypes, ResetHeart
  <2>4. PeerTypes'
    BY <1>0, <1>24, PeerUnchanged DEF ResetHeart
  <2> QED BY <2>1, <2>2, <2>3, <2>4 DEF TypeOK
<1>25. ASSUME FireAlarm PROVE TypeOK'
  <2>1. ProxyTypes'
    <3>1. /\ stopped' \in BOOLEAN /\ relayPosted' \in BOOLEAN
          /\ strand' \in [Strands -> Seq(Nat)]
          /\ subs' \subseteq Strands \cup {"version", "verack"}
          /\ armed' \subseteq Timers /\ stopSubs' = stopSubs
      BY <1>0, <1>25, StopTypes DEF FireAlarm, ProxyTypes, stopVars
    <3> QED BY <1>0, <1>25, <3>1 DEF ProxyTypes, stopVars, readVars, FireAlarm
  <2>2. VersionTypes'
    BY <1>0, <1>25, VersionUnchanged DEF FireAlarm
  <2>3. PingTypes'
    BY <1>0, <1>25, PingUnchanged DEF FireAlarm
  <2>4. PeerTypes'
    BY <1>0, <1>25, PeerUnchanged DEF FireAlarm
  <2> QED BY <2>1, <2>2, <2>3, <2>4 DEF TypeOK
<1>26. ASSUME FireHandshake PROVE TypeOK'
  <2>1. ProxyTypes'
    BY <1>0, <1>26 DEF ProxyTypes, stopVars, readVars, FireHandshake
  <2>2. VersionTypes'
    <3>1. "timer" \in Actors /\ "timeout" \in Codes
      BY DEF Actors, Codes
    <3>2. handler' \in BOOLEAN /\ events' \subseteq [by : Actors, code : Codes]
      BY <1>0, <1>26, <3>1, RaiseTypes DEF FireHandshake, VersionTypes
    <3> QED BY <1>0, <1>26, <3>2 DEF VersionTypes, FireHandshake
  <2>3. PingTypes'
    BY <1>0, <1>26, PingUnchanged DEF FireHandshake
  <2>4. PeerTypes'
    BY <1>0, <1>26, PeerUnchanged DEF FireHandshake
  <2> QED BY <2>1, <2>2, <2>3, <2>4 DEF TypeOK
<1>27. ASSUME FireHeart PROVE TypeOK'
  <2>1. ProxyTypes'
    BY <1>0, <1>27 DEF ProxyTypes, stopVars, readVars, FireHeart
  <2>2. VersionTypes'
    BY <1>0, <1>27, VersionUnchanged DEF FireHeart
  <2>3. PingTypes'
    BY <1>0, <1>27 DEF PingTypes, FireHeart
  <2>4. PeerTypes'
    BY <1>0, <1>27, PeerUnchanged DEF FireHeart
  <2> QED BY <2>1, <2>2, <2>3, <2>4 DEF TypeOK
<1>28. ASSUME RunPing PROVE TypeOK'
  <2>1. ProxyTypes'
    <3>1. strand' \in [Strands -> Seq(Nat)] /\ Head(strand["ping"]) \in Nat
      BY <1>0, <1>28, RunTypes, "ping" \in Strands DEF RunPing, Strands, Run
    <3>2. Pair("pong", Head(strand["ping"])) \in Messages
      BY <3>1 DEF Pair, Messages
    <3>3. sent' \in Seq(Messages)
      BY <1>0, <1>28, <3>2, SentTypes DEF RunPing, ProxyTypes
    <3>4. subs' \subseteq Strands \cup {"version", "verack"}
      BY <1>0, <1>28 DEF ProxyTypes, RunPing
    <3> QED BY <1>0, <1>28, <3>1, <3>3, <3>4 DEF ProxyTypes, stopVars, readVars, RunPing
  <2>2. VersionTypes'
    BY <1>0, <1>28, VersionUnchanged DEF RunPing
  <2>3. PingTypes'
    BY <1>0, <1>28, PingUnchanged DEF RunPing
  <2>4. PeerTypes'
    BY <1>0, <1>28, PeerUnchanged DEF RunPing
  <2> QED BY <2>1, <2>2, <2>3, <2>4 DEF TypeOK
<1>29. ASSUME RunPong PROVE TypeOK'
  <2>1. ProxyTypes'
    <3>1. Rest("pong") \in [Strands -> Seq(Nat)]
      BY <1>0, <1>29, RunTypes, "pong" \in Strands DEF RunPong, Strands
    <3>2. /\ stopped' \in BOOLEAN /\ relayPosted' \in BOOLEAN
          /\ strand' \in [Strands -> Seq(Nat)]
          /\ subs' \subseteq Strands \cup {"version", "verack"}
          /\ armed' \subseteq Timers
      BY <1>0, <1>29, <3>1, StopFromTypes DEF RunPong, ProxyTypes
    <3> QED BY <1>0, <1>29, <3>2 DEF ProxyTypes, stopVars, readVars, RunPong
  <2>2. VersionTypes'
    BY <1>0, <1>29, VersionUnchanged DEF RunPong
  <2>3. PingTypes'
    <3>1. pending' \in BOOLEAN
      BY <1>0, <1>29 DEF PingTypes, RunPong
    <3> QED BY <1>0, <1>29, <3>1 DEF PingTypes, RunPong
  <2>4. PeerTypes'
    <3>1. heard' \in Nat
      BY <1>0, <1>29, RunTypes, "pong" \in Strands DEF RunPong, Strands
    <3> QED BY <1>0, <1>29, <3>1 DEF PeerTypes, RunPong
  <2> QED BY <2>1, <2>2, <2>3, <2>4 DEF TypeOK
<1>30. ASSUME RunReject PROVE TypeOK'
  <2>1. ProxyTypes'
    <3>1. strand' \in [Strands -> Seq(Nat)]
      BY <1>0, <1>30, RunTypes, "reject" \in Strands DEF RunReject, Strands, Run
    <3>2. subs' \subseteq Strands \cup {"version", "verack"}
      BY <1>0, <1>30 DEF ProxyTypes, RunReject
    <3> QED BY <1>0, <1>30, <3>1, <3>2 DEF ProxyTypes, stopVars, readVars, RunReject
  <2>2. VersionTypes'
    <3>1. "reject" \in Actors /\ "stopped" \in Codes
      BY DEF Actors, Codes
    <3>2. handler' \in BOOLEAN /\ events' \subseteq [by : Actors, code : Codes]
      BY <1>0, <1>30, <3>1, RaiseTypes DEF RunReject, VersionTypes
    <3> QED BY <1>0, <1>30, <3>2 DEF VersionTypes, RunReject
  <2>3. PingTypes'
    BY <1>0, <1>30, PingUnchanged DEF RunReject
  <2>4. PeerTypes'
    BY <1>0, <1>30, PeerUnchanged DEF RunReject
  <2> QED BY <2>1, <2>2, <2>3, <2>4 DEF TypeOK
<1>31. ASSUME RelayStop PROVE TypeOK'
  <2>1. ProxyTypes'
    BY <1>0, <1>31 DEF ProxyTypes, stopVars, readVars, RelayStop
  <2>2. VersionTypes'
    <3>1. "relay" \in Actors /\ "stopped" \in Codes
      BY DEF Actors, Codes
    <3>2. handler' \in BOOLEAN /\ events' \subseteq [by : Actors, code : Codes]
      BY <1>0, <1>31, <3>1, RaiseTypes DEF RelayStop, VersionTypes
    <3> QED BY <1>0, <1>31, <3>2 DEF VersionTypes, RelayStop
  <2>3. PingTypes'
    <3>1. heart' \in BOOLEAN
      BY <1>0, <1>31 DEF PingTypes, RelayStop
    <3> QED BY <1>0, <1>31, <3>1 DEF PingTypes, RelayStop
  <2>4. PeerTypes'
    BY <1>0, <1>31, PeerUnchanged DEF RelayStop
  <2> QED BY <2>1, <2>2, <2>3, <2>4 DEF TypeOK
<1>32. ASSUME NEW t \in Strands, RunStop(t) PROVE TypeOK'
  <2>1. ProxyTypes'
    <3>1. strand' \in [Strands -> Seq(Nat)]
      BY <1>0, <1>32, RunTypes DEF RunStop, Run
    <3>2. subs' \subseteq Strands \cup {"version", "verack"}
      BY <1>0, <1>32 DEF ProxyTypes, RunStop
    <3> QED BY <1>0, <1>32, <3>1, <3>2 DEF ProxyTypes, stopVars, readVars, RunStop
  <2>2. VersionTypes'
    BY <1>0, <1>32, VersionUnchanged DEF RunStop
  <2>3. PingTypes'
    BY <1>0, <1>32 DEF PingTypes, RunStop
  <2>4. PeerTypes'
    BY <1>0, <1>32, PeerUnchanged DEF RunStop
  <2> QED BY <2>1, <2>2, <2>3, <2>4 DEF TypeOK
<1>33. ASSUME UNCHANGED vars PROVE TypeOK'
  BY <1>0, <1>33, VersionUnchanged, PingUnchanged, PeerUnchanged DEF vars, TypeOK, ProxyTypes, stopVars, readVars
<1> QED
  BY <1>1, <1>2, <1>3, <1>4, <1>5, <1>6, <1>7, <1>8, <1>9, <1>10, <1>11, <1>12, <1>13, <1>14, <1>15, <1>16, <1>17, <1>18, <1>19, <1>20, <1>21, <1>22, <1>23, <1>24, <1>25, <1>26, <1>27, <1>28, <1>29, <1>30, <1>31, <1>32, <1>33, StepCases

LEMMA InitTypes ==
  ASSUME Init PROVE TypeOK
<1>1. /\ strand \in [Strands -> Seq(Nat)]
      /\ sent \in Seq(Messages)
  BY DEF Init
<1>2. ProxyTypes
  BY <1>1 DEF Init, ProxyTypes
<1>3. PingTypes /\ PeerTypes
  BY DEF Init, PingTypes, PeerTypes
<1>4. Own \in Nat
  BY ChannelAssumption
<1>5. events \subseteq [by : Actors, code : Codes]
  BY DEF Init
<1>6. handler \in BOOLEAN /\ accepted \in BOOLEAN /\ acked \in BOOLEAN
  BY DEF Init
<1>7. count \in 0..2 /\ told \in Nat /\ peer \in Nat \cup {Unknown} /\ negotiated \in Nat
  BY <1>4 DEF Init
<1>8. VersionTypes
  BY <1>5, <1>6, <1>7 DEF VersionTypes
<1> QED BY <1>2, <1>3, <1>8 DEF TypeOK

\* The types of the variables of a channel, whatever is read, fires or stops it.
THEOREM TypeCorrect == Spec => []TypeOK
<1>1. TypeOK /\ [Next]_vars => TypeOK'
  BY TypeStep
<1> QED BY <1>1, InitTypes, PTL DEF Spec

-----------------------------------------------------------------------------
(* The handshake.  Each of its two messages is good for one success, which *)
(* is in the hands of the reader or counted.                               *)

Opening == {"new", "handshake", "limit", "limited", "hello"}
Met == peer # Unknown
InHand == \E e \in events : e.code = "success"

\* Nothing is told before the protocol starts, nor more than once.
ToldByCount ==
  /\ told = IF count = 2 THEN 1 ELSE 0
  /\ reader \in {"new", "handshake"} => count = 0 /\ events = {} /\ ~handler

\* What was heard is not waited for, and a version that was heard is sufficient.
HeardOnce ==
  /\ reader \in Opening => ~Met /\ ~acked
  /\ "version" \in subs => ~Met
  /\ "verack" \in subs => ~acked
  /\ Met => peer >= Minimum /\ negotiated = LesserOf(peer, Own)

\* The reader has one event in hand, and successes are its own.
OneInHand ==
  /\ \A e \in events : e.code = "success" => e.by = "reader"
  /\ \A e \in events : e.by = "reader" => reader = "event"
  /\ \A e, f \in events : e.by = "reader" /\ f.by = "reader" => e = f

SuccessIsMeant ==
  /\ count = 1 \/ InHand => Met \/ acked
  /\ count = 1 /\ InHand => Met /\ acked
  /\ accepted => Met /\ acked

Handshake == ToldByCount /\ HeardOnce /\ OneInHand /\ SuccessIsMeant

\* Steps that neither hear a message of the handshake nor raise an event.
LEMMA HandshakeUnchanged ==
  ASSUME Handshake, UNCHANGED versionVars,
         "version" \in subs' => "version" \in subs, "verack" \in subs' => "verack" \in subs,
         reader' \in {"new", "handshake"} => reader \in {"new", "handshake"},
         reader' \in Opening => reader \in Opening,
         reader = "event" => reader' = "event"
  PROVE  Handshake'
<1>1. ToldByCount'
  BY DEF Handshake, ToldByCount, versionVars
<1>2. HeardOnce'
  BY DEF Handshake, HeardOnce, Met, versionVars, Opening
<1>3. OneInHand'
  BY DEF Handshake, OneInHand, versionVars
<1>4. SuccessIsMeant'
  BY DEF Handshake, SuccessIsMeant, Met, InHand, versionVars
<1> QED BY <1>1, <1>2, <1>3, <1>4 DEF Handshake

\* Steps of a timer or a strand that raise a failure.
LEMMA FailureRaised ==
  ASSUME Handshake, NEW by \in Actors \ {"reader"}, NEW code \in Codes \ {"success"},
         Raise(by, code), subs' \subseteq subs,
         UNCHANGED <<reader, count, told, accepted, peer, negotiated, acked>>
  PROVE  Handshake'
<1>1. ToldByCount'
  BY DEF Handshake, ToldByCount, Raise
<1>2. HeardOnce'
  BY DEF Handshake, HeardOnce, Met
<1>3. \A e \in events' : e \in events \/ e = [by |-> by, code |-> code]
  BY DEF Raise
<1>4. OneInHand'
  BY <1>3 DEF Handshake, OneInHand, Actors, Codes
<1>5. InHand' => InHand
  BY <1>3 DEF InHand, Codes
<1>6. SuccessIsMeant'
  BY <1>5 DEF Handshake, SuccessIsMeant, Met
<1> QED BY <1>1, <1>2, <1>4, <1>6 DEF Handshake

LEMMA HandshakeStep ==
  ASSUME TypeOK, Handshake, [Next]_vars
  PROVE  Handshake'
<1> USE ChannelAssumption
<1>0. VersionTypes /\ ProxyTypes
  BY DEF TypeOK
<1>1. ASSUME Suspend PROVE Handshake'
  BY <1>1, HandshakeUnchanged DEF Suspend, Stop, StopFrom, stopVars, readVars, Opening
<1>2. ASSUME Start PROVE Handshake'
  BY <1>2, HandshakeUnchanged DEF Start, stopVars, readVars, Opening
<1>3. ASSUME StartEvents PROVE Handshake'
  <2>1. ToldByCount'
    BY <1>3 DEF StartEvents, Handshake, ToldByCount
  <2>2. HeardOnce'
    BY <1>3 DEF StartEvents, Handshake, HeardOnce, Met, Opening
  <2>3. OneInHand'
    BY <1>3 DEF StartEvents, Handshake, OneInHand
  <2>4. SuccessIsMeant'
    BY <1>3 DEF StartEvents, Handshake, ToldByCount, SuccessIsMeant, Met, InHand
  <2> QED BY <2>1, <2>2, <2>3, <2>4 DEF Handshake
<1>4. ASSUME LimitHandshake PROVE Handshake'
  BY <1>4, HandshakeUnchanged DEF LimitHandshake, stopVars, readVars, Opening
<1>5. ASSUME Hello PROVE Handshake'
  <2>1. ToldByCount' /\ OneInHand'
    BY <1>5 DEF Hello, Handshake, ToldByCount, OneInHand, versionVars
  <2>2. HeardOnce'
    BY <1>5 DEF Hello, Handshake, HeardOnce, Met, Opening, versionVars
  <2>3. SuccessIsMeant'
    BY <1>5 DEF Hello, Handshake, SuccessIsMeant, Met, InHand, versionVars
  <2> QED BY <2>1, <2>2, <2>3 DEF Handshake
<1>6. ASSUME ReadEnds PROVE Handshake'
  BY <1>6, HandshakeUnchanged DEF ReadEnds, stopVars, readVars, Opening
<1>7. ASSUME ReadFails PROVE Handshake'
  BY <1>7, HandshakeUnchanged DEF ReadFails, Stop, StopFrom, stopVars, readVars, Opening
<1>8. ASSUME SignalActivity PROVE Handshake'
  BY <1>8, HandshakeUnchanged DEF SignalActivity, stopVars, readVars, Opening
<1>9. ASSUME NEW v \in PeerVersions, NEW wanted \in BOOLEAN, ReadVersion(v, wanted) PROVE Handshake'
  <2>0. /\ reader = "reading" /\ subs' = subs \ {"version"} /\ count' = count /\ told' = told
        /\ accepted' = accepted /\ acked' = acked /\ v \in Nat /\ v # Unknown
        /\ \A e \in events : e.by # "reader" /\ e.code # "success"
    BY <1>9 DEF ReadVersion, ReadSync, Reading, Handshake, OneInHand, Unknown
  <2>1. CASE ~Answering("version")
    <3>1. UNCHANGED versionVars /\ reader' \in {"done", "active"}
      BY <1>9, <2>0, <2>1 DEF ReadVersion, ReadSync, Handled, versionVars
    <3> QED BY <2>0, <3>1, HandshakeUnchanged DEF Opening
  <2>2. CASE Answering("version") /\ Sufficient(v, wanted)
    <3>1. /\ "version" \in subs /\ handler /\ reader' = "event" /\ handler' = TRUE
          /\ negotiated' = LesserOf(v, Own) /\ peer' = v
          /\ events' = events \cup {[by |-> "reader", code |-> "success"]}
      BY <1>9, <2>0, <2>2 DEF ReadVersion, ReadSync, Answering, Raise
    <3>2. ToldByCount'
      BY <2>0, <3>1 DEF Handshake, ToldByCount
    <3>3. HeardOnce'
      BY <2>0, <3>1, <2>2 DEF Handshake, HeardOnce, Met, Opening, Sufficient
    <3>4. OneInHand'
      BY <2>0, <3>1 DEF Handshake, OneInHand
    <3>5. Met' /\ ~Met /\ (count = 1 => acked) /\ (accepted => Met)
      BY <2>0, <3>1 DEF Met, Handshake, HeardOnce, SuccessIsMeant
    <3>6. SuccessIsMeant'
      BY <2>0, <3>5 DEF SuccessIsMeant
    <3> QED BY <3>2, <3>3, <3>4, <3>6 DEF Handshake
  <2>3. CASE Answering("version") /\ ~Sufficient(v, wanted)
    <3>1. /\ reader' = "event" /\ handler' = FALSE /\ UNCHANGED <<negotiated, peer>>
          /\ events' = events \cup {[by |-> "reader", code |-> "stopped"]}
      BY <1>9, <2>0, <2>3 DEF ReadVersion, ReadSync, Answering, Raise
    <3>2. ToldByCount'
      BY <2>0, <3>1 DEF Handshake, ToldByCount
    <3>3. HeardOnce'
      BY <2>0, <3>1 DEF Handshake, HeardOnce, Met, Opening
    <3>4. OneInHand'
      BY <2>0, <3>1 DEF Handshake, OneInHand
    <3>5. ~InHand'
      BY <2>0, <3>1 DEF InHand
    <3>6. SuccessIsMeant'
      BY <2>0, <3>1, <3>5 DEF Handshake, SuccessIsMeant, Met
    <3> QED BY <3>2, <3>3, <3>4, <3>6 DEF Handshake
  <2> QED BY <2>1, <2>2, <2>3
<1>10. ASSUME ReadVerack PROVE Handshake'
  <2>0. /\ reader = "reading" /\ subs' = subs \ {"verack"} /\ count' = count /\ told' = told
        /\ accepted' = accepted /\ acked' = TRUE /\ UNCHANGED <<peer, negotiated>>
        /\ \A e \in events : e.by # "reader" /\ e.code # "success"
    BY <1>10 DEF ReadVerack, ReadSync, Reading, Handshake, OneInHand
  <2>1. CASE ~Answering("verack")
    <3>1. UNCHANGED <<handler, events>> /\ reader' \in {"done", "active"}
      BY <1>10, <2>0, <2>1 DEF ReadVerack, ReadSync, Answering, Raise, Handled
    <3>2. ToldByCount' /\ OneInHand'
      BY <2>0, <3>1 DEF Handshake, ToldByCount, OneInHand
    <3>3. HeardOnce'
      BY <2>0, <3>1 DEF Handshake, HeardOnce, Met, Opening
    <3>4. InHand' = InHand /\ Met' = Met
      BY <2>0, <3>1 DEF InHand, Met
    <3>5. SuccessIsMeant'
      BY <2>0, <3>4 DEF Handshake, SuccessIsMeant
    <3> QED BY <3>2, <3>3, <3>5 DEF Handshake
  <2>2. CASE Answering("verack")
    <3>1. /\ "verack" \in subs /\ handler /\ reader' = "event" /\ handler' = TRUE
          /\ events' = events \cup {[by |-> "reader", code |-> "success"]}
      BY <1>10, <2>0, <2>2 DEF ReadVerack, ReadSync, Answering, Raise
    <3>2. ToldByCount'
      BY <2>0, <3>1 DEF Handshake, ToldByCount
    <3>3. HeardOnce'
      BY <2>0, <3>1 DEF Handshake, HeardOnce, Met, Opening
    <3>4. OneInHand'
      BY <2>0, <3>1 DEF Handshake, OneInHand
    <3>5. Met' = Met /\ (count = 1 => Met) /\ (accepted => Met)
      BY <2>0, <3>1 DEF Met, Handshake, HeardOnce, SuccessIsMeant
    <3>6. SuccessIsMeant'
      BY <2>0, <3>5 DEF SuccessIsMeant
    <3> QED BY <3>2, <3>3, <3>4, <3>6 DEF Handshake
  <2> QED BY <2>1, <2>2
<1>11. ASSUME ReadPing PROVE Handshake'
  BY <1>11, HandshakeUnchanged DEF ReadPing, Relay, Reading, Handled, stopVars, readVars, Opening
<1>12. ASSUME ReadReject PROVE Handshake'
  BY <1>12, HandshakeUnchanged DEF ReadReject, Relay, Reading, Handled, stopVars, readVars, Opening
<1>13. ASSUME NEW honest \in BOOLEAN, ReadPong(honest) PROVE Handshake'
  BY <1>13, HandshakeUnchanged DEF ReadPong, Relay, Reading, Handled, stopVars, readVars, Opening
<1>14. ASSUME NEW e \in events, Count(e) PROVE Handshake'
  <2>0. /\ events' = events \ {e} /\ (count = 2 => count' = 2) /\ (count = 0 => count' = 1)
        /\ count = 2 \/ (count # 1 /\ e.code = "success")
        /\ UNCHANGED <<subs, handler, told, accepted, peer, negotiated, acked>>
        /\ reader \notin {"new", "handshake"}
        /\ IF e.by = "reader" THEN reader' \in {"done", "active"} ELSE reader' = reader
    BY <1>14 DEF Count, Cleared, Handled, stopVars, Handshake, ToldByCount
  <2>1. (count = 2 /\ count' = 2) \/ (count = 0 /\ count' = 1 /\ e.code = "success")
    <3>1. count \in {0, 1, 2}
      BY <1>0 DEF VersionTypes
    <3>2. CASE count = 2
      BY <2>0, <3>2
    <3>3. CASE count = 0
      BY <2>0, <3>3
    <3> QED BY <2>0, <3>1, <3>2, <3>3
  <2>2. ToldByCount'
    BY <2>0, <2>1 DEF Handshake, ToldByCount
  <2>3. HeardOnce'
    BY <2>0 DEF Handshake, HeardOnce, Met, Opening
  <2>4. OneInHand'
    BY <2>0 DEF Handshake, OneInHand
  <2>5. e.code = "success" => ~InHand' /\ InHand
    BY <2>0 DEF Handshake, OneInHand, InHand
  <2>6. SuccessIsMeant'
    BY <2>0, <2>1, <2>5 DEF Handshake, SuccessIsMeant, Met, InHand
  <2> QED BY <2>2, <2>3, <2>4, <2>6 DEF Handshake
<1>15. ASSUME NEW e \in events, Refuse(e) PROVE Handshake'
  <2>0. /\ events' = events \ {e} /\ count # 2 /\ count' = 2 /\ told' = told + 1
        /\ subs' \subseteq subs /\ UNCHANGED <<handler, peer, negotiated, acked>>
        /\ reader \notin {"new", "handshake"} /\ accepted' = accepted
        /\ IF e.by = "reader" THEN reader' \in {"done", "active"} ELSE reader' = reader
    BY <1>15 DEF Refuse, Cleared, Handled, StopFrom, stopVars, Handshake, ToldByCount
  <2>1. ToldByCount'
    BY <2>0 DEF Handshake, ToldByCount
  <2>2. HeardOnce'
    BY <2>0 DEF Handshake, HeardOnce, Met, Opening
  <2>3. OneInHand'
    BY <2>0 DEF Handshake, OneInHand
  <2>4. SuccessIsMeant'
    BY <2>0 DEF Handshake, SuccessIsMeant, Met, InHand
  <2> QED BY <2>1, <2>2, <2>3, <2>4 DEF Handshake
<1>16. ASSUME NEW e \in events, Accept(e) PROVE Handshake'
  <2>0. /\ events' = events \ {e} /\ count # 2 /\ count' = 2 /\ told' = told + 1
        /\ subs' \subseteq subs /\ UNCHANGED <<handler, peer, negotiated, acked>>
        /\ reader \notin {"new", "handshake"} /\ accepted' = TRUE
        /\ reader' = "attach" /\ e.code = "success" /\ count = 1
    BY <1>16 DEF Accept, Cleared, Handled, StopFrom, stopVars, Handshake, ToldByCount
  <2>1. ToldByCount'
    BY <2>0 DEF Handshake, ToldByCount
  <2>2. HeardOnce'
    BY <2>0 DEF Handshake, HeardOnce, Met, Opening
  <2>3. OneInHand' /\ ~InHand'
    BY <2>0 DEF Handshake, OneInHand, InHand
  <2>4. Met /\ acked
    BY <2>0 DEF Handshake, SuccessIsMeant, InHand
  <2>5. SuccessIsMeant'
    BY <2>0, <2>3, <2>4 DEF SuccessIsMeant, Met
  <2> QED BY <2>1, <2>2, <2>3, <2>5 DEF Handshake
<1>17. ASSUME Attach PROVE Handshake'
  BY <1>17, HandshakeUnchanged DEF Attach, stopVars, readVars, Opening
<1>18. ASSUME StartHeart PROVE Handshake'
  BY <1>18, HandshakeUnchanged DEF StartHeart, stopVars, readVars, Opening
<1>19. ASSUME Listen PROVE Handshake'
  BY <1>19, HandshakeUnchanged DEF Listen, Handled, stopVars, readVars, Opening
<1>20. ASSUME Beat PROVE Handshake'
  BY <1>20, HandshakeUnchanged DEF Beat, stopVars, readVars, Opening
<1>21. ASSUME SkipBeat PROVE Handshake'
  BY <1>21, HandshakeUnchanged DEF SkipBeat, PingReturns, Handled, Stop, StopFrom, stopVars, readVars, Opening
<1>22. ASSUME AwaitPong PROVE Handshake'
  BY <1>22, HandshakeUnchanged DEF AwaitPong, stopVars, readVars, Opening
<1>23. ASSUME SendPing PROVE Handshake'
  BY <1>23, HandshakeUnchanged DEF SendPing, PingReturns, Handled, stopVars, readVars, Opening
<1>24. ASSUME ResetHeart PROVE Handshake'
  BY <1>24, HandshakeUnchanged DEF ResetHeart, stopVars, readVars, Opening
<1>25. ASSUME FireAlarm PROVE Handshake'
  BY <1>25, HandshakeUnchanged DEF FireAlarm, Stop, StopFrom, stopVars, readVars, Opening
<1>26. ASSUME FireHandshake PROVE Handshake'
  <2>1. "timer" \in Actors \ {"reader"} /\ "timeout" \in Codes \ {"success"}
    BY DEF Actors, Codes
  <2>2. /\ Raise("timer", "timeout") \/ UNCHANGED <<handler, events>>
        /\ subs' \subseteq subs
        /\ UNCHANGED <<reader, count, told, accepted, peer, negotiated, acked>>
    BY <1>26 DEF FireHandshake, stopVars, readVars
  <2>3. CASE UNCHANGED <<handler, events>>
    BY <2>2, <2>3, HandshakeUnchanged DEF versionVars
  <2> QED BY <2>1, <2>2, <2>3, FailureRaised
<1>27. ASSUME FireHeart PROVE Handshake'
  BY <1>27, HandshakeUnchanged DEF FireHeart, stopVars, readVars, Opening
<1>28. ASSUME RunPing PROVE Handshake'
  BY <1>28, HandshakeUnchanged DEF RunPing, stopVars, readVars, Opening
<1>29. ASSUME RunPong PROVE Handshake'
  BY <1>29, HandshakeUnchanged DEF RunPong, StopFrom, stopVars, readVars, Opening
<1>30. ASSUME RunReject PROVE Handshake'
  <2>1. "reject" \in Actors \ {"reader"} /\ "stopped" \in Codes \ {"success"}
    BY DEF Actors, Codes
  <2>2. /\ Raise("reject", "stopped") \/ UNCHANGED <<handler, events>>
        /\ subs' \subseteq subs
        /\ UNCHANGED <<reader, count, told, accepted, peer, negotiated, acked>>
    BY <1>30 DEF RunReject, stopVars, readVars
  <2>3. CASE UNCHANGED <<handler, events>>
    BY <2>2, <2>3, HandshakeUnchanged DEF versionVars
  <2> QED BY <2>1, <2>2, <2>3, FailureRaised
<1>31. ASSUME RelayStop PROVE Handshake'
  <2>1. "relay" \in Actors \ {"reader"} /\ "stopped" \in Codes \ {"success"}
    BY DEF Actors, Codes
  <2>2. /\ Raise("relay", "stopped") \/ UNCHANGED <<handler, events>>
        /\ subs' \subseteq subs
        /\ UNCHANGED <<reader, count, told, accepted, peer, negotiated, acked>>
    BY <1>31 DEF RelayStop, stopVars, readVars
  <2>3. CASE UNCHANGED <<handler, events>>
    BY <2>2, <2>3, HandshakeUnchanged DEF versionVars
  <2> QED BY <2>1, <2>2, <2>3, FailureRaised
<1>32. ASSUME NEW t \in Strands, RunStop(t) PROVE Handshake'
  BY <1>32, HandshakeUnchanged DEF RunStop, stopVars, readVars, Opening
<1>33. ASSUME UNCHANGED vars PROVE Handshake'
  BY <1>33, HandshakeUnchanged DEF vars, stopVars, readVars, Opening
<1> QED
  BY <1>1, <1>2, <1>3, <1>4, <1>5, <1>6, <1>7, <1>8, <1>9, <1>10, <1>11, <1>12, <1>13, <1>14, <1>15, <1>16, <1>17, <1>18, <1>19, <1>20, <1>21, <1>22, <1>23, <1>24, <1>25, <1>26, <1>27, <1>28, <1>29, <1>30, <1>31, <1>32, <1>33, StepCases

\* One success is worth one message, heard from a peer that is met or has acknowledged
\* (protocol_version_31402, synchronizer): the strengthening of the two below.
THEOREM HandshakeInvariant == Spec => []Handshake
<1>1. Init => Handshake
  BY DEF Init, Handshake, ToldByCount, HeardOnce, OneInHand, SuccessIsMeant, Met, InHand, Unknown
<1>2. TypeOK /\ Handshake /\ [Next]_vars => Handshake'
  BY HandshakeStep
<1> QED BY <1>1, <1>2, TypeCorrect, PTL DEF Spec

\* The session is told once, however many report the end of the handshake.
THEOREM ToldOnce == Spec => []HandshakeToldOnce
<1>1. Handshake => HandshakeToldOnce
  BY DEF Handshake, ToldByCount, HandshakeToldOnce
<1> QED BY <1>1, HandshakeInvariant, PTL

\* No protocol is attached to a peer whose version is not known, sufficient,
\* negotiated and answered for, whatever the peer sends.
THEOREM PeerIsAlwaysKnown == Spec => []PeerIsKnown
<1>1. Handshake => PeerIsKnown
  BY DEF Handshake, HeardOnce, SuccessIsMeant, Met, PeerIsKnown
<1> QED BY <1>1, HandshakeInvariant, PTL

-----------------------------------------------------------------------------
(* The pings.  An honest peer has answered no ping that was not sent, its  *)
(* pongs run in the order of the pings, and one is awaited at a time.      *)

Resting == pinger = "idle" /\ ~pending /\ pings = 0 /\ pongs = {}
Opened == Attachment \cup {"pinging"}

\* The ping protocol has one thread: the reader's, then its timer's.
OnePinger ==
  /\ accepted => count = 2
  /\ ~accepted => Resting /\ ~heart /\ "ping" \notin armed /\ reader \notin Opened
  /\ reader \in Attachment => Resting
  /\ reader \in {"attach", "beat", "beating"} => "ping" \notin armed
  /\ reader = "pinging" => pinger \in {"check", "subscribe", "send"}
  /\ pinger # "idle" /\ reader # "pinging" => "ping" \notin armed

\* It has its handler until the channel stops.
HeartBeats ==
  /\ ~stopped /\ (pinger # "idle" \/ pending) => heart
  /\ relayPosted => stopped
  /\ reader = "new" => stopped /\ ~relayPosted /\ strand["pong"] = <<>> /\ answered = 0

\* The pongs that wait, of a peer that has answered a of which h were heard.
InLine(q, h, a, stop) ==
  /\ \A i \in DOMAIN q : \/ q[i] = h + i /\ h + i <= a
                         \/ q[i] = StopMark /\ i = Len(q) /\ stop
  /\ ~stop => a = h + Len(q)

NoneAhead == \A i \in DOMAIN sent : sent[i].name = "ping" => sent[i].n <= pings
InOrder ==
  /\ NoneAhead
  /\ ~lied => /\ heard <= answered /\ answered <= pings
              /\ reader # "new" => InLine(strand["pong"], heard, answered, stopped)

\* One pong is awaited at most, of the ping that is out or is about to go out.
OneAwaited ==
  /\ \A n \in pongs : n = pings + (IF pinger = "send" THEN 1 ELSE 0)
  /\ pinger = "subscribe" \/ ~pending \/ ~Nonces => pongs = {}
  /\ pinger = "subscribe" => Nonces /\ pending
  /\ ~Nonces => ~pending
  /\ ~lied => \A n \in pongs : heard < n

\* A ping is pending while it goes out, and then until its pong is heard.
GoingOut == pinger \in {"subscribe", "send"}
Outstanding ==
  ~stopped /\ ~lied /\ Nonces =>
    /\ GoingOut => pending /\ heard = pings
    /\ pinger = "send" => pongs = {pings + 1}
    /\ ~GoingOut => IF pending THEN pongs = {pings} /\ heard + 1 = pings ELSE heard = pings

Pings == OnePinger /\ HeartBeats /\ InOrder /\ OneAwaited /\ Outstanding

\* The line: stop ends it, an honest pong joins it, the first leaves it.
LEMMA LineEnds ==
  ASSUME NEW q \in Seq(Nat), NEW h \in Nat, NEW a \in Nat, InLine(q, h, a, FALSE)
  PROVE  InLine(Append(q, StopMark), h, a, TRUE)
BY DEF InLine, StopMark

LEMMA LineGrows ==
  ASSUME NEW q \in Seq(Nat), NEW h \in Nat, NEW a \in Nat, InLine(q, h, a, FALSE)
  PROVE  InLine(Append(q, a + 1), h, a + 1, FALSE)
BY DEF InLine

LEMMA LineMoves ==
  ASSUME NEW q \in Seq(Nat), NEW h \in Nat, NEW a \in Nat, NEW stop \in BOOLEAN,
         InLine(q, h, a, stop), q # <<>>
  PROVE  /\ Head(q) # StopMark => /\ Head(q) = h + 1 /\ h + 1 <= a
                                  /\ InLine(Tail(q), h + 1, a, stop)
         /\ Head(q) = StopMark => stop /\ Tail(q) = <<>>
<1>1. Head(q) = q[1] /\ 1 \in DOMAIN q /\ Len(q) \in Nat /\ Len(q) >= 1
  OBVIOUS
<1>2. Tail(q) \in Seq(Nat) /\ Len(Tail(q)) = Len(q) - 1
  OBVIOUS
<1>3. \A i \in DOMAIN Tail(q) : i \in Nat /\ i + 1 \in DOMAIN q /\ Tail(q)[i] = q[i + 1]
  OBVIOUS
<1>4. ASSUME Head(q) # StopMark
      PROVE  Head(q) = h + 1 /\ h + 1 <= a /\ InLine(Tail(q), h + 1, a, stop)
  <2>1. Head(q) = h + 1 /\ h + 1 <= a
    BY <1>1, <1>4 DEF InLine
  <2>2. ASSUME NEW i \in DOMAIN Tail(q)
        PROVE  \/ Tail(q)[i] = (h + 1) + i /\ (h + 1) + i <= a
               \/ Tail(q)[i] = StopMark /\ i = Len(Tail(q)) /\ stop
    <3>1. \/ q[i + 1] = h + (i + 1) /\ h + (i + 1) <= a
          \/ q[i + 1] = StopMark /\ i + 1 = Len(q) /\ stop
      BY <1>3 DEF InLine
    <3>2. i \in Nat /\ h + (i + 1) = (h + 1) + i /\ (i + 1 = Len(q) => i = Len(Tail(q)))
      BY <1>1, <1>2, <1>3
    <3> QED BY <1>3, <3>1, <3>2
  <2>3. ~stop => a = (h + 1) + Len(Tail(q))
    BY <1>1, <1>2 DEF InLine
  <2> QED BY <2>1, <2>2, <2>3 DEF InLine
<1>5. ASSUME Head(q) = StopMark PROVE stop /\ Tail(q) = <<>>
  <2>1. q[1] = h + 1 \/ (1 = Len(q) /\ stop)
    BY <1>1 DEF InLine
  <2>2. stop /\ 1 = Len(q)
    BY <1>1, <1>5, <2>1 DEF StopMark
  <2>3. Len(Tail(q)) = 0
    BY <1>2, <2>2
  <2>4. \A x \in Seq(Nat) : Len(x) = 0 => x = <<>>
    OBVIOUS
  <2> QED BY <1>2, <2>2, <2>3, <2>4
<1> QED BY <1>4, <1>5

\* What StopFrom does to the line and to the timer of the heartbeat.
Kept ==
  \/ /\ stopped' = stopped /\ strand'["pong"] = strand["pong"]
     /\ relayPosted' => relayPosted
  \/ stopped = FALSE /\ stopped' = TRUE /\ strand'["pong"] = Append(strand["pong"], StopMark)

LEMMA StopKeeps ==
  ASSUME ProxyTypes, NEW timers \in SUBSET armed, StopFrom(timers, strand)
  PROVE  Kept /\ ("ping" \in armed' => "ping" \in armed)
BY DEF ProxyTypes, StopFrom, Kept, Strands

\* What is sent comes after what was.
LEMMA Sending ==
  ASSUME ProxyTypes, NEW m \in Messages, Send(m)
  PROVE  \A i \in DOMAIN sent' : sent'[i] = m \/ (i \in DOMAIN sent /\ sent'[i] = sent[i])
BY DEF ProxyTypes, Send

\* Sending no new ping leaves no ping ahead of its number.
LEMMA SendKeeps ==
  ASSUME ProxyTypes, NoneAhead, NEW m \in Messages, m.name = "ping" => m.n <= pings, Send(m),
         pings' = pings
  PROVE  NoneAhead'
BY Sending DEF NoneAhead

\* Steps that leave the ping protocol alone, and may stop the channel.
QuietReader ==
  reader' = reader \/ (reader \notin Opened /\ reader' \notin Opened \cup {"new"})

LEMMA PingsUnchanged ==
  ASSUME TypeOK, Pings, Kept, QuietReader, reader = "new" => reader' = "new",
         UNCHANGED <<pinger, pending, pongs, pings, answered, heard, lied, accepted>>,
         heart' = heart \/ (heart' = FALSE /\ stopped),
         accepted => count' = 2 /\ negotiated' = negotiated,
         "ping" \in armed' => "ping" \in armed,
         NoneAhead'
  PROVE  Pings'
<1>0. /\ stopped \in BOOLEAN /\ strand["pong"] \in Seq(Nat)
      /\ pings \in Nat /\ heard \in Nat /\ answered \in Nat /\ accepted \in BOOLEAN
  BY DEF TypeOK, ProxyTypes, PingTypes, PeerTypes, VersionTypes, Strands
<1>1. OnePinger'
  BY DEF Pings, OnePinger, Resting, Opened, Attachment, QuietReader
<1>2. HeartBeats'
  BY <1>0 DEF Pings, HeartBeats, Kept, QuietReader
<1>3. InOrder'
  <2>1. CASE reader' = "new" \/ lied
    BY <2>1 DEF Pings, InOrder
  <2>2. CASE reader' # "new" /\ ~lied /\ stopped' = stopped /\ strand'["pong"] = strand["pong"]
    BY <2>2 DEF Pings, InOrder
  <2>3. CASE /\ reader' # "new" /\ ~lied /\ stopped = FALSE /\ stopped' = TRUE
             /\ strand'["pong"] = Append(strand["pong"], StopMark)
    <3>1. InLine(strand["pong"], heard, answered, FALSE)
      BY <2>3 DEF Pings, InOrder
    <3>2. InLine(strand["pong"], heard, answered, stopped)'
      BY <1>0, <2>3, <3>1, LineEnds
    <3> QED BY <2>3, <3>2 DEF Pings, InOrder
  <2> QED BY <2>1, <2>2, <2>3 DEF Kept
<1>4. CASE accepted
  <2>1. Nonces' = Nonces
    BY <1>4 DEF Nonces
  <2>2. OneAwaited'
    BY <2>1 DEF Pings, OneAwaited
  <2>3. Outstanding'
    BY <1>0, <2>1 DEF Pings, Outstanding, GoingOut, Kept
  <2> QED BY <1>1, <1>2, <1>3, <2>2, <2>3 DEF Pings
<1>5. CASE ~accepted
  <2>1. Resting
    BY <1>5 DEF Pings, OnePinger
  <2>2. OneAwaited'
    BY <2>1 DEF Resting, OneAwaited
  <2>3. ~lied => heard = 0
    BY <1>0, <2>1 DEF Resting, Pings, InOrder
  <2>4. Outstanding'
    BY <2>1, <2>3 DEF Resting, Outstanding, GoingOut
  <2> QED BY <1>1, <1>2, <1>3, <2>2, <2>4 DEF Pings
<1> QED BY <1>0, <1>4, <1>5

\* One step per action; those that leave the ping protocol alone by the lemma above.
LEMMA PingsStep ==
  ASSUME TypeOK, Handshake, Pings, [Next]_vars
  PROVE  Pings'
<1> USE ChannelAssumption DEF pingVars, peerVars, versionVars, readVars, stopVars
<1>0. /\ ProxyTypes /\ PingTypes /\ PeerTypes /\ VersionTypes
      /\ stopped \in BOOLEAN /\ strand["pong"] \in Seq(Nat) /\ strand \in [Strands -> Seq(Nat)]
      /\ pings \in Nat /\ heard \in Nat /\ answered \in Nat /\ accepted \in BOOLEAN
      /\ pending \in BOOLEAN /\ heart \in BOOLEAN /\ "pong" \in Strands /\ NoneAhead
  BY DEF TypeOK, ProxyTypes, PingTypes, PeerTypes, VersionTypes, Strands, Pings, InOrder
<1>a. (UNCHANGED <<sent, pings>> => NoneAhead') /\ (UNCHANGED <<stopVars>> => Kept)
  BY <1>0 DEF NoneAhead, Kept
<1>b. \A n \in Nat : /\ Pair("version", n) \in Messages /\ Pair("version", n).name # "ping"
                     /\ Pair("verack", n) \in Messages /\ Pair("verack", n).name # "ping"
                     /\ Pair("reject", n) \in Messages /\ Pair("reject", n).name # "ping"
                     /\ Pair("pong", n) \in Messages /\ Pair("pong", n).name # "ping"
                     /\ Pair("ping", n) \in Messages /\ Pair("ping", n).n = n
  BY DEF Messages, Pair
<1>c. ASSUME Stop PROVE Kept /\ ("ping" \in armed' => "ping" \in armed)
  BY <1>0, <1>c, StopKeeps DEF Stop
<1>d. reader \in Opening => ~accepted
  BY DEF Handshake, SuccessIsMeant, HeardOnce
<1>e. accepted => count = 2
  BY DEF Pings, OnePinger
<1>1. ASSUME Suspend PROVE Pings'
  BY <1>1, <1>0, <1>a, <1>c, <1>e, PingsUnchanged DEF Suspend, QuietReader, Opened, Attachment
<1>2. ASSUME Start PROVE Pings'
  <2>1. reader = "new" /\ ~accepted /\ Resting /\ ~heart /\ strand["pong"] = <<>> /\ answered = 0
    BY <1>2, <1>d DEF Start, Opening, Pings, OnePinger, HeartBeats
  <2>2. OnePinger'
    BY <1>2, <2>1 DEF Start, Pings, OnePinger, Resting, Opened, Attachment
  <2>3. HeartBeats'
    BY <1>2, <2>1 DEF Start, Pings, HeartBeats, Resting
  <2>4. ~lied => heard = 0
    BY <1>0, <2>1 DEF Pings, InOrder
  <2>5. ~lied => InLine(strand["pong"], heard, answered, FALSE)
    BY <2>1, <2>4 DEF InLine
  <2>6. InOrder'
    BY <1>2, <1>0, <2>1, <2>4, <2>5 DEF Start, Pings, InOrder, NoneAhead
  <2>7. OneAwaited' /\ Outstanding'
    BY <1>2, <2>1, <2>4 DEF Start, OneAwaited, Outstanding, GoingOut, Resting
  <2> QED BY <2>2, <2>3, <2>6, <2>7 DEF Pings
<1>3. ASSUME StartEvents PROVE Pings'
  BY <1>3, <1>0, <1>a, <1>d, PingsUnchanged
  DEF StartEvents, Opening, Kept, QuietReader, Opened, Attachment
<1>4. ASSUME LimitHandshake PROVE Pings'
  BY <1>4, <1>0, <1>a, <1>d, PingsUnchanged
  DEF LimitHandshake, Opening, QuietReader, Opened, Attachment
<1>5. ASSUME Hello PROVE Pings'
  <2>1. NoneAhead'
    BY <1>5, <1>0, <1>b, SendKeeps DEF Hello
  <2> QED
    BY <1>5, <1>0, <1>d, <2>1, PingsUnchanged
    DEF Hello, Kept, Opening, QuietReader, Opened, Attachment
<1>6. ASSUME ReadEnds PROVE Pings'
  BY <1>6, <1>0, <1>a, <1>e, PingsUnchanged DEF ReadEnds, QuietReader, Opened, Attachment
<1>7. ASSUME ReadFails PROVE Pings'
  BY <1>7, <1>0, <1>a, <1>c, <1>e, PingsUnchanged DEF ReadFails, QuietReader, Opened, Attachment
<1>8. ASSUME SignalActivity PROVE Pings'
  BY <1>8, <1>0, <1>a, <1>e, PingsUnchanged DEF SignalActivity, QuietReader, Opened, Attachment
<1>9. ASSUME NEW v \in PeerVersions, NEW wanted \in BOOLEAN, ReadVersion(v, wanted) PROVE Pings'
  <2>1. /\ accepted => ~Answering("version")
        /\ UNCHANGED sent \/ Send(Pair("verack", 0)) \/ Send(Pair("reject", 0))
    BY <1>9 DEF ReadVersion, Handshake, HeardOnce, SuccessIsMeant, Answering
  <2>2. NoneAhead'
    BY <1>9, <1>0, <1>a, <1>b, <2>1, SendKeeps DEF ReadVersion, ReadSync
  <2> QED
    BY <1>9, <1>0, <1>e, <2>1, <2>2, PingsUnchanged
    DEF ReadVersion, ReadSync, Reading, Handled, Kept, QuietReader, Opened, Attachment
<1>10. ASSUME ReadVerack PROVE Pings'
  BY <1>10, <1>0, <1>a, <1>e, PingsUnchanged
  DEF ReadVerack, ReadSync, Reading, Handled, Kept, QuietReader, Opened, Attachment
<1>11. ASSUME ReadPing PROVE Pings'
  <2>1. strand'["pong"] = strand["pong"]
    BY <1>11, <1>0 DEF ReadPing, Relay, Strands
  <2> QED
    BY <1>11, <1>0, <1>a, <1>e, <2>1, PingsUnchanged
    DEF ReadPing, Relay, Reading, Handled, Kept, QuietReader, Opened, Attachment
<1>12. ASSUME ReadReject PROVE Pings'
  <2>1. strand'["pong"] = strand["pong"]
    BY <1>12, <1>0 DEF ReadReject, Relay, Strands
  <2> QED
    BY <1>12, <1>0, <1>a, <1>e, <2>1, PingsUnchanged
    DEF ReadReject, Relay, Reading, Handled, Kept, QuietReader, Opened, Attachment
<1>13. ASSUME NEW honest \in BOOLEAN, ReadPong(honest) PROVE Pings'
  <2>0. /\ reader = "reading" /\ reader' \in {"done", "active"} /\ stopped = FALSE /\ stopped' = FALSE
        /\ UNCHANGED <<pinger, pending, pongs, pings, heart, armed, sent, heard, accepted, count,
                       relayPosted, negotiated>>
        /\ answered' = (IF honest THEN answered + 1 ELSE answered)
        /\ lied' = (lied \/ ~honest)
        /\ strand'["pong"] = Append(strand["pong"], IF honest THEN answered + 1 ELSE Wrong)
    BY <1>13, <1>0 DEF ReadPong, Relay, Reading, Handled
  <2>1. OnePinger'
    BY <2>0 DEF Pings, OnePinger, Resting, Opened, Attachment
  <2>2. HeartBeats'
    BY <2>0 DEF Pings, HeartBeats
  <2>3. InOrder'
    <3>1. CASE lied \/ ~honest
      BY <1>a, <2>0, <3>1 DEF InOrder
    <3>2. CASE ~lied /\ honest
      <4>1. answered + 1 <= pings
        BY <1>13, <1>0, <3>2 DEF ReadPong, Got, NoneAhead, Pair
      <4>2. InLine(strand["pong"], heard, answered, FALSE) /\ heard <= answered
        BY <2>0, <3>2 DEF Pings, InOrder
      <4>3. InLine(Append(strand["pong"], answered + 1), heard, answered + 1, FALSE)
        BY <1>0, <4>2, LineGrows
      <4>4. NoneAhead' /\ answered' = answered + 1 /\ heard' = heard /\ pings' = pings
        BY <1>a, <2>0, <3>2
      <4>5. InLine(strand["pong"], heard, answered, stopped)'
        BY <2>0, <3>2, <4>3, <4>4
      <4>6. heard <= answered + 1
        BY <1>0, <4>2
      <4> QED BY <4>1, <4>4, <4>5, <4>6 DEF InOrder
    <3> QED BY <3>1, <3>2
  <2>4. OneAwaited' /\ Outstanding'
    BY <2>0 DEF Pings, OneAwaited, Outstanding, GoingOut, Nonces
  <2> QED BY <2>1, <2>2, <2>3, <2>4 DEF Pings
<1>14. ASSUME NEW e \in events, Count(e) PROVE Pings'
  BY <1>14, <1>0, <1>a, <1>e, PingsUnchanged
  DEF Count, Notified, Handled, Handshake, OneInHand, QuietReader, Opened, Attachment
<1>15. ASSUME NEW e \in events, Refuse(e) PROVE Pings'
  <2>1. Notified(e) \subseteq armed /\ ~accepted
    BY <1>15, <1>e DEF Refuse, Notified
  <2>2. Kept /\ ("ping" \in armed' => "ping" \in armed)
    BY <1>15, <1>0, <2>1, StopKeeps DEF Refuse, Notified
  <2> QED
    BY <1>15, <1>0, <1>a, <2>1, <2>2, PingsUnchanged
    DEF Refuse, Handled, Handshake, OneInHand, QuietReader, Opened, Attachment
<1>16. ASSUME NEW e \in events, Accept(e) PROVE Pings'
  <2>1. ~accepted /\ Resting /\ ~heart /\ "ping" \notin armed /\ reader # "new"
    BY <1>16, <1>0, <1>e DEF Accept, Pings, OnePinger, Handshake, ToldByCount
  <2>2. OnePinger'
    BY <1>16, <2>1 DEF Accept, OnePinger, Resting, Opened
  <2>3. HeartBeats'
    BY <1>16, <2>1 DEF Accept, Pings, HeartBeats
  <2>4. InOrder'
    BY <1>16, <1>a, <2>1 DEF Accept, Pings, InOrder
  <2>5. OneAwaited' /\ Outstanding'
    BY <1>16 DEF Accept, Pings, OneAwaited, Outstanding, GoingOut, Nonces
  <2> QED BY <2>2, <2>3, <2>4, <2>5 DEF Pings
<1>17. ASSUME Attach PROVE Pings'
  <2>1. OnePinger'
    BY <1>17, <1>0 DEF Attach, Pings, OnePinger, Resting, Opened, Attachment
  <2>2. HeartBeats'
    BY <1>17, <1>0 DEF Attach, Pings, HeartBeats
  <2>3. InOrder'
    BY <1>17, <1>0 DEF Attach, Pings, InOrder, NoneAhead
  <2>4. OneAwaited'
    BY <1>17, <1>0 DEF Attach, Pings, OneAwaited, Nonces
  <2>5. Outstanding'
    BY <1>17, <1>0 DEF Attach, Pings, Outstanding, GoingOut, Nonces
  <2> QED BY <2>1, <2>2, <2>3, <2>4, <2>5 DEF Pings
<1>18. ASSUME StartHeart PROVE Pings'
  <2>1. OnePinger'
    BY <1>18, <1>0 DEF StartHeart, Pings, OnePinger, Resting, Opened, Attachment
  <2>2. HeartBeats'
    BY <1>18, <1>0 DEF StartHeart, Pings, HeartBeats
  <2>3. InOrder'
    BY <1>18, <1>0 DEF StartHeart, Pings, InOrder, NoneAhead
  <2>4. OneAwaited'
    BY <1>18, <1>0 DEF StartHeart, Pings, OneAwaited, Nonces
  <2>5. Outstanding'
    BY <1>18, <1>0 DEF StartHeart, Pings, Outstanding, GoingOut, Nonces
  <2> QED BY <2>1, <2>2, <2>3, <2>4, <2>5 DEF Pings
<1>19. ASSUME Listen PROVE Pings'
  <2>0. Resting
    BY <1>19 DEF Listen, Pings, OnePinger, Attachment
  <2>1. OnePinger'
    BY <1>19, <1>0, <2>0 DEF Listen, Handled, Pings, OnePinger, Resting, Opened, Attachment
  <2>2. HeartBeats'
    BY <1>19, <1>0, <2>0 DEF Listen, Handled, Pings, HeartBeats
  <2>3. InOrder'
    BY <1>19, <1>0, <2>0 DEF Listen, Handled, Pings, InOrder, NoneAhead
  <2>4. OneAwaited'
    BY <1>19, <1>0, <2>0 DEF Listen, Handled, Resting, Pings, OneAwaited, Nonces
  <2>5. Outstanding'
    BY <1>19, <1>0, <2>0 DEF Listen, Handled, Resting, Pings, Outstanding, GoingOut, Nonces
  <2> QED BY <2>1, <2>2, <2>3, <2>4, <2>5 DEF Pings
<1>20. ASSUME Beat PROVE Pings'
  <2>1. OnePinger'
    BY <1>20, <1>0 DEF Beat, Pings, OnePinger, Resting, Opened, Attachment
  <2>2. HeartBeats'
    BY <1>20, <1>0 DEF Beat, Pings, HeartBeats
  <2>3. InOrder'
    BY <1>20, <1>0 DEF Beat, Pings, InOrder, NoneAhead
  <2>4. OneAwaited'
    BY <1>20, <1>0 DEF Beat, Pings, OneAwaited, Nonces
  <2>5. Outstanding'
    BY <1>20, <1>0 DEF Beat, Pings, Outstanding, GoingOut, Nonces
  <2> QED BY <2>1, <2>2, <2>3, <2>4, <2>5 DEF Pings
<1>21. ASSUME SkipBeat PROVE Pings'
  <2>1. Kept /\ ("ping" \in armed' => "ping" \in armed)
    BY <1>21, <1>a, <1>c DEF SkipBeat
  <2>2. /\ pinger = "check" /\ reader # "new" /\ heart' = heart /\ accepted
        /\ \/ reader = "pinging" /\ reader' \in {"done", "active"} /\ pinger' = "idle"
           \/ reader # "pinging" /\ reader' = reader /\ pinger' = "reset"
        /\ UNCHANGED <<pending, pongs, pings, answered, heard, lied, accepted, negotiated, count, sent>>
    BY <1>21, <1>0, <1>d DEF SkipBeat, PingReturns, Handled, Opening, Pings, OnePinger, Resting
  <2>3. OnePinger'
    BY <2>1, <2>2 DEF Pings, OnePinger, Resting, Opened, Attachment
  <2>4. HeartBeats'
    BY <1>0, <2>1, <2>2 DEF Pings, HeartBeats, Kept
  <2>5. InOrder'
    <3>1. CASE lied
      BY <1>a, <2>2, <3>1 DEF InOrder
    <3>2. CASE stopped' = stopped /\ strand'["pong"] = strand["pong"]
      BY <1>a, <2>2, <3>2 DEF Pings, InOrder
    <3>3. CASE /\ ~lied /\ stopped = FALSE /\ stopped' = TRUE
               /\ strand'["pong"] = Append(strand["pong"], StopMark)
      <4>1. InLine(strand["pong"], heard, answered, FALSE)
        BY <2>2, <3>3 DEF Pings, InOrder
      <4>2. InLine(strand["pong"], heard, answered, stopped)'
        BY <1>0, <2>2, <3>3, <4>1, LineEnds
      <4> QED BY <1>a, <2>2, <3>3, <4>2 DEF Pings, InOrder
    <3> QED BY <2>1, <3>1, <3>2, <3>3 DEF Kept
  <2>6. OneAwaited'
    BY <2>2 DEF Pings, OneAwaited, Nonces
  <2>7. Outstanding'
    BY <2>1, <2>2 DEF Pings, Outstanding, GoingOut, Nonces, Kept
  <2> QED BY <2>3, <2>4, <2>5, <2>6, <2>7 DEF Pings
<1>22. ASSUME AwaitPong PROVE Pings'
  <2>0. /\ Nonces /\ pending /\ pongs = {}
        /\ ~lied => heard <= answered /\ answered <= pings
    BY <1>22 DEF AwaitPong, Pings, OneAwaited, InOrder
  <2>1. OnePinger'
    BY <1>22, <1>0, <2>0 DEF AwaitPong, Pings, OnePinger, Resting, Opened, Attachment
  <2>2. HeartBeats'
    BY <1>22, <1>0, <2>0 DEF AwaitPong, Pings, HeartBeats
  <2>3. InOrder'
    BY <1>22, <1>0, <2>0 DEF AwaitPong, Pings, InOrder, NoneAhead
  <2>4. OneAwaited'
    BY <1>22, <1>0, <2>0 DEF AwaitPong, Pings, OneAwaited, Nonces
  <2>5. Outstanding'
    BY <1>22, <1>0, <2>0 DEF AwaitPong, Pings, Outstanding, GoingOut, Nonces
  <2> QED BY <2>1, <2>2, <2>3, <2>4, <2>5 DEF Pings
<1>23. ASSUME SendPing PROVE Pings'
  <2>0. /\ pinger = "send" /\ reader # "new" /\ accepted /\ pings' = pings + 1
        /\ \/ reader = "pinging" /\ reader' \in {"done", "active"} /\ pinger' = "idle"
           \/ reader # "pinging" /\ reader' = reader /\ pinger' = "reset"
        /\ UNCHANGED <<stopped, strand, relayPosted, heart, armed, pending, pongs, answered, heard,
                       lied, accepted, negotiated, count>>
    BY <1>23, <1>0, <1>d DEF SendPing, PingReturns, Handled, Opening, Pings, OnePinger, Resting
  <2>1. OnePinger'
    BY <2>0 DEF Pings, OnePinger, Resting, Opened, Attachment
  <2>2. HeartBeats'
    BY <2>0 DEF Pings, HeartBeats
  <2>3. NoneAhead'
    <3>0. Pair("ping", pings + 1) \in Messages /\ Pair("ping", pings + 1).n = pings + 1
      BY <1>0 DEF Messages, Pair
    <3>1. \A i \in DOMAIN sent' : \/ sent'[i] = Pair("ping", pings + 1)
                                  \/ (i \in DOMAIN sent /\ sent'[i] = sent[i])
      BY <1>23, <1>0, <3>0, Sending DEF SendPing
    <3>2. \A i \in DOMAIN sent : sent[i] \in Messages
      BY <1>0 DEF ProxyTypes
    <3>3. \A m \in Messages : m.n \in Nat
      BY DEF Messages
    <3>4. \A i \in DOMAIN sent : sent[i].name = "ping" => sent[i].n <= pings /\ sent[i].n \in Nat
      BY <1>0, <3>2, <3>3 DEF NoneAhead
    <3>5. ASSUME NEW i \in DOMAIN sent', sent'[i].name = "ping" PROVE sent'[i].n <= pings + 1
      <4>1. CASE sent'[i] = Pair("ping", pings + 1)
        BY <1>0, <3>0, <4>1
      <4>2. CASE i \in DOMAIN sent /\ sent'[i] = sent[i]
        BY <1>0, <3>4, <3>5, <4>2
      <4> QED BY <3>1, <4>1, <4>2
    <3> QED BY <2>0, <3>5 DEF NoneAhead
  <2>4. InOrder'
    BY <1>0, <2>0, <2>3 DEF Pings, InOrder
  <2>5. OneAwaited'
    BY <1>0, <2>0 DEF Pings, OneAwaited, Nonces
  <2>6. Outstanding'
    BY <1>0, <2>0 DEF Pings, Outstanding, GoingOut, Nonces
  <2> QED BY <2>1, <2>2, <2>4, <2>5, <2>6 DEF Pings
<1>24. ASSUME ResetHeart PROVE Pings'
  <2>1. OnePinger'
    BY <1>24, <1>0 DEF ResetHeart, Pings, OnePinger, Resting, Opened, Attachment
  <2>2. HeartBeats'
    BY <1>24, <1>0 DEF ResetHeart, Pings, HeartBeats
  <2>3. InOrder'
    BY <1>24, <1>0 DEF ResetHeart, Pings, InOrder, NoneAhead
  <2>4. OneAwaited'
    BY <1>24, <1>0 DEF ResetHeart, Pings, OneAwaited, Nonces
  <2>5. Outstanding'
    BY <1>24, <1>0 DEF ResetHeart, Pings, Outstanding, GoingOut, Nonces
  <2> QED BY <2>1, <2>2, <2>3, <2>4, <2>5 DEF Pings
<1>25. ASSUME FireAlarm PROVE Pings'
  <2>1. Kept /\ ("ping" \in armed' => "ping" \in armed)
    BY <1>25, <1>a, <1>c DEF FireAlarm
  <2> QED
    BY <1>25, <1>0, <1>a, <1>e, <2>1, PingsUnchanged DEF FireAlarm, QuietReader, Opened, Attachment
<1>26. ASSUME FireHandshake PROVE Pings'
  BY <1>26, <1>0, <1>a, <1>e, PingsUnchanged DEF FireHandshake, QuietReader, Opened, Attachment
<1>27. ASSUME FireHeart PROVE Pings'
  <2>0. pinger = "idle"
    BY <1>27, <1>0 DEF FireHeart, Pings, OnePinger
  <2>1. OnePinger'
    BY <1>27, <1>0, <2>0 DEF FireHeart, Pings, OnePinger, Resting, Opened, Attachment
  <2>2. HeartBeats'
    BY <1>27, <1>0, <2>0 DEF FireHeart, Pings, HeartBeats
  <2>3. InOrder'
    BY <1>27, <1>0, <2>0 DEF FireHeart, Pings, InOrder, NoneAhead
  <2>4. OneAwaited'
    BY <1>27, <1>0, <2>0 DEF FireHeart, Pings, OneAwaited, Nonces
  <2>5. Outstanding'
    BY <1>27, <1>0, <2>0 DEF FireHeart, Pings, Outstanding, GoingOut, Nonces
  <2> QED BY <2>1, <2>2, <2>3, <2>4, <2>5 DEF Pings
<1>28. ASSUME RunPing PROVE Pings'
  <2>1. UNCHANGED sent \/ Send(Pair("pong", Head(strand["ping"])))
    BY <1>28 DEF RunPing
  <2>2. Head(strand["ping"]) \in Nat /\ strand'["pong"] = strand["pong"]
    BY <1>28, <1>0 DEF RunPing, Run, Rest, Strands
  <2>3. NoneAhead'
    BY <1>28, <1>0, <1>a, <1>b, <2>1, <2>2, SendKeeps DEF RunPing
  <2> QED
    BY <1>28, <1>0, <1>e, <2>2, <2>3, PingsUnchanged
    DEF RunPing, Kept, QuietReader, Opened, Attachment
<1>29. ASSUME RunPong PROVE Pings'
  <2>0. /\ strand["pong"] # <<>> /\ Head(strand["pong"]) # StopMark /\ reader # "new"
        /\ heard' = Head(strand["pong"]) /\ pongs' = {}
        /\ pending' = (pending /\ ~(heart /\ pongs # {}))
        /\ UNCHANGED <<reader, pinger, heart, pings, sent, answered, lied, accepted, negotiated, count>>
        /\ "ping" \in armed' => "ping" \in armed
    BY <1>29 DEF RunPong, StopFrom, Pings, HeartBeats
  <2>1. \/ /\ stopped' = stopped /\ strand'["pong"] = Tail(strand["pong"]) /\ relayPosted' = relayPosted
        \/ /\ stopped /\ stopped' /\ strand'["pong"] = Tail(strand["pong"])
        \/ /\ ~stopped /\ stopped' /\ strand'["pong"] = Append(Tail(strand["pong"]), StopMark)
    BY <1>29, <1>0 DEF RunPong, StopFrom, Rest
  <2>2. OnePinger'
    BY <2>0 DEF Pings, OnePinger, Resting, Opened, Attachment
  <2>3. HeartBeats'
    BY <1>0, <2>0, <2>1 DEF Pings, HeartBeats
  <2>4. ~lied => /\ heard' = heard + 1 /\ heard + 1 <= answered /\ answered <= pings
                 /\ InLine(Tail(strand["pong"]), heard + 1, answered, stopped)
    BY <1>0, <2>0, LineMoves DEF Pings, InOrder
  <2>5. InOrder'
    <3>1. CASE lied
      BY <1>a, <2>0, <3>1 DEF InOrder
    <3>2. CASE ~lied /\ stopped' = stopped /\ strand'["pong"] = Tail(strand["pong"])
      BY <1>0, <1>a, <2>0, <2>4, <3>2 DEF InOrder
    <3>3. CASE ~lied /\ ~stopped /\ stopped' /\ strand'["pong"] = Append(Tail(strand["pong"]), StopMark)
      <4>1. Tail(strand["pong"]) \in Seq(Nat) /\ heard + 1 \in Nat
        BY <1>0, <2>0
      <4>2. InLine(Append(Tail(strand["pong"]), StopMark), heard + 1, answered, TRUE)
        BY <1>0, <2>4, <3>3, <4>1, LineEnds
      <4>3. InLine(strand["pong"], heard, answered, stopped)'
        BY <2>0, <2>4, <3>3, <4>2
      <4> QED BY <1>0, <1>a, <2>0, <2>4, <3>3, <4>3 DEF InOrder
    <3>4. stopped' \in BOOLEAN
      BY <1>0, <2>1, <1>29 DEF RunPong, StopFrom
    <3> QED BY <1>0, <2>1, <3>1, <3>2, <3>3, <3>4
  <2>6. OneAwaited'
    BY <1>0, <2>0 DEF Pings, OneAwaited, Nonces
  <2>7. Outstanding'
    <3>1. SUFFICES ASSUME ~stopped', ~lied, Nonces PROVE Outstanding'
      BY <2>0 DEF Outstanding, Nonces
    <3>2. ~stopped /\ ~GoingOut /\ pending
      BY <1>0, <2>1, <2>4, <3>1 DEF Pings, Outstanding
    <3>3. pongs = {pings} /\ heard + 1 = pings /\ heart
      BY <3>1, <3>2 DEF Pings, Outstanding, HeartBeats
    <3> QED BY <2>0, <2>4, <3>2, <3>3 DEF Outstanding, GoingOut
  <2> QED BY <2>2, <2>3, <2>5, <2>6, <2>7 DEF Pings
<1>30. ASSUME RunReject PROVE Pings'
  <2>1. strand'["pong"] = strand["pong"]
    BY <1>30, <1>0 DEF RunReject, Run, Rest, Strands
  <2> QED
    BY <1>30, <1>0, <1>a, <1>e, <2>1, PingsUnchanged
    DEF RunReject, Kept, QuietReader, Opened, Attachment
<1>31. ASSUME RelayStop PROVE Pings'
  BY <1>31, <1>0, <1>a, <1>e, PingsUnchanged
  DEF RelayStop, Kept, Pings, HeartBeats, QuietReader, Opened, Attachment
<1>32. ASSUME NEW t \in Strands, RunStop(t) PROVE Pings'
  <2>1. CASE t # "pong"
    <3>1. strand'["pong"] = strand["pong"]
      BY <1>32, <1>0, <2>1 DEF RunStop, Run, Rest
    <3> QED
      BY <1>32, <1>0, <1>a, <1>e, <2>1, <3>1, PingsUnchanged
      DEF RunStop, Kept, QuietReader, Opened, Attachment
  <2>2. CASE t = "pong"
    <3>0. /\ strand["pong"] # <<>> /\ Head(strand["pong"]) = StopMark /\ reader # "new"
          /\ strand'["pong"] = Tail(strand["pong"]) /\ pongs' = {}
          /\ UNCHANGED <<stopped, reader, relayPosted, armed, pinger, heart, pending, pings, sent,
                         answered, heard, lied, accepted, negotiated, count>>
      BY <1>32, <1>0, <2>2 DEF RunStop, Run, Rest, Pings, HeartBeats
    <3>1. OnePinger'
      BY <3>0 DEF Pings, OnePinger, Resting, Opened, Attachment
    <3>2. HeartBeats'
      BY <3>0 DEF Pings, HeartBeats
    <3>3. ~lied => stopped /\ Tail(strand["pong"]) = <<>>
      BY <1>0, <3>0, LineMoves DEF Pings, InOrder
    <3>4. ~lied => InLine(Tail(strand["pong"]), heard, answered, stopped)
      BY <3>3 DEF InLine
    <3>5. InOrder'
      BY <1>a, <3>0, <3>4 DEF Pings, InOrder
    <3>6. OneAwaited'
      BY <3>0 DEF Pings, OneAwaited, Nonces
    <3>7. Outstanding'
      BY <3>0, <3>3 DEF Outstanding
    <3> QED BY <3>1, <3>2, <3>5, <3>6, <3>7 DEF Pings
  <2> QED BY <2>1, <2>2
<1>33. ASSUME UNCHANGED vars PROVE Pings'
  BY <1>33, <1>0, <1>a, <1>e, PingsUnchanged DEF vars, QuietReader, Opened, Attachment
<1> QED
  BY <1>1, <1>2, <1>3, <1>4, <1>5, <1>6, <1>7, <1>8, <1>9, <1>10, <1>11, <1>12, <1>13, <1>14,
     <1>15, <1>16, <1>17, <1>18, <1>19, <1>20, <1>21, <1>22, <1>23, <1>24, <1>25, <1>26, <1>27,
     <1>28, <1>29, <1>30, <1>31, <1>32, <1>33, StepCases

\* What ping and pong the two ends are at, for a peer that keeps to the protocol
\* (protocol_ping_60001, protocol_timer): the strengthening of the two below.
THEOREM PingsInvariant == Spec => []Pings
<1>1. Init => Pings
  BY DEF Init, Pings, OnePinger, Resting, Opened, Attachment, HeartBeats, InOrder, NoneAhead,
         OneAwaited, Outstanding, GoingOut, Strands
<1>2. TypeOK /\ Handshake /\ Pings /\ [Next]_vars => Pings'
  BY PingsStep
<1> QED BY <1>1, <1>2, TypeCorrect, HandshakeInvariant, PTL DEF Spec

\* A peer that answers each ping once is not dropped for it, however its pongs, the
\* heartbeat, the other messages and the stop interleave (protocol_ping_60001).
THEOREM HonestPeerIsAlwaysKept == Spec => []HonestPeerIsKept
<1>1. TypeOK /\ Pings => HonestPeerIsKept
  <2>1. SUFFICES ASSUME TypeOK, Pings, ~lied PROVE HonestPeerIsKept
    BY DEF HonestPeerIsKept
  <2>2. pings \in Nat /\ heard \in Nat /\ pending \in BOOLEAN /\ pongs \subseteq Nat
    BY <2>1 DEF TypeOK, PingTypes, PeerTypes
  <2>3. \A n \in pongs : n > heard /\ n = pings + (IF pinger = "send" THEN 1 ELSE 0)
    BY <2>1, <2>2 DEF Pings, OneAwaited
  <2>4. ~stopped /\ pending /\ pinger \notin {"subscribe", "send"} => heard < pings
    BY <2>1, <2>2 DEF Pings, OneAwaited, Outstanding, GoingOut
  <2> QED BY <2>3, <2>4 DEF HonestPeerIsKept
<1> QED BY <1>1, TypeCorrect, PingsInvariant, PTL

\* The pong of an honest peer is the one that is awaited: hearing it stops nothing.
THEOREM HonestPongIsWelcome == Spec => [][RunPong /\ ~lied => stopped' = stopped]_vars
<1>1. ASSUME TypeOK, Pings, RunPong, ~lied PROVE stopped' = stopped
  <2>1. /\ heard \in Nat /\ answered \in Nat /\ pings \in Nat /\ stopped \in BOOLEAN
        /\ pending \in BOOLEAN /\ strand["pong"] \in Seq(Nat)
    BY <1>1 DEF TypeOK, ProxyTypes, PingTypes, PeerTypes, Strands
  <2>2. heard' = heard + 1 /\ heard + 1 <= answered /\ answered <= pings
    BY <1>1, <2>1, LineMoves DEF RunPong, Pings, InOrder, HeartBeats
  <2>3. CASE stopped
    BY <1>1, <2>1, <2>3 DEF RunPong, StopFrom
  <2>4. CASE ~stopped /\ pongs # {}
    <3>1. Nonces /\ pending
      BY <2>4, <1>1 DEF Pings, OneAwaited
    <3>2. pongs = {pings} /\ heard + 1 = pings
      BY <1>1, <2>1, <2>2, <2>4, <3>1 DEF Pings, Outstanding
    <3> QED BY <1>1, <2>2, <3>2 DEF RunPong
  <2>5. CASE ~stopped /\ pongs = {}
    BY <1>1, <2>5 DEF RunPong
  <2> QED BY <2>3, <2>4, <2>5
<1> QED BY <1>1, TypeCorrect, PingsInvariant, PTL DEF Spec

-----------------------------------------------------------------------------
(* The peer's pings.  Those that were read wait on their strand in order,  *)
(* behind those that were heard; a pong is sent for each that is heard     *)
(* while the protocol listens.                                             *)

PongSent(p) == \E i \in DOMAIN sent : Ponged(i) /\ sent[i].n = p
PongsInOrder ==
  \A i, j \in DOMAIN sent : Ponged(i) /\ Ponged(j) /\ i < j => sent[i].n < sent[j].n

\* The protocol has its handler once it is attached, and its subscription before
\* the peer is read again, until the channel stops.
Listening ==
  /\ accepted /\ ~stopped /\ reader # "attach" => heart
  /\ accepted /\ ~stopped /\ reader \notin Attachment => "ping" \in subs
  /\ reader = "new" => strand["ping"] = <<>> /\ asked = 0 /\ sent = <<>>

\* The pings up to h were heard, and the others are in line.
Serving == accepted /\ Nonces /\ reader \notin Attachment /\ ~stopped
Heard(h) ==
  /\ InLine(strand["ping"], h, asked, stopped)
  /\ \A i \in DOMAIN sent : Ponged(i) => sent[i].n <= h
  /\ Serving => \A p \in early + 1 .. h : PongSent(p)

Answers == Listening /\ PongsInOrder /\ \E h \in Nat : Heard(h)

\* A step that hears no ping: stop may end the line, and no pong is sent.
LineKept ==
  \/ stopped' = stopped /\ strand'["ping"] = strand["ping"]
  \/ stopped = FALSE /\ stopped' = TRUE /\ strand'["ping"] = Append(strand["ping"], StopMark)
NoPong == sent' = sent \/ \E m \in Messages : m.name # "pong" /\ Send(m)

\* Without a pong sent, the pongs are those that were sent.
LEMMA NoPongSent ==
  ASSUME ProxyTypes, NoPong
  PROVE  /\ \A i \in DOMAIN sent' : Ponged(i)' => Ponged(i) /\ sent'[i] = sent[i]
         /\ \A i \in DOMAIN sent : Ponged(i) => i \in DOMAIN sent' /\ Ponged(i)' /\ sent'[i] = sent[i]
<1>1. CASE sent' = sent
  BY <1>1 DEF Ponged
<1>2. ASSUME NEW m \in Messages, m.name # "pong", Send(m)
      PROVE  /\ \A i \in DOMAIN sent' : Ponged(i)' => Ponged(i) /\ sent'[i] = sent[i]
             /\ \A i \in DOMAIN sent : Ponged(i) => i \in DOMAIN sent' /\ Ponged(i)' /\ sent'[i] = sent[i]
  <2>1. sent \in Seq(Messages) /\ sent' = Append(sent, m)
    BY <1>2 DEF ProxyTypes, Send
  <2>2. \A i \in DOMAIN sent : i \in DOMAIN sent' /\ sent'[i] = sent[i]
    BY <2>1
  <2>3. \A i \in DOMAIN sent' : i \in DOMAIN sent \/ sent'[i] = m
    BY <2>1
  <2> QED BY <1>2, <2>2, <2>3 DEF Ponged
<1> QED BY <1>1, <1>2 DEF NoPong

\* What StopFrom does to the line of the pings.
LEMMA StopEndsLine ==
  ASSUME ProxyTypes, NEW timers, NEW queues \in [Strands -> Seq(Nat)],
         queues["ping"] = strand["ping"], StopFrom(timers, queues)
  PROVE  LineKept /\ ("ping" \in subs => "ping" \in subs')
BY DEF ProxyTypes, StopFrom, LineKept, Strands

\* Steps that leave the strand and the subscription of the pings alone.
LEMMA AnswersUnchanged ==
  ASSUME TypeOK, HeartBeats, Answers, LineKept, NoPong, UNCHANGED <<asked, early>>,
         accepted' => accepted /\ negotiated' = negotiated,
         heart => heart' \/ stopped',
         "ping" \in subs => "ping" \in subs' \/ stopped',
         reader' # "attach" => reader # "attach",
         reader' \notin Attachment => reader \notin Attachment,
         reader' = "new" => reader = "new" /\ sent' = sent
  PROVE  Answers'
<1>0. /\ stopped \in BOOLEAN /\ strand["ping"] \in Seq(Nat) /\ asked \in Nat /\ early \in Nat
      /\ ProxyTypes
  BY DEF TypeOK, ProxyTypes, PeerTypes, Strands
<1>1. stopped => stopped'
  BY DEF LineKept
<1>2. Listening'
  BY <1>1 DEF Answers, Listening, HeartBeats, LineKept
<1>3. /\ \A i \in DOMAIN sent' : Ponged(i)' => Ponged(i) /\ sent'[i] = sent[i]
      /\ \A i \in DOMAIN sent : Ponged(i) => i \in DOMAIN sent' /\ Ponged(i)' /\ sent'[i] = sent[i]
  BY <1>0, NoPongSent
<1>4. PongsInOrder'
  BY <1>3 DEF Answers, PongsInOrder, Ponged
<1>5. PICK h \in Nat : Heard(h)
  BY DEF Answers
<1>6. InLine(strand["ping"], h, asked, stopped)'
  <2>1. CASE stopped' = stopped /\ strand'["ping"] = strand["ping"]
    BY <1>5, <2>1 DEF Heard
  <2>2. CASE /\ stopped = FALSE /\ stopped' = TRUE
             /\ strand'["ping"] = Append(strand["ping"], StopMark)
    BY <1>0, <1>5, <2>2, LineEnds DEF Heard
  <2> QED BY <2>1, <2>2 DEF LineKept
<1>7. \A i \in DOMAIN sent' : Ponged(i)' => sent'[i].n <= h
  BY <1>3, <1>5 DEF Heard, Ponged
<1>8. Serving' => Serving
  BY <1>1 DEF Serving, Nonces
<1>9. \A p : PongSent(p) => PongSent(p)'
  BY <1>3 DEF PongSent
<1>10. Serving' => \A p \in early' + 1 .. h : PongSent(p)'
  BY <1>5, <1>8, <1>9 DEF Heard
<1>11. Heard(h)'
  BY <1>6, <1>7, <1>10 DEF Heard
<1> QED BY <1>2, <1>4, <1>5, <1>11 DEF Answers

\* A step that begins or ends the listening where nothing is served, or all was heard.
LEMMA AnswersRestart ==
  ASSUME TypeOK, Answers, UNCHANGED <<strand, sent, asked, stopped>>,
         Listening', Serving' => early' = asked \/ (Serving /\ early' = early)
  PROVE  Answers'
<1>1. stopped \in BOOLEAN /\ strand["ping"] \in Seq(Nat) /\ asked \in Nat
  BY DEF TypeOK, ProxyTypes, PeerTypes, Strands
<1>2. PICK h \in Nat : Heard(h)
  BY DEF Answers
<1>3. InLine(strand["ping"], h, asked, stopped)' /\ PongsInOrder'
  BY <1>2 DEF Answers, PongsInOrder, Ponged, Heard
<1>4. ~stopped => h <= asked
  BY <1>1, <1>2 DEF Heard, InLine
<1>5. \A p : PongSent(p) => PongSent(p)'
  BY DEF PongSent, Ponged
<1>6. Serving' => \A p \in early' + 1 .. h : PongSent(p)'
  <2>1. CASE Serving' /\ early' = asked
    <3>1. h <= asked
      BY <1>4, <2>1 DEF Serving
    <3> QED BY <1>1, <1>2, <2>1, <3>1
  <2>2. CASE Serving /\ early' = early
    BY <1>2, <1>5, <2>2 DEF Heard
  <2> QED BY <2>1, <2>2
<1>7. \A i \in DOMAIN sent' : Ponged(i)' => sent'[i].n <= h
  BY <1>2 DEF Heard, Ponged
<1>8. Heard(h)'
  BY <1>3, <1>6, <1>7 DEF Heard
<1> QED BY <1>2, <1>3, <1>8 DEF Answers

\* The ping that is read joins the line.
LEMMA ReadPingKeeps ==
  ASSUME TypeOK, Answers, ReadPing PROVE Answers'
<1>0. /\ stopped = FALSE /\ stopped' = FALSE /\ strand["ping"] \in Seq(Nat) /\ asked \in Nat
      /\ reader = "reading" /\ reader' \in {"done", "active"} /\ reader \notin Attachment
      /\ strand'["ping"] = Append(strand["ping"], asked + 1) /\ asked' = asked + 1
      /\ UNCHANGED <<subs, sent, early, accepted, negotiated, heart>>
  BY DEF TypeOK, ProxyTypes, PeerTypes, Strands, ReadPing, Relay, Reading, Handled, versionVars,
         pingVars, Attachment
<1>1. Listening'
  BY <1>0 DEF Answers, Listening
<1>2. PICK h \in Nat : Heard(h)
  BY DEF Answers
<1>3. InLine(strand["ping"], h, asked, stopped)'
  BY <1>0, <1>2, LineGrows DEF Heard
<1>4. PongsInOrder' /\ \A i \in DOMAIN sent' : Ponged(i)' => sent'[i].n <= h
  BY <1>0, <1>2 DEF Answers, PongsInOrder, Ponged, Heard
<1>5. Serving' => \A p \in early' + 1 .. h : PongSent(p)'
  <2>1. Serving' => Serving
    BY <1>0 DEF Serving, Nonces
  <2>2. \A p : PongSent(p) => PongSent(p)'
    BY <1>0 DEF PongSent, Ponged
  <2> QED BY <1>0, <1>2, <2>1, <2>2 DEF Heard
<1>6. Heard(h)'
  BY <1>3, <1>4, <1>5 DEF Heard
<1> QED BY <1>1, <1>2, <1>4, <1>6 DEF Answers

\* The ping that is heard leaves the line, and its pong is the last that was sent.
LEMMA RunPingKeeps ==
  ASSUME TypeOK, Answers, RunPing PROVE Answers'
<1> DEFINE q == strand["ping"]
<1>0. /\ stopped \in BOOLEAN /\ stopped' = stopped /\ q \in Seq(Nat) /\ q # <<>>
      /\ asked \in Nat /\ early \in Nat /\ sent \in Seq(Messages) /\ Head(q) # StopMark
      /\ strand'["ping"] = Tail(q) /\ Head(q) \in Nat
      /\ UNCHANGED <<reader, asked, early, accepted, negotiated, heart>>
  BY DEF TypeOK, ProxyTypes, PeerTypes, Strands, RunPing, Run, Rest, readVars, peerVars,
         versionVars, pingVars
<1>1. PICK h \in Nat : Heard(h)
  BY DEF Answers
<1>2. Head(q) = h + 1 /\ InLine(Tail(q), h + 1, asked, stopped)
  <2>1. InLine(q, h, asked, stopped)
    BY <1>1 DEF Heard
  <2>2. q \in Seq(Nat) /\ q # <<>> /\ asked \in Nat /\ stopped \in BOOLEAN /\ Head(q) # StopMark
    BY <1>0
  <2> HIDE DEF q
  <2> QED BY <2>1, <2>2, LineMoves
<1>6. \A i \in DOMAIN sent : Ponged(i) => sent[i].n \in Nat /\ sent[i].n <= h
  <2>1. \A i \in DOMAIN sent : sent[i] \in Messages
    BY <1>0
  <2>2. \A i \in DOMAIN sent : Ponged(i) => sent[i].n <= h
    BY <1>1 DEF Heard
  <2> QED BY <2>1, <2>2 DEF Messages
<1>3. Listening'
  <2>1. accepted /\ ~stopped /\ reader \notin Attachment => "ping" \in subs'
    BY <1>0 DEF RunPing, Answers, Listening, Attachment
  <2> QED BY <1>0, <2>1 DEF Answers, Listening
<1>4. CASE "ping" \in subs /\ heart /\ Nonces
  <2>1. sent' = Append(sent, Pair("pong", h + 1)) /\ Pair("pong", h + 1) \in Messages
    BY <1>0, <1>2, <1>4 DEF RunPing, Send, Messages, Pair
  <2>0. PICK k \in Nat : k = Len(sent) + 1
    BY <1>0
  <2>2. /\ \A i \in DOMAIN sent : i \in DOMAIN sent' /\ i < k /\ sent'[i] = sent[i]
        /\ \A i \in DOMAIN sent' : i \in DOMAIN sent \/ i = k
        /\ k \in DOMAIN sent' /\ sent'[k] = Pair("pong", h + 1)
    BY <1>0, <2>0, <2>1
  <2>3. sent'[k].n = h + 1 /\ Ponged(k)'
    BY <2>2 DEF Ponged, Pair
  <2>5. PongsInOrder'
    <3>1. ASSUME NEW i \in DOMAIN sent', NEW j \in DOMAIN sent', Ponged(i)', Ponged(j)', i < j
          PROVE  sent'[i].n < sent'[j].n
      <4>1. i \in DOMAIN sent
        <5>1. i = k => j \in DOMAIN sent \/ j = k
          BY <2>2
        <5>2. \A x \in DOMAIN sent : x \in Nat
          BY <1>0
        <5> QED BY <1>0, <2>2, <3>1, <5>1, <5>2
      <4>2. CASE j \in DOMAIN sent
        BY <2>2, <3>1, <4>1, <4>2 DEF Answers, PongsInOrder, Ponged
      <4>3. CASE j = k
        BY <2>2, <2>3, <1>6, <3>1, <4>1, <4>3 DEF Ponged
      <4> QED BY <2>2, <4>2, <4>3
    <3> QED BY <3>1 DEF PongsInOrder
  <2>6. \A i \in DOMAIN sent' : Ponged(i)' => sent'[i].n <= h + 1
    BY <1>1, <1>6, <2>2, <2>3 DEF Ponged
  <2>7. Serving' => \A p \in early' + 1 .. h + 1 : PongSent(p)'
    <3>1. Serving' => Serving
      BY <1>0 DEF Serving, Nonces
    <3>2. \A p : PongSent(p) => PongSent(p)'
      BY <2>2 DEF PongSent, Ponged
    <3>3. PongSent(h + 1)'
      BY <2>2, <2>3 DEF PongSent
    <3>4. \A p \in early + 1 .. h + 1 : p \in early + 1 .. h \/ p = h + 1
      BY <1>0, <1>1
    <3> QED BY <1>0, <1>1, <3>1, <3>2, <3>3, <3>4 DEF Heard
  <2>8. Heard(h + 1)'
    BY <1>0, <1>2, <2>6, <2>7 DEF Heard
  <2>9. h + 1 \in Nat
    BY <1>1
  <2> QED BY <1>3, <2>5, <2>8, <2>9 DEF Answers
<1>5. CASE ~("ping" \in subs /\ heart /\ Nonces)
  <2>1. sent' = sent
    BY <1>5 DEF RunPing
  <2>2. ~Serving'
    <3>1. Serving' => Serving
      BY <1>0 DEF Serving, Nonces
    <3>2. ~Serving
      BY <1>5 DEF Serving, Answers, Listening, Attachment
    <3> QED BY <3>1, <3>2
  <2>3. PongsInOrder' /\ \A i \in DOMAIN sent' : Ponged(i)' => sent'[i].n <= h + 1
    <3>1. \A i \in DOMAIN sent : Ponged(i) => sent[i].n <= h + 1
      BY <1>1, <1>6
    <3> QED BY <2>1, <3>1 DEF Answers, PongsInOrder, Ponged
  <2>4. Heard(h + 1)'
    BY <1>0, <1>2, <2>2, <2>3 DEF Heard
  <2>5. h + 1 \in Nat
    BY <1>1
  <2> QED BY <1>3, <2>3, <2>4, <2>5 DEF Answers
<1> QED BY <1>4, <1>5

\* One step per action; those that leave the peer's pings alone by AnswersUnchanged.
LEMMA AnswersStep ==
  ASSUME TypeOK, Handshake, HeartBeats, OnePinger, Answers, [Next]_vars
  PROVE  Answers'
<1> USE DEF pingVars, peerVars, versionVars, readVars, stopVars
<1>0. /\ ProxyTypes /\ PingTypes /\ PeerTypes /\ VersionTypes
      /\ stopped \in BOOLEAN /\ strand["ping"] \in Seq(Nat) /\ strand \in [Strands -> Seq(Nat)]
      /\ asked \in Nat /\ early \in Nat /\ heart \in BOOLEAN /\ accepted \in BOOLEAN
      /\ TypeOK /\ Handshake /\ HeartBeats /\ Answers
      /\ (reader \in Attachment \cup {"pinging"} => accepted)
  BY DEF TypeOK, ProxyTypes, PingTypes, PeerTypes, VersionTypes, Strands, OnePinger, Opened
<1>a. UNCHANGED <<stopped, strand>> => LineKept
  BY DEF LineKept
<1>b. /\ sent' = sent => NoPong
      /\ \A n \in Nat, name \in {"version", "verack", "reject", "ping"} :
           Send(Pair(name, n)) => NoPong
  <2>1. ASSUME NEW n \in Nat, NEW name \in {"version", "verack", "reject", "ping"},
               Send(Pair(name, n))
        PROVE  NoPong
    <3>1. Pair(name, n) \in Messages /\ Pair(name, n).name # "pong"
      BY DEF Messages, Pair
    <3> QED BY <2>1, <3>1 DEF NoPong
  <2> QED BY <2>1 DEF NoPong
<1>c. Stop => LineKept /\ ("ping" \in subs => "ping" \in subs')
  BY <1>0, StopEndsLine DEF Stop
<1>d. reader \in Opening => ~accepted
  BY DEF Handshake, SuccessIsMeant, HeardOnce
<1>1. ASSUME Suspend PROVE Answers'
  BY <1>1, <1>0, <1>a, <1>b, <1>c, AnswersUnchanged DEF Suspend, Attachment
<1>2. ASSUME Start PROVE Answers'
  <2>1. /\ reader = "new" /\ strand["ping"] = <<>> /\ asked = 0 /\ sent = <<>> /\ ~accepted
        /\ reader' = "handshake" /\ UNCHANGED <<strand, sent, asked, early, accepted>>
    BY <1>2, <1>0, <1>d DEF Start, Opening, Answers, Listening
  <2>2. Listening' /\ PongsInOrder' /\ ~Serving'
    BY <2>1 DEF Answers, Listening, PongsInOrder, Ponged, Serving
  <2>3. Heard(0)'
    BY <2>1, <2>2 DEF Heard, InLine
  <2> QED BY <2>2, <2>3 DEF Answers
<1>3. ASSUME StartEvents PROVE Answers'
  BY <1>3, <1>0, <1>a, <1>b, <1>d, AnswersUnchanged DEF StartEvents, Opening, Attachment
<1>4. ASSUME LimitHandshake PROVE Answers'
  BY <1>4, <1>0, <1>a, <1>b, AnswersUnchanged DEF LimitHandshake, Attachment
<1>5. ASSUME Hello PROVE Answers'
  <2>1. NoPong
    BY <1>5, <1>b, ChannelAssumption DEF Hello
  <2> QED BY <1>5, <1>0, <1>a, <2>1, AnswersUnchanged DEF Hello, Attachment
<1>6. ASSUME ReadEnds PROVE Answers'
  BY <1>6, <1>0, <1>a, <1>b, AnswersUnchanged DEF ReadEnds, Attachment
<1>7. ASSUME ReadFails PROVE Answers'
  BY <1>7, <1>0, <1>a, <1>b, <1>c, AnswersUnchanged DEF ReadFails, Attachment
<1>8. ASSUME SignalActivity PROVE Answers'
  BY <1>8, <1>0, <1>a, <1>b, AnswersUnchanged DEF SignalActivity, Attachment
<1>9. ASSUME NEW v \in PeerVersions, NEW wanted \in BOOLEAN, ReadVersion(v, wanted) PROVE Answers'
  <2>1. NoPong
    BY <1>9, <1>b DEF ReadVersion
  <2>2. accepted => negotiated' = negotiated
    BY <1>9, <1>0 DEF ReadVersion, Answering, Handshake, HeardOnce, SuccessIsMeant
  <2> QED BY <1>9, <1>0, <1>a, <2>1, <2>2, AnswersUnchanged
          DEF ReadVersion, ReadSync, Reading, Handled, Attachment
<1>10. ASSUME ReadVerack PROVE Answers'
  BY <1>10, <1>0, <1>a, <1>b, AnswersUnchanged DEF ReadVerack, ReadSync, Reading, Handled, Attachment
<1>11. ASSUME ReadPing PROVE Answers'
  BY <1>11, ReadPingKeeps
<1>12. ASSUME ReadReject PROVE Answers'
  <2>1. LineKept
    BY <1>12, <1>0 DEF ReadReject, Relay, LineKept, Strands
  <2> QED BY <1>12, <1>0, <1>b, <2>1, AnswersUnchanged
          DEF ReadReject, Relay, Reading, Handled, Attachment
<1>13. ASSUME NEW honest \in BOOLEAN, ReadPong(honest) PROVE Answers'
  <2>1. LineKept
    BY <1>13, <1>0 DEF ReadPong, Relay, LineKept, Strands
  <2> QED BY <1>13, <1>0, <1>b, <2>1, AnswersUnchanged
          DEF ReadPong, Relay, Reading, Handled, Attachment
<1>14. ASSUME NEW e \in events, Count(e) PROVE Answers'
  BY <1>14, <1>0, <1>a, <1>b, AnswersUnchanged
  DEF Count, Handled, Attachment, Handshake, OneInHand
<1>15. ASSUME NEW e \in events, Refuse(e) PROVE Answers'
  <2>1. LineKept /\ ("ping" \in subs => "ping" \in subs')
    BY <1>15, <1>0, StopEndsLine DEF Refuse
  <2> QED BY <1>15, <1>0, <1>b, <2>1, AnswersUnchanged
          DEF Refuse, Handled, Attachment, Handshake, OneInHand
<1>16. ASSUME NEW e \in events, Accept(e) PROVE Answers'
  <2>1. UNCHANGED <<strand, sent, asked, stopped>> /\ reader' = "attach"
    BY <1>16 DEF Accept
  <2>2. Listening' /\ ~Serving'
    BY <2>1 DEF Listening, Serving, Attachment
  <2> QED BY <1>0, <2>1, <2>2, AnswersRestart
<1>17. ASSUME Attach PROVE Answers'
  <2>1. UNCHANGED <<strand, sent, asked, stopped>> /\ reader' = "beat" /\ heart' = ~stopped
    BY <1>17 DEF Attach
  <2>2. Listening' /\ ~Serving'
    BY <1>0, <2>1 DEF Listening, Serving, Attachment
  <2> QED BY <1>0, <2>1, <2>2, AnswersRestart
<1>18. ASSUME StartHeart PROVE Answers'
  BY <1>18, <1>0, <1>a, <1>b, AnswersUnchanged DEF StartHeart, Attachment
<1>19. ASSUME Listen PROVE Answers'
  <2>1. /\ UNCHANGED <<strand, sent, asked, stopped, heart, accepted>> /\ early' = asked
        /\ reader = "listen" /\ reader' \in {"pinging", "done", "active"}
        /\ (~stopped => "ping" \in subs')
    BY <1>19 DEF Listen, Handled
  <2>2. Listening'
    BY <1>0, <2>1 DEF Listening, Answers, Attachment
  <2> QED BY <1>0, <2>1, <2>2, AnswersRestart
<1>20. ASSUME Beat PROVE Answers'
  BY <1>20, <1>0, <1>a, <1>b, AnswersUnchanged DEF Beat, Attachment
<1>21. ASSUME SkipBeat PROVE Answers'
  <2>1. LineKept /\ ("ping" \in subs => "ping" \in subs')
    BY <1>21, <1>a, <1>c DEF SkipBeat
  <2> QED BY <1>21, <1>0, <1>b, <2>1, AnswersUnchanged
          DEF SkipBeat, PingReturns, Handled, Attachment
<1>22. ASSUME AwaitPong PROVE Answers'
  BY <1>22, <1>0, <1>a, <1>b, AnswersUnchanged DEF AwaitPong, Attachment
<1>23. ASSUME SendPing PROVE Answers'
  <2>1. NoPong
    BY <1>23, <1>0, <1>b DEF SendPing, PingTypes
  <2>2. UNCHANGED <<stopped, strand, subs, asked, early, accepted, negotiated, heart>>
    BY <1>23 DEF SendPing
  <2>3. reader' = reader \/ (reader = "pinging" /\ reader' \in {"done", "active"})
    BY <1>23 DEF SendPing, PingReturns, Handled
  <2>4. reader = "new" => sent' = sent
    BY <1>23, <1>0 DEF SendPing, OnePinger, Resting, Handshake, HeardOnce, SuccessIsMeant, Opening
  <2> QED BY <1>0, <1>a, <2>1, <2>2, <2>3, <2>4, AnswersUnchanged DEF Attachment
<1>24. ASSUME ResetHeart PROVE Answers'
  BY <1>24, <1>0, <1>a, <1>b, AnswersUnchanged DEF ResetHeart, Attachment
<1>25. ASSUME FireAlarm PROVE Answers'
  BY <1>25, <1>0, <1>a, <1>b, <1>c, AnswersUnchanged DEF FireAlarm, Attachment
<1>26. ASSUME FireHandshake PROVE Answers'
  BY <1>26, <1>0, <1>a, <1>b, AnswersUnchanged DEF FireHandshake, Raise, Attachment
<1>27. ASSUME FireHeart PROVE Answers'
  BY <1>27, <1>0, <1>a, <1>b, AnswersUnchanged DEF FireHeart, Attachment
<1>28. ASSUME RunPing PROVE Answers'
  BY <1>28, <1>0, RunPingKeeps
<1>29. ASSUME RunPong PROVE Answers'
  <2>1. LineKept /\ ("ping" \in subs => "ping" \in subs')
    <3>1. Rest("pong") \in [Strands -> Seq(Nat)] /\ Rest("pong")["ping"] = strand["ping"]
      BY <1>29, <1>0, RunTypes DEF RunPong, Rest, Strands
    <3>2. CASE StopFrom(armed, Rest("pong"))
      BY <1>0, <3>1, <3>2, StopEndsLine
    <3>3. CASE strand' = Rest("pong") /\ UNCHANGED <<stopped, relayPosted, subs, armed>>
      BY <3>1, <3>3 DEF LineKept
    <3> QED BY <1>29, <3>2, <3>3 DEF RunPong
  <2> QED BY <1>29, <1>0, <1>b, <2>1, AnswersUnchanged DEF RunPong, Attachment
<1>30. ASSUME RunReject PROVE Answers'
  <2>1. LineKept
    BY <1>30, <1>0 DEF RunReject, Run, Rest, LineKept, Strands
  <2> QED BY <1>30, <1>0, <1>b, <2>1, AnswersUnchanged DEF RunReject, Attachment
<1>31. ASSUME RelayStop PROVE Answers'
  <2>1. stopped
    BY <1>31, <1>0 DEF RelayStop, HeartBeats
  <2> QED BY <1>31, <1>0, <1>a, <1>b, <2>1, AnswersUnchanged DEF RelayStop, Attachment, LineKept
<1>32. ASSUME NEW t \in Strands, RunStop(t) PROVE Answers'
  <2>1. CASE t # "ping"
    <3>1. LineKept
      BY <1>32, <1>0, <2>1 DEF RunStop, Run, Rest, LineKept, Strands
    <3> QED BY <1>32, <1>0, <1>b, <2>1, <3>1, AnswersUnchanged DEF RunStop, Attachment
  <2>2. CASE t = "ping"
    <3> DEFINE q == strand["ping"]
    <3>1. /\ q # <<>> /\ Head(q) = StopMark /\ strand'["ping"] = Tail(q)
          /\ UNCHANGED <<stopped, sent, asked, early, reader, accepted, heart>>
      BY <1>32, <1>0, <2>2 DEF RunStop, Run, Rest
    <3>2. PICK h \in Nat : Heard(h)
      BY DEF Answers
    <3>3. InLine(q, h, asked, stopped)
      BY <3>2 DEF Heard
    <3>4. stopped /\ Tail(q) = <<>>
      BY <1>0, <3>1, <3>3, LineMoves
    <3>5. InLine(strand["ping"], h, asked, stopped)'
      BY <3>1, <3>4 DEF InLine
    <3>6. Listening' /\ PongsInOrder' /\ ~Serving'
      BY <3>1, <3>4 DEF Answers, Listening, PongsInOrder, Ponged, Serving
    <3>7. \A i \in DOMAIN sent' : Ponged(i)' => sent'[i].n <= h
      BY <3>1, <3>2 DEF Heard, Ponged
    <3>8. Heard(h)'
      BY <3>5, <3>6, <3>7 DEF Heard
    <3> QED BY <3>2, <3>6, <3>8 DEF Answers
  <2> QED BY <2>1, <2>2
<1>33. ASSUME UNCHANGED vars PROVE Answers'
  BY <1>33, <1>0, <1>a, <1>b, AnswersUnchanged DEF vars, Attachment
<1> QED
  BY <1>1, <1>2, <1>3, <1>4, <1>5, <1>6, <1>7, <1>8, <1>9, <1>10, <1>11, <1>12, <1>13, <1>14, <1>15, <1>16, <1>17, <1>18, <1>19, <1>20, <1>21, <1>22, <1>23, <1>24, <1>25, <1>26, <1>27, <1>28, <1>29, <1>30, <1>31, <1>32, <1>33, StepCases

\* The pings that were read are heard in order, and each that comes once the
\* protocol listens is answered before the next is heard (protocol_ping_60001,
\* message_subscriber): the strengthening of the one below.
THEOREM AnswersInvariant == Spec => []Answers
<1>1. Init => Answers
  <2>1. ASSUME Init PROVE Listening /\ PongsInOrder /\ Heard(0)
    BY <2>1 DEF Init, Listening, PongsInOrder, Heard, InLine, Serving, Ponged, Strands, StopMark
  <2> QED BY <2>1 DEF Answers
<1>2. TypeOK /\ Handshake /\ Pings /\ Answers /\ [Next]_vars => Answers'
  BY AnswersStep DEF Pings
<1> QED BY <1>1, <1>2, TypeCorrect, HandshakeInvariant, PingsInvariant, PTL DEF Spec

\* No ping that is read once the protocols are attached is lost or answered out of
\* order, whatever the strands, the timers and the stop do in between.
THEOREM PingsAreAlwaysAnswered == Spec => []PingsAreAnswered
<1>1. TypeOK /\ Answers => PingsAreAnswered
  <2> SUFFICES ASSUME TypeOK, Answers PROVE PingsAreAnswered
    OBVIOUS
  <2> DEFINE q == strand["ping"]
  <2>1. q \in Seq(Nat) /\ asked \in Nat /\ early \in Nat
    BY DEF TypeOK, ProxyTypes, PeerTypes, Strands
  <2>2. PICK h \in Nat : Heard(h)
    BY DEF Answers
  <2>3. ASSUME Serving, NEW p \in early + 1 .. asked
        PROVE  \/ \E i \in DOMAIN sent : Ponged(i) /\ sent[i].n = p
               \/ \E i \in DOMAIN q : q[i] = p
    <3>1. CASE p <= h
      BY <2>1, <2>2, <2>3, <3>1 DEF Heard, PongSent
    <3>2. CASE p > h
      <4>1. /\ \A i \in DOMAIN q : q[i] = h + i
            /\ asked = h + Len(q)
        BY <2>2, <2>3 DEF Heard, InLine, Serving
      <4>2. p - h \in DOMAIN q /\ h + (p - h) = p
        BY <2>1, <2>2, <2>3, <3>2, <4>1
      <4> QED BY <4>1, <4>2
    <3> QED BY <2>1, <2>2, <2>3, <3>1, <3>2
  <2> QED BY <2>3 DEF PingsAreAnswered, Answers, PongsInOrder, Serving
<1> QED BY <1>1, TypeCorrect, AnswersInvariant, PTL
=============================================================================
