-------------------------- MODULE ConnectingProofs --------------------------
(***************************************************************************)
(* The safety of Connecting, for any number of connectors and any size of  *)
(* a batch.  Orderly says where a connector is while its timer or socket   *)
(* is out; Ledger is the account of a batch: while nothing has succeeded,  *)
(* those not launched, those that wait and those counted are the batch.    *)
(***************************************************************************)
EXTENDS Connecting, FiniteSetTheorems, TLAPS

Tabled == {"pended", "resolving", "posted", "racing"}
Waiting == Tabled \cup {"created"}
Live == {k \in Connector : connector[k].mine /\ connector[k].step \in Waiting}

Orderly ==
  \A k \in Connector :
    connector[k].timer # "off" \/ connector[k].socket # "off" => In(k, {"racing", "answered"})

Ledger ==
  IF batch.won
  THEN batch.count = BatchSize /\ batch.result = TRUE
  ELSE /\ IsFiniteSet(Live)
       /\ batch.left + Cardinality(Live) + batch.count = BatchSize
       /\ batch.result = FALSE

IInv == TypeOK /\ AnsweredOnce /\ Orderly /\ Ledger /\ TableIsCurrent

BatchRecord == [left: 0..BatchSize, count: 0..BatchSize, calls: Nat, result: BOOLEAN, won: BOOLEAN]

-----------------------------------------------------------------------------
(* Blank records and the join *)

LEMMA BlankIsRecord == Blank \in ConnectorRecord
  BY DEF Blank, ConnectorRecord, Steps

\* What the synchronizer does with one more answer, counted against the batch.
LEMMA ReportedIs ==
  ASSUME BatchSize \in Nat \ {0}, batch \in BatchRecord, NEW success \in BOOLEAN,
         batch.calls = (IF batch.count = BatchSize THEN 1 ELSE 0)
  PROVE  /\ Reported(success) \in BatchRecord
         /\ Reported(success).left = batch.left
         /\ Reported(success).won = batch.won
         /\ Reported(success).calls = (IF Reported(success).count = BatchSize THEN 1 ELSE 0)
         /\ batch.count = BatchSize => Reported(success) = batch
         /\ batch.count # BatchSize =>
              /\ Reported(success).count = (IF success THEN BatchSize ELSE batch.count + 1)
              /\ Reported(success).count = BatchSize => Reported(success).result = success
              /\ Reported(success).count # BatchSize => Reported(success).result = batch.result
<1>1. CASE batch.count = BatchSize
  BY <1>1 DEF Reported
<1>2. CASE batch.count # BatchSize
  <2> DEFINE n == NextCount(success)
             calls == IF n = BatchSize THEN batch.calls + 1 ELSE batch.calls
             result == IF n = BatchSize THEN success ELSE batch.result
  <2>1. n \in 0..BatchSize /\ n = (IF success THEN BatchSize ELSE batch.count + 1)
    BY <1>2 DEF NextCount, BatchRecord
  <2>2. calls = (IF n = BatchSize THEN 1 ELSE 0) /\ result \in BOOLEAN
    BY <1>2 DEF BatchRecord
  <2>3. Reported(success) = [batch EXCEPT !.count = n, !.calls = calls, !.result = result]
    BY <1>2 DEF Reported
  <2> HIDE DEF n, calls, result
  <2>4. Reported(success) =
          [left |-> batch.left, count |-> n, calls |-> calls, result |-> result, won |-> batch.won]
    BY <2>3 DEF BatchRecord
  <2>5. /\ batch.left \in 0..BatchSize /\ batch.won \in BOOLEAN
        /\ calls \in Nat
    BY <2>2 DEF BatchRecord
  <2>6. Reported(success) \in BatchRecord
    BY <2>1, <2>2, <2>4, <2>5 DEF BatchRecord
  <2>7. result = (IF n = BatchSize THEN success ELSE batch.result)
    BY DEF result
  <2> QED
    BY <1>2, <2>1, <2>2, <2>4, <2>6, <2>7
<1> QED
  BY <1>1, <1>2

LEMMA JoinIs ==
  ASSUME BatchSize \in Nat \ {0}, batch \in BatchRecord, NEW success \in BOOLEAN,
         batch.calls = (IF batch.count = BatchSize THEN 1 ELSE 0),
         Join(success)
  PROVE  /\ batch' \in BatchRecord
         /\ batch'.left = batch.left
         /\ batch'.count = Reported(success).count
         /\ batch'.calls = Reported(success).calls
         /\ batch'.result = Reported(success).result
         /\ batch'.won <=> batch.won \/ success
<1> DEFINE r == Reported(success)
<1>1. r \in BatchRecord /\ r.left = batch.left /\ r.won = batch.won
  BY ReportedIs
<1>2. batch' = [r EXCEPT !.won = r.won \/ success]
  BY DEF Join
<1> HIDE DEF r
<1> DEFINE w == r.won \/ success
<1>3. w \in BOOLEAN
  OBVIOUS
<1> HIDE DEF w
<1>4. batch' = [r EXCEPT !.won = w]
  BY <1>2 DEF w
<1>5. batch' = [left |-> r.left, count |-> r.count, calls |-> r.calls, result |-> r.result, won |-> w]
  BY <1>1, <1>4 DEF BatchRecord
<1>6. batch' \in BatchRecord
  BY <1>1, <1>3, <1>5 DEF BatchRecord
<1> QED
  BY <1>1, <1>5, <1>6 DEF r, w

-----------------------------------------------------------------------------
(* A connector that is stopped *)

LEMMA StoppedIs ==
  ASSUME NEW r \in ConnectorRecord
  PROVE  Stopped(r) =
           [step |-> r.step, mine |-> r.mine, stopped |-> TRUE, calls |-> r.calls,
            timer |-> IF r.timer = "running" THEN "off" ELSE r.timer, socket |-> r.socket]
<1> DEFINE t == IF r.timer = "running" THEN "off" ELSE r.timer
<1>1. Stopped(r) = [r EXCEPT !.stopped = TRUE, !.timer = t]
  BY DEF Stopped
<1> HIDE DEF t
<1>2. Stopped(r) = [step |-> r.step, mine |-> r.mine, stopped |-> TRUE, calls |-> r.calls,
                    timer |-> t, socket |-> r.socket]
  BY <1>1 DEF ConnectorRecord
<1> QED
  BY <1>2 DEF t

-----------------------------------------------------------------------------
(* What steps have in common *)

\* A handler that moves one connector, and neither answers nor takes it up.
LEMMA BecomesKeeps ==
  ASSUME IInv, NEW k \in Connector, NEW r \in ConnectorRecord, Becomes(k, r),
         r.mine = connector[k].mine, r.calls = connector[k].calls,
         r.stopped = connector[k].stopped,
         r.step \in Waiting <=> connector[k].step \in Waiting,
         r.step = "answered" <=> connector[k].step = "answered",
         connector[k].step \in Tabled => r.step \in Tabled,
         r.timer # "off" \/ r.socket # "off" => r.step \in {"racing", "answered"}
  PROVE  IInv'
<1>1. /\ connector' = [connector EXCEPT ![k] = r]
      /\ UNCHANGED <<batch, table, victims, phase>>
  BY DEF Becomes
<1>2. connector \in [Connector -> ConnectorRecord]
  BY DEF IInv, TypeOK
<1>3. /\ connector'[k] = r
      /\ \A j \in Connector \ {k} : connector'[j] = connector[j]
  BY <1>1, <1>2
<1>4. TypeOK'
  BY <1>1, <1>2 DEF IInv, TypeOK
<1>5. AnsweredOnce'
  BY <1>1, <1>3 DEF IInv, AnsweredOnce, In
<1>6. Orderly'
  BY <1>3 DEF IInv, Orderly, In
<1>7. Live' = Live
  BY <1>3 DEF Live
<1>8. Ledger'
  BY <1>1, <1>7 DEF IInv, Ledger
<1>9. TableIsCurrent'
  BY <1>1, <1>3 DEF IInv, TableIsCurrent, In, Tabled, refusing
<1> QED
  BY <1>4, <1>5, <1>6, <1>8, <1>9 DEF IInv

\* An answer: the connector leaves those that wait, and its batch counts it.
LEMMA AnswerKeeps ==
  ASSUME IInv, NEW k \in Connector, NEW r \in ConnectorRecord, NEW success \in BOOLEAN,
         Answer(k, r, success), connector[k].step \in {"posted", "racing"},
         r.mine = connector[k].mine, r.calls = connector[k].calls
  PROVE  IInv'
<1> DEFINE q == [Stopped(r) EXCEPT !.step = "answered", !.calls = @ + 1]
<1>1. /\ connector' = [connector EXCEPT ![k] = q]
      /\ table' = table \ {k}
      /\ IF connector[k].mine THEN Join(success) ELSE UNCHANGED batch
      /\ UNCHANGED <<victims, phase>>
  BY DEF Answer, unpend
<1>2. /\ connector \in [Connector -> ConnectorRecord]
      /\ batch \in BatchRecord
      /\ BatchSize \in Nat \ {0}
      /\ batch.calls = (IF batch.count = BatchSize THEN 1 ELSE 0)
  BY BatchAssumption DEF IInv, TypeOK, AnsweredOnce, BatchRecord
<1>3. q = [step |-> "answered", mine |-> r.mine, stopped |-> TRUE, calls |-> r.calls + 1,
           timer |-> IF r.timer = "running" THEN "off" ELSE r.timer, socket |-> r.socket]
  <2> DEFINE p == Stopped(r)
             n == p.calls + 1
  <2>1. p = [step |-> r.step, mine |-> r.mine, stopped |-> TRUE, calls |-> r.calls,
             timer |-> IF r.timer = "running" THEN "off" ELSE r.timer, socket |-> r.socket]
    BY StoppedIs
  <2> HIDE DEF p
  <2>2. q = [p EXCEPT !.step = "answered", !.calls = n]
    BY DEF p
  <2>3. n = r.calls + 1
    BY <2>1
  <2> HIDE DEF n, q
  <2> QED
    BY <2>1, <2>2, <2>3
<1> HIDE DEF q
<1>4. q \in ConnectorRecord
  <2>1. r.mine \in BOOLEAN /\ r.calls + 1 \in Nat
    BY DEF ConnectorRecord
  <2>2. /\ (IF r.timer = "running" THEN "off" ELSE r.timer) \in {"off", "running", "fired"}
        /\ r.socket \in {"off", "pending", "connected", "refused"}
        /\ "answered" \in Steps
    BY DEF ConnectorRecord, Steps
  <2> QED
    BY <1>3, <2>1, <2>2 DEF ConnectorRecord
<1>5. q.step = "answered" /\ q.calls = 1
  <2>1. connector[k].calls = 0
    BY DEF IInv, AnsweredOnce, In
  <2> QED
    BY <1>3, <2>1
<1>6. /\ connector'[k] = q
      /\ \A j \in Connector \ {k} : connector'[j] = connector[j]
  BY <1>1, <1>2
<1>7. batch' \in BatchRecord /\ batch'.calls = (IF batch'.count = BatchSize THEN 1 ELSE 0)
  BY <1>1, <1>2, JoinIs, ReportedIs
<1>8. TypeOK'
  BY <1>1, <1>2, <1>4, <1>7 DEF IInv, TypeOK, BatchRecord
<1>9. AnsweredOnce'
  BY <1>5, <1>6, <1>7 DEF IInv, AnsweredOnce, In
<1>10. Orderly'
  BY <1>5, <1>6 DEF IInv, Orderly, In
<1>11. TableIsCurrent'
  BY <1>1, <1>6 DEF IInv, TableIsCurrent, In, refusing
<1>12. Live' = Live \ {k}
  BY <1>5, <1>6 DEF Live, Waiting, Tabled
<1>13. Ledger'
  <2>1. CASE ~connector[k].mine
    <3>1. Live' = Live /\ batch' = batch
      BY <1>1, <1>12, <2>1 DEF Live
    <3> QED
      BY <3>1 DEF IInv, Ledger
  <2>2. CASE connector[k].mine
    <3>1. k \in Live
      BY <2>2 DEF Live, Waiting, Tabled
    <3>2. Join(success)
      BY <1>1, <2>2
    <3>3. CASE batch.won
      <4>1. batch.count = BatchSize /\ batch.result = TRUE
        BY <3>3 DEF IInv, Ledger
      <4>2. batch'.count = BatchSize /\ batch'.result = TRUE /\ batch'.won
        BY <1>2, <3>2, <3>3, <4>1, JoinIs, ReportedIs
      <4> QED
        BY <4>2 DEF Ledger
    <3>4. CASE ~batch.won
      <4>1. /\ IsFiniteSet(Live)
            /\ batch.left + Cardinality(Live) + batch.count = BatchSize
            /\ batch.result = FALSE
        BY <3>4 DEF IInv, Ledger
      <4>2. /\ IsFiniteSet(Live') /\ Cardinality(Live) \in Nat
            /\ Cardinality(Live') = Cardinality(Live) - 1
            /\ Cardinality(Live') \in Nat
        BY <1>12, <3>1, <4>1, FS_RemoveElement, FS_CardinalityType
      <4>3. batch.count # BatchSize
        BY <1>2, <4>1, <4>2 DEF BatchRecord
      <4>4. /\ batch'.left = batch.left
            /\ batch'.count = (IF success THEN BatchSize ELSE batch.count + 1)
            /\ batch'.count = BatchSize => batch'.result = success
            /\ batch'.count # BatchSize => batch'.result = batch.result
            /\ batch'.won <=> success
        BY <1>2, <3>2, <3>4, <4>3, JoinIs, ReportedIs
      <4>5. CASE success
        BY <4>4, <4>5 DEF Ledger
      <4>6. CASE ~success
        <5>1. batch'.result = FALSE /\ ~batch'.won /\ batch'.count = batch.count + 1
          BY <4>1, <4>4, <4>6
        <5>2. batch'.left + Cardinality(Live') + batch'.count = BatchSize
          BY <1>2, <4>1, <4>2, <4>4, <5>1 DEF BatchRecord
        <5> QED
          BY <4>2, <5>1, <5>2 DEF Ledger
      <4> QED
        BY <4>5, <4>6
    <3> QED
      BY <3>3, <3>4
  <2> QED
    BY <2>1, <2>2
<1> QED
  BY <1>8, <1>9, <1>10, <1>11, <1>13 DEF IInv

\* The end of the race answers the first time and is without effect the second.
LEMMA EndKeeps ==
  ASSUME IInv, NEW k \in Connector, NEW r \in ConnectorRecord, NEW success \in BOOLEAN,
         End(k, r, success), connector[k].step \in {"racing", "answered"},
         r.step = connector[k].step, r.mine = connector[k].mine,
         r.calls = connector[k].calls, r.stopped = connector[k].stopped
  PROVE  IInv'
<1>1. CASE r.step = "racing"
  BY <1>1, AnswerKeeps DEF End
<1>2. CASE r.step # "racing"
  BY <1>2, BecomesKeeps DEF End, Tabled, Waiting
<1> QED
  BY <1>1, <1>2
-----------------------------------------------------------------------------
(* Every step *)

LEMMA Initially == Init => IInv
<1> SUFFICES ASSUME Init PROVE IInv
  OBVIOUS
<1>1. /\ connector = [k \in Connector |-> Blank] /\ batch = NewBatch
      /\ table = {} /\ victims = {} /\ phase = "running"
  BY DEF Init
<1>2. /\ \A k \in Connector :
           /\ connector[k].step = "free" /\ connector[k].calls = 0 /\ ~connector[k].mine
           /\ connector[k].timer = "off" /\ connector[k].socket = "off"
      /\ batch.left = BatchSize /\ batch.count = 0 /\ batch.calls = 0
      /\ batch.result = FALSE /\ ~batch.won
  BY <1>1 DEF Blank, NewBatch
<1>3. TypeOK
  BY <1>1, BlankIsRecord, BatchAssumption DEF TypeOK, NewBatch
<1>4. Live = {}
  BY <1>2 DEF Live
<1>5. IsFiniteSet(Live) /\ Cardinality(Live) = 0
  BY <1>4, FS_EmptySet
<1>6. Ledger
  BY <1>2, <1>5, BatchAssumption DEF Ledger
<1>7. AnsweredOnce /\ Orderly /\ TableIsCurrent
  BY <1>1, <1>2, BatchAssumption DEF AnsweredOnce, Orderly, TableIsCurrent, In
<1> QED
  BY <1>3, <1>6, <1>7 DEF IInv

\* The handlers of a connector.
LEMMA ConnectorKeeps ==
  ASSUME IInv, NEW k \in Connector,
         \/ Connect(k) \/ Race(k) \/ ResolveFails(k) \/ Posted(k) \/ Expire(k)
         \/ HandleTimer(k) \/ HandleConnect(k)
         \/ \E how \in {"connected", "refused"} : SocketEnds(k, how)
  PROVE  IInv'
<1> DEFINE c == connector[k]
<1>1. /\ c \in ConnectorRecord
      /\ c.timer # "off" \/ c.socket # "off" => c.step \in {"racing", "answered"}
  BY DEF IInv, TypeOK, Orderly, In
<1> USE DEF Tabled, Waiting
<1>2. ASSUME NEW r \in ConnectorRecord, Becomes(k, r),
             r.mine = c.mine, r.calls = c.calls, r.stopped = c.stopped,
             \/ r.step = c.step
             \/ c.step \in Tabled /\ r.step \in Tabled,
             r.timer # "off" \/ r.socket # "off" => r.step \in {"racing", "answered"}
      PROVE  IInv'
  BY <1>2, BecomesKeeps
<1>3. CASE Connect(k)
  <2> DEFINE step == IF c.stopped THEN "posted" ELSE "resolving"
             r == [c EXCEPT !.step = step]
  <2>1. Becomes(k, r) /\ c.step = "pended"
    BY <1>3 DEF Connect, In
  <2>2. step \in {"posted", "resolving"}
    OBVIOUS
  <2> HIDE DEF step
  <2>3. /\ r \in ConnectorRecord /\ r.step = step /\ r.mine = c.mine /\ r.calls = c.calls
        /\ r.stopped = c.stopped /\ r.timer = c.timer /\ r.socket = c.socket
    BY <1>1, <2>2 DEF ConnectorRecord, Steps
  <2> HIDE DEF r
  <2> QED
    BY <1>1, <1>2, <2>1, <2>2, <2>3
<1>4. CASE Race(k)
  <2> DEFINE r == [c EXCEPT !.step = "racing", !.timer = "running", !.socket = "pending"]
  <2>1. Becomes(k, r) /\ c.step = "resolving"
    BY <1>4 DEF Race, In
  <2>2. /\ r \in ConnectorRecord /\ r.step = "racing" /\ r.mine = c.mine /\ r.calls = c.calls
        /\ r.stopped = c.stopped
    BY <1>1 DEF ConnectorRecord, Steps
  <2> HIDE DEF r
  <2> QED
    BY <1>2, <2>1, <2>2
<1>5. CASE ResolveFails(k)
  <2> DEFINE r == [c EXCEPT !.step = "posted"]
  <2>1. Becomes(k, r) /\ c.step = "resolving"
    BY <1>5 DEF ResolveFails, In
  <2>2. /\ r \in ConnectorRecord /\ r.step = "posted" /\ r.mine = c.mine /\ r.calls = c.calls
        /\ r.stopped = c.stopped /\ r.timer = c.timer /\ r.socket = c.socket
    BY <1>1 DEF ConnectorRecord, Steps
  <2> HIDE DEF r
  <2> QED
    BY <1>1, <1>2, <2>1, <2>2
<1>6. CASE Posted(k)
  BY <1>1, <1>6, AnswerKeeps DEF Posted, In
<1>7. CASE Expire(k)
  <2> DEFINE r == [c EXCEPT !.timer = "fired"]
  <2>1. Becomes(k, r) /\ c.timer = "running"
    BY <1>7 DEF Expire
  <2>2. /\ r \in ConnectorRecord /\ r.step = c.step /\ r.mine = c.mine /\ r.calls = c.calls
        /\ r.stopped = c.stopped
    BY <1>1 DEF ConnectorRecord
  <2> HIDE DEF r
  <2> QED
    BY <1>1, <1>2, <2>1, <2>2
<1>8. CASE HandleTimer(k)
  <2> DEFINE r == [c EXCEPT !.timer = "off"]
  <2>1. End(k, r, FALSE) /\ c.timer = "fired"
    BY <1>8 DEF HandleTimer
  <2>2. /\ r \in ConnectorRecord /\ r.step = c.step /\ r.mine = c.mine /\ r.calls = c.calls
        /\ r.stopped = c.stopped
    BY <1>1 DEF ConnectorRecord
  <2> HIDE DEF r
  <2> QED
    BY <1>1, <2>1, <2>2, EndKeeps
<1>9. CASE HandleConnect(k)
  <2> DEFINE r == [c EXCEPT !.socket = "off"]
             success == c.socket = "connected"
  <2>1. End(k, r, success) /\ c.socket \in {"connected", "refused"} /\ success \in BOOLEAN
    BY <1>9 DEF HandleConnect
  <2>2. /\ r \in ConnectorRecord /\ r.step = c.step /\ r.mine = c.mine /\ r.calls = c.calls
        /\ r.stopped = c.stopped
    BY <1>1 DEF ConnectorRecord
  <2> HIDE DEF r, success
  <2> QED
    BY <1>1, <2>1, <2>2, EndKeeps
<1>10. CASE \E how \in {"connected", "refused"} : SocketEnds(k, how)
  <2> PICK how \in {"connected", "refused"} : SocketEnds(k, how)
    BY <1>10
  <2> DEFINE r == [c EXCEPT !.socket = how]
  <2>1. Becomes(k, r) /\ c.socket = "pending"
    BY DEF SocketEnds
  <2>2. /\ r \in ConnectorRecord /\ r.step = c.step /\ r.mine = c.mine /\ r.calls = c.calls
        /\ r.stopped = c.stopped
    BY <1>1 DEF ConnectorRecord
  <2> HIDE DEF r
  <2> QED
    BY <1>1, <1>2, <2>1, <2>2
<1> QED
  BY <1>3, <1>4, <1>5, <1>6, <1>7, <1>8, <1>9, <1>10

\* An answered connector with nothing out is gone; it belonged to no account.
LEMMA DestroyKeeps ==
  ASSUME IInv, NEW k \in Connector, Destroy(k)
  PROVE  IInv'
<1>1. /\ connector[k].step = "answered"
      /\ connector' = [connector EXCEPT ![k] = Blank]
      /\ UNCHANGED <<batch, table, victims, phase>>
  BY DEF Destroy, Becomes, In
<1>2. connector \in [Connector -> ConnectorRecord]
  BY DEF IInv, TypeOK
<1>3. /\ connector'[k] = Blank
      /\ \A j \in Connector \ {k} : connector'[j] = connector[j]
  BY <1>1, <1>2
<1>4. TypeOK'
  BY <1>1, <1>2, BlankIsRecord DEF IInv, TypeOK
<1>5. AnsweredOnce' /\ Orderly'
  BY <1>1, <1>3 DEF IInv, AnsweredOnce, Orderly, In, Blank
<1>6. Live' = Live
  BY <1>1, <1>3 DEF Live, Blank, Waiting, Tabled
<1>7. Ledger'
  BY <1>1, <1>6 DEF IInv, Ledger
<1>8. TableIsCurrent'
  BY <1>1, <1>3 DEF IInv, TableIsCurrent, In, refusing
<1> QED
  BY <1>4, <1>5, <1>7, <1>8 DEF IInv
\* A new batch disowns the connectors of the one before.
LEMMA NewConnectionKeeps ==
  ASSUME IInv, NewConnection
  PROVE  IInv'
<1>1. /\ batch' = NewBatch
      /\ connector' = [k \in Connector |-> [connector[k] EXCEPT !.mine = FALSE]]
      /\ UNCHANGED <<table, victims, phase>>
  BY DEF NewConnection
<1>2. connector \in [Connector -> ConnectorRecord]
  BY DEF IInv, TypeOK
<1>3. ASSUME NEW k \in Connector
      PROVE  /\ connector'[k] \in ConnectorRecord /\ connector'[k].mine = FALSE
             /\ connector'[k].step = connector[k].step /\ connector'[k].calls = connector[k].calls
             /\ connector'[k].stopped = connector[k].stopped
             /\ connector'[k].timer = connector[k].timer /\ connector'[k].socket = connector[k].socket
  <2>1. connector'[k] = [connector[k] EXCEPT !.mine = FALSE] /\ connector[k] \in ConnectorRecord
    BY <1>1, <1>2
  <2> QED
    BY <2>1 DEF ConnectorRecord
<1>4. /\ batch' \in BatchRecord /\ batch'.left = BatchSize /\ batch'.count = 0
      /\ batch'.calls = 0 /\ batch'.result = FALSE /\ ~batch'.won
  BY <1>1, BatchAssumption DEF NewBatch, BatchRecord
<1>5. TypeOK'
  BY <1>1, <1>3, <1>4 DEF IInv, TypeOK, BatchRecord
<1>6. AnsweredOnce' /\ Orderly'
  BY <1>3, <1>4, BatchAssumption DEF IInv, AnsweredOnce, Orderly, In
<1>7. Live' = {}
  BY <1>3 DEF Live
<1>8. Ledger'
  BY <1>4, <1>7, BatchAssumption, FS_EmptySet DEF Ledger
<1>9. TableIsCurrent'
  BY <1>1, <1>3 DEF IInv, TypeOK, TableIsCurrent, In, refusing
<1> QED
  BY <1>5, <1>6, <1>8, <1>9 DEF IInv

\* The connector of a launch waits from now on.
LEMMA LaunchKeeps ==
  ASSUME IInv, NEW k \in Connector, Launch(k)
  PROVE  IInv'
<1> DEFINE q == [Blank EXCEPT !.step = "created", !.mine = TRUE]
<1>1. /\ batch.left > 0 /\ connector[k].step = "free"
      /\ batch' = [batch EXCEPT !.left = @ - 1]
      /\ connector' = [connector EXCEPT ![k] = q]
      /\ UNCHANGED <<table, victims, phase>>
  BY DEF Launch, In
<1>2. connector \in [Connector -> ConnectorRecord] /\ batch \in BatchRecord
  BY DEF IInv, TypeOK, BatchRecord
<1>3. /\ q \in ConnectorRecord /\ q.step = "created" /\ q.mine = TRUE /\ q.calls = 0
      /\ q.timer = "off" /\ q.socket = "off"
  BY DEF Blank, ConnectorRecord, Steps
<1> HIDE DEF q
<1>4. /\ connector'[k] = q
      /\ \A j \in Connector \ {k} : connector'[j] = connector[j]
  BY <1>1, <1>2
<1>5. /\ batch' \in BatchRecord /\ batch'.left = batch.left - 1 /\ batch'.count = batch.count
      /\ batch'.calls = batch.calls /\ batch'.result = batch.result /\ batch'.won = batch.won
  <2> DEFINE n == batch.left - 1
  <2>1. n \in 0..BatchSize
    BY <1>1, <1>2, BatchAssumption DEF BatchRecord
  <2> HIDE DEF n
  <2>2. batch' = [batch EXCEPT !.left = n]
    BY <1>1 DEF n
  <2>3. /\ batch' \in BatchRecord /\ batch'.left = n /\ batch'.count = batch.count
        /\ batch'.calls = batch.calls /\ batch'.result = batch.result /\ batch'.won = batch.won
    BY <1>2, <2>1, <2>2 DEF BatchRecord
  <2> QED
    BY <2>3 DEF n
<1>6. TypeOK'
  BY <1>1, <1>2, <1>3, <1>5 DEF IInv, TypeOK, BatchRecord
<1>7. AnsweredOnce' /\ Orderly'
  BY <1>3, <1>4, <1>5 DEF IInv, AnsweredOnce, Orderly, In
<1>8. Live' = Live \cup {k} /\ k \notin Live
  BY <1>1, <1>3, <1>4 DEF Live, Waiting, Tabled
<1>9. Ledger'
  <2>1. CASE batch.won
    BY <1>5, <2>1 DEF IInv, Ledger
  <2>2. CASE ~batch.won
    <3>1. /\ IsFiniteSet(Live) /\ batch.left + Cardinality(Live) + batch.count = BatchSize
          /\ batch.result = FALSE
      BY <2>2 DEF IInv, Ledger
    <3>2. /\ IsFiniteSet(Live') /\ Cardinality(Live) \in Nat
          /\ Cardinality(Live') = Cardinality(Live) + 1
      BY <1>8, <3>1, FS_AddElement, FS_CardinalityType
    <3>3. batch'.left + Cardinality(Live') + batch'.count = BatchSize
      BY <1>2, <1>5, <3>1, <3>2 DEF BatchRecord
    <3> QED
      BY <1>5, <2>2, <3>1, <3>2, <3>3 DEF Ledger
  <2> QED
    BY <2>1, <2>2
<1>10. TableIsCurrent'
  BY <1>1, <1>4 DEF IInv, TableIsCurrent, In, refusing
<1> QED
  BY <1>6, <1>7, <1>9, <1>10 DEF IInv

\* A launch that fails is counted in the place of its connector.
LEMMA LaunchFailsKeeps ==
  ASSUME IInv, LaunchFails
  PROVE  IInv'
<1> DEFINE r == Reported(FALSE)
           n == batch.left - 1
<1>1. /\ batch.left > 0
      /\ UNCHANGED <<connector, table, victims, phase>>
  BY DEF LaunchFails
<1>2. /\ batch \in BatchRecord /\ BatchSize \in Nat \ {0}
      /\ batch.calls = (IF batch.count = BatchSize THEN 1 ELSE 0)
  BY BatchAssumption DEF IInv, TypeOK, AnsweredOnce, BatchRecord
<1>3. /\ r \in BatchRecord /\ r.left = batch.left /\ r.won = batch.won
      /\ r.calls = (IF r.count = BatchSize THEN 1 ELSE 0)
      /\ batch.count = BatchSize => r = batch
      /\ batch.count # BatchSize =>
           /\ r.count = batch.count + 1
           /\ r.count = BatchSize => r.result = FALSE
           /\ r.count # BatchSize => r.result = batch.result
  BY <1>2, ReportedIs
<1>4. n \in 0..BatchSize /\ batch' = [r EXCEPT !.left = n]
  <2>1. batch' = [r EXCEPT !.left = r.left - 1]
    BY DEF LaunchFails
  <2> HIDE DEF r
  <2>2. r.left - 1 = n
    BY <1>3
  <2>3. n \in 0..BatchSize
    BY <1>1, <1>2 DEF BatchRecord
  <2> HIDE DEF n
  <2> QED
    BY <2>1, <2>2, <2>3
<1> HIDE DEF r, n
<1>5. /\ batch' \in BatchRecord /\ batch'.left = n /\ batch'.count = r.count
      /\ batch'.calls = r.calls /\ batch'.result = r.result /\ batch'.won = r.won
  BY <1>3, <1>4 DEF BatchRecord
<1>6. TypeOK'
  BY <1>1, <1>5 DEF IInv, TypeOK, BatchRecord
<1>7. AnsweredOnce' /\ Orderly' /\ TableIsCurrent'
  BY <1>1, <1>3, <1>5 DEF IInv, AnsweredOnce, Orderly, TableIsCurrent, In, refusing
<1>8. Live' = Live
  BY <1>1 DEF Live
<1>9. Ledger'
  <2>1. CASE batch.won
    BY <1>3, <1>5, <2>1 DEF IInv, Ledger
  <2>2. CASE ~batch.won
    <3>1. /\ IsFiniteSet(Live) /\ batch.left + Cardinality(Live) + batch.count = BatchSize
          /\ batch.result = FALSE
      BY <2>2 DEF IInv, Ledger
    <3>2. Cardinality(Live) \in Nat
      BY <3>1, FS_CardinalityType
    <3>3. batch.count # BatchSize
      BY <1>1, <1>2, <3>1, <3>2 DEF BatchRecord
    <3>4. batch'.count = batch.count + 1 /\ batch'.result = FALSE /\ ~batch'.won
      BY <1>3, <1>5, <2>2, <3>1, <3>3
    <3>5. batch'.left = batch.left - 1
      BY <1>5 DEF n
    <3>6. batch'.left + Cardinality(Live) + batch'.count = BatchSize
      BY <1>2, <3>1, <3>2, <3>4, <3>5 DEF BatchRecord
    <3> QED
      BY <1>8, <3>1, <3>4, <3>6 DEF Ledger
  <2> QED
    BY <2>1, <2>2
<1> QED
  BY <1>6, <1>7, <1>9 DEF IInv

\* A connector enters the table, or is refused by it.
LEMMA PendKeeps ==
  ASSUME IInv, NEW k \in Connector, Pend(k)
  PROVE  IInv'
<1>1. /\ connector[k].step = "created"
      /\ connector' = [connector EXCEPT ![k].step = "pended"]
      /\ table' = IF refusing THEN table ELSE table \cup {k}
      /\ UNCHANGED <<batch, victims, phase>>
  BY DEF Pend, In
<1>2. connector \in [Connector -> ConnectorRecord]
  BY DEF IInv, TypeOK
<1>3. /\ connector'[k] = [connector[k] EXCEPT !.step = "pended"]
      /\ \A j \in Connector \ {k} : connector'[j] = connector[j]
  BY <1>1, <1>2
<1>4. /\ connector'[k] \in ConnectorRecord /\ connector'[k].step = "pended"
      /\ connector'[k].mine = connector[k].mine /\ connector'[k].calls = connector[k].calls
      /\ connector'[k].timer = connector[k].timer /\ connector'[k].socket = connector[k].socket
      /\ connector'[k].stopped = connector[k].stopped
  BY <1>2, <1>3 DEF ConnectorRecord, Steps
<1>5. TypeOK'
  BY <1>1, <1>2, <1>3, <1>4 DEF IInv, TypeOK
<1>6. AnsweredOnce'
  BY <1>1, <1>3, <1>4 DEF IInv, AnsweredOnce, In
<1>7. Orderly'
  BY <1>1, <1>3, <1>4 DEF IInv, Orderly, In
<1>8. Live' = Live
  BY <1>1, <1>3, <1>4 DEF Live, Waiting, Tabled
<1>9. Ledger'
  BY <1>1, <1>8 DEF IInv, Ledger
<1>10. TableIsCurrent'
  BY <1>1, <1>3, <1>4 DEF IInv, TableIsCurrent, In, refusing
<1> QED
  BY <1>5, <1>6, <1>7, <1>9, <1>10 DEF IInv

\* p2p::stop copies the table when it closes it, and stops what it has copied.
LEMMA StopKeeps ==
  ASSUME IInv, Stop \/ StopTable \/ Shutdown \/ \E k \in Connector : StopVictim(k)
  PROVE  IInv'
<1>1. CASE Stop \/ StopTable \/ Shutdown
  <2>1. UNCHANGED <<connector, batch, table>>
    BY <1>1 DEF Stop, StopTable, Shutdown
  <2>2. Live' = Live
    BY <2>1 DEF Live
  <2>3. AnsweredOnce' /\ Orderly' /\ Ledger'
    BY <2>1, <2>2 DEF IInv, AnsweredOnce, Orderly, Ledger, In
  <2>4. TypeOK'
    BY <1>1, <2>1 DEF IInv, TypeOK, Stop, StopTable, Shutdown
  <2>5. TableIsCurrent'
    BY <1>1, <2>1 DEF IInv, TableIsCurrent, In, refusing, Stop, StopTable, Shutdown
  <2> QED
    BY <2>3, <2>4, <2>5 DEF IInv
<1>2. ASSUME NEW k \in Connector, StopVictim(k)
      PROVE  IInv'
  <2>1. /\ victims' = victims \ {k}
        /\ connector' = [connector EXCEPT ![k] = Stopped(connector[k])]
        /\ UNCHANGED <<batch, table, phase>>
    BY <1>2 DEF StopVictim
  <2>2. connector \in [Connector -> ConnectorRecord]
    BY DEF IInv, TypeOK
  <2>3. /\ connector'[k] = Stopped(connector[k])
        /\ \A j \in Connector \ {k} : connector'[j] = connector[j]
    BY <2>1, <2>2
  <2> DEFINE c == connector[k]
             t == IF c.timer = "running" THEN "off" ELSE c.timer
  <2>4. c \in ConnectorRecord
    BY <2>2
  <2>5. t \in {"off", "running", "fired"} /\ (t # "off" => c.timer # "off")
    BY <2>4 DEF ConnectorRecord
  <2>6. connector'[k] = [step |-> c.step, mine |-> c.mine, stopped |-> TRUE, calls |-> c.calls,
                         timer |-> t, socket |-> c.socket]
    BY <2>3, <2>4, StoppedIs
  <2> HIDE DEF t
  <2>7. connector'[k] \in ConnectorRecord
    BY <2>4, <2>5, <2>6 DEF ConnectorRecord
  <2>8. TypeOK'
    BY <2>1, <2>2, <2>3, <2>7 DEF IInv, TypeOK
  <2>9. AnsweredOnce'
    BY <2>1, <2>3, <2>6 DEF IInv, AnsweredOnce, In
  <2>10. Orderly'
    BY <2>1, <2>3, <2>5, <2>6 DEF IInv, Orderly, In
  <2>11. Live' = Live
    BY <2>3, <2>6 DEF Live
  <2>12. Ledger'
    BY <2>1, <2>11 DEF IInv, Ledger
  <2>13. TableIsCurrent'
    BY <2>1, <2>3, <2>6 DEF IInv, TableIsCurrent, In, refusing
  <2> QED
    BY <2>8, <2>9, <2>10, <2>12, <2>13 DEF IInv
<1> QED
  BY <1>1, <1>2

LEMMA Inductive == IInv /\ [Next]_vars => IInv'
<1> SUFFICES ASSUME IInv, [Next]_vars PROVE IInv'
  OBVIOUS
<1>1. CASE \E k \in Connector :
             \/ Loop(k) \/ Resolve(k) \/ Handler(k) \/ Expire(k)
             \/ \E how \in {"connected", "refused"} : SocketEnds(k, how)
  BY <1>1, ConnectorKeeps, DestroyKeeps, LaunchKeeps, PendKeeps DEF Loop, Resolve, Handler
<1>2. CASE NewConnection
  BY <1>2, NewConnectionKeeps
<1>3. CASE LaunchFails
  BY <1>3, LaunchFailsKeeps
<1>4. CASE Stop \/ StopNext
  BY <1>4, StopKeeps DEF StopNext
<1>5. CASE UNCHANGED vars
  <2>1. UNCHANGED <<connector, batch, table, victims, phase>>
    BY <1>5 DEF vars
  <2>2. Live' = Live
    BY <2>1 DEF Live
  <2> QED
    BY <2>1, <2>2
    DEF IInv, TypeOK, AnsweredOnce, Orderly, Ledger, TableIsCurrent, In, refusing
<1> QED
  BY <1>1, <1>2, <1>3, <1>4, <1>5 DEF Next

-----------------------------------------------------------------------------
(* The theorems *)

\* The invariant holds in every state (session_batch.cpp:32, connector.cpp:125).
THEOREM Invariance == Spec => []IInv
  BY Initially, Inductive, PTL DEF Spec

\* The variables keep their types: a batch counts no more answers than it has
\* connectors, and a late one is not counted again.
THEOREM TypeCorrect == Spec => []TypeOK
<1>1. IInv => TypeOK
  BY DEF IInv
<1> QED
  BY <1>1, Invariance, PTL

\* Every connector and every batch answers once (connector.cpp:125, the race of
\* timer and socket; synchronizer.hpp:92).
THEOREM OneAnswer == Spec => []AnsweredOnce
<1>1. IInv => AnsweredOnce
  BY DEF IInv
<1> QED
  BY <1>1, Invariance, PTL

\* A batch succeeds if and only if one of its connectors does (session_batch.cpp:32).
THEOREM NoSuccessIsLost == Spec => []FirstSuccessWins
<1>1. IInv => FirstSuccessWins
  <2> SUFFICES ASSUME IInv, batch.calls > 0 PROVE batch.result <=> batch.won
    BY DEF FirstSuccessWins
  <2>1. batch.won => batch.result = TRUE
    BY DEF IInv, Ledger
  <2>2. ~batch.won => batch.result = FALSE
    BY DEF IInv, Ledger
  <2> QED
    BY <2>1, <2>2
<1> QED
  BY <1>1, Invariance, PTL

\* What may still connect when p2p::stop has closed the table was stopped or will be,
\* if the table has taken it (pending.ipp:152).
THEOREM TableIsStopped == Spec => []TableIsCurrent
<1>1. IInv => TableIsCurrent
  BY DEF IInv
<1> QED
  BY <1>1, Invariance, PTL
=============================================================================
