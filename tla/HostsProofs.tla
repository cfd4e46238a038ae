----------------------------- MODULE HostsProofs -----------------------------
(***************************************************************************)
(* A list of new addresses fills the room there is, and a start that       *)
(* succeeds has addresses to connect to: for any addresses, lists, seeds   *)
(* and starts, any capacity, and stops, refused reads and writes, saved    *)
(* lines that throw and crashes at any point.                              *)
(***************************************************************************)
EXTENDS Hosts, FiniteSetTheorems, WellFoundedInduction, TLAPS

-----------------------------------------------------------------------------
(* Induction over the addresses of a list, carried by the well-founded order   *)
(* of the finite segments of Nat.                                              *)

\* A nonempty set of numbers has a least element.
LEMMA LeastNumber ==
  ASSUME NEW T \in SUBSET Nat, T # {}
  PROVE  \E m \in T : \A k \in T : m <= k
<1> DEFINE Segments == {0..m : m \in T}
<1>1. Segments \subseteq FiniteSubsetsOf(Nat) /\ Segments # {}
  <2>1. ASSUME NEW m \in T PROVE 0..m \in FiniteSubsetsOf(Nat)
    <3>1. IsFiniteSet(0..m)
      <4>1. 0 \in Int /\ m \in Int
        OBVIOUS
      <4>. QED  BY <4>1, FS_Interval
    <3>2. 0..m \subseteq Nat
      OBVIOUS
    <3>. QED  BY <3>1, <3>2 DEF FiniteSubsetsOf
  <2>. QED  BY <2>1
<1>2. PICK m \in T : \A s \in Segments : ~(<<s, 0..m>> \in StrictSubsetOrdering(Nat))
  <2>1. \E x \in Segments : \A s \in Segments : ~(<<s, x>> \in StrictSubsetOrdering(Nat))
    <3>. HIDE DEF Segments
    <3>. QED  BY <1>1, FS_StrictSubsetOrderingWellFounded, WFMin, Zenon
  <2>. QED  BY <2>1
<1>3. ASSUME NEW k \in T, k < m PROVE FALSE
  <2>1. m \in 0..m /\ m \notin 0..k
    BY <1>3
  <2>2. 0..k \subseteq 0..m /\ 0..k # 0..m /\ 0..m \subseteq Nat
    BY <2>1, <1>3
  <2>3. <<0..k, 0..m>> \in StrictSubsetOrdering(Nat)
    BY <2>2 DEF StrictSubsetOrdering
  <2>. QED  BY <1>2, <2>3
<1>. QED  BY <1>3

\* A statement about the numbers up to n, by induction.
LEMMA UpTo ==
  ASSUME NEW n \in Nat, NEW S, 0 \in S, \A i \in 1..n : i - 1 \in S => i \in S
  PROVE  n \in S
<1> DEFINE Out == (0..n) \ S
<1>1. SUFFICES ASSUME Out # {} PROVE FALSE
  OBVIOUS
<1>2. PICK m \in Out : \A k \in Out : m <= k
  <2>1. Out \in SUBSET Nat
    OBVIOUS
  <2>. HIDE DEF Out
  <2>. QED  BY <1>1, <2>1, LeastNumber
<1>3. m \in 1..n /\ m - 1 \in Out
  BY <1>2
<1>. QED  BY <1>2, <1>3

\* The functions on 0..n that a value at 0 and a step define, and that there is one.
Steps(T, n) == [1..n -> [T -> T]]
Folds(T, base, n, step) ==
  {f \in [0..n -> T] : f[0] = base /\ \A i \in 1..n : f[i] = step[i][f[i - 1]]}

LEMMA FoldExists ==
  ASSUME NEW T, NEW base \in T, NEW n \in Nat, NEW step \in Steps(T, n)
  PROVE  Folds(T, base, n, step) # {}
<1> DEFINE S == {k \in 0..n : Folds(T, base, k, step) # {}}
<1>1. 0 \in S
  <2>1. [i \in 0..0 |-> base] \in Folds(T, base, 0, step)
    BY DEF Folds
  <2>. QED  BY <2>1
<1>2. ASSUME NEW k \in 1..n, k - 1 \in S PROVE k \in S
  <2>1. PICK f \in Folds(T, base, k - 1, step) : TRUE
    BY <1>2
  <2> DEFINE g == [i \in 0..k |-> IF i = k THEN step[k][f[k - 1]] ELSE f[i]]
  <2>2. f[k - 1] \in T /\ step[k][f[k - 1]] \in T
    BY <2>1 DEF Folds, Steps
  <2>3. g \in [0..k -> T]
    BY <2>1, <2>2 DEF Folds
  <2>4. g[0] = base /\ \A i \in 1..k : g[i] = step[i][g[i - 1]]
    <3>1. ASSUME NEW i \in 1..k PROVE g[i] = step[i][g[i - 1]]
      <4>1. CASE i = k
        BY <4>1
      <4>2. CASE i \in 1..k - 1
        BY <4>2, <2>1 DEF Folds
      <4>. QED  BY <4>1, <4>2
    <3>. QED  BY <2>1, <3>1 DEF Folds
  <2>5. g \in Folds(T, base, k, step)
    BY <2>3, <2>4 DEF Folds
  <2>. HIDE DEF g
  <2>. QED  BY <2>5
<1>3. n \in S
  <2>. HIDE DEF S
  <2>. QED  BY <1>1, <1>2, UpTo
<1>. QED  BY <1>3

-----------------------------------------------------------------------------
(* The buffer *)

Buffers == {s \in Seq(Address) : Len(s) <= Capacity}
Told == Address \cup {Invalid}

\* One more while there is room, and nobody but the one who is pushed.
LEMMA PushFacts ==
  ASSUME NEW b \in Buffers, NEW h \in Address
  PROVE  /\ push_back(b, h) \in Buffers
         /\ Len(push_back(b, h)) = IF Len(b) < Capacity THEN Len(b) + 1 ELSE Capacity
         /\ ToSet(push_back(b, h)) \subseteq ToSet(b) \cup {h}
<1> DEFINE p == push_back(b, h)
<1>1. b \in Seq(Address) /\ Len(b) \in Nat /\ Len(b) <= Capacity /\ Capacity \in Nat \ {0}
  BY HostsAssumption DEF Buffers
<1>2. CASE Len(b) < Capacity
  <2>1. /\ p \in Seq(Address) /\ Len(p) = Len(b) + 1
        /\ \A i \in 1..Len(b) : p[i] = b[i]
        /\ p[Len(b) + 1] = h
    BY <1>1, <1>2 DEF push_back
  <2>. HIDE DEF p
  <2>2. p \in Buffers
    BY <1>1, <1>2, <2>1 DEF Buffers
  <2>3. ToSet(p) \subseteq ToSet(b) \cup {h}
    BY <1>1, <2>1 DEF ToSet
  <2>. QED  BY <1>2, <2>1, <2>2, <2>3 DEF p
<1>3. CASE Len(b) = Capacity
  <2>1. /\ p \in Seq(Address) /\ Len(p) = Len(b)
        /\ \A i \in 1..Len(b) - 1 : p[i] = b[i + 1]
        /\ p[Len(b)] = h
    <3>1. b # <<>> /\ Tail(b) \in Seq(Address) /\ Len(Tail(b)) = Len(b) - 1
          /\ \A i \in 1..Len(b) - 1 : Tail(b)[i] = b[i + 1]
      BY <1>1, <1>3
    <3>2. p = Append(Tail(b), h)
      BY <1>1, <1>3 DEF push_back
    <3>. HIDE DEF p
    <3>. QED  BY <1>1, <3>1, <3>2
  <2>. HIDE DEF p
  <2>2. p \in Buffers
    BY <1>1, <1>3, <2>1 DEF Buffers
  <2>3. ToSet(p) \subseteq ToSet(b) \cup {h}
    <3>1. ASSUME NEW i \in 1..Len(b) PROVE p[i] \in ToSet(b) \cup {h}
      <4>1. CASE i = Len(b)
        BY <2>1, <4>1
      <4>2. CASE i \in 1..Len(b) - 1
        BY <1>1, <2>1, <4>2 DEF ToSet
      <4>. QED  BY <1>1, <4>1, <4>2
    <3>2. DOMAIN p = 1..Len(b)
      BY <2>1
    <3>. QED  BY <3>1, <3>2 DEF ToSet
  <2>. QED  BY <1>1, <1>3, <2>1, <2>2, <2>3 DEF p
<1>. QED  BY <1>1, <1>2, <1>3

\* A new address takes what room there is; nothing else gets in.
LEMMA AcceptFacts ==
  ASSUME NEW b \in Buffers, NEW h \in Told
  PROVE  /\ Accept(b, h) \in Buffers
         /\ Len(b) <= Len(Accept(b, h))
         /\ ToSet(Accept(b, h)) \subseteq ToSet(b) \cup {h}
         /\ h \in Address \ ToSet(b) =>
              Len(Accept(b, h)) = IF Len(b) < Capacity THEN Len(b) + 1 ELSE Capacity
<1>1. Len(b) \in Nat /\ Len(b) <= Capacity /\ Capacity \in Nat
  BY HostsAssumption DEF Buffers
<1>2. CASE h = Invalid \/ h \in ToSet(b)
  <2>1. Accept(b, h) = b /\ h \notin Address \ ToSet(b)
    BY <1>2, HostsAssumption DEF Accept
  <2>. QED  BY <1>1, <2>1
<1>3. CASE ~(h = Invalid \/ h \in ToSet(b))
  <2>1. Accept(b, h) = push_back(b, h) /\ h \in Address
    BY <1>3 DEF Accept, Told
  <2>. QED  BY <1>1, <1>3, <2>1, PushFacts
<1>. QED  BY <1>2, <1>3

\* The amounts of hosts.cpp:289.
LEMMA UsableFacts ==
  ASSUME NEW m \in Seq(Told)
  PROVE  /\ Usable(m) \in Nat /\ Usable(m) <= Len(m)
         /\ Usable(m) = Len(m) \/ Usable(m) = Capacity
<1>1. Len(m) \in Nat /\ Capacity \in Nat
  BY HostsAssumption
<1>2. PICK u \in {Len(m), Capacity} : u <= Len(m) /\ u <= Capacity
  BY <1>1
<1>3. Min({Len(m), Capacity}) \in {Len(m), Capacity}
      /\ \A y \in {Len(m), Capacity} : Min({Len(m), Capacity}) <= y
  BY <1>2 DEF Min
<1>. QED  BY <1>1, <1>3 DEF Usable

\* The larger of two numbers.
LEMMA MaxFacts ==
  ASSUME NEW x \in Nat, NEW y \in Nat
  PROVE  Max({x, y}) \in {x, y} /\ x <= Max({x, y}) /\ y <= Max({x, y})
<1>1. PICK u \in {x, y} : x <= u /\ y <= u
  OBVIOUS
<1>2. Max({x, y}) \in {x, y} /\ \A z \in {x, y} : Max({x, y}) >= z
  BY <1>1 DEF Max
<1>. QED  BY <1>2

\* The step is at least one, and so small that what the buffer is short of fits in.
LEMMA StepFacts ==
  ASSUME NEW b \in Buffers, NEW m \in Seq(Told), NEW random \in 1..Usable(m)
  PROVE  /\ Step(b, m, random) \in Nat \ {0}
         /\ \/ Step(b, m, random) = 1
            \/ \E accept \in Nat : /\ Capacity - Len(b) <= accept
                                   /\ Step(b, m, random) * accept <= Usable(m)
<1> DEFINE gap == Capacity - Len(b)
           accept == Max({gap, random})
           step == Max({Usable(m) \div accept, 1})
<1>1. gap \in Nat /\ random \in Nat \ {0} /\ Usable(m) \in Nat
  BY UsableFacts, HostsAssumption DEF Buffers
<1>2. accept \in Nat \ {0} /\ gap <= accept
  <2>. HIDE DEF gap
  <2>. QED  BY <1>1, MaxFacts
<1>3. Usable(m) \div accept \in Nat /\ (Usable(m) \div accept) * accept <= Usable(m)
  <2>. HIDE DEF accept
  <2>. QED  BY <1>1, <1>2
<1>4. step \in {Usable(m) \div accept, 1} /\ 1 <= step
  <2>. HIDE DEF accept
  <2>. QED  BY <1>3, MaxFacts
<1>5. Step(b, m, random) = step
  BY DEF Step
<1>. HIDE DEF step, accept, gap
<1>6. step \in Nat \ {0} /\ (step = 1 \/ step * accept <= Usable(m))
  BY <1>3, <1>4
<1>. QED  BY <1>2, <1>5, <1>6 DEF gap

\* What hosts::store computes, address by address.
LEMMA StoredIsFold ==
  ASSUME NEW b \in Buffers, NEW m \in Seq(Told), NEW random \in 1..Usable(m)
  PROVE  \E f \in [0..Usable(m) -> Buffers] :
           /\ f[0] = b
           /\ \A i \in 1..Usable(m) :
                f[i] = IF Taken(i, Step(b, m, random)) THEN Accept(f[i - 1], m[i]) ELSE f[i - 1]
           /\ f[Usable(m)] = Stored(b, m, random)
<1> DEFINE n == Usable(m)
           stride == Step(b, m, random)
           step == [i \in 1..n |->
                      [s \in Buffers |-> IF Taken(i, stride) THEN Accept(s, m[i]) ELSE s]]
           Fills(f) == f = [i \in 0..n |->
                              IF i = 0 THEN b
                              ELSE IF Taken(i, stride) THEN Accept(f[i - 1], m[i])
                              ELSE f[i - 1]]
<1>1. n \in Nat /\ \A i \in 1..n : m[i] \in Told
  BY UsableFacts
<1>2. step \in Steps(Buffers, n)
  <2>1. ASSUME NEW i \in 1..n, NEW s \in Buffers
        PROVE  (IF Taken(i, stride) THEN Accept(s, m[i]) ELSE s) \in Buffers
    <3>. HIDE DEF n, stride
    <3>. QED  BY <1>1, AcceptFacts
  <2>. HIDE DEF n, stride
  <2>. QED  BY <2>1 DEF Steps
<1>3. PICK f \in [0..n -> Buffers] : f[0] = b /\ \A i \in 1..n : f[i] = step[i][f[i - 1]]
  <2>1. PICK f \in Folds(Buffers, b, n, step) : TRUE
    <3>. HIDE DEF step, n
    <3>. QED  BY <1>1, <1>2, FoldExists
  <2>. QED  BY <2>1 DEF Folds
<1>4. ASSUME NEW i \in 1..n
      PROVE  f[i] = IF Taken(i, stride) THEN Accept(f[i - 1], m[i]) ELSE f[i - 1]
  <2>1. i - 1 \in 0..n
    BY <1>1
  <2>2. f[i - 1] \in Buffers
    BY <2>1
  <2>3. f[i] = step[i][f[i - 1]]
    BY <1>3
  <2>. HIDE DEF stride
  <2>. QED  BY <2>2, <2>3
<1>5. Fills(f)
  <2>. HIDE DEF step, stride
  <2>. QED  BY <1>1, <1>3, <1>4
<1>6. Stored(b, m, random) = (CHOOSE g : Fills(g))[n]
  BY Zenon DEF Stored
<1>7. Fills(CHOOSE g : Fills(g))
  <2>. HIDE DEF Fills
  <2>. QED  BY <1>5
<1> DEFINE r == CHOOSE g : Fills(g)
<1>8. r = f
  <2>. HIDE DEF r
  <2>1. r = [i \in 0..n |-> IF i = 0 THEN b
                             ELSE IF Taken(i, stride) THEN Accept(r[i - 1], m[i])
                             ELSE r[i - 1]]
    BY <1>7, Zenon DEF r
  <2>. HIDE DEF stride
  <2> DEFINE S == {i \in 0..n : r[i] = f[i]}
  <2>2. 0 \in S
    BY <1>1, <1>3, <2>1
  <2>3. ASSUME NEW i \in 1..n, i - 1 \in S PROVE i \in S
    BY <1>1, <1>4, <2>1, <2>3
  <2>4. ASSUME NEW k \in 0..n PROVE r[k] = f[k]
    <3>1. k \in Nat /\ \A i \in 1..k : i \in 1..n
      BY <1>1
    <3>2. k \in S
      <4>. HIDE DEF S, n
      <4>. QED  BY <2>2, <2>3, <3>1, UpTo
    <3>. QED  BY <3>2
  <2>. QED  BY <2>1, <2>4
<1>. QED  BY <1>1, <1>3, <1>4, <1>6, <1>8

\* A store keeps to the capacity and shortens nothing.
LEMMA StoredFacts ==
  ASSUME NEW b \in Buffers, NEW m \in Seq(Told), NEW random \in 1..Usable(m)
  PROVE  /\ Stored(b, m, random) \in Buffers
         /\ Len(b) <= Len(Stored(b, m, random))
<1>0. Usable(m) \in Nat /\ Len(b) \in Nat /\ \A i \in 1..Usable(m) : m[i] \in Told
  BY UsableFacts DEF Buffers
<1>1. PICK f \in [0..Usable(m) -> Buffers] :
        /\ f[0] = b
        /\ \A i \in 1..Usable(m) :
             f[i] = IF Taken(i, Step(b, m, random)) THEN Accept(f[i - 1], m[i]) ELSE f[i - 1]
        /\ f[Usable(m)] = Stored(b, m, random)
  BY StoredIsFold
<1> DEFINE Kept(i) == Len(b) <= Len(f[i])
           S == {i \in 0..Usable(m) : Kept(i)}
<1>2. 0 \in S
  BY <1>0, <1>1
<1>3. ASSUME NEW i \in 1..Usable(m), i - 1 \in S PROVE i \in S
  <2>1. i - 1 \in 0..Usable(m) /\ i \in 0..Usable(m)
    BY <1>0
  <2>2. f[i - 1] \in Buffers /\ f[i] \in Buffers /\ m[i] \in Told
    BY <1>0, <2>1
  <2>3. Len(f[i - 1]) \in Nat /\ Len(f[i]) \in Nat
    BY <2>2 DEF Buffers
  <2>4. Kept(i - 1)
    BY <1>3
  <2>5. f[i] = Accept(f[i - 1], m[i]) \/ f[i] = f[i - 1]
    BY <1>1
  <2>6. CASE f[i] = Accept(f[i - 1], m[i])
    <3>1. Len(f[i - 1]) <= Len(f[i])
      <4>1. PICK s \in Buffers, h \in Told : s = f[i - 1] /\ h = m[i]
        BY <2>2
      <4>2. Len(s) <= Len(Accept(s, h))
        BY AcceptFacts
      <4>. QED  BY <2>6, <4>1, <4>2
    <3>2. Kept(i)
      BY <1>0, <2>3, <2>4, <3>1
    <3>. QED  BY <2>1, <3>2
  <2>7. CASE f[i] = f[i - 1]
    BY <2>1, <2>4, <2>7
  <2>. QED  BY <2>5, <2>6, <2>7
<1>4. Usable(m) \in S
  <2>. HIDE DEF S
  <2>. QED  BY <1>0, <1>2, <1>3, UpTo
<1>. QED  BY <1>0, <1>1, <1>4

\* A number of whole steps is one that is looked at after them.
LEMMA TakenAfterSteps ==
  ASSUME NEW step \in Nat \ {0}, NEW c \in Nat, NEW i \in Nat, i - 1 = c * step
  PROVE  Taken(i, step)
<1> DEFINE q == (i - 1) \div step
           r == (i - 1) % step
<1>1. c * step \in Nat
  OBVIOUS
<1>2. q \in Nat /\ r \in 0..step - 1 /\ i - 1 = step * q + r
  BY <1>1
<1>. HIDE DEF q, r
<1>3. r = (c - q) * step
  BY <1>2
<1>4. c - q = 0
  <2>1. CASE c - q >= 1
    <3>1. (c - q) * step >= step
      BY <2>1, <1>2
    <3>. QED  BY <1>2, <1>3, <3>1
  <2>2. CASE c - q <= -1
    <3>1. (q - c) * step >= step
      BY <2>2, <1>2
    <3>2. (c - q) * step <= 0 - step
      BY <3>1, <1>2
    <3>. QED  BY <1>2, <1>3, <3>2
  <2>. QED  BY <1>2, <2>1, <2>2
<1>5. r = 0
  BY <1>2, <1>3, <1>4
<1>. QED  BY <1>5 DEF Taken, r

\* A list of new addresses fills the buffer as far as it goes.
LEMMA StoredFills ==
  ASSUME NEW b \in Buffers, NEW m \in Seq(Told), IsNew(b, m), NEW random \in 1..Usable(m)
  PROVE  \/ Len(Stored(b, m, random)) = Capacity
         \/ Len(Stored(b, m, random)) >= Len(b) + Len(m)
<1> DEFINE stride == Step(b, m, random)
<1>0. /\ Usable(m) \in Nat /\ Usable(m) <= Len(m) /\ Len(m) \in Nat
      /\ Len(b) \in Nat /\ Len(b) <= Capacity /\ Capacity \in Nat \ {0}
      /\ \A i \in 1..Usable(m) : m[i] \in Address \ ToSet(b)
      /\ stride \in Nat \ {0}
  <2>1. ToSet(m) \subseteq Address \ ToSet(b) /\ Usable(m) <= Len(m)
    BY UsableFacts DEF IsNew
  <2>2. \A i \in 1..Usable(m) : m[i] \in ToSet(m)
    BY <2>1, UsableFacts DEF ToSet
  <2>. QED  BY <2>1, <2>2, UsableFacts, StepFacts, HostsAssumption DEF Buffers
<1>1. PICK f \in [0..Usable(m) -> Buffers] :
        /\ f[0] = b
        /\ \A i \in 1..Usable(m) :
             f[i] = IF Taken(i, stride) THEN Accept(f[i - 1], m[i]) ELSE f[i - 1]
        /\ f[Usable(m)] = Stored(b, m, random)
  BY StoredIsFold
<1>. HIDE DEF stride
<1> DEFINE Grown(i) == /\ Len(b) <= Len(f[i])
                       /\ \A h \in ToSet(f[i]) : h \in ToSet(b) \/ \E k \in 1..i : h = m[k]
                       /\ Len(f[i]) = Capacity \/ (Len(f[i]) - Len(b)) * stride >= i
           S == {i \in 0..Usable(m) : Grown(i)}
<1>2. 0 \in S
  BY <1>0, <1>1
<1>3. ASSUME NEW i \in 1..Usable(m), i - 1 \in S PROVE i \in S
  <2>1. i - 1 \in 0..Usable(m) /\ i \in 0..Usable(m) /\ i \in Nat
    BY <1>0
  <2>2. f[i - 1] \in Buffers /\ f[i] \in Buffers
    BY <2>1
  <2>3. Len(f[i - 1]) \in Nat /\ Len(f[i]) \in Nat /\ Len(f[i - 1]) <= Capacity
    BY <2>2 DEF Buffers
  <2>4. Grown(i - 1)
    BY <1>3
  <2>5. m[i] \in Address \ ToSet(f[i - 1]) /\ m[i] \in Told
    <3>1. m[i] \in Address \ ToSet(b) /\ m[i] \in Told
      BY <1>0 DEF Told
    <3>2. \A k \in 1..i - 1 : m[k] # m[i]
      BY <1>0, <2>1 DEF IsNew, IsInjective
    <3>. QED  BY <2>4, <3>1, <3>2
  <2> DEFINE c == Len(f[i - 1]) - Len(b)
  <2>6. c \in Nat
    BY <1>0, <2>3, <2>4
  <2>7. CASE Taken(i, stride)
    <3>1. f[i] = Accept(f[i - 1], m[i])
      BY <1>1, <2>7
    <3>2. /\ Len(f[i]) = IF Len(f[i - 1]) < Capacity THEN Len(f[i - 1]) + 1 ELSE Capacity
          /\ ToSet(f[i]) \subseteq ToSet(f[i - 1]) \cup {m[i]}
      <4>1. PICK s \in Buffers, h \in Told : s = f[i - 1] /\ h = m[i]
        BY <2>2, <2>5
      <4>2. h \in Address \ ToSet(s)
        BY <2>5, <4>1
      <4>3. /\ Len(Accept(s, h)) = IF Len(s) < Capacity THEN Len(s) + 1 ELSE Capacity
            /\ ToSet(Accept(s, h)) \subseteq ToSet(s) \cup {h}
        BY <4>2, AcceptFacts
      <4>. QED  BY <3>1, <4>1, <4>3
    <3>3. \A h \in ToSet(f[i]) : h \in ToSet(b) \/ \E k \in 1..i : h = m[k]
      <4>1. ASSUME NEW h \in ToSet(f[i]) PROVE h \in ToSet(b) \/ \E k \in 1..i : h = m[k]
        <5>1. h = m[i] \/ h \in ToSet(f[i - 1])
          BY <3>2
        <5>. QED  BY <2>1, <2>4, <5>1
      <4>. QED  BY <4>1
    <3>4. Len(f[i]) = Capacity \/ (Len(f[i]) - Len(b)) * stride >= i
      <4>1. CASE Len(f[i - 1]) < Capacity /\ c * stride >= i - 1
        <5>1. Len(f[i]) - Len(b) = c + 1
          BY <1>0, <2>3, <3>2, <4>1
        <5>2. (c + 1) * stride = c * stride + stride
          <6>. HIDE DEF c
          <6>. QED  BY <2>6, <1>0
        <5>3. c * stride \in Nat
          <6>. HIDE DEF c
          <6>. QED  BY <2>6, <1>0
        <5>4. (c + 1) * stride >= i
          <6> DEFINE x == c * stride
                     y == (c + 1) * stride
          <6>1. y = x + stride /\ x >= i - 1 /\ x \in Nat /\ stride >= 1 /\ stride \in Nat
            BY <1>0, <4>1, <5>2, <5>3
          <6>. HIDE DEF x, y
          <6>2. y >= i
            BY <6>1, <2>1
          <6>. QED  BY <6>2 DEF y
        <5>. QED  BY <5>1, <5>4
      <4>2. CASE Len(f[i - 1]) = Capacity
        BY <1>0, <2>3, <3>2, <4>2
      <4>3. Len(f[i - 1]) = Capacity \/ (Len(f[i - 1]) < Capacity /\ c * stride >= i - 1)
        <5>1. Len(f[i - 1]) = Capacity \/ Len(f[i - 1]) < Capacity
          BY <1>0, <2>3
        <5>. QED  BY <2>4, <5>1
      <4>. QED  BY <4>1, <4>2, <4>3
    <3>5. Len(b) <= Len(f[i])
      BY <1>0, <2>3, <2>4, <3>2
    <3>6. Grown(i)
      BY <3>3, <3>4, <3>5
    <3>. QED  BY <2>1, <3>6
  <2>8. CASE ~Taken(i, stride)
    <3>1. f[i] = f[i - 1]
      BY <1>1, <2>8
    <3>2. Len(f[i]) = Capacity \/ c * stride >= i
      <4>1. c * stride # i - 1
        <5>. HIDE DEF c
        <5>. QED  BY <1>0, <2>1, <2>6, <2>8, TakenAfterSteps
      <4>2. c * stride \in Nat
        <5>. HIDE DEF c
        <5>. QED  BY <2>6, <1>0
      <4> DEFINE x == c * stride
      <4>3. x \in Nat /\ x # i - 1 /\ (Len(f[i]) = Capacity \/ x >= i - 1)
        BY <2>4, <3>1, <4>1, <4>2
      <4>. HIDE DEF x
      <4>4. Len(f[i]) = Capacity \/ x >= i
        BY <4>3, <2>1
      <4>. QED  BY <4>4 DEF x
    <3>3. \A h \in ToSet(f[i]) : h \in ToSet(b) \/ \E k \in 1..i : h = m[k]
      <4>1. \A k \in 1..i - 1 : k \in 1..i
        BY <2>1
      <4>. QED  BY <2>4, <3>1, <4>1
    <3>4. Grown(i)
      BY <2>4, <3>1, <3>2, <3>3
    <3>. QED  BY <2>1, <3>4
  <2>. QED  BY <2>7, <2>8
<1>4. Usable(m) \in S
  <2>. HIDE DEF S
  <2>. QED  BY <1>0, <1>2, <1>3, UpTo
<1> DEFINE c == Len(Stored(b, m, random)) - Len(b)
<1>5. /\ Stored(b, m, random) \in Buffers /\ c \in Nat
      /\ Len(Stored(b, m, random)) \in Nat /\ Len(Stored(b, m, random)) <= Capacity
      /\ Len(Stored(b, m, random)) = Len(b) + c
  <2>1. Stored(b, m, random) \in Buffers /\ Len(b) <= Len(Stored(b, m, random))
    BY <1>0, <1>1, <1>4
  <2>2. Len(Stored(b, m, random)) \in Nat /\ Len(Stored(b, m, random)) <= Capacity
    BY <2>1 DEF Buffers
  <2>. QED  BY <1>0, <2>1, <2>2
<1>6. Len(Stored(b, m, random)) = Capacity \/ c * stride >= Usable(m)
  BY <1>1, <1>4
<1>. HIDE DEF c
<1>7. CASE c * stride >= Usable(m)
  <2>1. CASE stride = 1
    <3>1. c >= Usable(m)
      BY <1>5, <1>7, <2>1
    <3>. QED  BY <1>0, <1>5, <3>1, UsableFacts
  <2>2. CASE \E accept \in Nat : Capacity - Len(b) <= accept /\ stride * accept <= Usable(m)
    <3>1. PICK accept \in Nat : Capacity - Len(b) <= accept /\ stride * accept <= Usable(m)
      BY <2>2
    <3>2. accept <= c
      <4>1. SUFFICES ASSUME c + 1 <= accept PROVE FALSE
        BY <1>5
      <4>2. stride * (c + 1) <= stride * accept
        BY <1>0, <1>5, <4>1
      <4>3. stride * (c + 1) = c * stride + stride
        BY <1>0, <1>5
      <4>4. c * stride \in Nat /\ stride * accept \in Nat
        BY <1>0, <1>5
      <4> DEFINE x == c * stride
                 y == stride * accept
      <4>5. /\ x + stride <= y /\ y <= Usable(m) /\ Usable(m) <= x
            /\ x \in Nat /\ y \in Nat /\ stride \in Nat \ {0} /\ Usable(m) \in Nat
        BY <1>0, <1>7, <3>1, <4>2, <4>3, <4>4
      <4>. HIDE DEF x, y
      <4>. QED  BY <4>5
    <3>. QED  BY <1>0, <1>5, <3>1, <3>2
  <2>. QED  BY <2>1, <2>2, StepFacts DEF stride
<1>. QED  BY <1>6, <1>7

\* A file that was cut off is a prefix.
LEMMA PrefixFacts ==
  ASSUME NEW b \in Buffers, NEW lines \in Prefixes(b)
  PROVE  lines \in Buffers
<1>1. PICK l \in 0..Len(b) : lines = SubSeq(b, 1, l)
  BY DEF Prefixes
<1>2. b \in Seq(Address) /\ Len(b) \in Nat /\ Len(b) <= Capacity /\ Capacity \in Nat
  BY HostsAssumption DEF Buffers
<1>3. lines \in Seq(Address) /\ Len(lines) = l
  BY <1>1, <1>2
<1>. QED  BY <1>1, <1>2, <1>3 DEF Buffers

-----------------------------------------------------------------------------
(* The addresses that are known and those on the disk *)

(***************************************************************************)
(* Neither outgrows the circular buffer, and stopped hosts know nobody:    *)
(* neither a load nor a late store puts in what a stop would not save.     *)
(***************************************************************************)
Sound ==
  /\ buffer \in Buffers /\ file \in Buffers
  /\ hosts_stopped => buffer = <<>>

\* Steps of others leave the addresses alone.
LEMMA SoundUnchanged ==
  ASSUME Sound, UNCHANGED <<file, buffer, hosts_stopped>> PROVE Sound'
BY DEF Sound

\* An empty buffer of stopped hosts leaves the file as the only thing to keep.
LEMMA SoundStopped ==
  ASSUME file' \in Buffers, buffer' = <<>>, hosts_stopped' = TRUE
  PROVE  Sound'
<1>1. buffer' \in Buffers
  BY HostsAssumption DEF Buffers
<1>. QED  BY <1>1 DEF Sound

\* A peer or a seed tells addresses.
LEMMA StoreKeeps ==
  ASSUME Sound, NEW m \in Messages, store(m), UNCHANGED file
  PROVE  Sound' /\ (buffer # <<>> => buffer' # <<>>)
<1>1. CASE UNCHANGED hosts
  BY <1>1, SoundUnchanged DEF hosts
<1>2. CASE ~UNCHANGED hosts
  <2>1. PICK random \in 1..Usable(m) : buffer' = Stored(buffer, m, random)
    BY <1>2 DEF store
  <2>2. ~hosts_stopped /\ hosts_stopped' = hosts_stopped /\ m \in Seq(Told)
    BY <1>2, HostsAssumption DEF store, Told
  <2>3. buffer \in Buffers /\ file \in Buffers
    BY DEF Sound
  <2>4. buffer' \in Buffers /\ Len(buffer) <= Len(buffer')
    BY <2>1, <2>2, <2>3, StoredFacts
  <2>5. /\ Len(buffer) \in Nat /\ Len(buffer') \in Nat
        /\ Len(buffer) = 0 <=> buffer = <<>>
        /\ Len(buffer') = 0 <=> buffer' = <<>>
    BY <2>3, <2>4 DEF Buffers
  <2>. QED  BY <2>2, <2>3, <2>4, <2>5 DEF Sound
<1>. QED  BY <1>1, <1>2

\* Stores, saves and the ends of the process keep the addresses sound; a load puts none in.
LEMMA SoundStep ==
  ASSUME Sound, [Next]_vars PROVE Sound'
<1>1. ASSUME NEW i \in 1..MaxStarts, LoadHosts(i) PROVE Sound'
  BY <1>1 DEF LoadHosts, Sound, disk
<1>2. ASSUME NEW i \in 1..MaxStarts, LoadThrows(i) PROVE Sound'
  <2>1. file' \in Buffers
    BY <1>2 DEF LoadThrows, Sound
  <2>. QED  BY <1>2, <2>1, SoundStopped DEF LoadThrows, ProcessEnds
<1>3. ASSUME StopHosts PROVE Sound'
  <2>1. CASE hosts_stopped
    BY <1>3, <2>1, SoundUnchanged DEF StopHosts, hosts, disk
  <2>2. CASE ~hosts_stopped
    <3>1. PICK lines \in {file} \cup Prefixes(buffer) : Save(lines)
      BY <1>3, <2>2 DEF StopHosts
    <3>2. lines \in Buffers
      BY PrefixFacts DEF Sound
    <3>. QED  BY <3>1, <3>2, SoundStopped DEF Save
  <2>. QED  BY <2>1, <2>2
<1>4. ASSUME Crash PROVE Sound'
  <2>1. file' \in {file} \cup Prefixes(buffer)
    BY <1>4 DEF Crash
  <2>2. file' \in Buffers
    BY <2>1, PrefixFacts DEF Sound
  <2>. QED  BY <1>4, <2>2, SoundStopped DEF Crash, ProcessEnds
<1>5. ASSUME NEW m \in Messages, Hear(m) PROVE Sound'
  BY <1>5, StoreKeeps DEF Hear, disk
<1>6. ASSUME NEW i \in 1..MaxStarts, NEW s \in Seed, NEW m \in Messages, SeedAnswers(i, s, m)
      PROVE  Sound'
  BY <1>6, StoreKeeps DEF SeedAnswers, disk
<1>7. CASE Start \/ StopFlag \/ StopSessions \/ StopChannels \/ Shutdown
  BY <1>7, SoundUnchanged DEF Start, StopFlag, StopSessions, StopChannels, Shutdown, disk, hosts
<1>8. ASSUME NEW i \in 1..MaxStarts,
             ManualStarted(i) \/ HostsLoaded(i) \/ SeedStarted(i) \/ Complete(i) \/ Finish(i)
      PROVE  Sound'
  BY <1>8, SoundUnchanged
     DEF ManualStarted, HostsLoaded, SeedStarted, Complete, Finish, disk, hosts
<1>9. ASSUME NEW i \in 1..MaxStarts, NEW s \in Seed, Contact(i, s) \/ SeedFails(i, s)
      PROVE  Sound'
  BY <1>9, SoundUnchanged DEF Contact, SeedFails, disk, hosts
<1>10. CASE UNCHANGED vars
  BY <1>10, SoundUnchanged DEF vars, disk, hosts
<1>. QED  BY <1>1, <1>2, <1>3, <1>4, <1>5, <1>6, <1>7, <1>8, <1>9, <1>10
          DEF Next, StartNext, StopNext

\* A node begins without addresses and without a file.
LEMMA InitSound == Init => Sound
BY HostsAssumption DEF Init, Sound, Buffers

\* The buffer and the file stay within the capacity, and stopped hosts know nobody
\* (hosts.cpp:182 and 281), whatever stops, refused writes and crashes come between.
THEOREM AddressesAreSound == Spec => []Sound
<1>1. Init => Sound
  BY InitSound
<1>2. Sound /\ [Next]_vars => Sound'
  BY SoundStep
<1>. QED  BY <1>1, <1>2, PTL DEF Spec

\* A list of new addresses fills the room there is, whatever the random number
\* (hosts.cpp:293): for every buffer a behavior reaches and every list.
THEOREM TheGapIsFilled == Spec => []FillsTheGap
<1>1. Sound => FillsTheGap
  <2>1. SUFFICES ASSUME Sound, NEW m \in Messages, IsNew(buffer, m), NEW random \in 1..Usable(m)
                 PROVE  Len(Stored(buffer, m, random)) >= Min({Capacity, Len(buffer) + Len(m)})
    BY DEF FillsTheGap
  <2>2. buffer \in Buffers /\ m \in Seq(Told)
    <3>1. m \in Seq(Told)
      BY HostsAssumption DEF Told
    <3>. QED  BY <2>1, <3>1 DEF Sound
  <2> DEFINE amount == Len(buffer) + Len(m)
  <2>3. amount \in Nat /\ Capacity \in Nat /\ Len(Stored(buffer, m, random)) \in Nat
    <3>1. Stored(buffer, m, random) \in Buffers
      BY <2>2, StoredFacts
    <3>. QED  BY <2>2, <3>1, HostsAssumption DEF Buffers
  <2>4. Len(Stored(buffer, m, random)) = Capacity \/ Len(Stored(buffer, m, random)) >= amount
    BY <2>1, <2>2, StoredFills
  <2>. HIDE DEF amount
  <2>5. Min({Capacity, amount}) <= Capacity /\ Min({Capacity, amount}) <= amount
        /\ Min({Capacity, amount}) \in Nat
    <3>1. PICK u \in {Capacity, amount} : u <= Capacity /\ u <= amount
      BY <2>3
    <3>2. /\ Min({Capacity, amount}) \in {Capacity, amount}
          /\ \A y \in {Capacity, amount} : Min({Capacity, amount}) <= y
      BY <3>1 DEF Min
    <3>. QED  BY <2>3, <3>2
  <2>6. Len(Stored(buffer, m, random)) >= Min({Capacity, amount})
    BY <2>3, <2>4, <2>5
  <2>. QED  BY <2>6 DEF amount
<1>. QED  BY <1>1, AddressesAreSound, PTL

-----------------------------------------------------------------------------
(* The start sequence *)

StepNames == {"none", "posted", "load", "loaded", "seed", "seeding", "finish", "answered"}
Stages == {"connecting", "germinating", "stopped", "done"}
StartType == start \in [1..MaxStarts -> StartRecord]

\* What a handler writes into its record keeps the type of the records.
LEMMA RecordFacts ==
  ASSUME NEW r \in StartRecord
  PROVE  /\ r.step \in StepNames /\ r.code \in Codes /\ r.quit \in BOOLEAN
         /\ r.seeds \in [Seed -> Stages]
         /\ \A step \in StepNames : [r EXCEPT !.step = step] \in StartRecord
         /\ \A step \in StepNames : \A code \in Codes :
              [r EXCEPT !.step = step, !.code = code] \in StartRecord
         /\ \A step \in StepNames : \A seeds \in [Seed -> Stages] :
              [r EXCEPT !.step = step, !.seeds = seeds] \in StartRecord
         /\ \A quit \in BOOLEAN : [r EXCEPT !.quit = quit] \in StartRecord
         /\ \A seeds \in [Seed -> Stages] : [r EXCEPT !.seeds = seeds] \in StartRecord
BY DEF StartRecord, StepNames, Stages

\* A step of a start sequence: the record it moves, and the others.
LEMMA GoTyped ==
  ASSUME StartType, NEW i \in 1..MaxStarts, NEW step \in StepNames, NEW code \in Codes,
         Go(i, step, code)
  PROVE  /\ StartType'
         /\ start'[i].step = step /\ start'[i].code = code
         /\ \A j \in 1..MaxStarts \ {i} : start'[j] = start[j]
<1>1. start' = [start EXCEPT ![i] = [start[i] EXCEPT !.step = step, !.code = code]]
  BY DEF Go, StartType
<1>2. start[i] \in StartRecord
  BY DEF StartType
<1>3. [start[i] EXCEPT !.step = step, !.code = code] \in StartRecord
  BY <1>2, RecordFacts
<1>4. start[i].step \in StepNames /\ start[i].code \in Codes
  BY <1>2, RecordFacts
<1>5. /\ [start[i] EXCEPT !.step = step, !.code = code].step = step
      /\ [start[i] EXCEPT !.step = step, !.code = code].code = code
  BY <1>2 DEF StartRecord
<1>. QED  BY <1>1, <1>3, <1>5 DEF StartType

\* A seed that gets on: its stage, and the rest of the records.
LEMMA BecomesTyped ==
  ASSUME StartType, NEW i \in 1..MaxStarts, NEW s \in Seed, NEW stage \in Stages,
         Becomes(i, s, stage)
  PROVE  /\ StartType'
         /\ start'[i].step = start[i].step /\ start'[i].code = start[i].code
         /\ \A j \in 1..MaxStarts \ {i} : start'[j] = start[j]
<1> DEFINE seeds == [start[i].seeds EXCEPT ![s] = stage]
<1>1. start' = [start EXCEPT ![i] = [start[i] EXCEPT !.seeds = seeds]]
  BY DEF Becomes, StartType
<1>2. start[i] \in StartRecord
  BY DEF StartType
<1>3. seeds \in [Seed -> Stages]
  <2>1. start[i].seeds \in [Seed -> Stages]
    BY <1>2, RecordFacts
  <2>. QED  BY <2>1
<1>. HIDE DEF seeds
<1>4. [start[i] EXCEPT !.seeds = seeds] \in StartRecord
  BY <1>2, <1>3, RecordFacts
<1>5. /\ [start[i] EXCEPT !.seeds = seeds].step = start[i].step
      /\ [start[i] EXCEPT !.seeds = seeds].code = start[i].code
  BY <1>2 DEF StartRecord
<1>. QED  BY <1>1, <1>4, <1>5 DEF StartType

Typed ==
  /\ StartType
  /\ hosts_stopped \in BOOLEAN /\ stopped \in BOOLEAN
  /\ working \in BOOLEAN /\ refusing \in BOOLEAN
  /\ stopping \in {"no", "hosts", "flag", "sessions", "channels"}
  /\ run \in 0..MaxStarts
  /\ unsaved \subseteq Address /\ uncaught \in BOOLEAN

\* A handler of a start sequence moves its own record and nobody else's.
LEMMA StartSteps ==
  ASSUME Typed, NEW i \in 1..MaxStarts, StartNext(i)
  PROVE  /\ StartType'
         /\ \A j \in 1..MaxStarts \ {i} : start'[j] = start[j]
         /\ start'[i].step = "finish" /\ start'[i].code = "success" => buffer # <<>>
         /\ start'[i].step = "answered" /\ start'[i].code = "success" =>
              At(i, "finish") /\ start[i].code = "success" /\ ~stopped
         /\ buffer' = buffer /\ hosts_stopped' \in {hosts_stopped, FALSE}
         /\ UNCHANGED <<disk, service>>
<1>0. StartType /\ start[i] \in StartRecord /\ start[i].code \in Codes
  <2>1. StartType /\ start[i] \in StartRecord
    BY DEF Typed, StartType
  <2>. QED  BY <2>1, RecordFacts
<1>1. CASE ManualStarted(i)
  <2>1. PICK step \in {"answered", "load"}, code \in {"service_stopped", "success"} :
          /\ Go(i, step, code) /\ (step = "answered" => code = "service_stopped")
    BY <1>1 DEF ManualStarted
  <2>2. step \in StepNames /\ code \in Codes
    BY DEF StepNames, Codes
  <2>. QED  BY <1>0, <1>1, <2>1, <2>2, GoTyped DEF ManualStarted, hosts, service
<1>2. CASE LoadHosts(i)
  <2>1. PICK code \in {"success", "operation_failed"} : Go(i, "loaded", code)
    BY <1>2 DEF LoadHosts
  <2>2. "loaded" \in StepNames /\ code \in Codes
    BY DEF StepNames, Codes
  <2>. QED  BY <1>0, <1>2, <2>1, <2>2, GoTyped DEF LoadHosts, hosts, service
<1>3. CASE HostsLoaded(i)
  <2>1. PICK step \in {"answered", "seed"}, code \in Codes :
          /\ Go(i, step, code) /\ (step = "answered" => code # "success")
    <3>1. CASE stopped
      BY <1>3, <3>1 DEF HostsLoaded, Codes
    <3>2. CASE ~stopped
      BY <1>0, <1>3, <3>2 DEF HostsLoaded
    <3>. QED  BY <3>1, <3>2
  <2>2. step \in StepNames
    BY DEF StepNames
  <2>. QED  BY <1>0, <1>3, <2>1, <2>2, GoTyped DEF HostsLoaded, hosts, service
<1>4. CASE SeedStarted(i)
  <2>1. CASE buffer # <<>>
    <3>1. Go(i, "finish", "success") /\ "finish" \in StepNames /\ "success" \in Codes
      BY <1>4, <2>1 DEF SeedStarted, StepNames, Codes
    <3>. QED  BY <1>0, <1>4, <2>1, <3>1, GoTyped DEF SeedStarted, hosts, service
  <2>2. CASE buffer = <<>> /\ Seed = {}
    <3>1. Go(i, "finish", "operation_failed") /\ "finish" \in StepNames /\ "operation_failed" \in Codes
      BY <1>4, <2>2 DEF SeedStarted, StepNames, Codes
    <3>. QED  BY <1>0, <1>4, <3>1, GoTyped DEF SeedStarted, hosts, service
  <2>3. CASE buffer = <<>> /\ Seed # {}
    <3>1. PICK seeds \in [Seed -> Stages] :
            start' = [start EXCEPT ![i].step = "seeding", ![i].seeds = seeds]
      <4>1. Unseeded \in [Seed -> Stages] /\ [s \in Seed |-> "connecting"] \in [Seed -> Stages]
        BY DEF Unseeded, Stages
      <4>2. start' = [start EXCEPT ![i].step = "seeding", ![i].seeds =
                        IF start[i].quit THEN Unseeded ELSE [s \in Seed |-> "connecting"]]
        BY <1>4, <2>3 DEF SeedStarted
      <4>. QED  BY <4>1, <4>2
    <3>2. start' = [start EXCEPT ![i] = [start[i] EXCEPT !.step = "seeding", !.seeds = seeds]]
      BY <1>0, <3>1 DEF StartType
    <3>3. /\ [start[i] EXCEPT !.step = "seeding", !.seeds = seeds] \in StartRecord
          /\ [start[i] EXCEPT !.step = "seeding", !.seeds = seeds].step = "seeding"
      <4>1. "seeding" \in StepNames
        BY DEF StepNames
      <4>2. [start[i] EXCEPT !.step = "seeding", !.seeds = seeds] \in StartRecord
        BY <1>0, <4>1, RecordFacts
      <4>. QED  BY <1>0, <4>2 DEF StartRecord
    <3>4. /\ StartType' /\ start'[i].step = "seeding"
          /\ \A j \in 1..MaxStarts \ {i} : start'[j] = start[j]
      BY <1>0, <3>2, <3>3 DEF StartType
    <3>. QED  BY <1>4, <3>4 DEF SeedStarted, hosts, service
  <2>. QED  BY <2>1, <2>2, <2>3
<1>5. CASE Complete(i)
  <2>1. Go(i, "finish", Seeded) /\ "finish" \in StepNames /\ Seeded \in Codes
        /\ (Seeded = "success" => buffer # <<>>)
    BY <1>5 DEF Complete, Seeded, StepNames, Codes
  <2>. HIDE DEF Seeded
  <2>. QED  BY <1>0, <1>5, <2>1, GoTyped DEF Complete, hosts, service
<1>6. CASE Finish(i)
  <2>1. PICK code \in Codes : Go(i, "answered", code) /\
          (code = "success" => At(i, "finish") /\ start[i].code = "success" /\ ~stopped)
    <3>1. CASE stopped
      BY <1>6, <3>1 DEF Finish, Codes
    <3>2. CASE ~stopped
      BY <1>0, <1>6, <3>2 DEF Finish
    <3>. QED  BY <3>1, <3>2
  <2>2. "answered" \in StepNames
    BY DEF StepNames
  <2>. QED  BY <1>0, <1>6, <2>1, <2>2, GoTyped DEF Finish, hosts, service
<1>. QED  BY <1>1, <1>2, <1>3, <1>4, <1>5, <1>6 DEF StartNext

\* A seed moves its own stage in the record of its start.
LEMMA SeedSteps ==
  ASSUME Typed, NEW i \in 1..MaxStarts, NEW s \in Seed,
         \/ Contact(i, s) \/ SeedFails(i, s)
         \/ \E m \in Messages : SeedAnswers(i, s, m)
  PROVE  /\ StartType'
         /\ \A j \in 1..MaxStarts :
              start'[j].step = start[j].step /\ start'[j].code = start[j].code
         /\ hosts_stopped' = hosts_stopped
         /\ UNCHANGED <<disk, service>>
<1>1. PICK stage \in Stages : Becomes(i, s, stage)
  BY DEF Contact, SeedFails, SeedAnswers, Stages
<1>2. StartType
  BY DEF Typed
<1>3. UNCHANGED <<disk, service>> /\ hosts_stopped' = hosts_stopped
  BY DEF Contact, SeedFails, SeedAnswers, store, hosts
<1>4. /\ StartType'
      /\ start'[i].step = start[i].step /\ start'[i].code = start[i].code
      /\ \A j \in 1..MaxStarts \ {i} : start'[j] = start[j]
  BY <1>1, <1>2, BecomesTyped
<1>. QED  BY <1>3, <1>4

\* The stop of the sessions and of the channels leaves the steps where they are.
LEMMA StopTellsTyped ==
  ASSUME StartType, StopSessions \/ StopChannels
  PROVE  /\ StartType'
         /\ \A j \in 1..MaxStarts :
              start'[j].step = start[j].step /\ start'[j].code = start[j].code
<1>1. ASSUME NEW j \in 1..MaxStarts PROVE start[j] \in StartRecord
  BY DEF StartType
<1>2. CASE StopSessions
  <2>1. start' = [i \in 1..MaxStarts |-> [start[i] EXCEPT !.quit = start[i].quit \/ HasSession(i)]]
    BY <1>2 DEF StopSessions
  <2>2. ASSUME NEW j \in 1..MaxStarts
        PROVE  /\ start'[j] \in StartRecord
               /\ start'[j].step = start[j].step /\ start'[j].code = start[j].code
    <3>1. PICK quit \in BOOLEAN : start'[j] = [start[j] EXCEPT !.quit = quit]
      BY <2>1
    <3>2. start[j] \in StartRecord
      BY <1>1
    <3>3. start'[j] \in StartRecord
      BY <3>1, <3>2, RecordFacts
    <3>. QED  BY <3>1, <3>2, <3>3 DEF StartRecord
  <2>. QED  BY <2>1, <2>2 DEF StartType
<1>3. CASE StopChannels
  <2> DEFINE told(i) == [s \in Seed |-> IF start[i].seeds[s] = "germinating"
                                        THEN "stopped" ELSE start[i].seeds[s]]
  <2>1. start' = [i \in 1..MaxStarts |-> [start[i] EXCEPT !.seeds = told(i)]]
    BY <1>3 DEF StopChannels
  <2>2. ASSUME NEW j \in 1..MaxStarts
        PROVE  /\ start'[j] \in StartRecord
               /\ start'[j].step = start[j].step /\ start'[j].code = start[j].code
    <3>1. start[j] \in StartRecord /\ start[j].seeds \in [Seed -> Stages]
      <4>1. start[j] \in StartRecord
        BY <1>1
      <4>. QED  BY <4>1, RecordFacts
    <3>2. told(j) \in [Seed -> Stages]
      BY <3>1 DEF Stages
    <3>3. start'[j] = [start[j] EXCEPT !.seeds = told(j)]
      BY <2>1
    <3>. HIDE DEF told
    <3>4. start'[j] \in StartRecord
      BY <3>1, <3>2, <3>3, RecordFacts
    <3>. QED  BY <3>1, <3>3, <3>4 DEF StartRecord
  <2>. HIDE DEF told
  <2>. QED  BY <2>1, <2>2 DEF StartType
<1>. QED  BY <1>2, <1>3

\* p2p::start begins with a record of its own.
LEMMA StartTyped ==
  ASSUME Typed, Start
  PROVE  /\ StartType' /\ run' \in 1..MaxStarts
         /\ start'[run'].step = "posted"
         /\ \A j \in 1..MaxStarts \ {run'} : start'[j] = start[j]
<1>1. run + 1 \in 1..MaxStarts /\ run' = run + 1 /\ StartType
  BY HostsAssumption DEF Typed, Start
<1>2. start[run + 1] \in StartRecord
  BY <1>1 DEF StartType
<1>3. start' = [start EXCEPT ![run + 1] = [start[run + 1] EXCEPT !.step = "posted"]]
  BY <1>1 DEF Start, StartType
<1>4. /\ [start[run + 1] EXCEPT !.step = "posted"] \in StartRecord
      /\ [start[run + 1] EXCEPT !.step = "posted"].step = "posted"
  <2>1. "posted" \in StepNames
    BY DEF StepNames
  <2>2. [start[run + 1] EXCEPT !.step = "posted"] \in StartRecord
    BY <1>2, <2>1, RecordFacts
  <2>. QED  BY <1>2, <2>2 DEF StartRecord
<1>. QED  BY <1>1, <1>3, <1>4 DEF StartType

\* The record of a start that has not been called.
LEMMA NotStartedTyped ==
  /\ NotStarted \in StartRecord
  /\ [i \in 1..MaxStarts |-> NotStarted] \in [1..MaxStarts -> StartRecord]
<1>1. NotStarted \in StartRecord
  BY DEF NotStarted, Unseeded, StartRecord, Codes
<1>. QED  BY <1>1

\* Every step keeps the types of the flags and the records.
LEMMA TypedStep ==
  ASSUME Typed, Sound, [Next]_vars PROVE Typed'
<1>1. ASSUME NEW i \in 1..MaxStarts, StartNext(i) PROVE Typed'
  BY <1>1, StartSteps DEF Typed, disk, service
<1>2. ASSUME NEW i \in 1..MaxStarts, NEW s \in Seed,
             \/ Contact(i, s) \/ SeedFails(i, s)
             \/ \E m \in Messages : SeedAnswers(i, s, m)
      PROVE  Typed'
  <2>1. StartType' /\ hosts_stopped' = hosts_stopped /\ UNCHANGED <<disk, service>>
    BY <1>2, SeedSteps
  <2>. QED  BY <2>1 DEF Typed, disk, service
<1>3. CASE Start
  <2>1. StartType' /\ run' \in 0..MaxStarts
    BY <1>3, StartTyped, HostsAssumption
  <2>. QED  BY <1>3, <2>1 DEF Typed, Start, disk, hosts
<1>4. CASE StopSessions
  BY <1>4, StopTellsTyped DEF Typed, StopSessions, disk, hosts
<1>5. CASE StopChannels
  BY <1>5, StopTellsTyped DEF Typed, StopChannels, disk, hosts
<1>6. CASE StopFlag
  BY <1>6 DEF Typed, StartType, StopFlag, disk, hosts
<1>7. CASE Shutdown
  BY <1>7 DEF Typed, StartType, Shutdown, disk, hosts
<1>8. CASE StopHosts
  <2>1. unsaved' \subseteq Address /\ uncaught' \in BOOLEAN /\ hosts_stopped' \in BOOLEAN
    <3>1. ToSet(buffer) \subseteq Address
      BY DEF Sound, Buffers, ToSet
    <3>2. CASE hosts_stopped
      BY <1>8, <3>2 DEF StopHosts, Typed, disk, hosts
    <3>3. CASE ~hosts_stopped
      <4>1. PICK lines : Save(lines)
        BY <1>8, <3>3 DEF StopHosts
      <4>. QED  BY <3>1, <4>1 DEF Save, Typed
    <3>. QED  BY <3>2, <3>3
  <2>. QED  BY <1>8, <2>1 DEF Typed, StartType, StopHosts
<1>9. ASSUME ProcessEnds, uncaught' \in BOOLEAN PROVE Typed'
  <2>1. StartType'
    BY <1>9, NotStartedTyped DEF StartType, ProcessEnds
  <2>2. 0 \in 0..MaxStarts
    BY HostsAssumption
  <2>. QED  BY <1>9, <2>1, <2>2 DEF Typed, ProcessEnds
<1>10. ASSUME NEW m \in Messages, Hear(m) PROVE Typed'
  BY <1>10 DEF Hear, Typed, StartType, store, disk, hosts, service
<1>11. CASE UNCHANGED vars
  BY <1>11 DEF Typed, StartType, vars, disk, hosts, service
<1>. QED  BY <1>1, <1>2, <1>3, <1>4, <1>5, <1>6, <1>7, <1>8, <1>9, <1>10, <1>11
          DEF Next, StopNext, Crash, LoadThrows

(***************************************************************************)
(* A success that is about to be answered has addresses behind it, unless  *)
(* the node is stopped or a stop has begun; when a stop has ended the node *)
(* is stopped, and the next start has a record of its own.                 *)
(***************************************************************************)
Backed ==
  /\ stopping \in {"flag", "sessions", "channels"} => stopped
  /\ run > 0 /\ At(run, "finish") /\ start[run].code = "success" /\ ~stopped /\ stopping = "no"
       => buffer # <<>>

\* Every step keeps what a success stands on.
LEMMA BackedStep ==
  ASSUME Typed, Sound, Backed, [Next]_vars PROVE Backed'
<1>0. run \in Nat /\ (run > 0 => run \in 1..MaxStarts)
  BY HostsAssumption DEF Typed
<1>1. ASSUME NEW i \in 1..MaxStarts, StartNext(i) PROVE Backed'
  <2>1. /\ UNCHANGED <<run, stopped, stopping>>
        /\ \A j \in 1..MaxStarts \ {i} : start'[j] = start[j]
        /\ start'[i].step = "finish" /\ start'[i].code = "success" => buffer # <<>>
        /\ buffer' = buffer
    BY <1>1, StartSteps DEF service
  <2>2. SUFFICES ASSUME run > 0, start'[run].step = "finish", start'[run].code = "success",
                        ~stopped, stopping = "no"
                 PROVE  buffer' # <<>>
    BY <2>1 DEF Backed, At
  <2>3. CASE i = run
    BY <2>1, <2>2, <2>3
  <2>4. CASE i # run
    <3>1. start'[run] = start[run]
      BY <1>0, <2>1, <2>2, <2>4
    <3>2. buffer # <<>>
      BY <2>2, <3>1 DEF Backed, At
    <3>. QED  BY <2>1, <3>2
  <2>. QED  BY <2>3, <2>4
<1>2. ASSUME NEW i \in 1..MaxStarts, NEW s \in Seed,
             \/ Contact(i, s) \/ SeedFails(i, s)
             \/ \E m \in Messages : SeedAnswers(i, s, m)
      PROVE  Backed'
  <2>1. /\ UNCHANGED <<run, stopped, stopping>>
        /\ run > 0 => start'[run].step = start[run].step /\ start'[run].code = start[run].code
    BY <1>0, <1>2, SeedSteps DEF service
  <2>2. buffer # <<>> => buffer' # <<>>
    BY <1>2, StoreKeeps DEF Contact, SeedFails, SeedAnswers, hosts, disk
  <2>. QED  BY <2>1, <2>2 DEF Backed, At
<1>3. CASE Start
  <2>1. start'[run'].step = "posted" /\ stopping' = "no"
    BY <1>3, StartTyped DEF Start
  <2>. QED  BY <2>1 DEF Backed, At
<1>4. CASE StopHosts \/ StopFlag \/ StopSessions \/ StopChannels
  BY <1>4 DEF Backed, StopHosts, StopFlag, StopSessions, StopChannels
<1>5. CASE Shutdown
  BY <1>5 DEF Backed, Shutdown
<1>6. CASE ProcessEnds
  BY <1>6 DEF Backed, ProcessEnds
<1>7. ASSUME NEW m \in Messages, Hear(m) PROVE Backed'
  <2>1. buffer # <<>> => buffer' # <<>>
    BY <1>7, StoreKeeps DEF Hear, disk
  <2>. QED  BY <1>7, <2>1 DEF Hear, Backed, At, service
<1>8. CASE UNCHANGED vars
  BY <1>8 DEF Backed, At, vars, hosts, service
<1>. QED  BY <1>1, <1>2, <1>3, <1>4, <1>5, <1>6, <1>7, <1>8
          DEF Next, StopNext, Crash, LoadThrows

HostsInvariant == Typed /\ Sound /\ Backed

\* The inductive invariant of the hosts and the start sequences, for any number of
\* addresses, seeds and starts, any capacity and any lists of addresses.
THEOREM HostsInvariantHolds == Spec => []HostsInvariant
<1>1. Init => Typed /\ Backed
  <2>1. Init => StartType
    BY NotStartedTyped DEF StartType, Init
  <2>2. 0 \in 0..MaxStarts
    BY HostsAssumption
  <2>. QED  BY <2>1, <2>2 DEF Init, Typed, Backed
<1>2. HostsInvariant /\ [Next]_vars => HostsInvariant'
  BY SoundStep, TypedStep, BackedStep DEF HostsInvariant
<1>3. Init => Sound
  BY InitSound
<1>. QED  BY <1>1, <1>2, <1>3, PTL DEF Spec, HostsInvariant

\* The types of the state, among them that neither the buffer nor the file outgrows
\* the capacity of the circular buffer (hosts.cpp:318).
THEOREM TypeInvariant == Spec => []TypeOK
<1>1. HostsInvariant => TypeOK
  BY DEF HostsInvariant, Sound, Typed, StartType, Buffers, TypeOK
<1>. QED  BY <1>1, HostsInvariantHolds, PTL

\* p2p::start succeeds only with an address to connect to, unless a stop has begun
\* (session_seed.cpp:51 and 178): no interleaving with stop empties the buffer in between.
THEOREM SuccessAlwaysHasHosts == Spec => SuccessHasHosts
<1>1. ASSUME HostsInvariant, [Next]_vars, NEW i \in 1..MaxStarts,
             i = run, ~At(i, "answered"), At(i, "answered")', start'[i].code = "success",
             stopping = "no"
      PROVE  buffer' # <<>>
  <2>0. Typed /\ Sound /\ Backed /\ run > 0 /\ StartType
    BY <1>1 DEF HostsInvariant, Typed
  <2>1. start'[i].step = "answered" /\ start[i].step # "answered"
    BY <1>1 DEF At
  <2>2. ASSUME NEW k \in 1..MaxStarts, StartNext(k) PROVE buffer' # <<>>
    <3>1. k = i
      BY <2>0, <2>1, <2>2, StartSteps
    <3>2. At(i, "finish") /\ start[i].code = "success" /\ ~stopped
      BY <1>1, <2>0, <2>1, <2>2, <3>1, StartSteps
    <3>3. buffer' = buffer
      BY <2>0, <2>1, <2>2, <3>1, StartSteps
    <3>. QED  BY <1>1, <2>0, <3>2, <3>3 DEF Backed
  <2>3. ASSUME NEW k \in 1..MaxStarts, NEW s \in Seed,
               \/ Contact(k, s) \/ SeedFails(k, s)
               \/ \E m \in Messages : SeedAnswers(k, s, m)
        PROVE  FALSE
    BY <2>0, <2>1, <2>3, SeedSteps
  <2>4. ~Start
    <3>1. SUFFICES ASSUME Start PROVE FALSE
      OBVIOUS
    <3>2. i # run'
      BY <1>1, <2>0, <3>1 DEF Start, Typed
    <3>. QED  BY <2>0, <2>1, <3>1, <3>2, StartTyped
  <2>5. ~StopSessions /\ ~StopChannels
    BY <2>0, <2>1, StopTellsTyped
  <2>6. ~StopHosts /\ ~StopFlag /\ ~Shutdown
    BY <2>1 DEF StopHosts, StopFlag, Shutdown
  <2>7. ~ProcessEnds
    <3>1. SUFFICES ASSUME ProcessEnds PROVE FALSE
      OBVIOUS
    <3>2. start'[i] = NotStarted
      BY <3>1 DEF ProcessEnds
    <3>3. NotStarted.step = "none"
      BY DEF NotStarted
    <3>. QED  BY <2>1, <3>2, <3>3
  <2>8. ASSUME NEW m \in Messages, Hear(m) PROVE FALSE
    BY <2>1, <2>8 DEF Hear
  <2>9. ~UNCHANGED vars
    BY <2>1 DEF vars
  <2>. QED  BY <1>1, <2>2, <2>3, <2>4, <2>5, <2>6, <2>7, <2>8, <2>9
          DEF Next, StopNext, Crash, LoadThrows
<1>2. HostsInvariant /\ [Next]_vars =>
        [\A i \in 1..MaxStarts :
           i = run /\ ~At(i, "answered") /\ At(i, "answered")' /\ start'[i].code = "success"
             => buffer' # <<>> \/ stopping # "no"]_vars
  BY <1>1
<1>. QED  BY <1>2, HostsInvariantHolds, PTL DEF SuccessHasHosts, Spec
=============================================================================
