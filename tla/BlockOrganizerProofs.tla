----------------------- MODULE BlockOrganizerProofs -----------------------
(***************************************************************************)
(* The chain stays a path of the block tree, the pool stays apart from it  *)
(* and below its work, and a reorganization always gains work: for every   *)
(* tree, every depth limit and every order in which blocks arrive.  The    *)
(* last part is about BlockRelay, on the same tree: a channel that asks    *)
(* for whole blocks holds in its backlog what the peer owes, and no more.  *)
(***************************************************************************)
EXTENDS BlockOrganizer, BlockRelay, FiniteSetTheorems, WellFoundedInduction, TLAPS

-----------------------------------------------------------------------------
(* The block tree.  What its defining equations imply, by induction on heights; *)
(* the well-founded order of the finite segments of Nat carries the induction.  *)

\* A nonempty set of numbers has a least element.
LEMMA LeastNumber ==
  ASSUME NEW T \in SUBSET Nat, T # {}
  PROVE  \E m \in T : \A k \in T : m <= k
<1> DEFINE Segments == {0..m : m \in T}
<1>1. Segments \subseteq FiniteSubsetsOf(Nat) /\ Segments # {}
  <2>1. ASSUME NEW m \in T PROVE 0..m \in FiniteSubsetsOf(Nat)
    <3>1. IsFiniteSet(0..m)
      <4>1. 0 \in Int /\ m \in Int
        OBVIOUS
      <4>. QED  BY <4>1, FS_Interval
    <3>2. 0..m \subseteq Nat
      OBVIOUS
    <3>. QED  BY <3>1, <3>2 DEF FiniteSubsetsOf
  <2>. QED  BY <2>1
<1>2. PICK m \in T : \A s \in Segments : ~(<<s, 0..m>> \in StrictSubsetOrdering(Nat))
  <2>1. \E x \in Segments : \A s \in Segments : ~(<<s, x>> \in StrictSubsetOrdering(Nat))
    <3>. HIDE DEF Segments
    <3>. QED  BY <1>1, FS_StrictSubsetOrderingWellFounded, WFMin, Zenon
  <2>. QED  BY <2>1
<1>3. ASSUME NEW k \in T, k < m PROVE FALSE
  <2>1. m \in 0..m /\ m \notin 0..k
    BY <1>3
  <2>2. 0..k \subseteq 0..m /\ 0..k # 0..m /\ 0..m \subseteq Nat
    BY <2>1, <1>3
  <2>3. <<0..k, 0..m>> \in StrictSubsetOrdering(Nat)
    BY <2>2 DEF StrictSubsetOrdering
  <2>. QED  BY <1>2, <2>3
<1>. QED  BY <1>3

\* A statement about every block, by induction on the height of the block.
LEMMA BlockInduction ==
  ASSUME NEW S \in SUBSET Block,
         Genesis \in S,
         \A b \in Block \ {Genesis} : Parent[b] \in S => b \in S
  PROVE  \A b \in Block : b \in S
<1>1. SUFFICES ASSUME Block \ S # {} PROVE FALSE
  OBVIOUS
<1> DEFINE Heights == {Height[b] : b \in Block \ S}
<1>2. PICK m \in Heights : \A k \in Heights : m <= k
  <2>1. Heights \in SUBSET Nat /\ Heights # {}
    BY <1>1, BlockTreeAssumption
  <2>. HIDE DEF Heights
  <2>. QED  BY <2>1, LeastNumber
<1>3. PICK b \in Block \ S : Height[b] = m
  BY <1>2
<1>4. Parent[b] \in Block /\ Height[b] = Height[Parent[b]] + 1 /\ Height[Parent[b]] \in Nat
  BY <1>3, BlockTreeAssumption
<1>5. Parent[b] \notin S
  BY <1>3
<1>6. Height[b] <= Height[Parent[b]]
  BY <1>2, <1>3, <1>4, <1>5
<1>. QED  BY <1>4, <1>6

\* Ancestors are lower, weigh less and are ancestors all the way down.
LEMMA AncestorsAreBelow ==
  \A b \in Block : \A a \in Ancestors[b] :
    /\ a \in Block
    /\ Height[a] < Height[b]
    /\ TotalWork[a] < TotalWork[b]
    /\ Ancestors[a] \subseteq Ancestors[b]
<1> DEFINE Good(b) == \A a \in Ancestors[b] :
             /\ a \in Block
             /\ Height[a] < Height[b]
             /\ TotalWork[a] < TotalWork[b]
             /\ Ancestors[a] \subseteq Ancestors[b]
           S == {b \in Block : Good(b)}
<1>1. Genesis \in S
  BY BlockTreeAssumption
<1>2. ASSUME NEW b \in Block \ {Genesis}, Parent[b] \in S PROVE b \in S
  <2>1. /\ Ancestors[b] = Ancestors[Parent[b]] \cup {Parent[b]}
        /\ Parent[b] \in Block
        /\ Height[Parent[b]] < Height[b]
        /\ TotalWork[Parent[b]] < TotalWork[b]
    BY BlockTreeAssumption
  <2>2. ASSUME NEW a \in Ancestors[Parent[b]]
        PROVE  /\ a \in Block
               /\ Height[a] < Height[b]
               /\ TotalWork[a] < TotalWork[b]
               /\ Ancestors[a] \subseteq Ancestors[b]
    BY <1>2, <2>1, BlockTreeAssumption
  <2>. QED  BY <2>1, <2>2
<1>3. \A b \in Block : b \in S
  <2>. HIDE DEF Good
  <2>. QED  BY <1>1, <1>2, BlockInduction
<1>. QED  BY <1>3

\* A lineage is closed under Parent and has members at every height.
LEMMA LineageIsComplete ==
  \A b \in Block :
    /\ \A a \in Lineage(b) \ {Genesis} : Parent[a] \in Ancestors[b]
    /\ \A h \in 0..Height[b] : \E a \in Lineage(b) : Height[a] = h
<1> DEFINE Good(b) ==
             /\ \A a \in Lineage(b) \ {Genesis} : Parent[a] \in Ancestors[b]
             /\ \A h \in 0..Height[b] : \E a \in Lineage(b) : Height[a] = h
           S == {b \in Block : Good(b)}
<1>1. Genesis \in S
  BY BlockTreeAssumption DEF Lineage
<1>2. ASSUME NEW b \in Block \ {Genesis}, Parent[b] \in S PROVE b \in S
  <2>1. /\ Lineage(b) = Lineage(Parent[b]) \cup {b}
        /\ Ancestors[b] = Lineage(Parent[b])
        /\ Ancestors[Parent[b]] \subseteq Ancestors[b]
        /\ Height[Parent[b]] \in Nat
        /\ Height[b] = Height[Parent[b]] + 1
    BY BlockTreeAssumption DEF Lineage
  <2>2. ASSUME NEW a \in Lineage(b) \ {Genesis} PROVE Parent[a] \in Ancestors[b]
    BY <1>2, <2>1 DEF Lineage
  <2>3. ASSUME NEW h \in 0..Height[b]
        PROVE  \E a \in Lineage(b) : Height[a] = h
    <3>1. CASE h = Height[b]
      BY <3>1, <2>1
    <3>2. CASE h \in 0..Height[Parent[b]]
      BY <3>2, <1>2, <2>1
    <3>. QED  BY <3>1, <3>2, <2>1
  <2>. QED  BY <2>2, <2>3
<1>3. \A b \in Block : b \in S
  <2>. HIDE DEF Good
  <2>. QED  BY <1>1, <1>2, BlockInduction
<1>. QED  BY <1>3

\* Of two blocks of one lineage the lower is in the lineage of the higher.
LEMMA LineageIsOrdered ==
  \A b \in Block : \A a, c \in Lineage(b) :
    Height[a] <= Height[c] => a \in Lineage(c)
<1> DEFINE Good(b) == \A a, c \in Lineage(b) :
                        Height[a] <= Height[c] => a \in Lineage(c)
           S == {b \in Block : Good(b)}
<1>1. Genesis \in S
  BY BlockTreeAssumption DEF Lineage
<1>2. ASSUME NEW b \in Block \ {Genesis}, Parent[b] \in S PROVE b \in S
  <2>1. /\ Lineage(b) = Lineage(Parent[b]) \cup {b}
        /\ Parent[b] \in Block
        /\ Height \in [Block -> Nat]
        /\ Height[b] = Height[Parent[b]] + 1
    BY BlockTreeAssumption DEF Lineage
  <2>2. \A c \in Lineage(Parent[b]) : c \in Block /\ Height[c] <= Height[Parent[b]]
    BY <2>1, AncestorsAreBelow DEF Lineage
  <2>3. ASSUME NEW a \in Lineage(b), NEW c \in Lineage(b), Height[a] <= Height[c]
        PROVE  a \in Lineage(c)
    <3>1. CASE c = b
      BY <3>1
    <3>2. CASE c \in Lineage(Parent[b])
      <4>1. a # b
        BY <3>2, <2>1, <2>2, <2>3
      <4>. QED  BY <4>1, <3>2, <1>2, <2>1, <2>3
    <3>. QED  BY <3>1, <3>2, <2>1
  <2>. QED  BY <2>3
<1>3. \A b \in Block : b \in S
  <2>. HIDE DEF Good
  <2>. QED  BY <1>1, <1>2, BlockInduction
<1>. QED  BY <1>3

\* A lineage has one block at each height.
LEMMA OnePerHeight ==
  \A b \in Block : \A a, c \in Lineage(b) : Height[a] = Height[c] => a = c
<1>. SUFFICES ASSUME NEW b \in Block, NEW a \in Lineage(b), NEW c \in Lineage(b),
                     Height[a] = Height[c], a # c
              PROVE  FALSE
  OBVIOUS
<1>1. a \in Block /\ c \in Block
  BY AncestorsAreBelow DEF Lineage
<1>2. a \in Ancestors[c]
  BY <1>1, LineageIsOrdered, BlockTreeAssumption DEF Lineage
<1>. QED  BY <1>1, <1>2, AncestorsAreBelow, BlockTreeAssumption

-----------------------------------------------------------------------------
(* The organizer. *)

\* What get_path, branch and set_branch_height compute for a block that is
\* neither a duplicate nor an orphan.
LEMMA BranchFacts ==
  ASSUME TypeOK, Genesis \notin Pooled(pool), chain[0] = Genesis,
         NEW b \in Block, ~IsDuplicate(b), ~IsOrphan(b)
  PROVE  /\ b # Genesis /\ b \notin Pooled(pool) /\ b \notin InChain
         /\ b \in BranchOf(b)
         /\ BranchOf(b) \subseteq Lineage(b)
         /\ BranchOf(b) \subseteq Pooled(pool) \cup {b}
         /\ Fork(b) \in Ancestors[b]
         /\ Fork(b) \in Block
         /\ ForkHeight(b) \in 0..top
         /\ chain[ForkHeight(b)] = Fork(b)
         /\ Size(b) \in Nat \ {0}
         /\ \A a \in BranchOf(b) : Height[Fork(b)] < Height[a]
         /\ \A c \in Lineage(b) : Height[Fork(b)] < Height[c] => c \in BranchOf(b)
<1>1. b \notin Pooled(pool) /\ b \notin InChain
  BY DEF IsDuplicate, BranchOf, Path
<1>2. b # Genesis
  BY <1>1 DEF InChain, TypeOK
<1>3. BranchOf(b) = {b} \cup {a \in Ancestors[b] :
                   \A c \in Ancestors[b] :
                     Height[c] >= Height[a] => c \in Pooled(pool)}
  BY <1>1 DEF BranchOf, Path
<1>4. /\ b \in BranchOf(b)
      /\ BranchOf(b) \subseteq Lineage(b)
      /\ \A a \in Lineage(b) : a \in Block /\ Height[a] \in Nat /\ Height[a] <= Height[b]
      /\ \A a \in Ancestors[b] : Height[a] < Height[b]
  BY <1>3, AncestorsAreBelow, BlockTreeAssumption DEF Lineage
<1>5. BranchOf(b) \subseteq Pooled(pool) \cup {b}
  BY <1>3, <1>4 DEF Lineage
<1>6. /\ Front(b) \in BranchOf(b)
      /\ \A c \in BranchOf(b) : Height[Front(b)] <= Height[c]
  <2> DEFINE H == {Height[c] : c \in BranchOf(b)}
  <2>1. H \in SUBSET Nat /\ H # {}
    BY <1>4
  <2>2. PICK m \in H : \A k \in H : m <= k
    <3>. HIDE DEF H
    <3>. QED  BY <2>1, LeastNumber
  <2>3. \E a \in BranchOf(b) : \A c \in BranchOf(b) : Height[a] <= Height[c]
    BY <2>2
  <2>. QED  BY <2>3 DEF Front
<1>7. Front(b) # Genesis
  BY <1>2, <1>5, <1>6
<1>8. /\ Fork(b) \in Ancestors[b]
      /\ Fork(b) \in Block
      /\ Height[Fork(b)] \in Nat
      /\ Height[Front(b)] = Height[Fork(b)] + 1
  <2>1. Front(b) \in Lineage(b) \ {Genesis} /\ Front(b) \in Block
    BY <1>4, <1>6, <1>7
  <2>. QED  BY <2>1, LineageIsComplete, BlockTreeAssumption DEF Fork
<1>9. ForkHeight(b) \in 0..top /\ chain[ForkHeight(b)] = Fork(b)
  BY DEF IsOrphan, InChain, ForkHeight, HeightOf
<1>10. Size(b) \in Nat \ {0}
  BY <1>4, <1>8, BlockTreeAssumption DEF Size
<1>11. \A a \in BranchOf(b) : Height[Fork(b)] < Height[a]
  BY <1>4, <1>6, <1>8
<1>12. ASSUME NEW c \in Lineage(b), Height[Fork(b)] < Height[c]
       PROVE  c \in BranchOf(b)
  <2>1. Height[Front(b)] <= Height[c]
    BY <1>4, <1>8, <1>12
  <2>2. CASE c = b
    BY <2>2, <1>4
  <2>3. CASE c \in Ancestors[b]
    <3>1. Front(b) \in Ancestors[b]
      BY <2>1, <2>3, <1>4, <1>6 DEF Lineage
    <3>2. \A d \in Ancestors[b] : Height[d] >= Height[Front(b)] => d \in Pooled(pool)
      BY <3>1, <1>3, <1>4, <1>6
    <3>3. \A d \in Ancestors[b] : Height[d] >= Height[c] => d \in Pooled(pool)
      BY <3>2, <2>1, <2>3, <1>4, <1>6 DEF Lineage
    <3>. QED  BY <3>3, <2>3, <1>3
  <2>. QED  BY <2>2, <2>3 DEF Lineage
<1>. QED  BY <1>1, <1>2, <1>4, <1>5, <1>8, <1>9, <1>10, <1>11, <1>12

-----------------------------------------------------------------------------
(* The branch as push_all writes it. *)

\* A chain built to height n: what ChainIsPath and ChainIsLineage say of it.
IsChain(c, n) ==
  /\ c \in [0..n -> Block]
  /\ c[0] = Genesis
  /\ \A h \in 1..n : c[h] # Genesis /\ Parent[c[h]] = c[h - 1]
  /\ \A h \in 0..n : c[h] \in Valid /\ Height[c[h]] = h
  /\ \A i, j \in 0..n : i <= j => c[i] \in Lineage(c[j])

\* The state as far as a branch depends on it.
Grounded ==
  /\ TypeOK
  /\ IsChain(chain, top)
  /\ Genesis \notin Pooled(pool)
  /\ Pooled(pool) \subseteq Valid

LEMMA GroundedFromConsistent == Consistent => Grounded
BY DEF Consistent, Grounded, IsChain, ChainIsPath, ChainIsLineage, PoolIsValid, InChain, TypeOK

\* The chain has every block at its own height.
LEMMA ForkHeightFacts ==
  ASSUME Grounded, NEW b \in Block, Connects(b)
  PROVE  /\ ForkHeight(b) = Height[Fork(b)]
         /\ ForkHeight(b) \in 0..top
         /\ chain[ForkHeight(b)] = Fork(b)
         /\ TopHeight(b) = Height[b]
         /\ Size(b) \in Nat \ {0}
<1>1. /\ ForkHeight(b) \in 0..top
      /\ chain[ForkHeight(b)] = Fork(b)
      /\ Size(b) \in Nat \ {0}
  BY BranchFacts DEF Grounded, IsChain, Connects
<1>2. ForkHeight(b) = Height[Fork(b)]
  BY <1>1 DEF Grounded, IsChain
<1>3. Height[b] \in Nat /\ top \in Nat
  BY BlockTreeAssumption DEF Grounded, TypeOK
<1>. QED  BY <1>1, <1>2, <1>3 DEF TopHeight, Size

\* A branch has one block at each height above the fork point.
LEMMA BlockAtFacts ==
  ASSUME Grounded, NEW b \in Block, Connects(b), NEW i \in 1..Size(b)
  PROVE  /\ BlockAt(b, i) \in BranchOf(b)
         /\ BlockAt(b, i) \in Lineage(b)
         /\ BlockAt(b, i) \in Block \ {Genesis}
         /\ BlockAt(b, i) \in Valid
         /\ Height[BlockAt(b, i)] = Height[Fork(b)] + i
<1>1. /\ b # Genesis
      /\ BranchOf(b) \subseteq Lineage(b)
      /\ BranchOf(b) \subseteq Pooled(pool) \cup {b}
      /\ Fork(b) \in Block
      /\ Size(b) \in Nat \ {0}
      /\ \A c \in Lineage(b) : Height[Fork(b)] < Height[c] => c \in BranchOf(b)
  BY BranchFacts DEF Grounded, IsChain, Connects
<1>2. Height[b] \in Nat /\ Height[Fork(b)] \in Nat
  BY <1>1, BlockTreeAssumption
<1>3. Height[Fork(b)] + i \in 0..Height[b]
  BY <1>1, <1>2 DEF Size
<1>4. PICK a \in Lineage(b) : Height[a] = Height[Fork(b)] + i
  BY <1>3, LineageIsComplete
<1>5. a \in BranchOf(b)
  BY <1>1, <1>2, <1>4
<1>6. BlockAt(b, i) \in BranchOf(b) /\ Height[BlockAt(b, i)] = Height[Fork(b)] + i
  BY <1>4, <1>5 DEF BlockAt
<1>. QED  BY <1>1, <1>6, AncestorsAreBelow DEF Lineage, Connects, Grounded, TypeOK

\* The branch blocks follow one another from the fork point to the new top.
LEMMA BranchIsPath ==
  ASSUME Grounded, NEW b \in Block, Connects(b), NEW i \in 1..Size(b)
  PROVE  /\ i = 1 => Parent[BlockAt(b, i)] = Fork(b)
         /\ i > 1 => Parent[BlockAt(b, i)] = BlockAt(b, i - 1)
         /\ i = Size(b) => BlockAt(b, i) = b
         /\ Fork(b) \in Lineage(BlockAt(b, i))
<1> DEFINE a == BlockAt(b, i)
<1>1. /\ a \in Lineage(b)
      /\ a \in Block \ {Genesis}
      /\ Height[a] = Height[Fork(b)] + i
  BY BlockAtFacts
<1>2. Fork(b) \in Ancestors[b] /\ Fork(b) \in Block /\ Size(b) \in Nat \ {0}
  BY BranchFacts DEF Grounded, IsChain, Connects
<1>3. /\ Height[Fork(b)] \in Nat
      /\ Height[b] = Height[Fork(b)] + Size(b)
  BY <1>2, BlockTreeAssumption DEF Size
<1>4. Parent[a] \in Lineage(b) /\ Height[Parent[a]] = Height[Fork(b)] + i - 1
  <2>1. Parent[a] \in Lineage(b)
    BY <1>1, LineageIsComplete DEF Lineage
  <2>2. Height[a] = Height[Parent[a]] + 1 /\ Height[Parent[a]] \in Nat
    BY <1>1, BlockTreeAssumption
  <2>. QED  BY <1>1, <1>3, <2>1, <2>2
<1>5. Fork(b) \in Lineage(b) /\ b \in Lineage(b)
  BY <1>2 DEF Lineage
<1>6. i = 1 => Parent[a] = Fork(b)
  BY <1>3, <1>4, <1>5, OnePerHeight
<1>7. ASSUME i > 1 PROVE Parent[a] = BlockAt(b, i - 1)
  <2>1. i - 1 \in 1..Size(b)
    BY <1>2, <1>7
  <2>2. /\ BlockAt(b, i - 1) \in Lineage(b)
        /\ Height[BlockAt(b, i - 1)] = Height[Fork(b)] + (i - 1)
    BY <2>1, BlockAtFacts
  <2>3. Height[BlockAt(b, i - 1)] = Height[Parent[a]]
    BY <2>2, <1>3, <1>4
  <2>. HIDE DEF a
  <2>. QED  BY <2>2, <2>3, <1>4, OnePerHeight
<1>8. i = Size(b) => a = b
  BY <1>1, <1>3, <1>5, OnePerHeight
<1>9. Fork(b) \in Lineage(a)
  BY <1>1, <1>3, <1>5, LineageIsOrdered
<1>. QED  BY <1>6, <1>7, <1>8, <1>9

\* Popping leaves a chain.
LEMMA TruncatedIsChain ==
  ASSUME NEW n \in Nat, NEW c, IsChain(c, n), NEW m \in 0..n
  PROVE  IsChain([k \in 0..m |-> c[k]], m)
BY DEF IsChain

\* Popping to the fork point and pushing a prefix of the branch gives a chain.
LEMMA PushedIsChain ==
  ASSUME Grounded, NEW b \in Block, Connects(b), NEW n \in 0..Size(b)
  PROVE  IsChain(Pushed(b, n), ForkHeight(b) + n)
<1> DEFINE f == ForkHeight(b)
           c == Pushed(b, n)
<1>1. /\ f \in 0..top
      /\ f \in Nat
      /\ f = Height[Fork(b)]
      /\ chain[f] = Fork(b)
      /\ Size(b) \in Nat
      /\ n \in Nat
  BY ForkHeightFacts DEF Grounded, TypeOK
<1>2. /\ c = [h \in 0..f + n |-> IF h <= f THEN chain[h] ELSE BlockAt(b, h - f)]
      /\ \A h \in 0..f : c[h] = chain[h]
      /\ \A h \in f + 1 .. f + n : h - f \in 1..Size(b) /\ c[h] = BlockAt(b, h - f)
  BY <1>1 DEF Pushed
<1>. HIDE DEF c, f
<1>3. ASSUME NEW h \in f + 1 .. f + n
      PROVE  /\ c[h] \in Lineage(b)
             /\ c[h] \in Block \ {Genesis}
             /\ c[h] \in Valid
             /\ Height[c[h]] = h
             /\ Fork(b) \in Lineage(c[h])
  <2>1. h - f \in 1..Size(b) /\ c[h] = BlockAt(b, h - f)
    BY <1>2
  <2>2. /\ c[h] \in Lineage(b)
        /\ c[h] \in Block \ {Genesis}
        /\ c[h] \in Valid
        /\ Height[c[h]] = Height[Fork(b)] + (h - f)
    BY <2>1, BlockAtFacts
  <2>3. Fork(b) \in Lineage(c[h])
    BY <2>1, BranchIsPath
  <2>. QED  BY <2>2, <2>3, <1>1
<1>4. ASSUME NEW h \in 0..f
      PROVE  /\ c[h] \in Block
             /\ c[h] \in Valid
             /\ Height[c[h]] = h
             /\ c[h] \in Lineage(Fork(b))
  <2>1. c[h] = chain[h] /\ h \in 0..top /\ h <= f
    BY <1>1, <1>2 DEF Grounded, TypeOK
  <2>. QED  BY <2>1, <1>1 DEF Grounded, IsChain
<1>. top \in Nat
  BY DEF Grounded, TypeOK
<1>5. c \in [0..f + n -> Block] /\ c[0] = Genesis
  <2>1. \A h \in 0..f + n : h \in 0..f \/ h \in f + 1 .. f + n
    BY <1>1
  <2>2. \A h \in 0..f + n : c[h] \in Block
    BY <2>1, <1>3, <1>4
  <2>3. chain[0] = Genesis /\ 0 \in 0..f
    BY <1>1 DEF Grounded, IsChain
  <2>. QED  BY <2>2, <2>3, <1>2
<1>6. ASSUME NEW h \in 1..f + n
      PROVE  c[h] # Genesis /\ Parent[c[h]] = c[h - 1]
  <2>1. CASE h <= f
    <3>1. h \in 0..f /\ h - 1 \in 0..f /\ h \in 1..top
      BY <2>1, <1>1
    <3>2. c[h] = chain[h] /\ c[h - 1] = chain[h - 1]
      BY <3>1, <1>2
    <3>. QED  BY <3>1, <3>2 DEF Grounded, IsChain
  <2>2. CASE h = f + 1
    <3>1. h - f = 1 /\ 1 \in 1..Size(b) /\ h \in f + 1 .. f + n /\ h - 1 = f
      BY <2>2, <1>1
    <3>2. Parent[BlockAt(b, 1)] = Fork(b)
      BY <3>1, BranchIsPath
    <3>3. c[h] = BlockAt(b, h - f)
      BY <3>1, <1>2
    <3>4. c[f] = chain[f]
      BY <1>1, <1>2
    <3>. QED  BY <3>1, <3>2, <3>3, <3>4, <1>1, <1>3
  <2>3. CASE h > f + 1
    <3>1. /\ h - f \in 1..Size(b) /\ h - f > 1
          /\ h \in f + 1 .. f + n /\ h - 1 \in f + 1 .. f + n
          /\ (h - 1) - f = (h - f) - 1
      BY <2>3, <1>1
    <3>2. Parent[BlockAt(b, h - f)] = BlockAt(b, (h - f) - 1)
      BY <3>1, BranchIsPath
    <3>3. c[h] = BlockAt(b, h - f) /\ c[h - 1] = BlockAt(b, (h - 1) - f)
      BY <3>1, <1>2
    <3>. QED  BY <3>1, <3>2, <3>3, <1>3
  <2>. QED  BY <2>1, <2>2, <2>3, <1>1
<1>7. ASSUME NEW i \in 0..f + n, NEW j \in 0..f + n, i <= j
      PROVE  c[i] \in Lineage(c[j])
  <2>1. CASE j <= f
    <3>1. /\ i \in 0..f /\ j \in 0..f
          /\ i \in 0..top /\ j \in 0..top
      BY <2>1, <1>1, <1>7
    <3>2. c[i] = chain[i] /\ c[j] = chain[j]
      BY <3>1, <1>2
    <3>. QED  BY <3>1, <3>2, <1>7 DEF Grounded, IsChain
  <2>2. CASE i <= f /\ f < j
    <3>1. j \in f + 1 .. f + n /\ i \in 0..f
      BY <2>2, <1>1
    <3>2. Fork(b) \in Lineage(c[j]) /\ c[j] \in Block
      BY <3>1, <1>3
    <3>3. Lineage(Fork(b)) \subseteq Lineage(c[j])
      BY <3>2, AncestorsAreBelow DEF Lineage
    <3>. QED  BY <3>1, <3>3, <1>4
  <2>3. CASE f < i
    <3>1. i \in f + 1 .. f + n /\ j \in f + 1 .. f + n
      BY <2>3, <1>1, <1>7
    <3>2. /\ c[i] \in Lineage(b) /\ c[j] \in Lineage(b)
          /\ Height[c[i]] <= Height[c[j]]
      BY <3>1, <1>3, <1>7
    <3>. HIDE DEF c
    <3>. QED  BY <3>2, LineageIsOrdered
  <2>. QED  BY <2>1, <2>2, <2>3, <1>1
<1>8. \A h \in 0..f + n : c[h] \in Valid /\ Height[c[h]] = h
  BY <1>1, <1>3, <1>4
<1>9. IsChain(c, f + n)
  BY <1>5, <1>6, <1>7, <1>8 DEF IsChain
<1>. QED  BY <1>9 DEF c, f

-----------------------------------------------------------------------------
(* The pool. *)

IsPool(p) == p \in [Pooled(p) -> PoolEntry] /\ Pooled(p) \subseteq Block

LEMMA ReplantFacts ==
  ASSUME NEW p, IsPool(p), NEW gone
  PROVE  IsPool(Replant(p, gone)) /\ Pooled(Replant(p, gone)) = Pooled(p) \ gone
BY DEF IsPool, Replant, Pooled, PoolEntry

LEMMA AddAllFacts ==
  ASSUME NEW p, IsPool(p), NEW new \in SUBSET Block, NEW copied \in [new -> Nat]
  PROVE  /\ IsPool(AddAll(p, new, copied))
         /\ Pooled(AddAll(p, new, copied)) = Pooled(p) \cup new
<1> DEFINE q == AddAll(p, new, copied)
           adopted(b) == {c \in new : c # Genesis /\ Parent[c] = b}
<1>1. DOMAIN q = Pooled(p) \cup new
  BY DEF AddAll
<1>2. ASSUME NEW b \in Pooled(p) PROVE q[b] \in PoolEntry
  <2>1. q[b] = [p[b] EXCEPT !.children = @ \cup adopted(b)]
    BY DEF AddAll
  <2>2. p[b] \in PoolEntry /\ adopted(b) \in SUBSET Block
    BY DEF IsPool
  <2>. HIDE DEF adopted, q
  <2>. QED  BY <2>1, <2>2 DEF PoolEntry
<1>3. ASSUME NEW b \in new \ Pooled(p) PROVE q[b] \in PoolEntry
  BY DEF AddAll, PoolEntry
<1>4. q = [b \in DOMAIN q |-> q[b]]
  BY DEF AddAll
<1>5. q \in [Pooled(q) -> PoolEntry]
  <2>. HIDE DEF q
  <2>. QED  BY <1>1, <1>2, <1>3, <1>4 DEF Pooled
<1>. QED  BY <1>1, <1>5 DEF Pooled, IsPool

LEMMA PoolAfterFacts ==
  ASSUME Grounded, NEW b \in Block, Connects(b)
  PROVE  /\ IsPool(PoolAfter(b))
         /\ Outgoing(b) \subseteq Block \ {Genesis}
         /\ Outgoing(b) \subseteq InChain
         /\ Pooled(PoolAfter(b)) \subseteq (Pooled(pool) \ BranchOf(b)) \cup Outgoing(b)
         /\ Outgoing(b) \subseteq Pooled(PoolAfter(b))
<1>1. /\ Outgoing(b) \subseteq Block \ {Genesis}
      /\ Outgoing(b) \subseteq InChain
  BY ForkHeightFacts DEF Grounded, IsChain, TypeOK, Outgoing, InChain
<1>2. IsPool(pool)
  BY DEF Grounded, TypeOK, IsPool
<1> DEFINE removed == Remove(pool, BranchOf(b))
           pruned == Prune(removed, TopHeight(b), MaximumDepth)
           copied == [x \in Outgoing(b) |-> 0]
<1>3. IsPool(removed) /\ Pooled(removed) = Pooled(pool) \ BranchOf(b)
  BY <1>2, ReplantFacts DEF Remove
<1>4. IsPool(pruned) /\ Pooled(pruned) \subseteq Pooled(removed)
  <2>. HIDE DEF removed
  <2>. QED  BY <1>3, ReplantFacts DEF Prune
<1>5. copied \in [Outgoing(b) -> Nat]
  OBVIOUS
<1>6. PoolAfter(b) = AddAll(pruned, Outgoing(b), copied)
  BY DEF PoolAfter
<1>7. IsPool(PoolAfter(b)) /\ Pooled(PoolAfter(b)) = Pooled(pruned) \cup Outgoing(b)
  <2>. HIDE DEF pruned, copied
  <2>1. Outgoing(b) \in SUBSET Block
    BY <1>1
  <2>. QED  BY <2>1, <1>4, <1>5, <1>6, AddAllFacts
<1>. QED  BY <1>1, <1>3, <1>4, <1>7

-----------------------------------------------------------------------------
(* The invariant holds initially. *)

LEMMA InitConsistent == Init => Consistent
<1>. SUFFICES ASSUME Init PROVE Consistent
  OBVIOUS
<1>1. top = 0 /\ chain = [h \in 0..0 |-> Genesis] /\ chain[0] = Genesis
  BY DEF Init
<1>2. pool = EmptyPool /\ Pooled(pool) = {}
  BY DEF Init, EmptyPool, Pooled
<1>3. TypeOK
  <2>1. pool \in [Pooled(pool) -> PoolEntry]
    BY <1>2 DEF EmptyPool, Pooled
  <2>2. chain \in [0..top -> Block] /\ top \in Nat
    BY <1>1, BlockTreeAssumption
  <2>3. pool_state \in [height : Nat, parent : Block]
    BY BlockTreeAssumption DEF Init, StateOfNext
  <2>. QED  BY <1>2, <2>1, <2>2, <2>3 DEF Init, TypeOK, Codes
<1>4. ChainIsPath /\ ChainIsLineage
  BY <1>1, BlockTreeAssumption DEF ChainIsPath, ChainIsLineage, InChain, Lineage
<1>5. CacheDescribesChain
  BY <1>1 DEF Init, StateOfNext, CacheDescribesChain
<1>. QED  BY <1>2, <1>3, <1>4, <1>5
          DEF Consistent, PoolIsValid, PoolIsDisjoint, ChainIsHeaviest

-----------------------------------------------------------------------------
(* The invariant is preserved, one lemma for each action that writes. *)

\* A chain with the pool keys kept apart from it, as parts of Consistent'.
LEMMA ChainNext ==
  ASSUME top' \in Nat, IsChain(chain', top')
  PROVE  ChainIsPath' /\ ChainIsLineage' /\ chain' \in [0..top' -> Block]
BY DEF IsChain, ChainIsPath, ChainIsLineage, InChain

LEMMA ConsistentIsChain ==
  ASSUME Consistent PROVE IsChain(chain, top) /\ top \in Nat
BY GroundedFromConsistent DEF Grounded, Consistent, TypeOK

LEMMA AnswerPreserves ==
  ASSUME Consistent, NEW code \in Codes, Answer(code), UNCHANGED pool
  PROVE  Consistent'
BY DEF Consistent, Answer, TypeOK, ChainIsPath, ChainIsLineage, PoolIsValid,
       PoolIsDisjoint, CacheDescribesChain, ChainIsHeaviest, InChain, Pooled

\* The work above the fork point decides, so the totals compare the same way.
LEMMA HeavierIsMoreWork ==
  ASSUME Grounded, NEW b \in Block, Connects(b)
  PROVE  /\ IsHeavier(b) <=> TotalWork[b] > TotalWork[chain[top]]
         /\ TotalWork[b] \in Nat
         /\ TotalWork[chain[top]] \in Nat
<1>1. chain[ForkHeight(b)] = Fork(b) /\ Fork(b) \in Block
  BY BranchFacts DEF Grounded, IsChain, Connects
<1>2. chain[top] \in Block
  BY DEF Grounded, TypeOK, IsChain
<1>3. TotalWork[b] \in Nat /\ TotalWork[Fork(b)] \in Nat /\ TotalWork[chain[top]] \in Nat
  BY <1>1, <1>2, BlockTreeAssumption
<1>. QED  BY <1>1, <1>3 DEF IsHeavier, BranchWork, Threshold

LEMMA WeakPreserves ==
  ASSUME Consistent, NEW b \in Block, NEW simulate \in BOOLEAN, OrganizeWeak(b, simulate)
  PROVE  Consistent'
<1>1. Connects(b) /\ ~IsHeavier(b) /\ Grounded
  BY GroundedFromConsistent DEF OrganizeWeak
<1>2. CASE simulate
  <2>1. Answer("insufficient_work") /\ UNCHANGED pool
    BY <1>2 DEF OrganizeWeak
  <2>. QED  BY <2>1, AnswerPreserves DEF Codes
<1>3. CASE ~simulate
  <2> DEFINE copied == [x \in {b} |-> TopHeight(b)]
  <2>1. pool' = AddAll(pool, {b}, copied)
    BY <1>3 DEF OrganizeWeak, Add
  <2>2. copied \in [{b} -> Nat]
    BY <1>1, ForkHeightFacts, BlockTreeAssumption
  <2>3. IsPool(pool') /\ Pooled(pool') = Pooled(pool) \cup {b}
    <3>. HIDE DEF copied
    <3>. QED  BY <2>1, <2>2, AddAllFacts DEF Consistent, TypeOK, IsPool
  <2>4. b # Genesis /\ b \notin InChain /\ b \in Valid
    BY <1>1, BranchFacts DEF Grounded, IsChain, Connects
  <2>5. TotalWork[b] <= TotalWork[chain[top]]
    BY <1>1, HeavierIsMoreWork
  <2>6. UNCHANGED <<top, chain, unstamped, pool_state, stopped, corrupt>> /\ result' \in Codes
    BY DEF OrganizeWeak, Answer, Codes
  <2>7. TypeOK' /\ ChainIsPath' /\ ChainIsLineage' /\ CacheDescribesChain'
    BY <2>3, <2>6 DEF Consistent, TypeOK, IsPool, ChainIsPath, ChainIsLineage, CacheDescribesChain, InChain
  <2>8. PoolIsValid' /\ Genesis \notin Pooled(pool') /\ PoolIsDisjoint' /\ ChainIsHeaviest'
    BY <2>3, <2>4, <2>5, <2>6
       DEF Consistent, PoolIsValid, PoolIsDisjoint, ChainIsHeaviest, InChain
  <2>. QED  BY <2>7, <2>8 DEF Consistent, Pooled
<1>. QED  BY <1>2, <1>3

\* A failed reorganization leaves a chain, and sets corrupt.
LEMMA FailurePreserves ==
  ASSUME Consistent, top' \in Nat, IsChain(chain', top'), unstamped' \subseteq Block,
         corrupt' = TRUE, result' \in Codes, UNCHANGED <<pool, pool_state, stopped>>
  PROVE  Consistent'
<1>1. ChainIsPath' /\ ChainIsLineage' /\ chain' \in [0..top' -> Block]
  BY ChainNext
<1>. QED  BY <1>1 DEF Consistent, TypeOK, PoolIsValid, PoolIsDisjoint,
                      CacheDescribesChain, ChainIsHeaviest, Pooled

LEMMA FailPopPreserves ==
  ASSUME Consistent, NEW b \in Block, NEW h \in 0..top, FailPop(b, h)
  PROVE  Consistent'
<1>1. IsChain(chain, top) /\ top \in Nat
  BY ConsistentIsChain
<1>2. top' \in Nat /\ IsChain(chain', top')
  BY <1>1, TruncatedIsChain DEF FailPop
<1>3. unstamped' \subseteq Block
  BY DEF FailPop, Consistent, TypeOK
<1>. QED  BY <1>2, <1>3, FailurePreserves DEF FailPop, Codes

LEMMA UnstampedFacts ==
  ASSUME Grounded, NEW b \in Block, Connects(b)
  PROVE  Unstamped(b) \subseteq Block
BY BranchFacts DEF Unstamped, Grounded, IsChain, Connects, TypeOK

LEMMA FailPushPreserves ==
  ASSUME Consistent, NEW b \in Block, NEW n \in Nat, FailPush(b, n)
  PROVE  Consistent'
<1>1. Connects(b) /\ Grounded
  BY GroundedFromConsistent DEF FailPush
<1>2. n \in 0..Size(b) /\ ForkHeight(b) + n \in Nat
  BY <1>1, ForkHeightFacts DEF FailPush, Grounded, TypeOK
<1>3. top' \in Nat /\ IsChain(chain', top')
  BY <1>1, <1>2, PushedIsChain DEF FailPush
<1>4. unstamped' \subseteq Block
  BY <1>1, UnstampedFacts DEF FailPush, Consistent, TypeOK
<1>. QED  BY <1>3, <1>4, FailurePreserves DEF FailPush, Codes

\* What a reorganization leaves in the pool is in no chain block's way.
LEMMA ReorganizeDisjoint ==
  ASSUME Consistent, NEW b \in Block, Reorganize(b), ~corrupt
  PROVE  PoolIsDisjoint'
<1>1. Connects(b) /\ Grounded
  BY GroundedFromConsistent DEF Reorganize
<1>2. /\ top' = ForkHeight(b) + Size(b)
      /\ ForkHeight(b) \in 0..top
      /\ Size(b) \in Nat
      /\ top \in Nat
  BY <1>1, ForkHeightFacts DEF Reorganize, TopHeight, Grounded, TypeOK
<1>3. ASSUME NEW h \in 0..top' PROVE chain'[h] \notin Pooled(pool')
  <2>1. CASE h <= ForkHeight(b)
    <3>1. h \in 0..top /\ chain'[h] = chain[h]
      BY <2>1, <1>2 DEF Reorganize, Pushed
    <3>2. chain[h] \notin Pooled(pool)
      BY <3>1 DEF Consistent, PoolIsDisjoint, InChain
    <3>3. chain[h] \notin Outgoing(b)
      <4>1. ASSUME NEW k \in ForkHeight(b) + 1 .. top PROVE chain[k] # chain[h]
        <5>1. k \in 0..top /\ k # h
          BY <2>1, <1>2
        <5>. QED  BY <5>1, <3>1, <1>1 DEF Grounded, IsChain
      <4>. QED  BY <4>1 DEF Outgoing
    <3>. QED  BY <3>1, <3>2, <3>3, <1>1, PoolAfterFacts DEF Reorganize, Pooled
  <2>2. CASE h > ForkHeight(b)
    <3>1. h - ForkHeight(b) \in 1..Size(b) /\ chain'[h] = BlockAt(b, h - ForkHeight(b))
      BY <2>2, <1>2 DEF Reorganize, Pushed
    <3>2. chain'[h] \in BranchOf(b)
      BY <3>1, <1>1, BlockAtFacts
    <3>3. chain'[h] \notin InChain
      <4>1. BranchOf(b) \subseteq Pooled(pool) \cup {b} /\ b \notin InChain
        BY <1>1, BranchFacts DEF Grounded, IsChain, Connects
      <4>. QED  BY <4>1, <3>2 DEF Consistent, PoolIsDisjoint
    <3>. QED  BY <3>2, <3>3, <1>1, PoolAfterFacts DEF Reorganize, Pooled
  <2>. QED  BY <2>1, <2>2, <1>2
<1>. QED  BY <1>3 DEF PoolIsDisjoint, InChain

\* A promoted state already describes the block; the other is made for it.
LEMMA ReorganizeCache ==
  ASSUME Consistent, NEW b \in Block, Reorganize(b), ~corrupt
  PROVE  CacheDescribesChain'
<1>1. Connects(b) /\ Grounded
  BY GroundedFromConsistent DEF Reorganize
<1>2. /\ top' = ForkHeight(b) + Size(b)
      /\ top' = TopHeight(b)
      /\ ForkHeight(b) \in 0..top
      /\ Size(b) \in Nat \ {0}
      /\ top \in Nat
      /\ top' \in Nat \ {0}
  BY <1>1, ForkHeightFacts DEF Reorganize, TopHeight, Grounded, TypeOK
<1>3. /\ IsChain(chain', top')
      /\ chain'[top'] = b
  <2>1. IsChain(chain', top')
    <3>1. Size(b) \in 0..Size(b)
      BY <1>2
    <3>. QED  BY <3>1, <1>1, <1>2, PushedIsChain DEF Reorganize
  <2>2. chain'[top'] = BlockAt(b, Size(b))
    BY <1>2 DEF Reorganize, Pushed
  <2>3. BlockAt(b, Size(b)) = b
    <3>1. Size(b) \in 1..Size(b)
      BY <1>2
    <3>. QED  BY <3>1, <1>1, BranchIsPath
  <2>. QED  BY <2>1, <2>2, <2>3
<1>4. Parent[b] = chain'[top' - 1]
  BY <1>2, <1>3 DEF IsChain
<1>5. pool_state' = StateOf(b)
  BY DEF Reorganize
<1>6. CASE IsPromoted(b)
  <2>1. pool_state' = pool_state /\ pool_state.height = top' /\ Size(b) = 1
    BY <1>2, <1>5, <1>6 DEF StateOf, IsPromoted
  <2>2. pool_state.parent = chain[top' - 1]
    BY <2>1 DEF Consistent, CacheDescribesChain
  <2>3. chain'[top' - 1] = chain[top' - 1]
    BY <2>1, <1>2 DEF Reorganize, Pushed
  <2>. QED  BY <2>1, <2>2, <2>3, <1>2 DEF CacheDescribesChain
<1>7. CASE ~IsPromoted(b)
  <2>1. pool_state' = [height |-> top', parent |-> Parent[b]]
    BY <1>2, <1>5, <1>7 DEF StateOf
  <2>. QED  BY <2>1, <1>2, <1>4 DEF CacheDescribesChain
<1>. QED  BY <1>6, <1>7

\* The organized block becomes the top, with more work than the old one.
LEMMA ReorganizeWork ==
  ASSUME Consistent, NEW b \in Block, Reorganize(b)
  PROVE  /\ chain'[top'] = b
         /\ TotalWork[b] > TotalWork[chain[top]]
         /\ TotalWork[b] \in Nat
         /\ TotalWork[chain[top]] \in Nat
<1>1. Connects(b) /\ Grounded /\ IsHeavier(b)
  BY GroundedFromConsistent DEF Reorganize
<1>2. /\ top' = ForkHeight(b) + Size(b)
      /\ ForkHeight(b) \in Nat
      /\ Size(b) \in Nat \ {0}
      /\ Size(b) \in 1..Size(b)
  BY <1>1, ForkHeightFacts DEF Reorganize, TopHeight, Grounded, TypeOK
<1>3. chain'[top'] = BlockAt(b, Size(b))
  BY <1>2 DEF Reorganize, Pushed
<1>. QED  BY <1>1, <1>2, <1>3, BranchIsPath, HeavierIsMoreWork

\* Nothing that stays pooled, and nothing that was popped, outweighs the new top.
LEMMA ReorganizeHeaviest ==
  ASSUME Consistent, NEW b \in Block, Reorganize(b), ~corrupt
  PROVE  ChainIsHeaviest'
<1>1. Connects(b) /\ Grounded
  BY GroundedFromConsistent DEF Reorganize
<1>2. TotalWork[b] > TotalWork[chain[top]] /\ TotalWork[b] \in Nat /\ TotalWork[chain[top]] \in Nat
  BY ReorganizeWork
<1>3. chain'[top'] = b
  BY ReorganizeWork
<1>4. ASSUME NEW a \in Outgoing(b) PROVE TotalWork[a] <= TotalWork[chain[top]]
  <2>1. /\ top \in Nat
        /\ ForkHeight(b) \in 0..top
        /\ chain[top] \in Block
        /\ IsChain(chain, top)
    BY <1>1, ForkHeightFacts DEF Grounded, TypeOK
  <2>2. PICK k \in 0..top : a = chain[k]
    BY <2>1 DEF Outgoing
  <2>3. a \in Lineage(chain[top])
    BY <2>1, <2>2 DEF IsChain
  <2>4. CASE a = chain[top]
    BY <2>4, <1>2
  <2>5. CASE a \in Ancestors[chain[top]]
    <3>1. TotalWork[a] < TotalWork[chain[top]] /\ a \in Block
      BY <2>1, <2>5, AncestorsAreBelow
    <3>2. TotalWork[a] \in Nat
      BY <3>1, BlockTreeAssumption
    <3>. QED  BY <3>1, <3>2, <1>2
  <2>. QED  BY <2>3, <2>4, <2>5 DEF Lineage
<1>5. ASSUME NEW a \in Pooled(pool') PROVE TotalWork[a] <= TotalWork[b]
  <2>1. /\ a \in Pooled(pool) \/ a \in Outgoing(b)
        /\ a \in Block
    BY <1>1, PoolAfterFacts DEF Reorganize, Pooled, IsPool
  <2>2. TotalWork[a] <= TotalWork[chain[top]]
    BY <2>1, <1>4 DEF Consistent, ChainIsHeaviest
  <2>3. TotalWork[a] \in Nat
    BY <2>1, BlockTreeAssumption
  <2>. QED  BY <2>2, <2>3, <1>2
<1>. QED  BY <1>3, <1>5 DEF ChainIsHeaviest

LEMMA ReorganizePreserves ==
  ASSUME Consistent, NEW b \in Block, Reorganize(b)
  PROVE  Consistent'
<1>1. Connects(b) /\ Grounded
  BY GroundedFromConsistent DEF Reorganize
<1>2. top' \in Nat /\ IsChain(chain', top')
  <2>1. ForkHeight(b) + Size(b) \in Nat /\ Size(b) \in 0..Size(b)
    BY <1>1, ForkHeightFacts DEF Grounded, TypeOK
  <2>. QED  BY <2>1, <1>1, PushedIsChain DEF Reorganize, TopHeight
<1>3. ChainIsPath' /\ ChainIsLineage' /\ chain' \in [0..top' -> Block]
  BY <1>2, ChainNext
<1>4. /\ IsPool(pool')
      /\ Pooled(pool') \subseteq Pooled(pool) \cup Outgoing(b)
      /\ Outgoing(b) \subseteq InChain \ {Genesis}
  BY <1>1, PoolAfterFacts DEF Reorganize, Pooled
<1>5. PoolIsValid' /\ Genesis \notin Pooled(pool')
  BY <1>4 DEF Consistent, PoolIsValid, ChainIsPath
<1>6. unstamped' \subseteq Block
  BY <1>1, UnstampedFacts DEF Reorganize, Consistent, TypeOK
<1>7. pool_state' \in [height : Nat, parent : Block]
  <2>1. b \in Block \ {Genesis} /\ TopHeight(b) \in Nat
    BY <1>1, BranchFacts, ForkHeightFacts, BlockTreeAssumption DEF Grounded, IsChain, Connects
  <2>2. Parent[b] \in Block
    BY <2>1, BlockTreeAssumption
  <2>. QED  BY <2>1, <2>2 DEF Reorganize, StateOf, Consistent, TypeOK
<1>8. TypeOK'
  BY <1>2, <1>3, <1>4, <1>6, <1>7 DEF Reorganize, Consistent, TypeOK, IsPool, Codes
<1>9. PoolIsDisjoint' /\ CacheDescribesChain' /\ ChainIsHeaviest'
  <2>1. CASE corrupt
    BY <2>1 DEF Reorganize, PoolIsDisjoint, CacheDescribesChain, ChainIsHeaviest
  <2>2. CASE ~corrupt
    BY <2>2, ReorganizeDisjoint, ReorganizeCache, ReorganizeHeaviest
  <2>. QED  BY <2>1, <2>2
<1>. QED  BY <1>3, <1>5, <1>8, <1>9 DEF Consistent, Pooled

LEMMA StartPreserves ==
  ASSUME Consistent, Start
  PROVE  Consistent'
<1>1. Pooled(pool') = {} /\ pool' \in [Pooled(pool') -> PoolEntry]
  BY DEF Start, EmptyPool, Pooled
<1>2. top \in Nat /\ chain[top] \in Block /\ UNCHANGED <<top, chain, unstamped>>
  BY ConsistentIsChain DEF Start, IsChain
<1>3. pool_state' = [height |-> top + 1, parent |-> chain[top]]
  BY DEF Start, StateOfNext
<1>4. ChainIsPath' /\ ChainIsLineage'
  BY <1>2 DEF Consistent, ChainIsPath, ChainIsLineage, InChain
<1>. TypeOK'
  <2>1. chain' \in [0..top' -> Block] /\ top' \in Nat /\ unstamped' \subseteq Block
    BY <1>2 DEF Consistent, TypeOK
  <2>2. pool_state' \in [height : Nat, parent : Block]
    BY <1>2, <1>3
  <2>3. stopped' \in BOOLEAN /\ corrupt' \in BOOLEAN /\ result' \in Codes
    BY DEF Start, Codes
  <2>. QED  BY <1>1, <2>1, <2>2, <2>3 DEF TypeOK, Pooled
<1>5. CacheDescribesChain'
  BY <1>2, <1>3 DEF CacheDescribesChain
<1>. QED  BY <1>1, <1>4, <1>5 DEF Consistent, PoolIsValid, PoolIsDisjoint, ChainIsHeaviest

-----------------------------------------------------------------------------
(* Every step. *)

LEMMA NextPreserves == Consistent /\ [Next]_vars => Consistent'
<1>. SUFFICES ASSUME Consistent, [Next]_vars PROVE Consistent'
  OBVIOUS
<1>1. CASE OrganizeStopped
  BY <1>1, AnswerPreserves DEF OrganizeStopped, Codes
<1>2. ASSUME NEW b \in Block, OrganizeInvalid(b) PROVE Consistent'
  BY <1>2, AnswerPreserves DEF OrganizeInvalid, Codes
<1>3. ASSUME NEW b \in Block, OrganizeDuplicate(b) PROVE Consistent'
  BY <1>3, AnswerPreserves DEF OrganizeDuplicate, Codes
<1>4. ASSUME NEW b \in Block, OrganizeOrphan(b) PROVE Consistent'
  BY <1>4, AnswerPreserves DEF OrganizeOrphan, Codes
<1>5. ASSUME NEW b \in Block, OrganizeUnreadable(b) PROVE Consistent'
  BY <1>5, AnswerPreserves DEF OrganizeUnreadable, Codes
<1>6. ASSUME NEW b \in Block, NEW simulate \in BOOLEAN, OrganizeWeak(b, simulate)
      PROVE  Consistent'
  BY <1>6, WeakPreserves
<1>7. ASSUME NEW b \in Block, OrganizeDoubleSpend(b) PROVE Consistent'
  BY <1>7, AnswerPreserves DEF OrganizeDoubleSpend, Codes
<1>8. ASSUME NEW b \in Block, OrganizeSimulated(b) PROVE Consistent'
  BY <1>8, AnswerPreserves DEF OrganizeSimulated, Codes
<1>9. ASSUME NEW b \in Block, Reorganize(b) PROVE Consistent'
  BY <1>9, ReorganizePreserves
<1>10. ASSUME NEW b \in Block, NEW h \in 0..top, FailPop(b, h) PROVE Consistent'
  BY <1>10, FailPopPreserves
<1>11. ASSUME NEW b \in Block, NEW n \in 0..Height[b], FailPush(b, n) PROVE Consistent'
  BY <1>11, FailPushPreserves
<1>12. CASE Stop
  BY <1>12 DEF Stop, Consistent, TypeOK, ChainIsPath, ChainIsLineage, PoolIsValid,
               PoolIsDisjoint, CacheDescribesChain, ChainIsHeaviest, InChain, Pooled
<1>13. CASE Start
  BY <1>13, StartPreserves
<1>14. CASE UNCHANGED vars
  BY <1>14 DEF vars, Consistent, TypeOK, ChainIsPath, ChainIsLineage, PoolIsValid,
               PoolIsDisjoint, CacheDescribesChain, ChainIsHeaviest, InChain, Pooled
<1>. QED  BY <1>1, <1>2, <1>3, <1>4, <1>5, <1>6, <1>7, <1>8, <1>9, <1>10, <1>11,
             <1>12, <1>13, <1>14 DEF Next

\* Whatever is offered and whatever fails, the organizer's state is consistent.
THEOREM Consistency == Spec => []Consistent
BY InitConsistent, NextPreserves, PTL DEF Spec

\* organize, start and stop keep every variable in its range.
THEOREM TypeCorrectness == Spec => []TypeOK
<1>1. Consistent => TypeOK
  BY DEF Consistent
<1>. QED  BY <1>1, Consistency, PTL

\* pop_above and push_all, complete or cut short, leave a path from genesis.
THEOREM ChainIsAlwaysPath == Spec => []ChainIsPath
<1>1. Consistent => ChainIsPath
  BY DEF Consistent
<1>. QED  BY <1>1, Consistency, PTL

\* handle_connect pools only blocks that were accepted and connected.
THEOREM PoolIsAlwaysValid == Spec => []PoolIsValid
<1>1. Consistent => PoolIsValid
  BY DEF Consistent
<1>. QED  BY <1>1, Consistency, PTL

\* As long as no reorganization fails, the pool stays apart from the chain.
THEOREM PoolIsAlwaysDisjoint == Spec => []PoolIsDisjoint
<1>1. Consistent => PoolIsDisjoint
  BY DEF Consistent
<1>. QED  BY <1>1, Consistency, PTL

\* As long as no reorganization fails, nothing pooled outweighs the chain.
THEOREM ChainIsAlwaysHeaviest == Spec => []ChainIsHeaviest
<1>1. Consistent => ChainIsHeaviest
  BY DEF Consistent
<1>. QED  BY <1>1, Consistency, PTL

\* The cached chain state names the chain block below the height it is for.
THEOREM CacheAlwaysDescribesChain == Spec => []CacheDescribesChain
<1>1. Consistent => CacheDescribesChain
  BY DEF Consistent
<1>. QED  BY <1>1, Consistency, PTL

\* populate_chain_state promotes only a state collected for the parent of the
\* block, although the height it compares is that of the top or of its successor.
THEOREM PromotionIsSound == Spec => []PromotedContext
<1>1. Consistent => PromotedContext
  <2>. SUFFICES ASSUME Consistent, NEW b \in Block, ~corrupt, Connects(b), IsPromoted(b)
                PROVE  StateOf(b).parent = Parent[b]
    BY DEF PromotedContext
  <2>1. Grounded
    BY GroundedFromConsistent
  <2>2. /\ ForkHeight(b) \in 0..top
        /\ chain[ForkHeight(b)] = Fork(b)
        /\ pool_state.height = ForkHeight(b) + 1
    BY <2>1, ForkHeightFacts DEF IsPromoted, TopHeight
  <2>3. Parent[b] = Fork(b)
    <3>1. 1 \in 1..Size(b) /\ Size(b) = 1
      BY DEF IsPromoted
    <3>. QED  BY <3>1, <2>1, BranchIsPath
  <2>4. pool_state.parent = chain[pool_state.height - 1]
    BY DEF Consistent, CacheDescribesChain
  <2>. QED  BY <2>1, <2>2, <2>3, <2>4 DEF StateOf, Grounded, TypeOK
<1>. QED  BY <1>1, Consistency, PTL

\* handle_connect reorganizes only to more work than the chain it replaces.
THEOREM WorkAlwaysIncreases == Spec => WorkIncreases
<1> DEFINE Gain == result' = "success" /\ chain' # chain =>
                     TotalWork[chain'[top']] > TotalWork[chain[top]]
<1>1. Consistent /\ [Next]_vars => [Gain]_vars
  <2>. SUFFICES ASSUME Consistent, Next, chain' # chain, result' = "success"
                PROVE  TotalWork[chain'[top']] > TotalWork[chain[top]]
    OBVIOUS
  <2>1. PICK b \in Block : Reorganize(b)
    BY DEF Next, OrganizeStopped, OrganizeInvalid, OrganizeDuplicate, OrganizeOrphan,
           OrganizeUnreadable, OrganizeWeak, OrganizeDoubleSpend, OrganizeSimulated,
           FailPop, FailPush, Stop, Start, Answer
  <2>. QED  BY <2>1, ReorganizeWork
<1>. QED  BY <1>1, Consistency, PTL DEF Spec, WorkIncreases

\* handle_reorganized pools every block it takes from the chain; the other steps
\* that do not fail take none.
THEOREM NothingIsForgotten == Spec => NothingForgotten
<1> DEFINE Kept == ~corrupt' => InChain \ InChain' \subseteq Pooled(pool')
<1>1. Consistent /\ [Next]_vars => [Kept]_vars
  <2>. SUFFICES ASSUME Consistent, Next, ~corrupt' PROVE InChain \ InChain' \subseteq Pooled(pool')
    OBVIOUS
  <2>1. CASE UNCHANGED <<top, chain>>
    BY <2>1 DEF InChain
  <2>2. ASSUME NEW b \in Block, Reorganize(b)
        PROVE  InChain \ InChain' \subseteq Pooled(pool')
    <3>1. Connects(b) /\ Grounded
      BY <2>2, GroundedFromConsistent DEF Reorganize
    <3>2. /\ top' = ForkHeight(b) + Size(b)
          /\ ForkHeight(b) \in 0..top
          /\ Size(b) \in Nat
          /\ top \in Nat
      BY <2>2, <3>1, ForkHeightFacts DEF Reorganize, TopHeight, Grounded, TypeOK
    <3>3. ASSUME NEW h \in 0..ForkHeight(b) PROVE chain[h] \in InChain'
      <4>1. h \in 0..top' /\ chain'[h] = chain[h]
        BY <2>2, <3>2 DEF Reorganize, Pushed
      <4>. QED  BY <4>1 DEF InChain
    <3>4. ASSUME NEW h \in ForkHeight(b) + 1 .. top PROVE chain[h] \in Pooled(pool')
      BY <2>2, <3>1, PoolAfterFacts DEF Reorganize, Outgoing, Pooled
    <3>5. \A h \in 0..top : h \in 0..ForkHeight(b) \/ h \in ForkHeight(b) + 1 .. top
      BY <3>2
    <3>. QED  BY <3>3, <3>4, <3>5 DEF InChain
  <2>. QED  BY <2>1, <2>2
            DEF Next, OrganizeStopped, OrganizeInvalid, OrganizeDuplicate, OrganizeOrphan,
                OrganizeUnreadable, OrganizeWeak, OrganizeDoubleSpend, OrganizeSimulated,
                FailPop, FailPush, Stop, Start, Answer
<1>. QED  BY <1>1, Consistency, PTL DEF Spec, NothingForgotten

-----------------------------------------------------------------------------
(***************************************************************************)
(* The organizer implements BestChain: whatever happens to the entries of  *)
(* the pool and to the header table, the chain only moves to more work,    *)
(* and nothing valid is dropped that is not buried.                        *)
(***************************************************************************)

-----------------------------------------------------------------------------
(* The shape of the pool: keys and heights are those of the tree or zero,  *)
(* and back pointers follow the tree.                                      *)

IsForest(p) ==
  /\ IsPool(p)
  /\ \A b \in Pooled(p) :
       /\ p[b].root \in {0, Height[b]}
       /\ p[b].height \in {0, Height[b]}
       /\ \A c \in p[b].children : c \in Block \ {Genesis} /\ Parent[c] = b

\* Every back pointer leads to a pooled block that is keyed as a non-root.
IsLinked(p) ==
  \A b \in Pooled(p) : \A c \in p[b].children : c \in Pooled(p) /\ p[c].root = 0

LEMMA ReplantForest ==
  ASSUME NEW p, IsForest(p), NEW gone
  PROVE  IsForest(Replant(p, gone))
<1> DEFINE q == Replant(p, gone)
<1>1. IsPool(q) /\ Pooled(q) = Pooled(p) \ gone
  BY ReplantFacts DEF IsForest
<1>2. ASSUME NEW b \in Pooled(q)
      PROVE  /\ q[b].root \in {p[b].root, p[b].height}
             /\ q[b].height = p[b].height
             /\ q[b].children = p[b].children
  <2>1. p[b] \in PoolEntry /\ b \in Pooled(p) \ gone
    BY <1>1, <1>2 DEF IsForest, IsPool
  <2>2. q[b] = IF b \in ChildrenOf(p, gone)
               THEN [p[b] EXCEPT !.root = p[b].height] ELSE p[b]
    BY <2>1 DEF Replant
  <2>. QED  BY <2>1, <2>2 DEF PoolEntry
<1>. HIDE DEF q
<1>3. IsForest(q)
  BY <1>1, <1>2 DEF IsForest
<1>. QED  BY <1>3 DEF q

\* Deleting blocks of which no remaining block is the parent breaks no link.
LEMMA ReplantLinked ==
  ASSUME NEW p, IsForest(p), IsLinked(p), NEW gone \in SUBSET Pooled(p),
         \A b \in Pooled(p) \ gone : p[b].children \cap gone = {}
  PROVE  IsLinked(Replant(p, gone))
<1> DEFINE q == Replant(p, gone)
<1>1. Pooled(q) = Pooled(p) \ gone
  BY ReplantFacts DEF IsForest
<1>2. ASSUME NEW b \in Pooled(q)
      PROVE  /\ q[b].children = p[b].children
             /\ b \notin ChildrenOf(p, gone) => q[b] = p[b]
  <2>1. p[b] \in PoolEntry /\ b \in Pooled(p) \ gone
    BY <1>1, <1>2 DEF IsForest, IsPool
  <2>2. q[b] = IF b \in ChildrenOf(p, gone)
               THEN [p[b] EXCEPT !.root = p[b].height] ELSE p[b]
    BY <2>1 DEF Replant
  <2>. QED  BY <2>1, <2>2 DEF PoolEntry
<1>. HIDE DEF q
<1>3. ASSUME NEW b \in Pooled(q), NEW c \in q[b].children
      PROVE  c \in Pooled(q) /\ q[c].root = 0
  <2>1. b \in Pooled(p) \ gone /\ c \in p[b].children
    BY <1>1, <1>2, <1>3
  <2>2. c \in Pooled(p) /\ p[c].root = 0 /\ c \notin gone /\ Parent[c] = b
    BY <2>1 DEF IsForest, IsLinked
  <2>3. c \notin ChildrenOf(p, gone)
    BY <2>1, <2>2 DEF ChildrenOf, IsForest
  <2>. QED  BY <1>1, <1>2, <2>2, <2>3
<1>4. IsLinked(q)
  BY <1>3 DEF IsLinked
<1>. QED  BY <1>4 DEF q

LEMMA AddForest ==
  ASSUME NEW p, IsForest(p), NEW new \in SUBSET Block, NEW copied \in [new -> Nat],
         \A b \in new : copied[b] \in {0, Height[b]}
  PROVE  IsForest(AddAll(p, new, copied))
<1> DEFINE q == AddAll(p, new, copied)
           adopted(b) == {c \in new : c # Genesis /\ Parent[c] = b}
<1>1. IsPool(q) /\ Pooled(q) = Pooled(p) \cup new
  BY AddAllFacts DEF IsForest
<1>2. ASSUME NEW b \in Pooled(p)
      PROVE  /\ q[b].root = p[b].root
             /\ q[b].height = p[b].height
             /\ q[b].children = p[b].children \cup adopted(b)
  <2>1. q[b] = [p[b] EXCEPT !.children = @ \cup adopted(b)]
    BY DEF AddAll
  <2>2. p[b] \in PoolEntry
    BY DEF IsForest, IsPool
  <2>. HIDE DEF q, adopted
  <2>. QED  BY <2>1, <2>2 DEF PoolEntry
<1>3. ASSUME NEW b \in new \ Pooled(p)
      PROVE  /\ q[b].root \in {0, copied[b]}
             /\ q[b].height = copied[b]
             /\ q[b].children = adopted(b)
  BY DEF AddAll
<1>4. \A b : \A c \in adopted(b) : c \in Block \ {Genesis} /\ Parent[c] = b
  OBVIOUS
<1>. HIDE DEF q, adopted
<1>5. ASSUME NEW b \in Pooled(q)
      PROVE  /\ q[b].root \in {0, Height[b]}
             /\ q[b].height \in {0, Height[b]}
             /\ \A c \in q[b].children : c \in Block \ {Genesis} /\ Parent[c] = b
  <2>1. CASE b \in Pooled(p)
    BY <2>1, <1>2, <1>4 DEF IsForest
  <2>2. CASE b \in new \ Pooled(p)
    BY <2>2, <1>3, <1>4
  <2>. QED  BY <2>1, <2>2, <1>1
<1>6. IsForest(q)
  BY <1>1, <1>5 DEF IsForest
<1>. QED  BY <1>6 DEF q

LEMMA AddLinked ==
  ASSUME NEW p, IsForest(p), IsLinked(p),
         NEW new \in SUBSET Block, NEW copied \in [new -> Nat],
         new \cap Pooled(p) = {}
  PROVE  IsLinked(AddAll(p, new, copied))
<1> DEFINE q == AddAll(p, new, copied)
           adopted(b) == {c \in new : c # Genesis /\ Parent[c] = b}
<1>1. Pooled(q) = Pooled(p) \cup new
  BY AddAllFacts DEF IsForest
<1>2. ASSUME NEW b \in Pooled(p)
      PROVE  /\ q[b].root = p[b].root
             /\ q[b].children = p[b].children \cup adopted(b)
  <2>1. q[b] = [p[b] EXCEPT !.children = @ \cup adopted(b)]
    BY DEF AddAll
  <2>2. p[b] \in PoolEntry
    BY DEF IsForest, IsPool
  <2>. HIDE DEF q, adopted
  <2>. QED  BY <2>1, <2>2 DEF PoolEntry
<1>3. ASSUME NEW b \in new
      PROVE  /\ q[b].children = adopted(b)
             /\ (b # Genesis /\ Parent[b] \in Pooled(q)) => q[b].root = 0
  BY <1>1 DEF AddAll
<1>4. ASSUME NEW b \in Pooled(q), NEW c \in q[b].children
      PROVE  c \in Pooled(q) /\ q[c].root = 0
  <2>1. CASE c \in adopted(b)
    BY <2>1, <1>1, <1>3, <1>4
  <2>2. CASE c \notin adopted(b)
    <3>1. b \in Pooled(p) /\ c \in p[b].children
      BY <2>2, <1>1, <1>2, <1>3, <1>4
    <3>. QED  BY <3>1, <1>1, <1>2 DEF IsLinked
  <2>. QED  BY <2>1, <2>2
<1>. HIDE DEF q
<1>5. IsLinked(q)
  BY <1>4 DEF IsLinked
<1>. QED  BY <1>5 DEF q

-----------------------------------------------------------------------------
(* What prune deletes. *)

\* Every deleted block builds on a pooled block that is below the minimum.
LEMMA ExpiredIsOld ==
  ASSUME NEW p, IsForest(p), NEW minimum \in Nat
  PROVE  /\ Expired(p, minimum) \subseteq Pooled(p)
         /\ \A c \in Expired(p, minimum) :
              \E a \in Lineage(c) \cap Pooled(p) : Height[a] < minimum
<1> DEFINE Old == {c \in Pooled(p) : \E a \in Lineage(c) \cap Pooled(p) : Height[a] < minimum}
<1>1. Pooled(p) \subseteq Block
  BY DEF IsForest, IsPool
<1>2. ExpiredRoots(p, minimum) \subseteq Old
  BY DEF ExpiredRoots, IsForest, Lineage
<1>3. ASSUME NEW b \in Old, NEW c \in p[b].children \cap Pooled(p)
      PROVE  c \in Old
  <2>1. c \in Block \ {Genesis} /\ Parent[c] = b
    BY <1>3 DEF IsForest
  <2>2. Lineage(b) \subseteq Lineage(c)
    BY <2>1, BlockTreeAssumption DEF Lineage
  <2>. QED  BY <2>2, <1>3
<1>4. IsPruneClosed(p, minimum, Old) /\ Old \in SUBSET Pooled(p)
  BY <1>2, <1>3 DEF IsPruneClosed
<1>. QED  BY <1>4 DEF Expired

\* A linked block is only deleted along with the block it is linked under.
LEMMA ExpiredWithParent ==
  ASSUME NEW p, IsForest(p), IsLinked(p), NEW minimum \in Nat,
         NEW b \in Pooled(p) \ Expired(p, minimum)
  PROVE  p[b].children \cap Expired(p, minimum) = {}
<1> DEFINE E == Expired(p, minimum)
<1>1. SUFFICES ASSUME NEW c \in p[b].children \cap E PROVE FALSE
  OBVIOUS
<1>2. c \in Pooled(p) /\ p[c].root = 0 /\ Parent[c] = b
  BY <1>1 DEF IsForest, IsLinked
<1>3. IsPruneClosed(p, minimum, E \ {c})
  <2>1. ExpiredRoots(p, minimum) \subseteq E \ {c}
    BY <1>2 DEF Expired, ExpiredRoots, IsPruneClosed
  <2>2. ASSUME NEW a \in E \ {c}, NEW d \in p[a].children \cap Pooled(p),
               p[d].root # 0 \/ p[d].height < minimum
        PROVE  d \in E \ {c}
    <3>1. a \in Pooled(p) /\ Parent[d] = a
      BY <2>2 DEF Expired, IsForest
    <3>2. d # c
      BY <3>1, <1>2, <2>2
    <3>3. d \in E
      BY <2>2 DEF Expired, IsPruneClosed
    <3>. QED  BY <3>2, <3>3
  <2>. QED  BY <2>1, <2>2 DEF IsPruneClosed
<1>4. E \ {c} \in SUBSET Pooled(p)
  BY DEF Expired
<1>5. c \in E \ {c}
  BY <1>1, <1>3, <1>4 DEF Expired
<1>. QED  BY <1>5

LEMMA MinimumFacts ==
  ASSUME NEW height \in Nat
  PROVE  /\ MinimumHeight(height, MaximumDepth) \in Nat
         /\ \A n \in Nat : n < MinimumHeight(height, MaximumDepth) =>
              MaximumDepth # 0 /\ n + MaximumDepth < height
BY MaximumDepthAssumption DEF MinimumHeight

-----------------------------------------------------------------------------
(* The chain as one lineage of the tree. *)

LEMMA ChainIsLineageOfTop ==
  ASSUME NEW n \in Nat, NEW c, IsChain(c, n)
  PROVE  {c[h] : h \in 0..n} = Lineage(c[n])
<1>1. ASSUME NEW h \in 0..n PROVE c[h] \in Lineage(c[n])
  BY DEF IsChain
<1>2. ASSUME NEW a \in Lineage(c[n]) PROVE \E h \in 0..n : c[h] = a
  <2>1. c[n] \in Block /\ Height[c[n]] = n
    BY DEF IsChain
  <2>2. a \in Block /\ Height[a] \in 0..n
    BY <2>1, AncestorsAreBelow, BlockTreeAssumption DEF Lineage
  <2>3. c[Height[a]] \in Lineage(c[n]) /\ Height[c[Height[a]]] = Height[a]
    BY <2>2, <1>1 DEF IsChain
  <2>. QED  BY <2>1, <2>2, <2>3, OnePerHeight
<1>. QED  BY <1>1, <1>2

\* While the pool is apart from the chain, the fork point is the last block the
\* chain and the branch have in common.
LEMMA ForkIsHighest ==
  ASSUME Consistent, ~corrupt, NEW b \in Block, Connects(b)
  PROVE  InChain \cap Lineage(b) \subseteq Lineage(Fork(b))
<1>1. Grounded
  BY GroundedFromConsistent
<1>2. /\ BranchOf(b) \subseteq Pooled(pool) \cup {b}
      /\ b \notin InChain
      /\ Fork(b) \in Lineage(b)
      /\ Fork(b) \in Block
      /\ \A c \in Lineage(b) : Height[Fork(b)] < Height[c] => c \in BranchOf(b)
  BY <1>1, BranchFacts DEF Grounded, IsChain, Connects, Lineage
<1>3. ASSUME NEW a \in InChain \cap Lineage(b) PROVE a \in Lineage(Fork(b))
  <2>1. a \notin BranchOf(b)
    BY <1>2, <1>3 DEF Consistent, PoolIsDisjoint
  <2>2. a \in Block
    BY <1>3, AncestorsAreBelow DEF Lineage
  <2>3. Height[a] \in Nat /\ Height[Fork(b)] \in Nat
    BY <1>2, <2>2, BlockTreeAssumption
  <2>4. Height[a] <= Height[Fork(b)]
    BY <2>1, <2>3, <1>2, <1>3
  <2>. QED  BY <2>4, <1>2, <1>3, LineageIsOrdered
<1>. QED  BY <1>3

-----------------------------------------------------------------------------
(* The pool keeps its shape. *)

Shape == IsForest(pool) /\ (~corrupt => IsLinked(pool))

LEMMA InitShape == Init => Shape
BY DEF Init, Shape, IsForest, IsPool, IsLinked, EmptyPool, Pooled

\* What a reorganization keeps of the pool, step by step.
LEMMA PoolAfterShape ==
  ASSUME Consistent, IsForest(pool), NEW b \in Block, Connects(b)
  PROVE  /\ IsForest(PoolAfter(b))
         /\ (IsLinked(pool) /\ ~corrupt) =>
              /\ IsLinked(PoolAfter(b))
              /\ \A c \in Pooled(pool) \ Lineage(b) :
                   \/ c \in Pooled(PoolAfter(b))
                   \/ \E a \in Lineage(c) \cap Pooled(pool) :
                        Height[a] < MinimumHeight(Height[b], MaximumDepth)
<1>1. Grounded
  BY GroundedFromConsistent
<1> DEFINE branch == BranchOf(b) \cap Pooled(pool)
           removed == Remove(pool, BranchOf(b))
           minimum == MinimumHeight(TopHeight(b), MaximumDepth)
           expired == Expired(removed, minimum)
           pruned == Prune(removed, TopHeight(b), MaximumDepth)
           copied == [x \in Outgoing(b) |-> 0]
<1>2. TopHeight(b) = Height[b] /\ minimum \in Nat
  <2>1. TopHeight(b) = Height[b] /\ Height[b] \in Nat
    BY <1>1, ForkHeightFacts, BlockTreeAssumption
  <2>. QED  BY <2>1, MinimumFacts
<1>3. /\ removed = Replant(pool, branch)
      /\ pruned = Replant(removed, expired)
      /\ PoolAfter(b) = AddAll(pruned, Outgoing(b), copied)
  BY DEF Remove, Prune, PoolAfter
<1>4. /\ Outgoing(b) \in SUBSET Block
      /\ Outgoing(b) \subseteq InChain
      /\ copied \in [Outgoing(b) -> Nat]
      /\ \A c \in Outgoing(b) : copied[c] \in {0, Height[c]}
  BY <1>1, PoolAfterFacts
<1>. HIDE DEF removed, pruned, copied, branch, expired, minimum
<1>5. /\ IsForest(removed)
      /\ Pooled(removed) = Pooled(pool) \ branch
  BY <1>3, ReplantForest, ReplantFacts DEF IsForest
<1>6. /\ IsForest(pruned)
      /\ Pooled(pruned) = Pooled(removed) \ expired
  BY <1>3, <1>5, ReplantForest, ReplantFacts DEF IsForest
<1>7. /\ IsForest(PoolAfter(b))
      /\ Pooled(PoolAfter(b)) = Pooled(pruned) \cup Outgoing(b)
  BY <1>3, <1>4, <1>6, AddForest, AddAllFacts DEF IsForest
<1>8. ASSUME IsLinked(pool), ~corrupt PROVE IsLinked(PoolAfter(b))
  <2>1. ASSUME NEW a \in Pooled(pool) \ branch PROVE pool[a].children \cap branch = {}
    <3>1. SUFFICES ASSUME NEW c \in pool[a].children, c \in BranchOf(b) PROVE FALSE
      BY DEF branch
    <3>2. c \in Block \ {Genesis} /\ Parent[c] = a /\ a \in Block
      BY IsForest(pool) DEF IsForest, IsPool
    <3>3. /\ BranchOf(b) \subseteq Lineage(b)
          /\ Fork(b) \in Lineage(b)
          /\ Fork(b) \in Block
          /\ Fork(b) \in InChain
          /\ Height[Fork(b)] < Height[c]
          /\ \A d \in Lineage(b) : Height[Fork(b)] < Height[d] => d \in BranchOf(b)
      BY <1>1, <3>1, BranchFacts DEF Grounded, IsChain, Connects, Lineage, IsOrphan
    <3>4. a \in Lineage(b)
      BY <3>1, <3>2, <3>3, LineageIsComplete DEF Lineage
    <3>5. /\ Height[a] \in Nat /\ Height[Fork(b)] \in Nat
          /\ Height[c] = Height[a] + 1
      BY <3>2, <3>3, BlockTreeAssumption
    <3>6. a \notin BranchOf(b)
      BY <2>1 DEF branch
    <3>7. Height[a] = Height[Fork(b)]
      BY <3>3, <3>4, <3>5, <3>6
    <3>8. a = Fork(b)
      BY <3>3, <3>4, <3>7, OnePerHeight
    <3>. QED  BY <3>3, <3>8, <1>8, <2>1 DEF Consistent, PoolIsDisjoint
  <2>2. IsLinked(removed)
    <3>1. branch \in SUBSET Pooled(pool)
      BY DEF branch
    <3>. QED  BY <3>1, <2>1, <1>3, <1>8, ReplantLinked
  <2>3. IsLinked(pruned)
    <3>1. expired \in SUBSET Pooled(removed)
      BY <1>2, <1>5, ExpiredIsOld DEF expired
    <3>2. \A a \in Pooled(removed) \ expired : removed[a].children \cap expired = {}
      BY <1>2, <1>5, <2>2, ExpiredWithParent DEF expired
    <3>. QED  BY <3>1, <3>2, <2>2, <1>3, <1>5, ReplantLinked
  <2>4. Outgoing(b) \cap Pooled(pruned) = {}
    BY <1>4, <1>5, <1>6, <1>8 DEF Consistent, PoolIsDisjoint
  <2>. QED  BY <2>3, <2>4, <1>3, <1>4, <1>6, AddLinked
<1>9. ASSUME NEW c \in Pooled(pool) \ Lineage(b), c \notin Pooled(PoolAfter(b))
      PROVE  \E a \in Lineage(c) \cap Pooled(pool) : Height[a] < minimum
  <2>1. BranchOf(b) \subseteq Lineage(b)
    BY <1>1, BranchFacts DEF Grounded, IsChain, Connects
  <2>2. c \in expired
    BY <2>1, <1>5, <1>6, <1>7, <1>9 DEF branch
  <2>3. \E a \in Lineage(c) \cap Pooled(removed) : Height[a] < minimum
    BY <2>2, <1>2, <1>5, ExpiredIsOld DEF expired
  <2>. QED  BY <2>3, <1>5
<1>. QED  BY <1>2, <1>7, <1>8, <1>9 DEF minimum

LEMMA NextShape == Consistent /\ Shape /\ [Next]_vars => Shape'
<1>. SUFFICES ASSUME Consistent, Shape, [Next]_vars PROVE Shape'
  OBVIOUS
<1>1. CASE UNCHANGED <<pool, corrupt>>
  BY <1>1 DEF Shape
<1>2. CASE corrupt' = TRUE /\ pool' = pool
  BY <1>2 DEF Shape
<1>3. ASSUME NEW b \in Block, OrganizeWeak(b, FALSE) PROVE Shape'
  <2> DEFINE copied == [x \in {b} |-> TopHeight(b)]
  <2>1. Connects(b) /\ Grounded
    BY <1>3, GroundedFromConsistent DEF OrganizeWeak
  <2>2. pool' = AddAll(pool, {b}, copied) /\ corrupt' = corrupt
    BY <1>3 DEF OrganizeWeak, Add, Answer
  <2>3. TopHeight(b) = Height[b] /\ Height[b] \in Nat /\ b \notin Pooled(pool)
    BY <2>1, ForkHeightFacts, BranchFacts, BlockTreeAssumption DEF Grounded, IsChain, Connects
  <2>4. /\ copied \in [{b} -> Nat]
        /\ \A x \in {b} : copied[x] \in {0, Height[x]}
        /\ {b} \cap Pooled(pool) = {}
        /\ {b} \in SUBSET Block
    BY <2>3
  <2>. HIDE DEF copied
  <2>. QED  BY <2>2, <2>4, AddForest, AddLinked DEF Shape
<1>4. ASSUME NEW b \in Block, Reorganize(b) PROVE Shape'
  BY <1>4, PoolAfterShape DEF Shape, Reorganize
<1>5. CASE Start
  BY <1>5, InitShape DEF Start, Shape, IsForest, IsPool, IsLinked, EmptyPool, Pooled
<1>6. ASSUME NEW b \in Block, OrganizeWeak(b, TRUE) PROVE UNCHANGED <<pool, corrupt>>
  BY <1>6 DEF OrganizeWeak, Answer
<1>. QED  BY <1>1, <1>2, <1>3, <1>4, <1>5, <1>6
          DEF Next, vars, OrganizeStopped, OrganizeInvalid, OrganizeDuplicate, OrganizeOrphan,
              OrganizeUnreadable, OrganizeDoubleSpend, OrganizeSimulated,
              FailPop, FailPush, Stop, Answer

\* block_pool stays a forest: what add, remove and prune leave behind is linked as
\* block_entry::parent and children say.
THEOREM ShapeIsKept == Spec => [](Consistent /\ Shape)
BY InitShape, NextShape, Consistency, PTL DEF Spec

\* As long as no reorganization fails, remove and prune find every child they
\* look up, and find it keyed as a child.
THEOREM ChildrenAreAlwaysPooled == Spec => []ChildrenArePooled
<1>1. Shape => ChildrenArePooled
  BY DEF Shape, ChildrenArePooled, IsForest, IsLinked
<1>. QED  BY <1>1, ShapeIsKept, PTL

-----------------------------------------------------------------------------
(* The refinement: every step of the organizer is a step of BestChain or   *)
(* leaves the chain and the kept blocks as they are.                       *)

side_blocks == Pooled(pool) \ InChain

LEMMA KnownIsKnown ==
  ASSUME Consistent
  PROVE  /\ BC!Chain = InChain
         /\ BC!Known = InChain \cup Pooled(pool)
<1>1. InChain = Lineage(chain[top])
  BY ConsistentIsChain, ChainIsLineageOfTop DEF InChain
<1>. QED  BY <1>1 DEF BC!Chain, BC!Known, BC!Lineage, Lineage

LEMMA ConnectsFits ==
  ASSUME Consistent, NEW b \in Block, Connects(b)
  PROVE  BC!Fits(b)
<1>1. Grounded
  BY GroundedFromConsistent
<1>2. /\ b \in Valid /\ b \notin Pooled(pool) /\ b \notin InChain
      /\ BranchOf(b) \subseteq Pooled(pool) \cup {b}
      /\ Fork(b) \in Lineage(b) /\ Fork(b) \in Block /\ Fork(b) \in InChain
      /\ \A c \in Lineage(b) : Height[Fork(b)] < Height[c] => c \in BranchOf(b)
  BY <1>1, BranchFacts DEF Grounded, IsChain, Connects, Lineage, IsOrphan
<1>3. ASSUME NEW a \in Ancestors[b] PROVE a \in InChain \cup Pooled(pool)
  <2>1. a \in Lineage(b) /\ a \in Block /\ a # b
    BY <1>3, AncestorsAreBelow, BlockTreeAssumption DEF Lineage
  <2>2. Height[a] \in Nat /\ Height[Fork(b)] \in Nat
    BY <2>1, <1>2, BlockTreeAssumption
  <2>3. CASE Height[Fork(b)] < Height[a]
    BY <2>1, <2>3, <1>2
  <2>4. CASE Height[a] <= Height[Fork(b)]
    <3>1. a \in Lineage(Fork(b))
      BY <2>1, <2>4, <1>2, LineageIsOrdered
    <3>2. \A c \in InChain : Lineage(c) \subseteq InChain
      <4>1. InChain = Lineage(chain[top])
        BY ConsistentIsChain, ChainIsLineageOfTop DEF InChain
      <4>2. chain[top] \in Block
        BY ConsistentIsChain DEF IsChain
      <4>. QED  BY <4>1, <4>2, AncestorsAreBelow DEF Lineage
    <3>. QED  BY <3>1, <3>2, <1>2
  <2>. QED  BY <2>2, <2>3, <2>4
<1>. QED  BY <1>2, <1>3, KnownIsKnown DEF BC!Fits

LEMMA WeakIsKeep ==
  ASSUME Consistent, NEW b \in Block, OrganizeWeak(b, FALSE)
  PROVE  BC!Keep(b)
<1>1. Connects(b) /\ ~IsHeavier(b) /\ Grounded
  BY GroundedFromConsistent DEF OrganizeWeak
<1>2. TotalWork[b] <= TotalWork[chain[top]]
  BY <1>1, HeavierIsMoreWork
<1>3. UNCHANGED <<top, chain, corrupt, InChain>>
  BY DEF OrganizeWeak, Answer, InChain
<1>4. Pooled(pool') = Pooled(pool) \cup {b}
  BY DEF OrganizeWeak, Add, AddAll, Pooled
<1>5. b \notin InChain
  BY <1>1 DEF Connects, IsDuplicate
<1>. QED  BY <1>1, <1>2, <1>3, <1>4, <1>5, ConnectsFits DEF BC!Keep

LEMMA ReorganizeIsSwitch ==
  ASSUME Consistent, Consistent', Shape, NEW b \in Block, Reorganize(b)
  PROVE  BC!Switch(b)
<1>1. Connects(b) /\ Grounded /\ pool' = PoolAfter(b) /\ corrupt' = corrupt
  BY GroundedFromConsistent DEF Reorganize
<1>2. /\ chain'[top'] = b
      /\ TotalWork[b] > TotalWork[chain[top]]
  BY ReorganizeWork
<1>3. InChain' = Lineage(b)
  <2>1. IsChain(chain', top') /\ top' \in Nat
    BY DEF Consistent, TypeOK, ChainIsPath, ChainIsLineage, InChain, IsChain
  <2>2. {chain'[h] : h \in 0..top'} = Lineage(chain'[top'])
    BY <2>1, ChainIsLineageOfTop
  <2>. QED  BY <2>2, <1>2 DEF InChain
<1>4. /\ Pooled(pool') \subseteq Pooled(pool) \cup InChain
      /\ Outgoing(b) \subseteq Pooled(pool')
  BY <1>1, PoolAfterFacts DEF Pooled
<1>5. InChain \ Lineage(b) \subseteq Outgoing(b)
  <2>1. ASSUME NEW h \in 0..top, chain[h] \notin Lineage(b)
        PROVE  chain[h] \in Outgoing(b)
    <3>1. /\ ForkHeight(b) \in 0..top
          /\ top \in Nat
          /\ chain[ForkHeight(b)] = Fork(b)
          /\ Fork(b) \in Ancestors[b]
      BY <1>1, ForkHeightFacts, BranchFacts DEF Grounded, TypeOK, IsChain, Connects
    <3>2. CASE h <= ForkHeight(b)
      <4>1. chain[h] \in Lineage(Fork(b))
        BY <3>1, <3>2, <1>1 DEF Grounded, IsChain
      <4>. QED  BY <4>1, <3>1, <2>1, AncestorsAreBelow DEF Lineage
    <3>3. CASE h > ForkHeight(b)
      BY <3>1, <3>3 DEF Outgoing
    <3>. QED  BY <3>1, <3>2, <3>3
  <2>. QED  BY <2>1 DEF InChain
<1>6. ASSUME ~corrupt, NEW c \in side_blocks \ Lineage(b)
      PROVE  c \in side_blocks' \/ c \in BC!Disposable(b)
  <2>1. c \in Pooled(pool) \ Lineage(b) /\ side_blocks = Pooled(pool)
    BY <1>6 DEF side_blocks, Consistent, PoolIsDisjoint
  <2>2. \/ c \in Pooled(pool')
        \/ \E a \in Lineage(c) \cap Pooled(pool) :
             Height[a] < MinimumHeight(Height[b], MaximumDepth)
    BY <2>1, <1>1, <1>6, PoolAfterShape DEF Shape
  <2>3. CASE c \in Pooled(pool')
    BY <2>1, <2>3, <1>3 DEF side_blocks
  <2>4. ASSUME NEW a \in Lineage(c) \cap Pooled(pool),
               Height[a] < MinimumHeight(Height[b], MaximumDepth)
        PROVE  c \in BC!Disposable(b)
    <3>1. a \in Block /\ Height[a] \in Nat /\ Height[b] \in Nat
      BY BlockTreeAssumption DEF Consistent, TypeOK
    <3>2. BC!IsBuried(a, b)
      BY <2>4, <3>1, MinimumFacts DEF BC!IsBuried
    <3>. QED  BY <2>1, <2>4, <3>2 DEF BC!Disposable, BC!Lineage, Lineage, side_blocks
  <2>. QED  BY <2>2, <2>3, <2>4
<1>7. side_blocks' \subseteq BC!Known \ Lineage(b)
  BY <1>3, <1>4, KnownIsKnown DEF side_blocks
<1>8. BC!Chain \ Lineage(b) \subseteq side_blocks'
  BY <1>3, <1>4, <1>5, KnownIsKnown DEF side_blocks
<1>9. ~corrupt => side_blocks \ Lineage(b) \subseteq side_blocks' \cup BC!Disposable(b)
  BY <1>6
<1>. QED  BY <1>1, <1>2, <1>7, <1>8, <1>9, ConnectsFits
          DEF BC!Switch, BC!Lineage, Lineage, side_blocks

\* Where a failed reorganization leaves the chain.
LEMMA FailedIsFail ==
  ASSUME Consistent, Consistent', NEW b \in Block, Connects(b), IsHeavier(b),
         UNCHANGED pool, corrupt' = TRUE,
         chain'[top'] \in InChain \cup Lineage(b),
         ~corrupt => Fork(b) \in Lineage(chain'[top'])
  PROVE  BC!Fail(b)
<1> DEFINE last == chain'[top']
<1>1. TotalWork[b] > TotalWork[chain[top]]
  BY HeavierIsMoreWork, GroundedFromConsistent
<1>2. InChain' = Lineage(last) /\ last \in Block
  <2>1. IsChain(chain', top') /\ top' \in Nat
    BY DEF Consistent, TypeOK, ChainIsPath, ChainIsLineage, InChain, IsChain
  <2>2. {chain'[h] : h \in 0..top'} = Lineage(chain'[top'])
    BY <2>1, ChainIsLineageOfTop
  <2>3. last \in Block
    BY <2>1 DEF IsChain
  <2>. QED  BY <2>2, <2>3 DEF InChain
<1>3. ~corrupt => InChain \cap Lineage(b) \subseteq Lineage(last)
  <2>1. SUFFICES ASSUME ~corrupt PROVE InChain \cap Lineage(b) \subseteq Lineage(last)
    OBVIOUS
  <2>2. InChain \cap Lineage(b) \subseteq Lineage(Fork(b))
    BY <2>1, ForkIsHighest
  <2>3. Lineage(Fork(b)) \subseteq Lineage(last)
    BY <2>1, <1>2, AncestorsAreBelow DEF Lineage
  <2>. QED  BY <2>2, <2>3
<1>4. Pooled(pool') = Pooled(pool)
  BY DEF Pooled
<1>5. /\ side_blocks' \subseteq BC!Known \ Lineage(last)
      /\ side_blocks \ Lineage(last) \subseteq side_blocks'
  BY <1>2, <1>4, KnownIsKnown DEF side_blocks
<1>6. BC!Fits(b) /\ BC!Chain = InChain
  BY ConnectsFits, KnownIsKnown
<1>. QED  BY <1>1, <1>3, <1>5, <1>6 DEF BC!Fail, BC!Lineage, Lineage, side_blocks

LEMMA FailPopIsFail ==
  ASSUME Consistent, Consistent', NEW b \in Block, NEW h \in 0..top, FailPop(b, h)
  PROVE  BC!Fail(b)
<1>1. Connects(b) /\ IsHeavier(b) /\ Grounded
  BY GroundedFromConsistent DEF FailPop
<1>2. ForkHeight(b) \in 0..top /\ chain[ForkHeight(b)] = Fork(b) /\ top \in Nat
  BY <1>1, ForkHeightFacts DEF Grounded, TypeOK
<1>3. top' = h /\ chain'[top'] = chain[h]
  BY DEF FailPop
<1>4. chain[h] \in InChain
  BY DEF InChain
<1>5. Fork(b) \in Lineage(chain[h])
  <2>1. ForkHeight(b) <= h
    BY <1>2 DEF FailPop
  <2>. QED  BY <2>1, <1>1, <1>2 DEF Grounded, IsChain
<1>6. UNCHANGED pool /\ corrupt' = TRUE
  BY DEF FailPop
<1>. QED  BY <1>1, <1>3, <1>4, <1>5, <1>6, FailedIsFail

LEMMA FailPushIsFail ==
  ASSUME Consistent, Consistent', NEW b \in Block, NEW n \in Nat, FailPush(b, n)
  PROVE  BC!Fail(b)
<1>1. Connects(b) /\ IsHeavier(b) /\ Grounded
  BY GroundedFromConsistent DEF FailPush
<1>2. ForkHeight(b) \in 0..top /\ chain[ForkHeight(b)] = Fork(b) /\ top \in Nat
  BY <1>1, ForkHeightFacts DEF Grounded, TypeOK
<1>3. top' = ForkHeight(b) + n /\ chain' = Pushed(b, n) /\ n < Size(b) /\ Size(b) \in Nat
  BY <1>1, ForkHeightFacts DEF FailPush
<1>4. /\ chain'[top'] \in InChain \cup Lineage(b)
      /\ Fork(b) \in Lineage(chain'[top'])
  <2>1. CASE n = 0
    <3>1. chain'[top'] = chain[ForkHeight(b)]
      BY <2>1, <1>2, <1>3 DEF Pushed
    <3>. QED  BY <3>1, <1>2 DEF InChain, Lineage
  <2>2. CASE n > 0
    <3>1. chain'[top'] = BlockAt(b, n) /\ n \in 1..Size(b)
      BY <2>2, <1>2, <1>3 DEF Pushed
    <3>. QED  BY <3>1, <1>1, BlockAtFacts, BranchIsPath
  <2>. QED  BY <2>1, <2>2
<1>5. UNCHANGED pool /\ corrupt' = TRUE
  BY DEF FailPush
<1>. QED  BY <1>1, <1>4, <1>5, FailedIsFail

LEMMA StepIsStep ==
  Consistent /\ Consistent' /\ Shape /\ [Next]_vars => [BC!Next]_(BC!vars)
<1>. SUFFICES ASSUME Consistent, Consistent', Shape, [Next]_vars
              PROVE  BC!Next \/ UNCHANGED BC!vars
  OBVIOUS
<1>1. CASE UNCHANGED <<top, chain, pool, corrupt>>
  BY <1>1 DEF BC!vars, InChain, Pooled
<1>2. ASSUME NEW b \in Block, OrganizeWeak(b, FALSE) PROVE BC!Next
  BY <1>2, WeakIsKeep DEF BC!Next
<1>3. ASSUME NEW b \in Block, OrganizeWeak(b, TRUE) PROVE UNCHANGED <<top, chain, pool, corrupt>>
  BY <1>3 DEF OrganizeWeak, Answer
<1>4. ASSUME NEW b \in Block, Reorganize(b) PROVE BC!Next
  BY <1>4, ReorganizeIsSwitch DEF BC!Next
<1>5. ASSUME NEW b \in Block, NEW h \in 0..top, FailPop(b, h) PROVE BC!Next
  BY <1>5, FailPopIsFail DEF BC!Next
<1>6. ASSUME NEW b \in Block, NEW n \in 0..Height[b], FailPush(b, n) PROVE BC!Next
  BY <1>6, FailPushIsFail DEF BC!Next
<1>7. CASE Start
  <2>1. Pooled(pool') = {} /\ corrupt' = FALSE /\ UNCHANGED <<top, chain>>
    BY <1>7 DEF Start, EmptyPool, Pooled
  <2>. QED  BY <2>1 DEF BC!Next, BC!Restart, InChain
<1>. QED  BY <1>1, <1>2, <1>3, <1>4, <1>5, <1>6, <1>7
          DEF Next, vars, OrganizeStopped, OrganizeInvalid, OrganizeDuplicate, OrganizeOrphan,
              OrganizeUnreadable, OrganizeDoubleSpend, OrganizeSimulated, Stop, Answer

\* organize, its failures and the restarts, seen from outside, are the moves of
\* BestChain and nothing else.
THEOREM OrganizerImplementsBestChain == Spec => ImplementsBestChain
<1>1. Init => BC!Init
  BY DEF Init, BC!Init, InChain, EmptyPool, Pooled
<1>. QED  BY <1>1, StepIsStep, ShapeIsKept, PTL DEF Spec, ImplementsBestChain, BC!Spec

-----------------------------------------------------------------------------
(* A channel that asks for whole blocks (BlockRelay): its backlog is what the *)
(* peer owes.                                                              *)

\* The block of a chain at a height is the one there is.
LEMMA BlockAtHeight ==
  ASSUME NEW tip \in Block, NEW h \in 0..Height[tip]
  PROVE  /\ At(tip, h) \in Lineage(tip)
         /\ At(tip, h) \in Block
         /\ Height[At(tip, h)] = h
<1>1. \E a \in Lineage(tip) : Height[a] = h
  BY LineageIsComplete
<1>2. At(tip, h) = CHOOSE a \in Lineage(tip) : Height[a] = h
  BY DEF At, Lineage, Lineage
<1>3. At(tip, h) \in Lineage(tip) /\ Height[At(tip, h)] = h
  BY <1>1, <1>2
<1>. QED  BY <1>3, AncestorsAreBelow DEF Lineage

\* Every chain begins with the genesis block.
LEMMA GenesisIsBelow == \A b \in Block : Genesis \in Lineage(b)
<1>1. SUFFICES ASSUME NEW b \in Block PROVE Genesis \in Lineage(b)
  OBVIOUS
<1>2. 0 \in 0..Height[b]
  BY BlockTreeAssumption
<1>3. PICK c \in Lineage(b) : Height[c] = 0
  BY <1>2, LineageIsComplete
<1>4. c = Genesis
  <2>1. c \in Block
    BY AncestorsAreBelow DEF Lineage
  <2>2. ASSUME c # Genesis PROVE FALSE
    <3>1. Parent[c] \in Block /\ Height[c] = Height[Parent[c]] + 1 /\ Height[Parent[c]] \in Nat
      BY <2>1, <2>2, BlockTreeAssumption
    <3>. QED  BY <3>1, <1>3
  <2>. QED  BY <2>2
<1>. QED  BY <1>3, <1>4

\* What two chains have in common has a highest block.
LEMMA MeetingFacts ==
  ASSUME NEW a \in Block, NEW b \in Block
  PROVE  /\ Meeting(a, b) \in Block
         /\ Height[Meeting(a, b)] \in Nat
         /\ Height[Meeting(a, b)] <= Height[a]
         /\ Height[Meeting(a, b)] <= Height[b]
<1> DEFINE common == Lineage(a) \cap Lineage(b)
           depths == {Height[a] - Height[c] : c \in common}
<1>1. \A d \in Block : \A c \in Lineage(d) : /\ c \in Block /\ Height[c] \in Nat
                                             /\ Height[d] \in Nat /\ Height[c] <= Height[d]
  BY AncestorsAreBelow, BlockTreeAssumption DEF Lineage
<1>2. Genesis \in common
  BY GenesisIsBelow
<1>3. \E c \in common : \A d \in common : Height[d] <= Height[c]
  <2>1. depths \in SUBSET Nat /\ depths # {}
    BY <1>1, <1>2
  <2>2. PICK m \in depths : \A k \in depths : m <= k
    <3>. HIDE DEF depths
    <3>. QED  BY <2>1, LeastNumber
  <2>3. PICK c \in common : m = Height[a] - Height[c]
    BY <2>2
  <2>4. ASSUME NEW d \in common PROVE Height[d] <= Height[c]
    <3>1. Height[a] - Height[c] <= Height[a] - Height[d]
      BY <2>2, <2>3
    <3>2. Height[a] \in Nat /\ Height[c] \in Nat /\ Height[d] \in Nat
      BY <1>1
    <3>. QED  BY <3>1, <3>2
  <2>. QED  BY <2>4
<1>4. Meeting(a, b) = CHOOSE c \in common : \A d \in common : Height[d] <= Height[c]
  BY DEF Meeting, Lineage, Lineage
<1>5. Meeting(a, b) \in common
  <2>. HIDE DEF common
  <2>. QED  BY <1>3, <1>4
<1>. QED  BY <1>1, <1>5

LEMMA SliceIsBlocks ==
  ASSUME NEW tip \in Block, NEW from \in Nat, NEW to \in Int, to <= Height[tip]
  PROVE  Slice(tip, from, to) \in Seq(Block)
<1> DEFINE n == IF to >= from THEN to - from + 1 ELSE 0
<1>1. n \in Nat
  OBVIOUS
<1>2. ASSUME NEW i \in 1..n PROVE At(tip, from + i - 1) \in Block
  <2>1. from + i - 1 \in 0..Height[tip]
    BY <1>2, BlockTreeAssumption
  <2>. QED  BY <2>1, BlockAtHeight
<1>3. Slice(tip, from, to) = [i \in 1..n |-> At(tip, from + i - 1)]
  BY DEF Slice
<1>. HIDE DEF n
<1>. QED  BY <1>1, <1>2, <1>3

\* The reply to a get_headers is made of blocks.
LEMMA HeadersAreBlocks ==
  ASSUME theirs \in Block, threshold \in Block \cup {None},
         NEW request \in [from : Block, stop : Block \cup {None}]
  PROVE  HeadersFor(request) \in Seq(Block)
<1> DEFINE start == Height[Meeting(request.from, theirs)]
           begin == IF threshold \in Lineage(theirs)
                    THEN HigherOf(start + 1, Height[threshold]) ELSE start + 1
           end == IF request.stop \in Lineage(theirs)
                  THEN LowerOf(start + 1 + MaxHeaders, Height[request.stop])
                  ELSE start + 1 + MaxHeaders
           to == LowerOf(end - 1, Height[theirs])
<1>1. start \in Nat /\ Height[theirs] \in Nat /\ MaxHeaders \in Nat
  BY MeetingFacts, BlockTreeAssumption, RelayAssumption
<1>2. \A b \in Lineage(theirs) : b \in Block /\ Height[b] \in Nat
  BY AncestorsAreBelow, BlockTreeAssumption DEF Lineage
<1>. HIDE DEF start
<1>3. begin \in Nat
  BY <1>1, <1>2 DEF HigherOf
<1>4. end \in Int
  BY <1>1, <1>2 DEF LowerOf
<1>. HIDE DEF begin, end
<1>5. to \in Int /\ to <= Height[theirs]
  BY <1>1, <1>4 DEF LowerOf
<1>6. HeadersFor(request) = Slice(theirs, begin, to)
  BY DEF HeadersFor, begin, end, start
<1>. HIDE DEF to
<1>. QED  BY <1>3, <1>5, <1>6, SliceIsBlocks

\* Induction over the places of a list.
LEMMA UpTo ==
  ASSUME NEW n \in Nat, NEW S, 0 \in S, \A i \in 1..n : i - 1 \in S => i \in S
  PROVE  n \in S
<1> DEFINE Out == (0..n) \ S
<1>1. SUFFICES ASSUME Out # {} PROVE FALSE
  OBVIOUS
<1>2. PICK m \in Out : \A k \in Out : m <= k
  <2>1. Out \in SUBSET Nat
    OBVIOUS
  <2>. HIDE DEF Out
  <2>. QED  BY <1>1, <2>1, LeastNumber
<1>3. m \in 1..n /\ m - 1 \in Out
  BY <1>2
<1>. QED  BY <1>2, <1>3

\* What filter_blocks leaves of a list.
LEMMA UnknownIsBlocks ==
  ASSUME NEW blocks \in Seq(Block)
  PROVE  Unknown(blocks) \in Seq(Block)
<1> DEFINE Step(before, i) == IF IsKnown(blocks[i]) THEN before ELSE Append(before, blocks[i])
           Leaves(f, k) == /\ f \in [0..k -> Seq(Block)]
                           /\ f[0] = <<>> /\ \A i \in 1..k : f[i] = Step(f[i - 1], i)
           Left(f) == f = [i \in 0..Len(blocks) |-> IF i = 0 THEN <<>> ELSE Step(f[i - 1], i)]
<1>0. PICK n \in Nat : n = Len(blocks)
  OBVIOUS
<1>1. \A s \in Seq(Block) : \A i \in 1..n : Step(s, i) \in Seq(Block)
  BY <1>0
<1>. HIDE DEF Step
<1>2. \E f : Leaves(f, n)
  <2> DEFINE S == {k \in 0..n : \E f : Leaves(f, k)}
  <2>1. 0 \in S
    <3>1. [i \in 0..0 |-> <<>>] \in [0..0 -> Seq(Block)]
      OBVIOUS
    <3>2. Leaves([i \in 0..0 |-> <<>>], 0)
      BY <3>1
    <3>. HIDE DEF Leaves
    <3>. QED  BY <3>2
  <2>2. ASSUME NEW m \in 1..n, m - 1 \in S PROVE m \in S
    <3>1. PICK f : Leaves(f, m - 1)
      <4>. HIDE DEF Leaves
      <4>. QED  BY <2>2
    <3> DEFINE g == [i \in 0..m |-> IF i = m THEN Step(f[m - 1], m) ELSE f[i]]
    <3>2. f[m - 1] \in Seq(Block) /\ Step(f[m - 1], m) \in Seq(Block)
      BY <1>1, <3>1
    <3>3. g \in [0..m -> Seq(Block)] /\ g[0] = <<>>
      BY <3>1, <3>2
    <3>4. ASSUME NEW i \in 1..m PROVE g[i] = Step(g[i - 1], i)
      <4>1. CASE i = m
        BY <4>1
      <4>2. CASE i \in 1..m - 1
        BY <3>1, <4>2
      <4>. QED  BY <4>1, <4>2
    <3>5. Leaves(g, m)
      BY <3>3, <3>4
    <3>. HIDE DEF Leaves, g
    <3>. QED  BY <3>5
  <2>. HIDE DEF S
  <2>3. n \in S
    BY <2>1, <2>2, UpTo
  <2>. QED  BY <2>3 DEF S
<1>3. \E f : Left(f)
  <2>1. PICK f : Leaves(f, n)
    <3>. HIDE DEF Leaves
    <3>. QED  BY <1>2
  <2>2. f = [i \in 0..n |-> f[i]]
    BY <2>1
  <2>3. \A i \in 0..n : f[i] = IF i = 0 THEN <<>> ELSE Step(f[i - 1], i)
    BY <2>1
  <2>. HIDE DEF Leaves
  <2>. QED  BY <1>0, <2>2, <2>3
<1> DEFINE left == CHOOSE h : Left(h)
           S == {k \in 0..n : left[k] \in Seq(Block)}
<1>4. Left(left)
  <2>. HIDE DEF Left
  <2>. QED  BY <1>3
<1>5. \A i \in 0..n : left[i] = IF i = 0 THEN <<>> ELSE Step(left[i - 1], i)
  <2>. HIDE DEF left
  <2>. QED  BY <1>0, <1>4
<1>6. Unknown(blocks) = left[n]
  BY <1>0 DEF Unknown, Step
<1>. HIDE DEF left
<1>7. 0 \in S
  <2>1. 0 \in 0..n /\ left[0] = <<>>
    BY <1>5
  <2>2. <<>> \in Seq(Block)
    OBVIOUS
  <2>. QED  BY <2>1, <2>2
<1>8. ASSUME NEW m \in 1..n, m - 1 \in S PROVE m \in S
  <2>1. left[m - 1] \in Seq(Block) /\ left[m] = Step(left[m - 1], m)
    BY <1>5, <1>8
  <2>. QED  BY <1>1, <2>1
<1>9. n \in S
  <2>. HIDE DEF S
  <2>. QED  BY <1>7, <1>8, UpTo
<1>. QED  BY <1>6, <1>9

-----------------------------------------------------------------------------
(* What is on its way between the two ends.                                *)

\* A get_data asks for something, on a channel of whole blocks for those.
DataOn(negotiated) ==
  {d \in Data : /\ d.kind # "none" /\ d.blocks # <<>>
                /\ negotiated = "headers" => d.kind = "block"}

\* A message about a block is about one, and not compact unless that was negotiated.
OneBlock == {"block", "compact", "block_transactions", "not_found"}
MessagesOn(negotiated) ==
  {m \in Messages :
     /\ m.kind \in OneBlock => Len(m.blocks) = 1
     /\ negotiated = "headers" => m.kind \in {"headers", "inventory", "block", "not_found"}}

StorePart ==
  /\ stored \in Block /\ top_block \in Block /\ kept \subseteq Block
  /\ writer \in [by : Thread \cup {"other", "none"}, goal : Block \cup {None}]
  /\ writer = NoWriter \/ writer.goal \in Block

NodePart ==
  /\ backlog \in Seq(Block) /\ timer \in BOOLEAN /\ high \in BOOLEAN /\ awaiting \subseteq Block
  /\ sending \in [Strand -> DataOn(link) \cup {Nothing}]
  /\ link = "headers" => sending["compact"] = Nothing

PostedPart ==
  /\ posted \in [Posted -> Seq(Seq(Block))]
  /\ \A k \in {"compact", "block_transactions"} : \A i \in DOMAIN posted[k] : Len(posted[k][i]) = 1
  /\ link = "headers" => posted["compact"] = <<>> /\ posted["block_transactions"] = <<>>

RequestPart ==
  /\ requests \in Requests
  /\ requests.get_data \in Seq(DataOn(link))
  /\ link = "headers" => requests.send_compact = <<>> /\ requests.get_block_transactions = <<>>

PeerPart ==
  /\ theirs \in Block /\ threshold \in Block \cup {None}
  /\ announce_by \in [headers : BOOLEAN, compact : {"unset", "low", "high"}]
  /\ link = "headers" => announce_by.compact = "unset"
  /\ jobs \in Seq(DataOn(link))

\* A channel that is down has nothing under way, and no thread of it writes.
DownPart ==
  link = "down" =>
    /\ wire = <<>> /\ jobs = <<>> /\ requests = NoRequests
    /\ backlog = <<>>
    /\ sending = [s \in Strand |-> Nothing]
    /\ posted = [k \in Posted |-> <<>>]
    /\ held = [t \in Thread |-> NotHeld]
    /\ announce_by = Quietly
    /\ writer.by \notin Thread

RelayTypes ==
  /\ link \in {"down", "headers", "compact"} /\ events \in 0..MaxEvents
  /\ StorePart /\ NodePart /\ PostedPart /\ RequestPart /\ PeerPart /\ DownPart
  /\ held \in [Thread -> Holdings]
  /\ wire \in Seq(MessagesOn(link))

\* A get_data asks for a block at least.
LEMMA DataFacts ==
  ASSUME NEW n, NEW x \in DataOn(n)
  PROVE  /\ x \in Data /\ x.blocks \in Seq(Block) /\ x.blocks # <<>> /\ x.kind # "none"
         /\ Head(x.blocks) \in Block
         /\ n = "headers" => x.kind = "block"
<1>1. x \in Data /\ x.blocks # <<>> /\ x.kind # "none" /\ (n = "headers" => x.kind = "block")
  BY Zenon DEF DataOn
<1>2. x.blocks \in Seq(Block)
  BY <1>1 DEF Data
<1>3. Head(x.blocks) \in Block
  <2>1. \A t \in Seq(Block) : t # <<>> => Head(t) \in Block
    OBVIOUS
  <2>. QED  BY <1>1, <1>2, <2>1
<1>. QED  BY <1>1, <1>2, <1>3

LEMMA TypesAreRight == RelayTypes => RelayTypeOK
<1>. SUFFICES ASSUME RelayTypes PROVE RelayTypeOK
  OBVIOUS
<1>1. wire \in Seq(Messages) /\ jobs \in Seq(Data)
  <2>1. MessagesOn(link) \subseteq Messages /\ DataOn(link) \subseteq Data
    BY DEF MessagesOn, DataOn
  <2>. QED  BY <2>1 DEF RelayTypes, PeerPart
<1>2. sending \in [Strand -> Data]
  <2>1. Nothing \in Data
    BY DEF Nothing, Data
  <2>2. DataOn(link) \subseteq Data
    BY DEF DataOn
  <2>. QED  BY <2>1, <2>2 DEF RelayTypes, NodePart
<1>. QED  BY <1>1, <1>2 DEF RelayTypes, StorePart, NodePart, PostedPart, RequestPart, PeerPart,
                            RelayTypeOK

-----------------------------------------------------------------------------
(* Every step keeps it: the channel goes up and down. *)

\* The channel stops at both ends.
LEMMA StoppedTypes ==
  ASSUME RelayTypes, Stopped, events' \in 0..MaxEvents
  PROVE  RelayTypes'
<1>1. /\ link' = "down" /\ Cleared
      /\ held' = [t \in Thread |-> NotHeld]
      /\ writer' = IF writer.by \in Thread THEN [writer EXCEPT !.by = "other"] ELSE writer
      /\ UNCHANGED <<stored, top_block, kept, theirs>>
  BY DEF Stopped
<1>2. StorePart' /\ writer'.by \notin Thread
  BY <1>1 DEF RelayTypes, StorePart, NoWriter, Thread
<1>3. NodePart'
  <2>1. /\ sending' = [s \in Strand |-> Nothing] /\ backlog' = <<>>
        /\ awaiting' = {} /\ timer' = FALSE /\ high' = FALSE
    BY <1>1 DEF Cleared
  <2>2. sending' \in [Strand -> DataOn(link') \cup {Nothing}]
    BY <2>1
  <2>3. timer' \in BOOLEAN /\ high' \in BOOLEAN
    BY <2>1, Zenon
  <2>4. awaiting' \subseteq Block /\ backlog' \in Seq(Block)
    <3>1. awaiting' = {} /\ backlog' = <<>>
      BY <2>1
    <3>. QED  BY <3>1
  <2>. QED  BY <1>1, <2>2, <2>3, <2>4 DEF NodePart
<1>8. PostedPart'
  BY <1>1 DEF Cleared, PostedPart, Posted
<1>4. RequestPart'
  BY <1>1 DEF Cleared, RequestPart, NoRequests, Requests
<1>5. PeerPart'
  BY <1>1 DEF Cleared, RelayTypes, PeerPart, Quietly
<1>6. held' \in [Thread -> Holdings] /\ wire' = <<>>
  BY <1>1 DEF Cleared, NotHeld, Holdings
<1>7. DownPart'
  BY <1>1, <1>2 DEF DownPart, Cleared
<1>. QED  BY <1>1, <1>2, <1>3, <1>4, <1>5, <1>6, <1>7, <1>8 DEF RelayTypes

\* The first locator of a new channel.
LEMMA LocatorType ==
  ASSUME RelayTypes, CanLocate, NEW stop \in Block \cup {None}
  PROVE  Locator(stop) \in [from : Block, stop : Block \cup {None}]
<1>1. Height[top_block] \in 0..Height[stored]
  BY BlockTreeAssumption DEF RelayTypes, StorePart, CanLocate
<1>2. At(stored, Height[top_block]) \in Block
  BY <1>1, BlockAtHeight DEF RelayTypes, StorePart
<1>. QED  BY <1>2 DEF Locator

LEMMA ConnectTypes ==
  ASSUME RelayTypes, NEW negotiated \in Negotiated, Connect(negotiated)
  PROVE  RelayTypes'
<1>1. /\ link = "down" /\ link' = negotiated /\ negotiated \in {"headers", "compact"}
      /\ UNCHANGED <<stored, top_block, kept, writer, backlog, awaiting, sending, posted, held,
                     wire, theirs, threshold, announce_by, jobs, events>>
      /\ timer' = TRUE
      /\ high' = (negotiated = "compact" /\ HighBandwidth /\ ~IsStale)
  BY RelayAssumption DEF Connect, Up, chain_vars, out_vars
<1>2. /\ wire = <<>> /\ jobs = <<>>
      /\ sending = [s \in Strand |-> Nothing]
      /\ posted = [k \in Posted |-> <<>>]
      /\ announce_by = Quietly
  BY <1>1 DEF RelayTypes, DownPart
<1>3. StorePart'
  BY <1>1 DEF RelayTypes, StorePart
<1>4. NodePart'
  <2>1. high' \in BOOLEAN
    BY <1>1
  <2>2. sending' \in [Strand -> DataOn(link') \cup {Nothing}] /\ sending'["compact"] = Nothing
    BY <1>1, <1>2 DEF Strand
  <2>. QED  BY <1>1, <2>1, <2>2 DEF RelayTypes, NodePart
<1>5. PostedPart'
  BY <1>1, <1>2 DEF PostedPart, Posted
<1>6. RequestPart'
  <2>1. Locator(None) \in [from : Block, stop : Block \cup {None}]
    BY LocatorType DEF Connect
  <2>2. requests' = [NoRequests EXCEPT
           !.send_headers = TRUE,
           !.send_compact = IF negotiated = "compact" THEN <<high'>> ELSE <<>>,
           !.get_headers = <<Locator(None)>>]
    BY DEF Connect
  <2>3. (IF negotiated = "compact" THEN <<high'>> ELSE <<>>) \in Seq(BOOLEAN)
    <3>1. high' \in BOOLEAN
      BY <1>1
    <3>2. <<high'>> \in Seq(BOOLEAN) /\ <<>> \in Seq(BOOLEAN)
      BY <3>1
    <3>. QED  BY <3>2
  <2>4. <<Locator(None)>> \in Seq([from : Block, stop : Block \cup {None}])
    BY <2>1
  <2>5. /\ requests' = [send_headers |-> TRUE,
                     send_compact |-> IF negotiated = "compact" THEN <<high'>> ELSE <<>>,
                     get_headers |-> <<Locator(None)>>,
                     get_data |-> <<>>, get_block_transactions |-> <<>>]
    BY <2>2 DEF NoRequests
  <2>6. requests' \in Requests
    BY <2>3, <2>4, <2>5 DEF Requests
  <2>. QED  BY <1>1, <2>5, <2>6 DEF RequestPart
<1>7. PeerPart'
  BY <1>1, <1>2 DEF RelayTypes, PeerPart, Quietly
<1>8. DownPart' /\ wire' \in Seq(MessagesOn(link'))
  BY <1>1, <1>2 DEF DownPart
<1>. QED  BY <1>1, <1>3, <1>4, <1>5, <1>6, <1>7, <1>8 DEF RelayTypes

\* Whatever is under way, the channel is up.
LEMMA UpWhen ==
  ASSUME RelayTypes,
         \/ wire # <<>> \/ jobs # <<>> \/ requests # NoRequests
         \/ \E s \in Strand : sending[s] # Nothing
         \/ \E k \in Posted : posted[k] # <<>>
         \/ \E t \in Thread : held[t] # NotHeld
         \/ writer.by \in Thread
  PROVE  link # "down"
<1>. SUFFICES ASSUME link = "down" PROVE FALSE
  OBVIOUS
<1>1. /\ wire = <<>> /\ jobs = <<>> /\ requests = NoRequests
      /\ \A s \in Strand : sending[s] = Nothing
      /\ \A k \in Posted : posted[k] = <<>>
      /\ \A t \in Thread : held[t] = NotHeld
      /\ writer.by \notin Thread
  BY DEF RelayTypes, DownPart
<1>. QED  BY <1>1

\* The read cycle.
LEMMA ReadTypes ==
  ASSUME RelayTypes, Read \/ ReadNothing
  PROVE  RelayTypes'
<1>1. /\ wire # <<>> /\ wire' = Tail(wire) /\ wire \in Seq(MessagesOn(link))
      /\ UNCHANGED <<link, stored, top_block, kept, writer, backlog, timer, high, awaiting, sending,
                     held, requests, theirs, threshold, announce_by, jobs, events>>
  BY DEF Read, ReadNothing, chain_vars, out_vars, RelayTypes
<1>2. link # "down"
  BY <1>1, UpWhen
<1>3. StorePart' /\ NodePart' /\ RequestPart' /\ PeerPart' /\ DownPart'
  BY <1>1, <1>2 DEF RelayTypes, StorePart, NodePart, RequestPart, PeerPart, DownPart
<1>4. wire' \in Seq(MessagesOn(link'))
  <2>1. \A S : wire \in Seq(S) => Tail(wire) \in Seq(S)
    BY <1>1
  <2>. QED  BY <1>1, <2>1
<1>5. PostedPart'
  <2>1. CASE ReadNothing
    BY <1>1, <2>1 DEF ReadNothing, RelayTypes, PostedPart
  <2>2. CASE Read
    <3> DEFINE m == Head(wire)
    <3>1. m \in MessagesOn(link) /\ m.kind \in Posted
      <4>1. \A S : wire \in Seq(S) => Head(wire) \in S
        BY <1>1
      <4>. QED  BY <1>1, <2>2, <4>1 DEF Read
    <3>2. posted' = [posted EXCEPT ![m.kind] = Append(@, m.blocks)]
      BY <2>2 DEF Read
    <3>. HIDE DEF m
    <3>3. /\ m.blocks \in Seq(Block)
          /\ m.kind \in OneBlock => Len(m.blocks) = 1
          /\ link = "headers" => m.kind \in {"headers", "inventory", "block", "not_found"}
      BY <3>1 DEF MessagesOn, Messages
    <3>4. posted \in [Posted -> Seq(Seq(Block))]
      BY DEF RelayTypes, PostedPart
    <3>5. posted' \in [Posted -> Seq(Seq(Block))]
      BY <3>1, <3>2, <3>3, <3>4
    <3>6. ASSUME NEW k \in {"compact", "block_transactions"}, NEW i \in DOMAIN posted'[k]
          PROVE  Len(posted'[k][i]) = 1
      <4>1. k \in Posted /\ k \in OneBlock
        BY DEF Posted, OneBlock
      <4>2. CASE k = m.kind
        <5>1. posted'[k] = Append(posted[k], m.blocks) /\ posted[k] \in Seq(Seq(Block))
          BY <3>1, <3>2, <3>4, <4>1, <4>2
        <5>2. posted'[k][i] = m.blocks \/ (i \in DOMAIN posted[k] /\ posted'[k][i] = posted[k][i])
          BY <5>1, <3>6
        <5>. QED  BY <5>2, <3>3, <4>1, <4>2 DEF RelayTypes, PostedPart
      <4>3. CASE k # m.kind
        <5>1. posted'[k] = posted[k]
          BY <3>1, <3>2, <3>4, <4>1, <4>3
        <5>. QED  BY <5>1, <3>6 DEF RelayTypes, PostedPart
      <4>. QED  BY <4>2, <4>3
    <3>7. link = "headers" => posted'["compact"] = <<>> /\ posted'["block_transactions"] = <<>>
      BY <3>1, <3>2, <3>3, <3>4 DEF RelayTypes, PostedPart, Posted
    <3>. QED  BY <1>1, <3>5, <3>6, <3>7 DEF PostedPart
  <2>. QED  BY <2>1, <2>2
<1>. QED  BY <1>1, <1>3, <1>4, <1>5 DEF RelayTypes

\* Taking a posted message.
LEMMA TakenTypes ==
  ASSUME RelayTypes, NEW k \in Posted, posted[k] # <<>>,
         posted' = [posted EXCEPT ![k] = Tail(@)], link' = link
  PROVE  /\ PostedPart'
         /\ Head(posted[k]) \in Seq(Block)
         /\ k \in {"compact", "block_transactions"} =>
              Len(Head(posted[k])) = 1 /\ Head(posted[k])[1] \in Block /\ link # "headers"
<1>1. posted \in [Posted -> Seq(Seq(Block))] /\ posted[k] \in Seq(Seq(Block))
  BY DEF RelayTypes, PostedPart
<1>2. /\ Tail(posted[k]) \in Seq(Seq(Block)) /\ Head(posted[k]) \in Seq(Block)
      /\ Head(posted[k]) = posted[k][1] /\ 1 \in DOMAIN posted[k]
      /\ \A i \in DOMAIN Tail(posted[k]) : i + 1 \in DOMAIN posted[k] /\ Tail(posted[k])[i] = posted[k][i + 1]
  BY <1>1
<1>3. posted' \in [Posted -> Seq(Seq(Block))]
  BY <1>1, <1>2
<1>4. ASSUME NEW j \in {"compact", "block_transactions"}, NEW i \in DOMAIN posted'[j]
      PROVE  Len(posted'[j][i]) = 1
  <2>1. j \in Posted
    BY DEF Posted
  <2>2. CASE j = k
    <3>1. posted'[j] = Tail(posted[k])
      BY <1>1, <2>1, <2>2
    <3>. QED  BY <3>1, <1>2, <1>4, <2>2 DEF RelayTypes, PostedPart
  <2>3. CASE j # k
    <3>1. posted'[j] = posted[j]
      BY <1>1, <2>1, <2>3
    <3>. QED  BY <3>1, <1>4 DEF RelayTypes, PostedPart
  <2>. QED  BY <2>2, <2>3
<1>5. link = "headers" => posted'["compact"] = <<>> /\ posted'["block_transactions"] = <<>>
  BY <1>1 DEF RelayTypes, PostedPart, Posted
<1>6. ASSUME k \in {"compact", "block_transactions"}
      PROVE  Len(Head(posted[k])) = 1 /\ Head(posted[k])[1] \in Block /\ link # "headers"
  <2>1. Len(Head(posted[k])) = 1
    BY <1>2, <1>6 DEF RelayTypes, PostedPart
  <2>2. Head(posted[k])[1] \in Block
    BY <1>2, <2>1
  <2>3. link # "headers"
    BY <1>6 DEF RelayTypes, PostedPart
  <2>. QED  BY <2>1, <2>2, <2>3
<1>. QED  BY <1>2, <1>3, <1>4, <1>5, <1>6 DEF PostedPart

\* A message from the peer.
LEMMA SentTypes ==
  ASSUME RelayTypes, NEW m \in MessagesOn(link), wire' = Append(wire, m), link' = link
  PROVE  wire' \in Seq(MessagesOn(link'))
<1>1. wire \in Seq(MessagesOn(link))
  BY DEF RelayTypes
<1>2. \A S : wire \in Seq(S) /\ m \in S => Append(wire, m) \in Seq(S)
  OBVIOUS
<1>. QED  BY <1>1, <1>2

\* send_get_data puts into the backlog what it is about to ask for.
LEMMA AskTypes ==
  ASSUME RelayTypes, NEW s \in Strand, NEW blocks \in Seq(Block), blocks # <<>>,
         NEW kind \in {"block", "compact_block"},
         link = "headers" => kind = "block" /\ s # "compact",
         Ask(s, blocks, kind), link' = link, awaiting' \subseteq Block
  PROVE  NodePart' /\ RequestPart'
<1>1. /\ backlog \in Seq(Block) /\ timer \in BOOLEAN /\ high \in BOOLEAN
      /\ sending \in [Strand -> DataOn(link) \cup {Nothing}]
      /\ requests \in Requests /\ requests.get_data \in Seq(DataOn(link))
  BY DEF RelayTypes, NodePart, RequestPart
<1>2. [kind |-> kind, blocks |-> blocks] \in DataOn(link)
  BY DEF DataOn, Data
<1>3. sending' = [sending EXCEPT ![s] = [kind |-> kind, blocks |-> blocks]]
  BY DEF Ask
<1>4. /\ sending' \in [Strand -> DataOn(link) \cup {Nothing}]
      /\ link = "headers" => sending'["compact"] = Nothing
  BY <1>1, <1>2, <1>3 DEF RelayTypes, NodePart, Strand
<1>5. backlog' \in Seq(Block)
  BY <1>1 DEF Ask
<1>6. timer' \in BOOLEAN
  BY DEF Ask
<1>7. high' \in BOOLEAN
  BY <1>1 DEF Ask
<1>8. NodePart'
  BY <1>4, <1>5, <1>6, <1>7 DEF NodePart
<1>9. RequestPart'
  <2>1. CASE UNCHANGED requests
    BY <2>1 DEF RelayTypes, RequestPart
  <2>2. CASE link = "compact" /\ requests' = [requests EXCEPT !.send_compact = Append(@, TRUE)]
    <3>1. requests.send_compact \in Seq(BOOLEAN)
      BY <1>1 DEF Requests
    <3>2. Append(requests.send_compact, TRUE) \in Seq(BOOLEAN)
      BY <3>1
    <3>3. requests' \in Requests /\ requests'.get_data = requests.get_data
      BY <1>1, <2>2, <3>2 DEF Requests
    <3>. QED  BY <1>1, <2>2, <3>3 DEF RequestPart
  <2>. QED  BY <2>1, <2>2 DEF Ask
<1>. QED  BY <1>8, <1>9

LEMMA ReceiveHashesTypes ==
  ASSUME RelayTypes, NEW s \in Strand, ReceiveHashes(s)
  PROVE  RelayTypes'
<1>1. /\ s \in {"headers", "inventory"} /\ s \in Posted /\ posted[s] # <<>>
      /\ posted' = [posted EXCEPT ![s] = Tail(@)]
      /\ UNCHANGED <<link, stored, top_block, kept, writer, awaiting, held, wire, theirs, threshold,
                     announce_by, jobs, events>>
  BY DEF ReceiveHashes, chain_vars, out_vars, Posted
<1>2. link # "down" /\ PostedPart' /\ Head(posted[s]) \in Seq(Block)
  BY <1>1, UpWhen, TakenTypes
<1>3. StorePart' /\ PeerPart' /\ DownPart'
  BY <1>1, <1>2 DEF RelayTypes, StorePart, PeerPart, DownPart
<1>4. NodePart' /\ RequestPart'
  <2> DEFINE unknown == Unknown(Head(posted[s]))
             kind == IF link = "compact" THEN "compact_block" ELSE "block"
  <2>1. unknown \in Seq(Block)
    BY <1>2, UnknownIsBlocks
  <2>2. \/ UNCHANGED <<backlog, timer, high, sending, requests>>
        \/ unknown # <<>> /\ Ask(s, unknown, kind)
    BY DEF ReceiveHashes
  <2>. HIDE DEF unknown
  <2>3. CASE UNCHANGED <<backlog, timer, high, sending, requests>>
    BY <1>1, <2>3 DEF RelayTypes, NodePart, RequestPart
  <2>4. CASE unknown # <<>> /\ Ask(s, unknown, kind)
    <3>1. /\ kind \in {"block", "compact_block"}
          /\ link = "headers" => kind = "block" /\ s # "compact"
          /\ awaiting' \subseteq Block /\ link' = link
      BY <1>1 DEF RelayTypes, NodePart
    <3>. HIDE DEF kind
    <3>. QED  BY <2>1, <2>4, <3>1, AskTypes
  <2>. QED  BY <2>2, <2>3, <2>4
<1>. QED  BY <1>1, <1>2, <1>3, <1>4 DEF RelayTypes

LEMMA SendGetDataTypes ==
  ASSUME RelayTypes, NEW s \in Strand, SendGetData(s)
  PROVE  RelayTypes'
<1>1. /\ sending[s] # Nothing
      /\ sending' = [sending EXCEPT ![s] = Nothing]
      /\ requests' = [requests EXCEPT !.get_data = Append(@, sending[s])]
      /\ UNCHANGED <<link, stored, top_block, kept, writer, backlog, timer, high, awaiting, posted,
                     held, wire, theirs, threshold, announce_by, jobs, events>>
  BY DEF SendGetData, chain_vars, out_vars
<1>2. link # "down"
  BY <1>1, UpWhen
<1>3. StorePart' /\ PostedPart' /\ PeerPart' /\ DownPart'
  BY <1>1, <1>2 DEF RelayTypes, StorePart, PostedPart, PeerPart, DownPart
<1>4. sending[s] \in DataOn(link) /\ sending[s] \in Data
  BY <1>1 DEF RelayTypes, NodePart, DataOn
<1>5. NodePart'
  BY <1>1 DEF RelayTypes, NodePart
<1>6. RequestPart'
  <2>1. requests \in Requests /\ requests.get_data \in Seq(DataOn(link))
    BY DEF RelayTypes, RequestPart
  <2>2. requests.get_data \in Seq(Data)
    BY <2>1 DEF Requests
  <2>3. \A S : requests.get_data \in Seq(S) /\ sending[s] \in S
               => Append(requests.get_data, sending[s]) \in Seq(S)
    OBVIOUS
  <2>4. requests' \in Requests
    BY <1>1, <1>4, <2>1, <2>2, <2>3 DEF Requests
  <2>5. /\ requests'.get_data = Append(requests.get_data, sending[s])
        /\ requests'.send_compact = requests.send_compact
        /\ requests'.get_block_transactions = requests.get_block_transactions
    BY <1>1, <2>1 DEF Requests
  <2>. QED  BY <1>1, <1>4, <2>1, <2>3, <2>4, <2>5 DEF RelayTypes, RequestPart
<1>. QED  BY <1>1, <1>3, <1>5, <1>6 DEF RelayTypes

\* A block is read and organized by the same thread.
LEMMA HeldTypes ==
  ASSUME RelayTypes, NEW t \in Thread, NEW b \in Block, NEW cleared \in BOOLEAN,
         Hold(t, b, cleared)
  PROVE  held' \in [Thread -> Holdings]
<1>1. [block |-> b, cleared |-> cleared, code |-> "none"] \in Holdings
  BY DEF Holdings
<1>. QED  BY <1>1 DEF Hold, RelayTypes

LEMMA ReadBlockTypes ==
  ASSUME RelayTypes, ReadBlock
  PROVE  RelayTypes'
<1>1. /\ wire # <<>> /\ wire \in Seq(MessagesOn(link)) /\ events \in 0..MaxEvents
  BY DEF ReadBlock, RelayTypes
<1>2. CASE Stopped /\ UNCHANGED events
  BY <1>1, <1>2, StoppedTypes
<1>3. CASE ~(Stopped /\ UNCHANGED events)
  <2> DEFINE b == Head(wire).blocks[1]
  <2>1. /\ backlog # <<>> /\ Head(backlog) = b
        /\ wire' = Tail(wire) /\ backlog' = Tail(backlog)
        /\ Hold("block", b, backlog' = <<>>)
        /\ UNCHANGED <<link, stored, top_block, kept, writer, timer, high, awaiting, sending, posted,
                       requests, theirs, threshold, announce_by, jobs, events>>
    BY <1>3 DEF ReadBlock, chain_vars, out_vars
  <2>2. link # "down"
    BY <1>1, UpWhen
  <2>3. StorePart' /\ PostedPart' /\ RequestPart' /\ PeerPart' /\ DownPart'
    BY <2>1, <2>2 DEF RelayTypes, StorePart, PostedPart, RequestPart, PeerPart, DownPart
  <2>4. b \in Block /\ backlog' \in Seq(Block)
    <3>1. backlog \in Seq(Block)
      BY DEF RelayTypes, NodePart
    <3>. QED  BY <2>1, <3>1
  <2>5. NodePart'
    BY <2>1, <2>4 DEF RelayTypes, NodePart
  <2>6. wire' \in Seq(MessagesOn(link'))
    <3>1. \A S : wire \in Seq(S) => Tail(wire) \in Seq(S)
      BY <1>1
    <3>. QED  BY <1>1, <2>1, <3>1
  <2>7. held' \in [Thread -> Holdings]
    <3>1. "block" \in Thread /\ (backlog' = <<>>) \in BOOLEAN
      BY DEF Thread
    <3>. QED  BY <2>1, <2>4, <3>1, HeldTypes
  <2>. QED  BY <2>1, <2>3, <2>5, <2>6, <2>7 DEF RelayTypes
<1>. QED  BY <1>2, <1>3


\* Whatever stops the channel: a block not found, the network, the timer.
LEMMA StopsTypes ==
  ASSUME RelayTypes,
         ReceiveNotFound \/ Disconnect \/ Timeout
  PROVE  RelayTypes'
<1>1. events \in 0..MaxEvents /\ MaxEvents \in Nat
  BY RelayAssumption DEF RelayTypes
<1>2. events' \in 0..MaxEvents
  BY <1>1 DEF ReceiveNotFound, Disconnect, Timeout, Happens
<1>3. CASE Stopped
  BY <1>2, <1>3, StoppedTypes
<1>4. CASE ~Stopped
  <2>1. /\ link # "down" /\ timer' = FALSE
        /\ UNCHANGED <<link, stored, top_block, kept, writer, backlog, high, awaiting, sending, posted,
                       held, wire, requests, theirs, threshold, announce_by, jobs>>
    BY <1>4 DEF ReceiveNotFound, Disconnect, Timeout, Up,
                chain_vars, out_vars
  <2>2. NodePart'
    <3>1. timer' \in BOOLEAN
      BY <2>1, Zenon
    <3>. QED  BY <2>1, <3>1 DEF RelayTypes, NodePart
  <2>3. StorePart' /\ PostedPart' /\ RequestPart' /\ PeerPart' /\ DownPart'
    BY <2>1 DEF RelayTypes, StorePart, PostedPart, RequestPart, PeerPart, DownPart
  <2>. QED  BY <1>2, <2>1, <2>2, <2>3 DEF RelayTypes
<1>. QED  BY <1>3, <1>4

\* handle_receive_compact_block comes on a channel of compact blocks only.
LEMMA ReceiveCompactTypes ==
  ASSUME RelayTypes, NEW found, ReceiveCompact(found)
  PROVE  RelayTypes'
<1> DEFINE b == Head(posted["compact"])[1]
           stored_parent == Parent[b] \in Lineage(stored)
           locate == b \notin awaiting /\ ~stored_parent /\ ~IsStale
           use == b \notin awaiting /\ stored_parent
           Takes ==
             /\ posted' = [posted EXCEPT !["compact"] = Tail(@)]
             /\ \/ Ask("compact", <<b>>, "block") /\ UNCHANGED <<held, awaiting>>
                \/ /\ Hold("compact", b, FALSE)
                   /\ UNCHANGED <<awaiting, requests, backlog, timer, high, sending>>
                \/ /\ awaiting' = awaiting \cup {b}
                   /\ requests' = [requests EXCEPT !.get_block_transactions = Append(@, b)]
                   /\ UNCHANGED <<held, backlog, timer, high, sending>>
                \/ /\ requests' = [requests EXCEPT !.get_headers = Append(@, Locator(None))]
                   /\ CanLocate
                   /\ UNCHANGED <<held, awaiting, backlog, timer, high, sending>>
                \/ UNCHANGED <<held, awaiting, backlog, timer, high, sending, requests>>
             /\ UNCHANGED <<link, stored, top_block, kept, writer, wire, theirs, threshold,
                            announce_by, jobs, events>>
<1>1. (Stopped /\ UNCHANGED events) \/ Takes
  <2>1. \/ locate /\ ~CanLocate /\ Stopped /\ UNCHANGED events
        \/ /\ ~(locate /\ ~CanLocate)
           /\ posted' = [posted EXCEPT !["compact"] = Tail(@)]
           /\ CASE use /\ found = "collision" ->
                     Ask("compact", <<b>>, "block") /\ UNCHANGED <<held, awaiting>>
                [] use /\ found = "all" ->
                     /\ Hold("compact", b, FALSE)
                     /\ UNCHANGED <<awaiting, requests, backlog, timer, high, sending>>
                [] use /\ found = "some" ->
                     /\ awaiting' = awaiting \cup {b}
                     /\ requests' = [requests EXCEPT !.get_block_transactions = Append(@, b)]
                     /\ UNCHANGED <<held, backlog, timer, high, sending>>
                [] OTHER ->
                     /\ requests' = IF locate
                          THEN [requests EXCEPT !.get_headers = Append(@, Locator(None))]
                          ELSE requests
                     /\ UNCHANGED <<held, awaiting, backlog, timer, high, sending>>
           /\ UNCHANGED <<link, stored, top_block, kept, writer, wire, theirs, threshold,
                          announce_by, jobs, events>>
    BY DEF ReceiveCompact, chain_vars, out_vars
  <2>. HIDE DEF locate, use, b
  <2>. QED  BY <2>1
<1>2. CASE Stopped /\ UNCHANGED events
  <2>1. events \in 0..MaxEvents
    BY DEF RelayTypes
  <2>. QED  BY <1>2, <2>1, StoppedTypes
<1>3. CASE Takes
  <2>1. posted["compact"] # <<>> /\ "compact" \in Posted /\ link' = link
    BY <1>3 DEF ReceiveCompact, Posted
  <2>2. PostedPart' /\ b \in Block /\ link # "headers" /\ link # "down"
    BY <1>3, <2>1, TakenTypes, UpWhen
  <2>. HIDE DEF b
  <2>3. StorePart' /\ PeerPart' /\ DownPart'
    BY <1>3, <2>2 DEF RelayTypes, StorePart, PeerPart, DownPart
  <2>4. held' \in [Thread -> Holdings]
    <3>1. "compact" \in Thread /\ FALSE \in BOOLEAN
      BY DEF Thread
    <3>2. CASE UNCHANGED held
      BY <3>2 DEF RelayTypes
    <3>3. CASE Hold("compact", b, FALSE)
      BY <2>2, <3>1, <3>3, HeldTypes
    <3>. QED  BY <1>3, <3>2, <3>3
  <2>5. NodePart' /\ RequestPart'
    <3>0. awaiting \subseteq Block /\ requests \in Requests
          /\ requests.get_headers \in Seq([from : Block, stop : Block \cup {None}])
          /\ requests.get_block_transactions \in Seq(Block)
      BY DEF RelayTypes, NodePart, RequestPart, Requests
    <3>1. CASE Ask("compact", <<b>>, "block") /\ UNCHANGED awaiting
      <4>1. "compact" \in Strand /\ <<b>> \in Seq(Block) /\ <<b>> # <<>>
            /\ "block" \in {"block", "compact_block"} /\ awaiting' \subseteq Block
        BY <2>2, <3>0, <3>1 DEF Strand
      <4>. QED  BY <2>1, <2>2, <3>1, <4>1, AskTypes
    <3>2. CASE UNCHANGED <<awaiting, requests, backlog, timer, high, sending>>
      BY <2>1, <3>2 DEF RelayTypes, NodePart, RequestPart
    <3>3. CASE /\ awaiting' = awaiting \cup {b}
               /\ requests' = [requests EXCEPT !.get_block_transactions = Append(@, b)]
               /\ UNCHANGED <<backlog, timer, high, sending>>
      <4>1. awaiting' \subseteq Block
        BY <2>2, <3>0, <3>3
      <4>2. Append(requests.get_block_transactions, b) \in Seq(Block)
        BY <2>2, <3>0
      <4>3. requests' \in Requests /\ requests'.get_data = requests.get_data
        BY <3>0, <3>3, <4>2 DEF Requests
      <4>. QED  BY <2>1, <2>2, <3>3, <4>1, <4>3 DEF RelayTypes, NodePart, RequestPart
    <3>4. CASE /\ requests' = [requests EXCEPT !.get_headers = Append(@, Locator(None))]
               /\ CanLocate
               /\ UNCHANGED <<awaiting, backlog, timer, high, sending>>
      <4>1. Append(requests.get_headers, Locator(None))
              \in Seq([from : Block, stop : Block \cup {None}])
        BY <3>0, <3>4, LocatorType
      <4>2. requests' \in Requests /\ requests'.get_data = requests.get_data
        BY <3>0, <3>4, <4>1 DEF Requests
      <4>. QED  BY <2>1, <2>2, <3>4, <4>2 DEF RelayTypes, NodePart, RequestPart
    <3>. QED  BY <1>3, <3>1, <3>2, <3>3, <3>4
  <2>. QED  BY <1>3, <2>2, <2>3, <2>4, <2>5 DEF RelayTypes
<1>. QED  BY <1>1, <1>2, <1>3

LEMMA ReceiveBlockTransactionsTypes ==
  ASSUME RelayTypes, ReceiveBlockTransactions
  PROVE  RelayTypes'
<1> DEFINE b == Head(posted["block_transactions"])[1]
<1>1. CASE Stopped /\ UNCHANGED events
  <2>1. events \in 0..MaxEvents
    BY DEF RelayTypes
  <2>. QED  BY <1>1, <2>1, StoppedTypes
<1>2. CASE ~(Stopped /\ UNCHANGED events)
  <2>1. /\ posted["block_transactions"] # <<>> /\ "block_transactions" \in Posted
        /\ posted' = [posted EXCEPT !["block_transactions"] = Tail(@)]
        /\ Hold("block_transactions", b, FALSE)
        /\ UNCHANGED <<link, stored, top_block, kept, writer, backlog, timer, high, awaiting, sending,
                       wire, requests, theirs, threshold, announce_by, jobs, events>>
    BY <1>2 DEF ReceiveBlockTransactions, chain_vars, out_vars, Posted
  <2>2. PostedPart' /\ b \in Block /\ link # "down"
    BY <2>1, TakenTypes, UpWhen
  <2>. HIDE DEF b
  <2>3. StorePart' /\ NodePart' /\ RequestPart' /\ PeerPart' /\ DownPart'
    BY <2>1, <2>2 DEF RelayTypes, StorePart, NodePart, RequestPart, PeerPart, DownPart
  <2>4. held' \in [Thread -> Holdings]
    <3>1. "block_transactions" \in Thread /\ FALSE \in BOOLEAN
      BY DEF Thread
    <3>. QED  BY <2>1, <2>2, <3>1, HeldTypes
  <2>. QED  BY <2>1, <2>2, <2>3, <2>4 DEF RelayTypes
<1>. QED  BY <1>1, <1>2

-----------------------------------------------------------------------------
(* Organization. *)

\* The store's writers leave the channel alone.
LEMMA WriterTypes ==
  ASSUME RelayTypes, ChannelUntouched, StorePart', events' \in 0..MaxEvents,
         held' \in [Thread -> Holdings],
         link = "down" => held' = held /\ writer'.by \notin Thread
  PROVE  RelayTypes'
<1>1. UNCHANGED <<link, backlog, timer, high, awaiting, sending, posted, wire, requests, theirs,
                  threshold, announce_by, jobs>>
  BY DEF ChannelUntouched, out_vars
<1>2. NodePart' /\ PostedPart' /\ RequestPart' /\ PeerPart' /\ DownPart'
  BY <1>1 DEF RelayTypes, NodePart, PostedPart, RequestPart, PeerPart, DownPart
<1>. QED  BY <1>1, <1>2 DEF RelayTypes

\* What a thread has called organize with, and that it is at it.
LEMMA HoldingFacts ==
  ASSUME RelayTypes, NEW t \in Thread, held[t].block # None \/ held[t].code # "none"
  PROVE  /\ held[t] \in Holdings /\ link # "down"
         /\ held[t].block # None => held[t].block \in Block
<1>1. held[t] \in Holdings /\ held[t] # NotHeld
  BY DEF RelayTypes, NotHeld
<1>2. link # "down"
  BY <1>1, UpWhen
<1>. QED  BY <1>1, <1>2 DEF Holdings

LEMMA OrganizeTypes ==
  ASSUME RelayTypes, NEW t \in Thread, Organize(t)
  PROVE  RelayTypes'
<1> DEFINE b == held[t].block
<1>1. /\ b \in Block /\ held[t] \in Holdings /\ link # "down"
      /\ UNCHANGED <<stored, top_block, events>> /\ ChannelUntouched
      /\ Keeps(b, Verdict(b))
      /\ \/ writer' = [by |-> t, goal |-> b] /\ UNCHANGED held
         \/ /\ Verdict(b) # "reorganize" /\ UNCHANGED writer
            /\ held' = [held EXCEPT ![t].code = Verdict(b)]
  BY HoldingFacts DEF Organize
<1>2. Verdict(b) \in {"duplicate_block", "orphan_block", "insufficient_work", "reorganize"}
  BY DEF Verdict
<1>. HIDE DEF b
<1>3. StorePart'
  <2>1. kept' \subseteq Block
    BY <1>1 DEF Keeps, RelayTypes, StorePart
  <2>. QED  BY <1>1, <2>1 DEF RelayTypes, StorePart
<1>4. held' \in [Thread -> Holdings]
  <2>1. \A v \in {"duplicate_block", "orphan_block", "insufficient_work"} :
          [held[t] EXCEPT !.code = v] \in Holdings
    BY <1>1 DEF Holdings
  <2>2. held \in [Thread -> Holdings]
    BY DEF RelayTypes
  <2>. QED  BY <1>1, <1>2, <2>1, <2>2
<1>5. events' \in 0..MaxEvents
  BY <1>1 DEF RelayTypes
<1>. QED  BY <1>1, <1>3, <1>4, <1>5, WriterTypes

LEMMA ElsewhereTypes ==
  ASSUME RelayTypes, NEW b \in Block, Elsewhere(b)
  PROVE  RelayTypes'
<1>1. /\ UNCHANGED <<stored, top_block, held>> /\ ChannelUntouched
      /\ Keeps(b, Verdict(b))
      /\ writer' = writer \/ writer' = [by |-> "other", goal |-> b]
      /\ events < MaxEvents /\ events' = events + 1
  BY DEF Elsewhere, Happens
<1>2. StorePart'
  <2>1. kept' \subseteq Block
    BY <1>1 DEF Keeps, RelayTypes, StorePart
  <2>. QED  BY <1>1, <2>1 DEF RelayTypes, StorePart
<1>3. events' \in 0..MaxEvents
  BY <1>1, RelayAssumption DEF RelayTypes
<1>4. link = "down" => writer'.by \notin Thread
  BY <1>1 DEF RelayTypes, DownPart, Thread
<1>5. held' \in [Thread -> Holdings]
  BY <1>1 DEF RelayTypes
<1>. QED  BY <1>1, <1>2, <1>3, <1>4, <1>5, WriterTypes

\* reorganize pops down to the fork and pushes up to its goal.
LEMMA WriteTypes ==
  ASSUME RelayTypes, Write
  PROVE  RelayTypes'
<1>1. /\ stored # writer.goal /\ ChannelUntouched
      /\ UNCHANGED <<top_block, kept, writer, held, events>>
      /\ writer.goal \in Block /\ stored \in Block
      /\ stored' = IF stored \in Lineage(writer.goal)
                   THEN At(writer.goal, Height[stored] + 1) ELSE Parent[stored]
  BY DEF Write, RelayTypes, StorePart, Idle
<1>2. stored' \in Block
  <2>1. CASE stored \in Lineage(writer.goal)
    <3>1. stored \in Ancestors[writer.goal]
      BY <1>1, <2>1 DEF Lineage
    <3>2. Height[stored] < Height[writer.goal]
      BY <1>1, <3>1, AncestorsAreBelow
    <3>3. Height[stored] + 1 \in 0..Height[writer.goal]
      BY <1>1, <3>2, BlockTreeAssumption
    <3>. QED  BY <1>1, <2>1, <3>3, BlockAtHeight
  <2>2. CASE stored \notin Lineage(writer.goal)
    <3>1. stored # Genesis
      BY <1>1, <2>2, GenesisIsBelow DEF Lineage, Lineage
    <3>. QED  BY <1>1, <2>2, <3>1, BlockTreeAssumption
  <2>. QED  BY <2>1, <2>2
<1>3. StorePart'
  BY <1>1, <1>2 DEF RelayTypes, StorePart
<1>4. events' \in 0..MaxEvents /\ held' \in [Thread -> Holdings]
  BY <1>1 DEF RelayTypes
<1>5. link = "down" => held' = held /\ writer'.by \notin Thread
  BY <1>1 DEF RelayTypes, DownPart
<1>. QED  BY <1>1, <1>3, <1>4, <1>5, WriterTypes

LEMMA CommitTypes ==
  ASSUME RelayTypes, Commit
  PROVE  RelayTypes'
<1>1. /\ top_block' = stored /\ stored' = stored /\ events' = events
      /\ kept' = (kept \cup Lineage(top_block)) \ Lineage(stored)
      /\ writer' = NoWriter /\ ChannelUntouched
      /\ held' = IF writer.by \in Thread THEN [held EXCEPT ![writer.by].code = "success"]
                 ELSE held
  BY DEF Commit
<1>2. StorePart'
  <2>1. Lineage(top_block) \subseteq Block
    BY AncestorsAreBelow DEF Lineage, RelayTypes, StorePart
  <2>2. kept' \subseteq Block
    BY <1>1, <2>1 DEF RelayTypes, StorePart
  <2>3. writer' \in [by : Thread \cup {"other", "none"}, goal : Block \cup {None}]
    BY <1>1 DEF NoWriter
  <2>. QED  BY <1>1, <2>2, <2>3 DEF RelayTypes, StorePart
<1>3. held' \in [Thread -> Holdings]
  <2>1. ASSUME writer.by \in Thread
        PROVE  [held[writer.by] EXCEPT !.code = "success"] \in Holdings
    BY <2>1 DEF RelayTypes, Holdings
  <2>2. held \in [Thread -> Holdings]
    BY DEF RelayTypes
  <2>. QED  BY <1>1, <2>1, <2>2
<1>4. link = "down" => held' = held
  BY <1>1 DEF RelayTypes, DownPart
<1>5. writer'.by \notin Thread
  BY <1>1 DEF NoWriter, Thread
<1>6. events' \in 0..MaxEvents
  BY <1>1 DEF RelayTypes
<1>. QED  BY <1>1, <1>2, <1>3, <1>4, <1>5, <1>6, WriterTypes

\* organize returns.
LEMMA FinishTypes ==
  ASSUME RelayTypes, NEW t \in Thread, Finish(t)
  PROVE  RelayTypes'
<1> DEFINE b == held[t].block
           missing == IF held[t].code = "orphan_block" THEN <<b>> ELSE <<>>
           more == IF t = "block" /\ held[t].cleared THEN <<None>> ELSE <<>>
           stops == missing \o more
           asked == [i \in 1..Len(stops) |-> Locator(stops[i])]
<1>0. held[t].code # "none" /\ held[t] \in Holdings /\ link # "down"
  BY HoldingFacts DEF Finish
<1>1. CASE Stopped /\ UNCHANGED events
  <2>1. events \in 0..MaxEvents
    BY DEF RelayTypes
  <2>. QED  BY <1>1, <2>1, StoppedTypes
<1>2. CASE ~(Stopped /\ UNCHANGED events)
  <2>1. /\ stops = <<>> \/ CanLocate
        /\ requests' = [requests EXCEPT !.get_headers = @ \o asked]
        /\ timer' = (timer \/ t = "block")
        /\ awaiting' = IF t = "block_transactions" THEN awaiting \ {b} ELSE awaiting
        /\ held' = [held EXCEPT ![t] = NotHeld]
        /\ UNCHANGED <<link, stored, top_block, kept, writer, backlog, high, sending, posted, wire,
                       theirs, threshold, announce_by, jobs, events>>
    BY <1>2 DEF Finish, chain_vars, out_vars
  <2>2. stops \in Seq(Block \cup {None})
    <3>1. b \in Block \cup {None}
      BY <1>0 DEF Holdings
    <3>. HIDE DEF b
    <3>2. <<b>> \in Seq(Block \cup {None}) /\ <<None>> \in Seq(Block \cup {None})
          /\ <<>> \in Seq(Block \cup {None})
      BY <3>1
    <3>3. (missing = <<b>> \/ missing = <<>>) /\ (more = <<None>> \/ more = <<>>)
      BY Zenon
    <3>4. missing \in Seq(Block \cup {None}) /\ more \in Seq(Block \cup {None})
      <4>. HIDE DEF missing, more
      <4>. QED  BY <3>2, <3>3
    <3>. HIDE DEF missing, more
    <3>. QED  BY <3>4
  <2>3. asked \in Seq([from : Block, stop : Block \cup {None}])
    <3>. HIDE DEF stops
    <3>1. CASE stops = <<>>
      BY <3>1
    <3>2. CASE CanLocate
      <4>1. \A stop \in Block \cup {None} :
              Locator(stop) \in [from : Block, stop : Block \cup {None}]
        BY <3>2, LocatorType
      <4>2. PICK n \in Nat : n = Len(stops)
        BY <2>2
      <4>3. \A i \in 1..n : stops[i] \in Block \cup {None}
        BY <2>2, <4>2
      <4>4. asked = [i \in 1..n |-> Locator(stops[i])]
        BY <4>2
      <4>. HIDE DEF asked
      <4>. QED  BY <4>1, <4>3, <4>4
    <3>. QED  BY <2>1, <3>1, <3>2
  <2>. HIDE DEF asked
  <2>4. RequestPart'
    <3>1. requests \in Requests
          /\ requests.get_headers \in Seq([from : Block, stop : Block \cup {None}])
      BY DEF RelayTypes, RequestPart, Requests
    <3>2. requests.get_headers \o asked \in Seq([from : Block, stop : Block \cup {None}])
      BY <2>3, <3>1
    <3>3. /\ requests' \in Requests /\ requests'.get_data = requests.get_data
          /\ requests'.send_compact = requests.send_compact
          /\ requests'.get_block_transactions = requests.get_block_transactions
      BY <2>1, <3>1, <3>2 DEF Requests
    <3>. QED  BY <2>1, <3>3 DEF RelayTypes, RequestPart
  <2>5. NodePart'
    BY <2>1 DEF RelayTypes, NodePart
  <2>6. StorePart' /\ PostedPart' /\ PeerPart' /\ DownPart'
    BY <1>0, <2>1 DEF RelayTypes, StorePart, PostedPart, PeerPart, DownPart
  <2>7. held' \in [Thread -> Holdings]
    <3>1. NotHeld \in Holdings
      BY DEF NotHeld, Holdings
    <3>. QED  BY <2>1, <3>1 DEF RelayTypes
  <2>. QED  BY <2>1, <2>4, <2>5, <2>6, <2>7 DEF RelayTypes
<1>. QED  BY <1>1, <1>2

-----------------------------------------------------------------------------
(* The peer. *)

\* What the peer's handlers leave alone.
LEMMA AnswerTypes ==
  ASSUME RelayTypes, InUntouched, link # "down", UNCHANGED events,
         RequestPart', PeerPart', wire' \in Seq(MessagesOn(link'))
  PROVE  RelayTypes'
<1>1. UNCHANGED <<link, stored, top_block, kept, writer, backlog, timer, high, awaiting, sending,
                  posted, held>>
  BY DEF InUntouched, chain_vars
<1>2. StorePart' /\ NodePart' /\ PostedPart' /\ DownPart'
  BY <1>1 DEF RelayTypes, StorePart, NodePart, PostedPart, DownPart
<1>. QED  BY <1>1, <1>2 DEF RelayTypes

LEMMA TakeSendHeadersTypes ==
  ASSUME RelayTypes, TakeSendHeaders
  PROVE  RelayTypes'
<1>1. /\ requests.send_headers
      /\ requests' = [requests EXCEPT !.send_headers = FALSE]
      /\ announce_by' = [announce_by EXCEPT !.headers = TRUE]
      /\ UNCHANGED <<link, wire, theirs, threshold, jobs, events>> /\ InUntouched
  BY DEF TakeSendHeaders, InUntouched
<1>2. link # "down"
  <2>1. requests # NoRequests
    BY <1>1 DEF NoRequests
  <2>. QED  BY <2>1, UpWhen
<1>3. RequestPart'
  BY <1>1 DEF RelayTypes, RequestPart, Requests
<1>4. PeerPart'
  BY <1>1 DEF RelayTypes, PeerPart
<1>. QED  BY <1>1, <1>2, <1>3, <1>4, AnswerTypes DEF RelayTypes

LEMMA TakeSendCompactTypes ==
  ASSUME RelayTypes, TakeSendCompact
  PROVE  RelayTypes'
<1>1. /\ requests.send_compact # <<>>
      /\ requests' = [requests EXCEPT !.send_compact = Tail(@)]
      /\ \/ announce_by' = announce_by
         \/ announce_by' = [announce_by EXCEPT !.compact = "high"]
         \/ announce_by' = [announce_by EXCEPT !.compact = "low"]
      /\ UNCHANGED <<link, wire, theirs, threshold, jobs, events>> /\ InUntouched
  BY DEF TakeSendCompact, InUntouched
<1>2. link # "down"
  <2>1. requests # NoRequests
    BY <1>1 DEF NoRequests
  <2>. QED  BY <2>1, UpWhen
<1>3. link # "headers" /\ requests \in Requests /\ requests.send_compact \in Seq(BOOLEAN)
  BY <1>1 DEF RelayTypes, RequestPart, Requests
<1>4. RequestPart'
  <2>1. Tail(requests.send_compact) \in Seq(BOOLEAN)
    <3>1. \A S : requests.send_compact \in Seq(S) => Tail(requests.send_compact) \in Seq(S)
      BY <1>1
    <3>. QED  BY <1>3, <3>1
  <2>2. requests' \in Requests /\ requests'.get_data = requests.get_data
    BY <1>1, <1>3, <2>1 DEF Requests
  <2>. QED  BY <1>1, <1>3, <2>2 DEF RelayTypes, RequestPart
<1>5. PeerPart'
  BY <1>1, <1>3 DEF RelayTypes, PeerPart
<1>. QED  BY <1>1, <1>2, <1>4, <1>5, AnswerTypes DEF RelayTypes

\* The reply to the first get_headers.
LEMMA ReplyIsBlocks ==
  ASSUME RelayTypes, requests.get_headers # <<>>
  PROVE  HeadersFor(Head(requests.get_headers)) \in Seq(Block)
<1>1. requests.get_headers \in Seq([from : Block, stop : Block \cup {None}])
  BY DEF RelayTypes, RequestPart, Requests
<1>2. Head(requests.get_headers) \in [from : Block, stop : Block \cup {None}]
  <2>1. \A S : requests.get_headers \in Seq(S) => Head(requests.get_headers) \in S
    OBVIOUS
  <2>. QED  BY <1>1, <2>1
<1>. QED  BY <1>2, HeadersAreBlocks DEF RelayTypes, PeerPart

LEMMA TakeGetHeadersTypes ==
  ASSUME RelayTypes, TakeGetHeaders
  PROVE  RelayTypes'
<1> DEFINE request == Head(requests.get_headers)
           reply == HeadersFor(request)
<1>1. /\ requests.get_headers # <<>>
      /\ requests' = [requests EXCEPT !.get_headers = Tail(@)]
      /\ \/ UNCHANGED <<wire, threshold>>
         \/ /\ Send("headers", reply)
            /\ (threshold' = threshold \/ (reply # <<>> /\ threshold' = Head(reply)))
      /\ UNCHANGED <<link, theirs, announce_by, jobs, events>> /\ InUntouched
  <2>1. /\ requests.get_headers # <<>>
        /\ requests' = [requests EXCEPT !.get_headers = Tail(@)]
        /\ IF Refused(request.from) THEN UNCHANGED <<wire, threshold>>
           ELSE /\ Send("headers", reply)
                /\ threshold' = IF reply = <<>> THEN threshold ELSE Head(reply)
        /\ UNCHANGED <<theirs, announce_by, jobs>> /\ InUntouched /\ UNCHANGED events
    BY Zenon DEF TakeGetHeaders
  <2>2. link' = link
    BY <2>1 DEF InUntouched
  <2>. HIDE DEF request, reply
  <2>3. threshold' = (IF reply = <<>> THEN threshold ELSE Head(reply))
        => (threshold' = threshold \/ (reply # <<>> /\ threshold' = Head(reply)))
    BY Zenon
  <2>4. \/ UNCHANGED <<wire, threshold>>
        \/ /\ Send("headers", reply)
           /\ (threshold' = threshold \/ (reply # <<>> /\ threshold' = Head(reply)))
    BY <2>1, <2>3, Zenon
  <2>. QED  BY <2>1, <2>2, <2>4, Zenon
<1>2. link # "down"
  <2>1. requests # NoRequests
    BY <1>1 DEF NoRequests
  <2>. QED  BY <2>1, UpWhen
<1>3. requests \in Requests
      /\ requests.get_headers \in Seq([from : Block, stop : Block \cup {None}])
  BY DEF RelayTypes, RequestPart, Requests
<1>5. reply \in Seq(Block)
  BY <1>1, ReplyIsBlocks
<1>. HIDE DEF request, reply
<1>6. RequestPart'
  <2>1. Tail(requests.get_headers) \in Seq([from : Block, stop : Block \cup {None}])
    BY <1>1, <1>3
  <2>2. requests' \in Requests /\ requests'.get_data = requests.get_data
        /\ requests'.send_compact = requests.send_compact
        /\ requests'.get_block_transactions = requests.get_block_transactions
    BY <1>1, <1>3, <2>1 DEF Requests
  <2>. QED  BY <1>1, <2>2 DEF RelayTypes, RequestPart
<1>7. PeerPart'
  <2>1. reply # <<>> => Head(reply) \in Block
    BY <1>5
  <2>. QED  BY <1>1, <2>1 DEF RelayTypes, PeerPart
<1>8. wire' \in Seq(MessagesOn(link'))
  <2>1. [kind |-> "headers", blocks |-> reply] \in MessagesOn(link)
    BY <1>5 DEF MessagesOn, OneBlock, Messages, Posted
  <2>. QED  BY <1>1, <2>1, SentTypes DEF RelayTypes, Send
<1>. QED  BY <1>1, <1>2, <1>6, <1>7, <1>8, AnswerTypes

LEMMA TakeGetDataTypes ==
  ASSUME RelayTypes, TakeGetData
  PROVE  RelayTypes'
<1>1. /\ requests.get_data # <<>>
      /\ requests' = [requests EXCEPT !.get_data = Tail(@)]
      /\ jobs' = Append(jobs, Head(requests.get_data))
      /\ UNCHANGED <<link, wire, theirs, threshold, announce_by, events>> /\ InUntouched
  BY DEF TakeGetData, InUntouched
<1>2. link # "down"
  <2>1. requests # NoRequests
    BY <1>1 DEF NoRequests
  <2>. QED  BY <2>1, UpWhen
<1>3. requests \in Requests /\ requests.get_data \in Seq(DataOn(link))
      /\ requests.get_data \in Seq(Data)
  BY DEF RelayTypes, RequestPart, Requests
<1>4. \A S : requests.get_data \in Seq(S) => /\ Tail(requests.get_data) \in Seq(S)
                                             /\ Head(requests.get_data) \in S
  BY <1>1
<1>5. RequestPart'
  <2>1. requests' \in Requests /\ requests'.get_data = Tail(requests.get_data)
        /\ requests'.send_compact = requests.send_compact
        /\ requests'.get_block_transactions = requests.get_block_transactions
    BY <1>1, <1>3, <1>4 DEF Requests
  <2>2. Tail(requests.get_data) \in Seq(DataOn(link))
    BY <1>3, <1>4
  <2>. QED  BY <1>1, <2>1, <2>2 DEF RelayTypes, RequestPart
<1>6. PeerPart'
  <2>1. \A S, d : jobs \in Seq(S) /\ d \in S => Append(jobs, d) \in Seq(S)
    OBVIOUS
  <2>2. jobs' \in Seq(DataOn(link'))
    BY <1>1, <1>3, <1>4, <2>1 DEF RelayTypes, PeerPart
  <2>. QED  BY <1>1, <2>2 DEF RelayTypes, PeerPart
<1>. QED  BY <1>1, <1>2, <1>5, <1>6, AnswerTypes DEF RelayTypes

LEMMA TakeGetBlockTransactionsTypes ==
  ASSUME RelayTypes, TakeGetBlockTransactions
  PROVE  RelayTypes'
<1> DEFINE b == Head(requests.get_block_transactions)
<1>1. /\ requests.get_block_transactions # <<>>
      /\ requests' = [requests EXCEPT !.get_block_transactions = Tail(@)]
      /\ Send("block_transactions", <<b>>) \/ UNCHANGED wire
      /\ UNCHANGED <<link, theirs, threshold, announce_by, jobs, events>> /\ InUntouched
  BY DEF TakeGetBlockTransactions, InUntouched, out_vars
<1>2. link # "down"
  <2>1. requests # NoRequests
    BY <1>1 DEF NoRequests
  <2>. QED  BY <2>1, UpWhen
<1>3. link # "headers" /\ requests \in Requests
      /\ requests.get_block_transactions \in Seq(Block)
  BY <1>1 DEF RelayTypes, RequestPart, Requests
<1>4. b \in Block /\ Tail(requests.get_block_transactions) \in Seq(Block)
  BY <1>1, <1>3
<1>. HIDE DEF b
<1>5. RequestPart'
  <2>1. requests' \in Requests /\ requests'.get_data = requests.get_data
    BY <1>1, <1>3, <1>4 DEF Requests
  <2>. QED  BY <1>1, <1>3, <2>1 DEF RelayTypes, RequestPart
<1>6. PeerPart'
  BY <1>1 DEF RelayTypes, PeerPart
<1>7. wire' \in Seq(MessagesOn(link'))
  <2>1. [kind |-> "block_transactions", blocks |-> <<b>>] \in MessagesOn(link)
    <3>1. <<b>> \in Seq(Block) /\ Len(<<b>>) = 1
      BY <1>4
    <3>. QED  BY <1>3, <3>1 DEF MessagesOn, Messages, Posted
  <2>. QED  BY <1>1, <2>1, SentTypes DEF RelayTypes, Send
<1>. QED  BY <1>1, <1>2, <1>5, <1>6, <1>7, AnswerTypes

\* What is left of a list without one of its members.
LEMMA WithoutOne ==
  ASSUME NEW S, NEW s \in Seq(S), NEW i \in DOMAIN s
  PROVE  /\ SubSeq(s, 1, i - 1) \o SubSeq(s, i + 1, Len(s)) \in Seq(S)
         /\ Len(SubSeq(s, 1, i - 1) \o SubSeq(s, i + 1, Len(s))) = Len(s) - 1
         /\ \A k \in 1..Len(s) - 1 :
              (SubSeq(s, 1, i - 1) \o SubSeq(s, i + 1, Len(s)))[k] = IF k < i THEN s[k] ELSE s[k + 1]
<1>1. PICK n \in Nat : n = Len(s) /\ DOMAIN s = 1..n /\ i \in 1..n /\ \A k \in 1..n : s[k] \in S
  OBVIOUS
<1> DEFINE a == SubSeq(s, 1, i - 1)
           b == SubSeq(s, i + 1, n)
<1>2. a \in Seq(S) /\ Len(a) = i - 1 /\ \A k \in 1..i - 1 : a[k] = s[k]
  BY <1>1
<1>3. b \in Seq(S) /\ Len(b) = n - i /\ \A k \in 1..n - i : b[k] = s[k + i]
  BY <1>1
<1>. HIDE DEF a, b
<1>4. /\ a \o b \in Seq(S) /\ Len(a \o b) = n - 1
      /\ \A k \in 1..n - 1 : (a \o b)[k] = IF k < i THEN a[k] ELSE b[k - i + 1]
  BY <1>1, <1>2, <1>3
<1>5. \A k \in 1..n - 1 : (a \o b)[k] = IF k < i THEN s[k] ELSE s[k + 1]
  <2>1. TAKE k \in 1..n - 1
  <2>2. CASE k < i
    <3>1. k \in 1..i - 1
      BY <1>1, <2>2
    <3>. QED  BY <1>2, <1>4, <2>2, <3>1
  <2>3. CASE ~(k < i)
    <3>1. k - i + 1 \in 1..n - i /\ (k - i + 1) + i = k + 1
      BY <1>1, <2>3
    <3>2. b[k - i + 1] = s[k + 1]
      BY <1>3, <3>1
    <3>. QED  BY <1>4, <2>3, <3>2
  <2>. QED  BY <2>2, <2>3
<1>. QED  BY <1>1, <1>4, <1>5 DEF a, b

\* send_next_data takes one block off one get_data.
LEMMA SendNextFacts ==
  ASSUME RelayTypes, NEW i \in DOMAIN jobs, SendNext(i)
  PROVE  /\ jobs[i] \in DataOn(link) /\ link # "down"
         /\ jobs' \in Seq(DataOn(link))
         /\ \/ /\ Len(jobs[i].blocks) > 1
               /\ jobs' = [jobs EXCEPT ![i].blocks = Tail(@)]
            \/ /\ Len(jobs[i].blocks) = 1
               /\ jobs' = SubSeq(jobs, 1, i - 1) \o SubSeq(jobs, i + 1, Len(jobs))
         /\ \E kind \in {"block", "not_found", "compact", "compact_not_found"} :
              /\ kind \in {"block", "not_found"} <=> jobs[i].kind = "block"
              /\ wire' = Append(wire, [kind |-> kind, blocks |-> <<Head(jobs[i].blocks)>>])
         /\ UNCHANGED <<requests, theirs, threshold, announce_by, events>> /\ InUntouched
<1> DEFINE job == jobs[i]
           b == Head(job.blocks)
<1>1. /\ jobs' = IF Len(job.blocks) > 1 THEN [jobs EXCEPT ![i].blocks = Tail(@)]
                 ELSE SubSeq(jobs, 1, i - 1) \o SubSeq(jobs, i + 1, Len(jobs))
      /\ IF job.kind = "block"
         THEN Send(IF b \in Lineage(theirs) THEN "block" ELSE "not_found", <<b>>)
         ELSE Send(IF b \in Lineage(theirs) THEN "compact" ELSE "compact_not_found", <<b>>)
      /\ UNCHANGED <<requests, theirs, threshold, announce_by, events>> /\ InUntouched
  BY Zenon DEF SendNext
<1>2. jobs \in Seq(DataOn(link)) /\ jobs # <<>>
  BY DEF RelayTypes, PeerPart
<1>3. job \in DataOn(link) /\ link # "down"
  BY <1>2, UpWhen
<1>4. Len(job.blocks) > 1 \/ Len(job.blocks) = 1
  <2>1. job.blocks \in Seq(Block) /\ job.blocks # <<>>
    BY <1>3, DataFacts
  <2>2. PICK s \in Seq(Block) : s = job.blocks /\ s # <<>>
    BY <2>1
  <2>3. PICK n \in Nat : n = Len(s)
    OBVIOUS
  <2>4. n # 0
    BY <2>2, <2>3
  <2>5. n > 1 \/ n = 1
    BY <2>4
  <2>. QED  BY <2>2, <2>3, <2>5
<1>5. jobs' \in Seq(DataOn(link))
  <2>1. CASE Len(job.blocks) > 1
    <3>1. [job EXCEPT !.blocks = Tail(@)] \in DataOn(link)
      <4>1. Tail(job.blocks) \in Seq(Block) /\ Tail(job.blocks) # <<>>
        <5>1. \A t \in Seq(Block) : Len(t) > 1 => Tail(t) \in Seq(Block) /\ Tail(t) # <<>>
          OBVIOUS
        <5>. QED  BY <1>3, <2>1, <5>1, DataFacts
      <4>2. job \in Data /\ (link = "headers" => job.kind = "block") /\ job.kind # "none"
        BY <1>3, DataFacts
      <4>3. [job EXCEPT !.blocks = Tail(@)] \in Data
        BY <4>1, <4>2 DEF Data
      <4>4. /\ [job EXCEPT !.blocks = Tail(@)].kind = job.kind
            /\ [job EXCEPT !.blocks = Tail(@)].blocks = Tail(job.blocks)
        BY <4>2 DEF Data
      <4>. QED  BY <4>1, <4>2, <4>3, <4>4 DEF DataOn
    <3>2. jobs' = [jobs EXCEPT ![i] = [job EXCEPT !.blocks = Tail(@)]]
      BY <1>1, <2>1
    <3>3. \A S, d : jobs \in Seq(S) /\ d \in S => [jobs EXCEPT ![i] = d] \in Seq(S)
      OBVIOUS
    <3>. HIDE DEF job
    <3>. QED  BY <1>2, <3>1, <3>2, <3>3
  <2>2. CASE Len(job.blocks) = 1
    <3>1. jobs' = SubSeq(jobs, 1, i - 1) \o SubSeq(jobs, i + 1, Len(jobs))
      BY <1>1, <2>2
    <3>. QED  BY <1>2, <3>1, WithoutOne
  <2>. QED  BY <1>4, <2>1, <2>2
<1>6. \E kind \in {"block", "not_found", "compact", "compact_not_found"} :
        /\ kind \in {"block", "not_found"} <=> job.kind = "block"
        /\ wire' = Append(wire, [kind |-> kind, blocks |-> <<b>>])
  <2>. HIDE DEF job, b
  <2>1. CASE job.kind = "block" /\ b \in Lineage(theirs)
    BY <1>1, <2>1 DEF Send
  <2>2. CASE job.kind = "block" /\ b \notin Lineage(theirs)
    BY <1>1, <2>2 DEF Send
  <2>3. CASE job.kind # "block" /\ b \in Lineage(theirs)
    BY <1>1, <2>3 DEF Send
  <2>4. CASE job.kind # "block" /\ b \notin Lineage(theirs)
    BY <1>1, <2>4 DEF Send
  <2>. QED  BY <2>1, <2>2, <2>3, <2>4
<1>. QED  BY <1>1, <1>3, <1>4, <1>5, <1>6

LEMMA SendNextTypes ==
  ASSUME RelayTypes, NEW i \in DOMAIN jobs, SendNext(i)
  PROVE  RelayTypes'
<1>1. PICK kind \in {"block", "not_found", "compact", "compact_not_found"} :
        /\ kind \in {"block", "not_found"} <=> jobs[i].kind = "block"
        /\ wire' = Append(wire, [kind |-> kind, blocks |-> <<Head(jobs[i].blocks)>>])
  BY SendNextFacts
<1>2. /\ jobs[i] \in DataOn(link) /\ jobs' \in Seq(DataOn(link)) /\ link # "down" /\ link' = link
      /\ UNCHANGED <<requests, theirs, threshold, announce_by, events>> /\ InUntouched
  BY SendNextFacts DEF InUntouched
<1>3. PeerPart' /\ RequestPart'
  BY <1>2 DEF RelayTypes, PeerPart, RequestPart
<1>4. wire' \in Seq(MessagesOn(link'))
  <2>1. Head(jobs[i].blocks) \in Block /\ (link = "headers" => jobs[i].kind = "block")
    BY <1>2, DataFacts
  <2>2. <<Head(jobs[i].blocks)>> \in Seq(Block) /\ Len(<<Head(jobs[i].blocks)>>) = 1
    BY <2>1
  <2>3. [kind |-> kind, blocks |-> <<Head(jobs[i].blocks)>>] \in MessagesOn(link)
    BY <1>1, <2>1, <2>2 DEF MessagesOn, Messages, Posted
  <2>. QED  BY <1>1, <1>2, <2>3, SentTypes
<1>. QED  BY <1>2, <1>3, <1>4, AnswerTypes

\* What a peer that moves announces is one message, and no block but a compact one.
LEMMA PeerMovesFacts ==
  ASSUME RelayTypes, NEW b \in Block, PeerMoves(b)
  PROVE  /\ wire' = wire \/ \E m \in MessagesOn(link) :
              /\ link # "down" /\ m.kind \in {"compact", "headers", "inventory"}
              /\ wire' = Append(wire, m)
         /\ theirs' = b /\ events < MaxEvents /\ events' = events + 1
         /\ UNCHANGED <<requests, threshold, announce_by, jobs>> /\ InUntouched
<1> DEFINE start == Height[Meeting(theirs, b)]
           incoming == Slice(b, start + 1, Height[b])
           kind == IF announce_by.compact = "high" /\ Len(incoming) = 1 THEN "compact"
                   ELSE IF announce_by.headers THEN "headers" ELSE "inventory"
<1>1. /\ wire' = wire \/ (link # "down" /\ Send(kind, incoming))
      /\ theirs' = b /\ events < MaxEvents /\ events' = events + 1
      /\ UNCHANGED <<requests, threshold, announce_by, jobs>> /\ InUntouched
  BY DEF PeerMoves, Happens, Up
<1>2. incoming \in Seq(Block)
  <2>1. start \in Nat /\ Height[b] \in Nat
    BY MeetingFacts, BlockTreeAssumption DEF RelayTypes, PeerPart
  <2>. HIDE DEF start
  <2>. QED  BY <2>1, SliceIsBlocks
<1>. HIDE DEF incoming
<1>3. [kind |-> kind, blocks |-> incoming] \in MessagesOn(link)
  <2>1. link = "headers" => announce_by.compact # "high"
    BY DEF RelayTypes, PeerPart
  <2>2. /\ kind \in {"compact", "headers", "inventory"}
        /\ kind = "compact" => Len(incoming) = 1 /\ announce_by.compact = "high"
    OBVIOUS
  <2>. HIDE DEF kind
  <2>. QED  BY <1>2, <2>1, <2>2 DEF MessagesOn, OneBlock, Messages, Posted
<1>4. kind \in {"compact", "headers", "inventory"}
  OBVIOUS
<1>. HIDE DEF kind
<1>. QED  BY <1>1, <1>3, <1>4 DEF Send

LEMMA PeerMovesTypes ==
  ASSUME RelayTypes, NEW b \in Block, PeerMoves(b)
  PROVE  RelayTypes'
<1>1. /\ UNCHANGED <<link, stored, top_block, kept, writer, backlog, timer, high, awaiting, sending,
                     posted, held, requests, threshold, announce_by, jobs>>
      /\ theirs' = b /\ events' \in 0..MaxEvents
  BY PeerMovesFacts, RelayAssumption DEF InUntouched, chain_vars, RelayTypes
<1>2. StorePart' /\ NodePart' /\ PostedPart' /\ RequestPart' /\ PeerPart'
  BY <1>1 DEF RelayTypes, StorePart, NodePart, PostedPart, RequestPart, PeerPart
<1>3. DownPart'
  BY <1>1, PeerMovesFacts DEF RelayTypes, DownPart
<1>4. wire' \in Seq(MessagesOn(link'))
  BY <1>1, PeerMovesFacts, SentTypes DEF RelayTypes
<1>. QED  BY <1>1, <1>2, <1>3, <1>4 DEF RelayTypes

\* Types, in every reachable state.
LEMMA RelayTypesHold == RelaySpec => []RelayTypes
<1>1. RelayInit => RelayTypes
  <2>1. SUFFICES ASSUME RelayInit PROVE RelayTypes
    OBVIOUS
  <2>. USE <2>1 DEF RelayInit
  <2>2. link = "down" /\ events \in 0..MaxEvents /\ wire \in Seq(MessagesOn(link))
    BY RelayAssumption
  <2>3. StorePart
    BY RelayAssumption DEF StorePart, NoWriter
  <2>4. NodePart
    <3>1. timer \in BOOLEAN /\ high \in BOOLEAN
      BY Zenon
    <3>2. backlog = <<>> /\ awaiting = {} /\ sending = [s \in Strand |-> Nothing]
      OBVIOUS
    <3>. QED  BY <2>2, <3>1, <3>2 DEF NodePart
  <2>5. PostedPart
    BY <2>2 DEF PostedPart, Posted
  <2>6. RequestPart
    BY <2>2 DEF RequestPart, NoRequests, Requests
  <2>7. PeerPart
    BY <2>2 DEF PeerPart, Quietly
  <2>8. DownPart
    BY DEF DownPart, NoWriter, Thread
  <2>9. held \in [Thread -> Holdings]
    BY DEF NotHeld, Holdings
  <2>. QED  BY <2>2, <2>3, <2>4, <2>5, <2>6, <2>7, <2>8, <2>9 DEF RelayTypes
<1>2. RelayTypes /\ [RelayNext]_(relay_vars) => RelayTypes'
  <2>1. SUFFICES ASSUME RelayTypes, [RelayNext]_(relay_vars) PROVE RelayTypes'
    OBVIOUS
  <2>2. CASE Receive
    <3>1. ASSUME NEW s \in Strand, ReceiveHashes(s) \/ SendGetData(s)
          PROVE  RelayTypes'
      BY <2>1, <3>1, ReceiveHashesTypes, SendGetDataTypes
    <3>2. ASSUME NEW t \in Thread, Organize(t) \/ Finish(t)
          PROVE  RelayTypes'
      BY <2>1, <3>2, OrganizeTypes, FinishTypes
    <3>. QED  BY <2>1, <2>2, <3>1, <3>2, ReadTypes, ReadBlockTypes, StopsTypes, ReceiveCompactTypes,
                 ReceiveBlockTransactionsTypes, WriteTypes, CommitTypes DEF Receive
  <2>3. CASE PeerAnswers
    BY <2>1, <2>3, TakeSendHeadersTypes, TakeSendCompactTypes, TakeGetHeadersTypes, TakeGetDataTypes,
       SendNextTypes, TakeGetBlockTransactionsTypes DEF PeerAnswers
  <2>4. CASE Link
    BY <2>1, <2>4, ConnectTypes DEF Link
  <2>5. CASE Timeout
    BY <2>1, <2>5, StopsTypes
  <2>6. CASE World
    BY <2>1, <2>6, StopsTypes, ElsewhereTypes, PeerMovesTypes DEF World
  <2>7. CASE UNCHANGED relay_vars
    <3>1. UNCHANGED <<link, stored, top_block, kept, writer, backlog, timer, high, awaiting, sending,
                      posted, held, wire, requests, theirs, threshold, announce_by, jobs, events>>
      BY <2>7 DEF relay_vars, chain_vars, out_vars
    <3>. QED  BY <2>1, <3>1 DEF RelayTypes, StorePart, NodePart, PostedPart, RequestPart, PeerPart, DownPart
  <2>. QED  BY <2>1, <2>2, <2>3, <2>4, <2>5, <2>6, <2>7 DEF RelayNext
<1>. QED  BY <1>1, <1>2, PTL DEF RelaySpec

-----------------------------------------------------------------------------
(* Counting.  The first k of some numbers add up to n when the sums up to  *)
(* each of them say so.                                                    *)

Adds(w, k, n) ==
  \E c \in [Int -> Int] : c[0] = 0 /\ c[k] = n /\ \A i \in 1..k : c[i] = c[i - 1] + w[i]

LEMMA AddsOneMore ==
  ASSUME NEW w \in [Int -> Int], NEW v \in [Int -> Int], NEW k \in Nat, NEW n \in Int, Adds(w, k, n),
         \A i \in 1..k : v[i] = w[i]
  PROVE  Adds(v, k + 1, n + v[k + 1])
<1>1. PICK c \in [Int -> Int] : c[0] = 0 /\ c[k] = n /\ \A i \in 1..k : c[i] = c[i - 1] + w[i]
  BY DEF Adds
<1> DEFINE e == [i \in Int |-> IF i = k + 1 THEN n + v[k + 1] ELSE c[i]]
<1>2. e \in [Int -> Int] /\ \A i \in Int : e[i] = IF i = k + 1 THEN n + v[k + 1] ELSE c[i]
  OBVIOUS
<1>. HIDE DEF e
<1>3. e[0] = 0 /\ e[k + 1] = n + v[k + 1]
  BY <1>1, <1>2
<1>4. ASSUME NEW i \in 1..k + 1 PROVE e[i] = e[i - 1] + v[i]
  <2>1. CASE i = k + 1
    BY <1>1, <1>2, <2>1
  <2>2. CASE i \in 1..k
    BY <1>1, <1>2, <2>2
  <2>. QED  BY <2>1, <2>2
<1>. QED  BY <1>2, <1>3, <1>4 DEF Adds

LEMMA AddsChanged ==
  ASSUME NEW w \in [Int -> Int], NEW v \in [Int -> Int], NEW k \in Nat, NEW n \in Int, Adds(w, k, n),
         NEW i \in 1..k, \A j \in 1..k : j # i => v[j] = w[j]
  PROVE  Adds(v, k, n + (v[i] - w[i]))
<1>1. PICK c \in [Int -> Int] : c[0] = 0 /\ c[k] = n /\ \A j \in 1..k : c[j] = c[j - 1] + w[j]
  BY DEF Adds
<1> DEFINE e == [j \in Int |-> IF j >= i THEN c[j] + (v[i] - w[i]) ELSE c[j]]
<1>2. e \in [Int -> Int] /\ \A j \in Int : e[j] = IF j >= i THEN c[j] + (v[i] - w[i]) ELSE c[j]
  OBVIOUS
<1>. HIDE DEF e
<1>3. e[0] = 0 /\ e[k] = n + (v[i] - w[i])
  BY <1>1, <1>2
<1>4. ASSUME NEW j \in 1..k PROVE e[j] = e[j - 1] + v[j]
  <2>1. CASE j = i
    BY <1>1, <1>2, <2>1
  <2>2. CASE j > i
    BY <1>1, <1>2, <2>2
  <2>3. CASE j < i
    BY <1>1, <1>2, <2>3
  <2>. QED  BY <2>1, <2>2, <2>3
<1>. QED  BY <1>2, <1>3, <1>4 DEF Adds

LEMMA AddsOneLess ==
  ASSUME NEW w \in [Int -> Int], NEW v \in [Int -> Int], NEW k \in Nat, NEW n \in Int, Adds(w, k, n),
         NEW i \in 1..k, \A j \in 1..k - 1 : v[j] = IF j < i THEN w[j] ELSE w[j + 1]
  PROVE  Adds(v, k - 1, n - w[i])
<1>1. PICK c \in [Int -> Int] : c[0] = 0 /\ c[k] = n /\ \A j \in 1..k : c[j] = c[j - 1] + w[j]
  BY DEF Adds
<1> DEFINE e == [j \in Int |-> IF j < i THEN c[j] ELSE c[j + 1] - w[i]]
<1>2. e \in [Int -> Int] /\ \A j \in Int : e[j] = IF j < i THEN c[j] ELSE c[j + 1] - w[i]
  OBVIOUS
<1>. HIDE DEF e
<1>3. e[0] = 0 /\ e[k - 1] = n - w[i]
  <2>1. CASE i = k
    BY <1>1, <1>2, <2>1
  <2>2. CASE i < k
    BY <1>1, <1>2, <2>2
  <2>. QED  BY <2>1, <2>2
<1>4. ASSUME NEW j \in 1..k - 1 PROVE e[j] = e[j - 1] + v[j]
  <2>1. j \in 1..k /\ j + 1 \in 1..k /\ (j + 1) - 1 = j /\ (j - 1) + 1 = j
    OBVIOUS
  <2>2. c[j] = c[j - 1] + w[j] /\ c[j + 1] = c[j] + w[j + 1]
    BY <1>1, <2>1
  <2>3. CASE j < i
    BY <1>2, <2>1, <2>2, <2>3
  <2>4. CASE j = i
    BY <1>2, <2>1, <2>2, <2>4
  <2>5. CASE j > i
    BY <1>2, <2>1, <2>2, <2>5
  <2>. QED  BY <2>3, <2>4, <2>5
<1>. QED  BY <1>2, <1>3, <1>4 DEF Adds

\* The members of a list as so many numbers.
Weighs(w, s, weight) == w \in [Int -> Int] /\ \A i \in 1..Len(s) : w[i] = weight[s[i]]

Sums(s, weight, n) == \E w : Weighs(w, s, weight) /\ Adds(w, Len(s), n)

LEMMA NumbersGoOn ==
  ASSUME NEW k \in Nat, NEW f \in [1..k -> Int]
  PROVE  \E w \in [Int -> Int] : \A i \in 1..k : w[i] = f[i]
<1> DEFINE w == [i \in Int |-> IF i \in 1..k THEN f[i] ELSE 0]
<1>1. w \in [Int -> Int] /\ \A i \in 1..k : w[i] = f[i]
  OBVIOUS
<1>. QED  BY <1>1

LEMMA WeightsExist ==
  ASSUME NEW S, NEW weight \in [S -> Int], NEW s \in Seq(S)
  PROVE  \E w : Weighs(w, s, weight)
<1>1. PICK k \in Nat : k = Len(s) /\ \A i \in 1..k : s[i] \in S
  OBVIOUS
<1>2. \A i \in 1..k : weight[s[i]] \in Int
  BY <1>1
<1> DEFINE f == [i \in 1..k |-> weight[s[i]]]
<1>3. f \in [1..k -> Int] /\ \A i \in 1..k : f[i] = weight[s[i]]
  BY <1>2, Zenon
<1>. HIDE DEF f
<1>4. PICK w \in [Int -> Int] : \A i \in 1..k : w[i] = f[i]
  BY <1>3, NumbersGoOn
<1>5. \A i \in 1..Len(s) : w[i] = weight[s[i]]
  BY <1>1, <1>3, <1>4, Zenon
<1>. QED  BY <1>5, Zenon DEF Weighs

LEMMA SumsOfNone ==
  ASSUME NEW weight
  PROVE  Sums(<<>>, weight, 0) /\ \A n : Sums(<<>>, weight, n) => n = 0
<1> DEFINE w == [i \in Int |-> 0]
<1>1. w \in [Int -> Int] /\ w[0] = 0 /\ Len(<<>>) = 0 /\ 1..0 = {}
  OBVIOUS
<1>2. Weighs(w, <<>>, weight) /\ Adds(w, Len(<<>>), 0)
  <2>. HIDE DEF w
  <2>. QED  BY <1>1 DEF Weighs, Adds
<1>3. \A n : Sums(<<>>, weight, n) => n = 0
  BY <1>1 DEF Sums, Adds
<1>. QED  BY <1>2, <1>3 DEF Sums

LEMMA SumsOfAppend ==
  ASSUME NEW S, NEW weight \in [S -> Int], NEW s \in Seq(S), NEW x \in S,
         NEW n \in Int, Sums(s, weight, n)
  PROVE  Sums(Append(s, x), weight, n + weight[x])
<1>1. PICK w, v : Weighs(w, s, weight) /\ Adds(w, Len(s), n) /\ Weighs(v, Append(s, x), weight)
  <2>1. Append(s, x) \in Seq(S)
    OBVIOUS
  <2>. QED  BY <2>1, WeightsExist DEF Sums
<1>2. PICK k \in Nat : /\ k = Len(s) /\ Len(Append(s, x)) = k + 1
                       /\ Append(s, x)[k + 1] = x /\ \A i \in 1..k : Append(s, x)[i] = s[i]
  OBVIOUS
<1>3. w \in [Int -> Int] /\ v \in [Int -> Int]
  BY <1>1 DEF Weighs
<1>4. v[k + 1] = weight[x] /\ \A i \in 1..k : v[i] = w[i]
  <2>1. \A i \in 1..k : i \in 1..k + 1
    OBVIOUS
  <2>2. k + 1 \in 1..k + 1
    OBVIOUS
  <2>3. \A i \in 1..k + 1 : v[i] = weight[Append(s, x)[i]]
    BY <1>1, <1>2, Zenon DEF Weighs
  <2>4. \A i \in 1..k : w[i] = weight[s[i]]
    BY <1>1, <1>2, Zenon DEF Weighs
  <2>5. ASSUME NEW i \in 1..k PROVE v[i] = w[i]
    <3>1. i \in 1..k + 1 /\ Append(s, x)[i] = s[i]
      BY <1>2, <2>1, <2>5, Zenon
    <3>. QED  BY <2>3, <2>4, <3>1, Zenon
  <2>. QED  BY <1>2, <2>2, <2>3, <2>5, Zenon
<1>5. Adds(v, k + 1, n + weight[x])
  BY <1>1, <1>2, <1>3, <1>4, AddsOneMore, Zenon
<1>. QED  BY <1>1, <1>2, <1>5, Zenon DEF Sums

LEMMA SumsOfChange ==
  ASSUME NEW S, NEW weight \in [S -> Int], NEW s \in Seq(S), NEW i \in DOMAIN s, NEW x \in S,
         NEW n \in Int, Sums(s, weight, n)
  PROVE  Sums([s EXCEPT ![i] = x], weight, n + (weight[x] - weight[s[i]]))
<1> DEFINE t == [s EXCEPT ![i] = x]
<1>1. PICK w, v : Weighs(w, s, weight) /\ Adds(w, Len(s), n) /\ Weighs(v, t, weight)
  <2>1. t \in Seq(S)
    OBVIOUS
  <2>. QED  BY <2>1, WeightsExist DEF Sums
<1>2. PICK k \in Nat : /\ k = Len(s) /\ Len(t) = k /\ i \in 1..k
                       /\ \A j \in 1..k : t[j] = IF j = i THEN x ELSE s[j]
  OBVIOUS
<1>. HIDE DEF t
<1>3. w \in [Int -> Int] /\ v \in [Int -> Int]
  BY <1>1 DEF Weighs
<1>4. v[i] = weight[x] /\ w[i] = weight[s[i]] /\ \A j \in 1..k : j # i => v[j] = w[j]
  BY <1>1, <1>2, Zenon DEF Weighs
<1>5. Adds(v, k, n + (weight[x] - weight[s[i]]))
  BY <1>1, <1>2, <1>3, <1>4, AddsChanged, Zenon
<1>. QED  BY <1>1, <1>2, <1>5, Zenon DEF Sums, t

LEMMA SumsWithoutOne ==
  ASSUME NEW S, NEW weight \in [S -> Int], NEW s \in Seq(S), NEW i \in 1..Len(s), NEW t \in Seq(S),
         Len(t) = Len(s) - 1, \A j \in 1..Len(s) - 1 : t[j] = IF j < i THEN s[j] ELSE s[j + 1],
         NEW n \in Int, Sums(s, weight, n)
  PROVE  Sums(t, weight, n - weight[s[i]])
<1>1. PICK w, v : Weighs(w, s, weight) /\ Adds(w, Len(s), n) /\ Weighs(v, t, weight)
  BY WeightsExist DEF Sums
<1>2. PICK k \in Nat : k = Len(s)
  OBVIOUS
<1>3. w \in [Int -> Int] /\ v \in [Int -> Int] /\ Len(t) = k - 1 /\ i \in 1..k
  BY <1>1, <1>2 DEF Weighs
<1>4. w[i] = weight[s[i]]
  BY <1>1, <1>2, <1>3, Zenon DEF Weighs
<1>5. ASSUME NEW j \in 1..k - 1 PROVE v[j] = IF j < i THEN w[j] ELSE w[j + 1]
  <2>1. j \in 1..k /\ j + 1 \in 1..k
    BY <1>2
  <2>2. t[j] = IF j < i THEN s[j] ELSE s[j + 1]
    BY <1>2, <1>5, Zenon
  <2>3. v[j] = weight[t[j]] /\ w[j] = weight[s[j]] /\ w[j + 1] = weight[s[j + 1]]
    BY <1>1, <1>2, <1>3, <1>5, <2>1, Zenon DEF Weighs
  <2>. QED  BY <2>2, <2>3, Zenon
<1>6. Adds(v, k - 1, n - weight[s[i]])
  <2>1. Adds(w, k, n)
    BY <1>1, <1>2, Zenon
  <2>2. Adds(v, k - 1, n - w[i])
    BY <1>3, <1>5, <2>1, AddsOneLess
  <2>. QED  BY <1>4, <2>2, Zenon
<1>. QED  BY <1>1, <1>3, <1>6, Zenon DEF Sums

LEMMA SumsOfTail ==
  ASSUME NEW S, NEW weight \in [S -> Int], NEW s \in Seq(S), s # <<>>,
         NEW n \in Int, Sums(s, weight, n)
  PROVE  /\ Head(s) \in S /\ weight[Head(s)] \in Int
         /\ Sums(Tail(s), weight, n - weight[Head(s)])
<1>1. /\ 1 \in 1..Len(s) /\ Head(s) = s[1] /\ Head(s) \in S
      /\ Tail(s) \in Seq(S) /\ Len(Tail(s)) = Len(s) - 1
      /\ \A j \in 1..Len(s) - 1 : Tail(s)[j] = s[j + 1] /\ ~(j < 1)
  OBVIOUS
<1>2. Sums(Tail(s), weight, n - weight[s[1]])
  BY <1>1, SumsWithoutOne
<1>. QED  BY <1>1, <1>2

-----------------------------------------------------------------------------
(* The backlog, counted.                                                   *)

\* The blocks a get_data asks for, and those a message answers for.
Asked == [d \in DataOn("headers") |-> Len(d.blocks)]
Answered == [m \in MessagesOn("headers") |-> IF m.kind \in {"block", "not_found"} THEN 1 ELSE 0]

(***************************************************************************)
(* Each hash of the backlog is in a get_data about to be sent, on its way, *)
(* or at work in the peer, or its answer is on its way or not handled.     *)
(***************************************************************************)
Owed(g, j, m, back, a, b, f) ==
  /\ g \in Int /\ j \in Int /\ m \in Int
  /\ back \in Int /\ a \in Int /\ b \in Int /\ f \in Int
  /\ Sums(requests.get_data, Asked, g)
  /\ Sums(jobs, Asked, j)
  /\ Sums(wire, Answered, m)
  /\ Len(backlog) = back
  /\ Len(sending["headers"].blocks) = a /\ Len(sending["inventory"].blocks) = b
  /\ Len(posted["not_found"]) = f
  /\ back = a + b + g + j + m + f

Owing == link = "headers" => \E g, j, m, back, a, b, f : Owed(g, j, m, back, a, b, f)

LEMMA AskedFacts ==
  /\ Asked \in [DataOn("headers") -> Int]
  /\ \A d \in DataOn("headers") : Asked[d] = Len(d.blocks)
<1>1. \A d \in DataOn("headers") : Len(d.blocks) \in Int
  <2>1. \A d \in DataOn("headers") : d.blocks \in Seq(Block)
    BY DEF DataOn, Data
  <2>2. \A s \in Seq(Block) : Len(s) \in Int
    OBVIOUS
  <2>. QED  BY <2>1, <2>2, Zenon
<1>. QED  BY <1>1, Zenon DEF Asked

LEMMA AnsweredFacts ==
  /\ Answered \in [MessagesOn("headers") -> Int]
  /\ \A m \in MessagesOn("headers") :
       Answered[m] = IF m.kind \in {"block", "not_found"} THEN 1 ELSE 0
<1>1. 0 \in Int /\ 1 \in Int
  OBVIOUS
<1>. QED  BY <1>1 DEF Answered

LEMMA OwingStays ==
  ASSUME Owing, UNCHANGED <<link, backlog, sending, jobs, wire>>,
         posted'["not_found"] = posted["not_found"], requests'.get_data = requests.get_data
  PROVE  Owing'
BY DEF Owing, Owed

\* A new channel owes nothing.
LEMMA ConnectOwes ==
  ASSUME RelayTypes, NEW negotiated, Connect(negotiated)
  PROVE  Owing'
<1>1. /\ wire' = <<>> /\ jobs' = <<>> /\ backlog' = <<>>
      /\ sending' = [s \in Strand |-> Nothing]
      /\ posted' = [k \in Posted |-> <<>>]
  BY DEF RelayTypes, DownPart, Connect, Up, out_vars
<1>2. requests'.get_data = <<>>
  BY DEF Connect, NoRequests
<1>3. Sums(<<>>, Asked, 0) /\ Sums(<<>>, Answered, 0)
  BY SumsOfNone
<1>4. /\ Len(backlog') = 0 /\ Len(sending'["headers"].blocks) = 0
      /\ Len(sending'["inventory"].blocks) = 0 /\ Len(posted'["not_found"]) = 0
  <2>1. Len(<<>>) = 0
    OBVIOUS
  <2>2. "headers" \in Strand /\ "inventory" \in Strand /\ "not_found" \in Posted
    BY DEF Strand, Posted
  <2>. QED  BY <1>1, <2>1, <2>2 DEF Nothing
<1>5. Owed(0, 0, 0, 0, 0, 0, 0)'
  <2>1. 0 \in Int /\ 0 = 0 + 0 + 0 + 0 + 0 + 0
    OBVIOUS
  <2>. QED  BY <1>1, <1>2, <1>3, <1>4, <2>1, Zenon DEF Owed
<1>. QED  BY <1>5, Zenon DEF Owing

\* The peer says something that answers for no block.
LEMMA OwingWhenSaid ==
  ASSUME RelayTypes, Owing, NEW x \in MessagesOn(link), x.kind \notin {"block", "not_found"},
         wire' = Append(wire, x), UNCHANGED <<link, backlog, sending, jobs, posted>>,
         requests'.get_data = requests.get_data
  PROVE  Owing'
<1>1. SUFFICES ASSUME link = "headers" PROVE Owing'
  BY DEF Owing
<1>2. PICK g, j, m, back, a, b, f : Owed(g, j, m, back, a, b, f)
  BY <1>1 DEF Owing
<1>3. wire \in Seq(MessagesOn("headers")) /\ x \in MessagesOn("headers")
  BY <1>1 DEF RelayTypes
<1>4. Sums(wire', Answered, m + Answered[x])
  BY <1>2, <1>3, AnsweredFacts, SumsOfAppend DEF Owed
<1>5. m + Answered[x] = m
  BY <1>2, <1>3, AnsweredFacts DEF Owed
<1>6. Owed(g, j, m, back, a, b, f)'
  BY <1>2, <1>4, <1>5 DEF Owed
<1>. QED  BY <1>6, Zenon DEF Owing

LEMMA ReadOwes ==
  ASSUME RelayTypes, Owing, Read \/ ReadNothing
  PROVE  Owing'
<1>1. /\ wire # <<>> /\ wire' = Tail(wire)
      /\ UNCHANGED <<link, backlog, sending, jobs, requests>>
  BY DEF Read, ReadNothing, out_vars
<1>2. SUFFICES ASSUME link = "headers" PROVE Owing'
  BY <1>1 DEF Owing
<1>3. PICK g, j, m, back, a, b, f : Owed(g, j, m, back, a, b, f)
  BY <1>2 DEF Owing
<1>4. wire \in Seq(MessagesOn("headers"))
  BY <1>2 DEF RelayTypes
<1> DEFINE x == Head(wire)
<1>5. x \in MessagesOn("headers") /\ Answered[x] \in Int /\ Sums(wire', Answered, m - Answered[x])
  BY <1>1, <1>3, <1>4, AnsweredFacts, SumsOfTail DEF Owed
<1>6. /\ Read /\ x.kind \in {"headers", "inventory", "not_found"}
      /\ x.kind \in Posted
      /\ posted' = [posted EXCEPT ![x.kind] = Append(@, x.blocks)]
  BY <1>5 DEF Read, ReadNothing, MessagesOn, Posted
<1>. HIDE DEF x
<1>7. posted \in [Posted -> Seq(Seq(Block))] /\ x.blocks \in Seq(Block)
      /\ "not_found" \in Posted
  BY <1>5 DEF RelayTypes, PostedPart, MessagesOn, Messages, Posted
<1>8. Len(posted["not_found"]) = f /\ f \in Int
  BY <1>3 DEF Owed
<1>9. Len(posted'["not_found"]) = f + Answered[x]
  <2>1. CASE x.kind = "not_found"
    <3>1. posted'["not_found"] = Append(posted["not_found"], x.blocks)
      BY <1>6, <1>7, <2>1
    <3>2. \A S : \A s \in Seq(S) : \A y \in S : Len(Append(s, y)) = Len(s) + 1
      OBVIOUS
    <3>3. Len(posted'["not_found"]) = Len(posted["not_found"]) + 1
      BY <1>7, <3>1, <3>2
    <3>4. Answered[x] = 1
      BY <1>5, <2>1, AnsweredFacts
    <3>. QED  BY <1>8, <3>3, <3>4
  <2>2. CASE x.kind # "not_found"
    <3>1. posted'["not_found"] = posted["not_found"]
      BY <1>6, <1>7, <2>2
    <3>2. Answered[x] = 0
      BY <1>5, <1>6, <2>2, AnsweredFacts
    <3>. QED  BY <1>8, <3>1, <3>2
  <2>. QED  BY <2>1, <2>2
<1>10. PICK y \in Int : y = Answered[x]
  BY <1>5
<1>11. Owed(g, j, m - y, back, a, b, f + y)'
  <2>1. back = a + b + g + j + (m - y) + (f + y) /\ m - y \in Int /\ f + y \in Int
    BY <1>3 DEF Owed
  <2>2. Sums(wire', Answered, m - y) /\ Len(posted'["not_found"]) = f + y
    BY <1>5, <1>9, <1>10
  <2>. QED  BY <1>1, <1>3, <2>1, <2>2 DEF Owed
<1>. QED  BY <1>11, Zenon DEF Owing

LEMMA ReadBlockOwes ==
  ASSUME RelayTypes, Owing, ReadBlock
  PROVE  Owing'
<1>1. CASE Stopped
  BY <1>1 DEF Stopped, Owing
<1>2. CASE ~Stopped
  <2>1. /\ wire # <<>> /\ wire' = Tail(wire) /\ Head(wire).kind = "block"
        /\ backlog # <<>> /\ backlog' = Tail(backlog)
        /\ UNCHANGED <<link, sending, jobs, posted, requests>>
    BY <1>2 DEF ReadBlock, out_vars
  <2>2. SUFFICES ASSUME link = "headers" PROVE Owing'
    BY <2>1 DEF Owing
  <2>3. PICK g, j, m, back, a, b, f : Owed(g, j, m, back, a, b, f)
    BY <2>2 DEF Owing
  <2>4. wire \in Seq(MessagesOn("headers"))
    BY <2>2 DEF RelayTypes
  <2>5. Head(wire) \in MessagesOn("headers") /\ Sums(wire', Answered, m - Answered[Head(wire)])
    BY <2>1, <2>3, <2>4, AnsweredFacts, SumsOfTail DEF Owed
  <2>6. Answered[Head(wire)] = 1
    BY <2>1, <2>5, AnsweredFacts
  <2>7. Len(backlog') = Len(backlog) - 1
    <3>1. backlog \in Seq(Block)
      BY DEF RelayTypes, NodePart
    <3>. QED  BY <2>1, <3>1
  <2>8. Owed(g, j, m - 1, back - 1, a, b, f)'
    <3>1. back - 1 = a + b + g + j + (m - 1) + f /\ back - 1 \in Int /\ m - 1 \in Int
      BY <2>3 DEF Owed
    <3>2. Sums(wire', Answered, m - 1) /\ Len(backlog') = back - 1
      BY <2>3, <2>5, <2>6, <2>7 DEF Owed
    <3>. QED  BY <2>1, <2>3, <3>1, <3>2 DEF Owed
  <2>. QED  BY <2>8, Zenon DEF Owing
<1>. QED  BY <1>1, <1>2

\* send_get_data: what goes into the backlog is about to be asked for.
LEMMA ReceiveHashesOwes ==
  ASSUME RelayTypes, Owing, NEW s \in Strand, ReceiveHashes(s)
  PROVE  Owing'
<1> DEFINE unknown == Unknown(Head(posted[s]))
           kind == IF link = "compact" THEN "compact_block" ELSE "block"
<1>1. /\ s \in {"headers", "inventory"} /\ s \in Posted /\ posted[s] # <<>>
      /\ sending[s] = Nothing
      /\ posted' = [posted EXCEPT ![s] = Tail(@)]
      /\ UNCHANGED <<link, wire, jobs>>
      /\ UNCHANGED <<backlog, timer, high, sending, requests>> \/ Ask(s, unknown, kind)
  BY DEF ReceiveHashes, out_vars, Posted
<1>2. unknown \in Seq(Block)
  BY <1>1, TakenTypes, UnknownIsBlocks
<1>. HIDE DEF unknown, kind
<1>3. posted'["not_found"] = posted["not_found"]
  BY <1>1 DEF RelayTypes, PostedPart
<1>4. CASE UNCHANGED <<backlog, timer, high, sending, requests>>
  BY <1>1, <1>3, <1>4, OwingStays
<1>5. CASE Ask(s, unknown, kind)
  <2>1. SUFFICES ASSUME link = "headers" PROVE Owing'
    BY <1>1 DEF Owing
  <2>2. PICK g, j, m, back, a, b, f : Owed(g, j, m, back, a, b, f)
    BY <2>1 DEF Owing
  <2>3. /\ backlog' = backlog \o unknown /\ requests' = requests
        /\ sending' = [sending EXCEPT ![s] = [kind |-> kind, blocks |-> unknown]]
    BY <1>5, <2>1 DEF Ask
  <2>4. PICK n \in Int : n = Len(unknown)
    BY <1>2
  <2>5. Len(backlog') = back + n
    <3>1. backlog \in Seq(Block)
      BY DEF RelayTypes, NodePart
    <3>2. Len(backlog \o unknown) = Len(backlog) + Len(unknown)
      BY <1>2, <3>1
    <3>. QED  BY <2>2, <2>3, <2>4, <3>2 DEF Owed
  <2>6. Len(Nothing.blocks) = 0
    BY DEF Nothing
  <2>7. sending'[s].blocks = unknown /\ \A t \in Strand \ {s} : sending'[t] = sending[t]
    BY <2>3 DEF RelayTypes, NodePart
  <2>8. CASE s = "headers"
    <3>1. a = 0
      BY <1>1, <2>2, <2>6, <2>8 DEF Owed
    <3>2. Len(sending'["headers"].blocks) = n /\ Len(sending'["inventory"].blocks) = b
      BY <2>2, <2>4, <2>7, <2>8 DEF Owed, Strand
    <3>3. back + n = n + b + g + j + m + f /\ back + n \in Int
      BY <2>2, <3>1 DEF Owed
    <3>4. Owed(g, j, m, back + n, n, b, f)'
      BY <1>1, <1>3, <2>2, <2>3, <2>5, <3>2, <3>3 DEF Owed
    <3>. QED  BY <3>4, Zenon DEF Owing
  <2>9. CASE s = "inventory"
    <3>1. b = 0
      BY <1>1, <2>2, <2>6, <2>9 DEF Owed
    <3>2. Len(sending'["headers"].blocks) = a /\ Len(sending'["inventory"].blocks) = n
      BY <2>2, <2>4, <2>7, <2>9 DEF Owed, Strand
    <3>3. back + n = a + n + g + j + m + f /\ back + n \in Int
      BY <2>2, <3>1 DEF Owed
    <3>4. Owed(g, j, m, back + n, a, n, f)'
      BY <1>1, <1>3, <2>2, <2>3, <2>5, <3>2, <3>3 DEF Owed
    <3>. QED  BY <3>4, Zenon DEF Owing
  <2>. QED  BY <1>1, <2>8, <2>9
<1>. QED  BY <1>1, <1>4, <1>5

\* The SEND.
LEMMA SendGetDataOwes ==
  ASSUME RelayTypes, Owing, NEW s \in Strand, SendGetData(s)
  PROVE  Owing'
<1>1. /\ sending[s] # Nothing
      /\ sending' = [sending EXCEPT ![s] = Nothing]
      /\ requests' = [requests EXCEPT !.get_data = Append(@, sending[s])]
      /\ UNCHANGED <<link, backlog, posted, wire, jobs>>
  BY DEF SendGetData, out_vars
<1>2. SUFFICES ASSUME link = "headers" PROVE Owing'
  BY <1>1 DEF Owing
<1>3. PICK g, j, m, back, a, b, f : Owed(g, j, m, back, a, b, f)
  BY <1>2 DEF Owing
<1>4. sending[s] \in DataOn("headers") /\ s \in {"headers", "inventory"}
  BY <1>1, <1>2 DEF RelayTypes, NodePart, Strand
<1>5. requests'.get_data = Append(requests.get_data, sending[s])
      /\ requests.get_data \in Seq(DataOn("headers"))
  BY <1>1, <1>2 DEF RelayTypes, RequestPart, Requests
<1>6. PICK n \in Int : n = Asked[sending[s]] /\ n = Len(sending[s].blocks)
  BY <1>4, AskedFacts
<1>7. Sums(requests'.get_data, Asked, g + n)
  <2>1. g \in Int /\ Sums(requests.get_data, Asked, g) /\ Asked \in [DataOn("headers") -> Int]
    BY <1>3, AskedFacts DEF Owed
  <2>2. Sums(Append(requests.get_data, sending[s]), Asked, g + Asked[sending[s]])
    BY <1>4, <1>5, <2>1, SumsOfAppend, Zenon
  <2>. QED  BY <1>5, <1>6, <2>2, Zenon
<1>8. Len(Nothing.blocks) = 0
  BY DEF Nothing
<1>9. sending'[s] = Nothing /\ \A t \in Strand \ {s} : sending'[t] = sending[t]
  BY <1>1 DEF RelayTypes, NodePart
<1>10. CASE s = "headers"
  <2>1. a = n /\ Len(sending'["headers"].blocks) = 0 /\ Len(sending'["inventory"].blocks) = b
    BY <1>3, <1>6, <1>8, <1>9, <1>10 DEF Owed, Strand
  <2>2. back = 0 + b + (g + n) + j + m + f /\ g + n \in Int
    BY <1>3, <2>1 DEF Owed
  <2>3. Owed(g + n, j, m, back, 0, b, f)'
    BY <1>1, <1>3, <1>7, <2>1, <2>2 DEF Owed
  <2>. QED  BY <2>3, Zenon DEF Owing
<1>11. CASE s = "inventory"
  <2>1. b = n /\ Len(sending'["headers"].blocks) = a /\ Len(sending'["inventory"].blocks) = 0
    BY <1>3, <1>6, <1>8, <1>9, <1>11 DEF Owed, Strand
  <2>2. back = a + 0 + (g + n) + j + m + f /\ g + n \in Int
    BY <1>3, <2>1 DEF Owed
  <2>3. Owed(g + n, j, m, back, a, 0, f)'
    BY <1>1, <1>3, <1>7, <2>1, <2>2 DEF Owed
  <2>. QED  BY <2>3, Zenon DEF Owing
<1>. QED  BY <1>4, <1>10, <1>11

\* handle_receive_get_data takes the request over.
LEMMA TakeGetDataOwes ==
  ASSUME RelayTypes, Owing, TakeGetData
  PROVE  Owing'
<1>1. /\ requests.get_data # <<>>
      /\ requests' = [requests EXCEPT !.get_data = Tail(@)]
      /\ jobs' = Append(jobs, Head(requests.get_data))
      /\ UNCHANGED <<link, wire, backlog, sending, posted>>
  BY DEF TakeGetData, InUntouched
<1>2. SUFFICES ASSUME link = "headers" PROVE Owing'
  BY <1>1 DEF Owing
<1>3. PICK g, j, m, back, a, b, f : Owed(g, j, m, back, a, b, f)
  BY <1>2 DEF Owing
<1>4. requests'.get_data = Tail(requests.get_data)
      /\ requests.get_data \in Seq(DataOn("headers")) /\ jobs \in Seq(DataOn("headers"))
  BY <1>1, <1>2 DEF RelayTypes, RequestPart, PeerPart, Requests
<1> DEFINE d == Head(requests.get_data)
<1>5. d \in DataOn("headers") /\ Asked[d] \in Int /\ Sums(requests'.get_data, Asked, g - Asked[d])
  <2>1. g \in Int /\ Sums(requests.get_data, Asked, g) /\ Asked \in [DataOn("headers") -> Int]
    BY <1>3, AskedFacts DEF Owed
  <2>2. requests.get_data # <<>> /\ requests.get_data \in Seq(DataOn("headers"))
    BY <1>1, <1>4
  <2>3. /\ d \in DataOn("headers") /\ Asked[d] \in Int
        /\ Sums(Tail(requests.get_data), Asked, g - Asked[d])
    BY <2>1, <2>2, SumsOfTail
  <2>. HIDE DEF d
  <2>. QED  BY <1>4, <2>3, Zenon
<1>. HIDE DEF d
<1>6. jobs' = Append(jobs, d)
  BY <1>1 DEF d
<1>7. Sums(jobs', Asked, j + Asked[d])
  BY <1>3, <1>4, <1>5, <1>6, AskedFacts, SumsOfAppend DEF Owed
<1>8. PICK n \in Int : n = Asked[d]
  BY <1>5
<1>9. Owed(g - n, j + n, m, back, a, b, f)'
  <2>1. back = a + b + (g - n) + (j + n) + m + f /\ g - n \in Int /\ j + n \in Int
    BY <1>3 DEF Owed
  <2>. QED  BY <1>1, <1>3, <1>5, <1>7, <1>8, <2>1 DEF Owed
<1>. QED  BY <1>9, Zenon DEF Owing

\* send_next_data: one block less to answer for, one answer on its way.
LEMMA SendNextOwes ==
  ASSUME RelayTypes, Owing, NEW i \in DOMAIN jobs, SendNext(i)
  PROVE  Owing'
<1>1. link' = link /\ UNCHANGED <<requests, backlog, sending, posted>>
  BY SendNextFacts DEF InUntouched
<1>2. SUFFICES ASSUME link = "headers" PROVE Owing'
  BY <1>1 DEF Owing
<1>3. PICK g, j, m, back, a, b, f : Owed(g, j, m, back, a, b, f)
  BY <1>2 DEF Owing
<1>4. jobs \in Seq(DataOn("headers")) /\ jobs[i] \in DataOn("headers") /\ jobs' \in Seq(DataOn("headers"))
  BY <1>2, SendNextFacts DEF RelayTypes, PeerPart
<1>5. jobs[i].kind = "block" /\ jobs[i].blocks \in Seq(Block) /\ Asked[jobs[i]] = Len(jobs[i].blocks)
  BY <1>4, AskedFacts, DataFacts
<1>6. Sums(wire', Answered, m + 1)
  <2>1. PICK kind \in {"block", "not_found"} :
          wire' = Append(wire, [kind |-> kind, blocks |-> <<Head(jobs[i].blocks)>>])
    BY <1>5, SendNextFacts
  <2> DEFINE x == [kind |-> kind, blocks |-> <<Head(jobs[i].blocks)>>]
  <2>2. wire \in Seq(MessagesOn("headers"))
    BY <1>2 DEF RelayTypes
  <2>3. x \in MessagesOn("headers")
    <3>1. Head(jobs[i].blocks) \in Block
      BY <1>4, DataFacts
    <3>2. <<Head(jobs[i].blocks)>> \in Seq(Block) /\ Len(<<Head(jobs[i].blocks)>>) = 1
      BY <3>1
    <3>. QED  BY <3>2 DEF MessagesOn, Messages, Posted
  <2>4. Answered[x] = 1
    <3>1. x.kind \in {"block", "not_found"}
      OBVIOUS
    <3>. HIDE DEF x
    <3>. QED  BY <2>3, <3>1, AnsweredFacts
  <2>5. wire' = Append(wire, x)
    BY <2>1
  <2>. HIDE DEF x
  <2>6. Sums(wire', Answered, m + Answered[x])
    BY <1>3, <2>2, <2>3, <2>5, AnsweredFacts, SumsOfAppend DEF Owed
  <2>. QED  BY <2>4, <2>6
<1>7. Sums(jobs', Asked, j - 1)
  <2>1. CASE Len(jobs[i].blocks) > 1 /\ jobs' = [jobs EXCEPT ![i].blocks = Tail(@)]
    <3> DEFINE d == [jobs[i] EXCEPT !.blocks = Tail(@)]
    <3>1. Tail(jobs[i].blocks) \in Seq(Block) /\ Len(Tail(jobs[i].blocks)) = Len(jobs[i].blocks) - 1
      BY <1>5, <2>1
    <3>2. d \in DataOn("headers") /\ d.blocks = Tail(jobs[i].blocks)
      <4>1. Tail(jobs[i].blocks) # <<>>
        <5>1. PICK n \in Nat : n = Len(jobs[i].blocks)
          BY <1>5
        <5>2. Len(Tail(jobs[i].blocks)) = n - 1 /\ n > 1 /\ Len(<<>>) = 0
          BY <2>1, <3>1, <5>1
        <5>3. n - 1 # 0
          BY <5>2
        <5>. QED  BY <5>2, <5>3, Zenon
      <4>. QED  BY <1>4, <1>5, <3>1, <4>1 DEF DataOn, Data
    <3>3. jobs' = [jobs EXCEPT ![i] = d]
      BY <2>1
    <3>. HIDE DEF d
    <3>4. Sums(jobs', Asked, j + (Asked[d] - Asked[jobs[i]]))
      BY <1>3, <1>4, <3>2, <3>3, AskedFacts, SumsOfChange DEF Owed
    <3>5. Asked[d] = Asked[jobs[i]] - 1 /\ Asked[jobs[i]] \in Int /\ j \in Int
      BY <1>3, <1>4, <1>5, <3>1, <3>2, AskedFacts DEF Owed
    <3>6. j + (Asked[d] - Asked[jobs[i]]) = j - 1
      <4>1. PICK n \in Int, k \in Int : n = Asked[jobs[i]] /\ k = j
        BY <3>5
      <4>2. k + ((n - 1) - n) = k - 1
        OBVIOUS
      <4>. QED  BY <3>5, <4>1, <4>2, Zenon
    <3>. QED  BY <3>4, <3>6, Zenon
  <2>2. CASE /\ Len(jobs[i].blocks) = 1
             /\ jobs' = SubSeq(jobs, 1, i - 1) \o SubSeq(jobs, i + 1, Len(jobs))
    <3>1. /\ Len(jobs') = Len(jobs) - 1
          /\ \A k \in 1..Len(jobs) - 1 : jobs'[k] = IF k < i THEN jobs[k] ELSE jobs[k + 1]
      BY <1>4, <2>2, WithoutOne, Zenon
    <3>2. i \in 1..Len(jobs)
      BY <1>4
    <3>3. Sums(jobs', Asked, j - Asked[jobs[i]])
      BY <1>3, <1>4, <3>1, <3>2, AskedFacts, SumsWithoutOne DEF Owed
    <3>. QED  BY <1>5, <2>2, <3>3
  <2>. QED  BY <2>1, <2>2, SendNextFacts
<1>8. Owed(g, j - 1, m + 1, back, a, b, f)'
  <2>1. back = a + b + g + (j - 1) + (m + 1) + f /\ j - 1 \in Int /\ m + 1 \in Int
    BY <1>3 DEF Owed
  <2>. QED  BY <1>1, <1>3, <1>6, <1>7, <2>1 DEF Owed
<1>. QED  BY <1>8, Zenon DEF Owing

\* A get_headers is answered with headers, if at all.
LEMMA TakeGetHeadersOwes ==
  ASSUME RelayTypes, Owing, TakeGetHeaders
  PROVE  Owing'
<1> DEFINE reply == HeadersFor(Head(requests.get_headers))
<1>1. /\ requests.get_headers # <<>>
      /\ requests' = [requests EXCEPT !.get_headers = Tail(@)]
      /\ wire' = wire \/ wire' = Append(wire, [kind |-> "headers", blocks |-> reply])
      /\ UNCHANGED <<link, backlog, sending, posted, jobs>>
  BY DEF TakeGetHeaders, InUntouched, Send
<1>2. reply \in Seq(Block)
  BY <1>1, ReplyIsBlocks
<1>. HIDE DEF reply
<1>3. requests'.get_data = requests.get_data
  BY <1>1 DEF RelayTypes, RequestPart, Requests
<1>4. [kind |-> "headers", blocks |-> reply] \in MessagesOn(link)
  BY <1>2 DEF MessagesOn, OneBlock, Messages, Posted
<1>. QED  BY <1>1, <1>3, <1>4, OwingStays, OwingWhenSaid

LEMMA PeerMovesOwes ==
  ASSUME RelayTypes, Owing, NEW b \in Block, PeerMoves(b)
  PROVE  Owing'
<1>1. /\ UNCHANGED <<link, backlog, sending, posted, jobs>> /\ requests'.get_data = requests.get_data
      /\ wire' = wire \/ \E x \in MessagesOn(link) :
           x.kind \in {"compact", "headers", "inventory"} /\ wire' = Append(wire, x)
  BY PeerMovesFacts DEF InUntouched
<1>2. CASE wire' = wire
  BY <1>1, <1>2, OwingStays
<1>3. CASE \E x \in MessagesOn(link) :
             x.kind \in {"compact", "headers", "inventory"} /\ wire' = Append(wire, x)
  <2>1. PICK x \in MessagesOn(link) :
          x.kind \in {"compact", "headers", "inventory"} /\ wire' = Append(wire, x)
    BY <1>3
  <2>2. x.kind \notin {"block", "not_found"}
    BY <2>1
  <2>. QED  BY <1>1, <2>1, <2>2, OwingWhenSaid
<1>. QED  BY <1>1, <1>2, <1>3

\* What concerns compact blocks alone, or stops the channel, leaves nothing to count.
LEMMA NotCounted ==
  ASSUME RelayTypes,
         \/ Stopped \/ ReceiveNotFound \/ Disconnect
         \/ \E found : ReceiveCompact(found)
         \/ ReceiveBlockTransactions \/ TakeGetBlockTransactions
  PROVE  Owing'
<1>1. CASE Stopped \/ ReceiveNotFound \/ Disconnect
  BY <1>1 DEF Stopped, ReceiveNotFound, Disconnect, Owing
<1>2. ASSUME NEW found, ReceiveCompact(found) PROVE Owing'
  <2>1. link # "headers"
    BY <1>2 DEF ReceiveCompact, RelayTypes, PostedPart
  <2>2. link' = link \/ link' = "down"
    BY <1>2 DEF ReceiveCompact, Stopped
  <2>. QED  BY <2>1, <2>2 DEF Owing
<1>3. CASE ReceiveBlockTransactions
  <2>1. link # "headers"
    BY <1>3 DEF ReceiveBlockTransactions, RelayTypes, PostedPart
  <2>2. link' = link \/ link' = "down"
    BY <1>3 DEF ReceiveBlockTransactions, Stopped
  <2>. QED  BY <2>1, <2>2 DEF Owing
<1>4. CASE TakeGetBlockTransactions
  <2>1. link # "headers" /\ link' = link
    BY <1>4 DEF TakeGetBlockTransactions, InUntouched, RelayTypes, RequestPart
  <2>. QED  BY <2>1 DEF Owing
<1>. QED  BY <1>1, <1>2, <1>3, <1>4

\* What organizes, and what else leaves the backlog, the requests and the wire alone.
LEMMA NotTouched ==
  ASSUME RelayTypes, Owing,
         \/ ChannelUntouched \/ Timeout
         \/ \E t \in Thread : Finish(t)
         \/ TakeSendHeaders \/ TakeSendCompact
  PROVE  Owing'
<1>1. CASE ChannelUntouched
  BY <1>1, OwingStays DEF ChannelUntouched, out_vars
<1>2. CASE Timeout
  <2>1. Stopped \/ UNCHANGED <<link, backlog, sending, jobs, wire, posted, requests>>
    BY <1>2 DEF Timeout, out_vars
  <2>. QED  BY <2>1, OwingStays, NotCounted
<1>3. ASSUME NEW t \in Thread, Finish(t) PROVE Owing'
  <2>1. \/ Stopped
        \/ /\ UNCHANGED <<link, backlog, sending, jobs, wire, posted>>
           /\ \E asked : requests' = [requests EXCEPT !.get_headers = asked]
    BY <1>3 DEF Finish, out_vars
  <2>2. ASSUME NEW asked, requests' = [requests EXCEPT !.get_headers = asked]
        PROVE  requests'.get_data = requests.get_data
    BY <2>2 DEF RelayTypes, RequestPart, Requests
  <2>. QED  BY <2>1, <2>2, OwingStays, NotCounted
<1>4. CASE TakeSendHeaders \/ TakeSendCompact
  <2>1. UNCHANGED <<link, backlog, sending, jobs, wire, posted>>
    BY <1>4 DEF TakeSendHeaders, TakeSendCompact, InUntouched
  <2>2. requests'.get_data = requests.get_data
    BY <1>4 DEF TakeSendHeaders, TakeSendCompact, RelayTypes, RequestPart, Requests
  <2>. QED  BY <2>1, <2>2, OwingStays
<1>. QED  BY <1>1, <1>2, <1>3, <1>4

\* The backlog is counted in every reachable state.
LEMMA OwingHolds == RelaySpec => []Owing
<1>1. RelayInit => Owing
  BY DEF RelayInit, Owing
<1>2. RelayTypes /\ Owing /\ [RelayNext]_(relay_vars) => Owing'
  <2>1. SUFFICES ASSUME RelayTypes, Owing, [RelayNext]_(relay_vars) PROVE Owing'
    OBVIOUS
  <2>2. CASE Receive
    <3>1. ASSUME NEW s \in Strand, ReceiveHashes(s) \/ SendGetData(s)
          PROVE  Owing'
      BY <2>1, <3>1, ReceiveHashesOwes, SendGetDataOwes
    <3>2. ASSUME NEW t \in Thread, Organize(t) PROVE Owing'
      BY <2>1, <3>2, NotTouched DEF Organize
    <3>3. ASSUME NEW t \in Thread, Finish(t) PROVE Owing'
      BY <2>1, <3>3, NotTouched
    <3>4. ASSUME Write \/ Commit PROVE Owing'
      BY <2>1, <3>4, NotTouched DEF Write, Commit
    <3>5. ASSUME NEW found, ReceiveCompact(found) PROVE Owing'
      BY <2>1, <3>5, NotCounted
    <3>6. ASSUME ReceiveNotFound \/ ReceiveBlockTransactions PROVE Owing'
      BY <2>1, <3>6, NotCounted
    <3>. QED  BY <2>1, <2>2, <3>1, <3>2, <3>3, <3>4, <3>5, <3>6, ReadOwes, ReadBlockOwes
              DEF Receive
  <2>3. CASE PeerAnswers
    <3>1. ASSUME TakeSendHeaders \/ TakeSendCompact PROVE Owing'
      BY <2>1, <3>1, NotTouched
    <3>2. ASSUME TakeGetBlockTransactions PROVE Owing'
      BY <2>1, <3>2, NotCounted
    <3>. QED  BY <2>1, <2>3, <3>1, <3>2, TakeGetHeadersOwes, TakeGetDataOwes, SendNextOwes
              DEF PeerAnswers
  <2>4. CASE Link
    BY <2>1, <2>4, ConnectOwes DEF Link
  <2>5. CASE Timeout
    BY <2>1, <2>5, NotTouched
  <2>6. CASE World
    <3>1. ASSUME Disconnect PROVE Owing'
      BY <2>1, <3>1, NotCounted
    <3>2. ASSUME NEW b \in Block, Elsewhere(b) PROVE Owing'
      BY <2>1, <3>2, NotTouched DEF Elsewhere
    <3>. QED  BY <2>1, <2>6, <3>1, <3>2, PeerMovesOwes DEF World
  <2>7. CASE UNCHANGED relay_vars
    BY <2>1, <2>7, OwingStays DEF relay_vars, out_vars
  <2>. QED  BY <2>1, <2>2, <2>3, <2>4, <2>5, <2>6, <2>7 DEF RelayNext
<1>. QED  BY <1>1, <1>2, RelayTypesHold, PTL DEF RelaySpec

-----------------------------------------------------------------------------

\* Type correctness of a channel's two ends, our store and our pool: what a peer
\* sends and a node asks for are blocks, whatever stops and starts in between.
THEOREM RelayTypeCorrect == RelaySpec => []RelayTypeOK
BY RelayTypesHold, TypesAreRight, PTL

\* On a channel of whole blocks, protocol_block_in::backlog_ holds what the peer
\* owes and no more: once nothing is on its way and nobody is at work it is empty,
\* so handle_timeout drops no peer that answered everything.
THEOREM BacklogIsAlwaysOwed == RelaySpec => []BacklogIsOwed
<1>1. RelayTypes /\ Owing => BacklogIsOwed
  <2>1. SUFFICES ASSUME RelayTypes, Owing, Quiet, link = "headers" PROVE backlog = <<>>
    BY DEF BacklogIsOwed
  <2>2. PICK g, j, m, back, a, b, f : Owed(g, j, m, back, a, b, f)
    BY <2>1 DEF Owing
  <2>3. /\ wire = <<>> /\ jobs = <<>> /\ requests.get_data = <<>>
        /\ sending["headers"].blocks = <<>> /\ sending["inventory"].blocks = <<>>
        /\ posted["not_found"] = <<>>
    BY <2>1 DEF Quiet, NoRequests, Nothing, Strand, Posted
  <2>4. g = 0 /\ j = 0 /\ m = 0
    BY <2>2, <2>3, SumsOfNone DEF Owed
  <2>5. a = 0 /\ b = 0 /\ f = 0
    <3>1. Len(<<>>) = 0
      OBVIOUS
    <3>. QED  BY <2>2, <2>3, <3>1 DEF Owed
  <2>6. Len(backlog) = 0
    BY <2>2, <2>4, <2>5 DEF Owed
  <2>7. backlog \in Seq(Block)
    BY <2>1 DEF RelayTypes, NodePart
  <2>. QED  BY <2>6, <2>7
<1>. QED  BY <1>1, RelayTypesHold, OwingHolds, PTL

-----------------------------------------------------------------------------
(***************************************************************************)
(* The relay moves as BestChain.  While nobody writes, the store is what   *)
(* top_block says; while somebody does, his goal still fits, because all   *)
(* the others wait for the mutex; and what is known is closed under        *)
(* Parent, so a block whose parent is known builds on known blocks only.   *)
(***************************************************************************)
KnownToAll == Lineage(top_block) \cup kept

Claims ==
  /\ Idle => stored = top_block
  /\ \A b \in kept : Ancestors[b] \subseteq KnownToAll
  /\ ~Idle => /\ writer.goal \notin KnownToAll
              /\ Ancestors[writer.goal] \subseteq KnownToAll
              /\ TotalWork[writer.goal] > TotalWork[top_block]

\* What a step that organizes nothing leaves of the chain.
ChainStays ==
  /\ UNCHANGED <<stored, top_block, kept>>
  /\ writer'.goal = writer.goal
  /\ Idle' <=> Idle

LEMMA ChainStaysWhen ==
  ASSUME RelayTypes, Stopped \/ UNCHANGED chain_vars
  PROVE  ChainStays
<1>1. CASE UNCHANGED chain_vars
  BY <1>1 DEF chain_vars, ChainStays, Idle
<1>2. CASE Stopped
  <2>1. /\ UNCHANGED <<stored, top_block, kept>>
        /\ writer' = IF writer.by \in Thread THEN [writer EXCEPT !.by = "other"] ELSE writer
        /\ writer \in [by : Thread \cup {"other", "none"}, goal : Block \cup {None}]
    BY <1>2 DEF Stopped, RelayTypes, StorePart
  <2>2. CASE writer.by \in Thread
    <3>1. writer'.by = "other" /\ writer'.goal = writer.goal /\ writer.by # "none"
      BY <2>1, <2>2 DEF Thread
    <3>. QED  BY <2>1, <3>1 DEF ChainStays, Idle, NoWriter
  <2>3. CASE writer.by \notin Thread
    BY <2>1, <2>3 DEF ChainStays, Idle
  <2>. QED  BY <2>2, <2>3
<1>. QED  BY <1>1, <1>2

\* The steps that move messages and answer requests.
LEMMA MessagesMoveNoChain ==
  ASSUME RelayTypes,
         \/ Read \/ ReadNothing \/ ReadBlock \/ ReceiveNotFound
         \/ \E s \in Strand : ReceiveHashes(s) \/ SendGetData(s)
         \/ \E found \in {"all", "some", "collision"} : ReceiveCompact(found)
         \/ ReceiveBlockTransactions
         \/ \E t \in Thread : Finish(t)
         \/ PeerAnswers \/ Link \/ Timeout \/ Disconnect
         \/ \E b \in Block : PeerMoves(b)
  PROVE  ChainStays
<1>1. CASE Read \/ ReadNothing \/ ReadBlock
  BY <1>1, ChainStaysWhen DEF Read, ReadNothing, ReadBlock
<1>2. CASE ReceiveNotFound \/ Disconnect \/ Timeout
  BY <1>2, ChainStaysWhen DEF ReceiveNotFound, Disconnect, Timeout
<1>3. ASSUME NEW s \in Strand, ReceiveHashes(s) \/ SendGetData(s) PROVE ChainStays
  BY <1>3, ChainStaysWhen DEF ReceiveHashes, SendGetData
<1>4. ASSUME NEW found, ReceiveCompact(found) PROVE ChainStays
  BY <1>4, ChainStaysWhen DEF ReceiveCompact
<1>5. CASE ReceiveBlockTransactions
  BY <1>5, ChainStaysWhen DEF ReceiveBlockTransactions
<1>6. ASSUME NEW t \in Thread, Finish(t) PROVE ChainStays
  BY <1>6, ChainStaysWhen DEF Finish
<1>7. CASE PeerAnswers
  BY <1>7, ChainStaysWhen DEF PeerAnswers, TakeSendHeaders, TakeSendCompact, TakeGetHeaders,
     TakeGetData, SendNext, TakeGetBlockTransactions, InUntouched
<1>8. CASE Link
  BY <1>8, ChainStaysWhen DEF Link, Connect
<1>9. ASSUME NEW b \in Block, PeerMoves(b) PROVE ChainStays
  BY <1>9, ChainStaysWhen DEF PeerMoves, InUntouched
<1>. QED  BY <1>1, <1>2, <1>3, <1>4, <1>5, <1>6, <1>7, <1>8, <1>9

LEMMA ChainStaysKeeps ==
  ASSUME Claims, ChainStays
  PROVE  Claims' /\ UNCHANGED Best!vars
<1>1. KnownToAll' = KnownToAll
  BY DEF ChainStays, KnownToAll
<1>. QED  BY <1>1 DEF Claims, ChainStays, Best!vars

\* A block that is organized with its parent known fits.
LEMMA VerdictFits ==
  ASSUME RelayTypes, Claims, Idle, NEW b \in Block,
         Verdict(b) \in {"insufficient_work", "reorganize"}
  PROVE  /\ b \notin KnownToAll /\ Ancestors[b] \subseteq KnownToAll
         /\ Verdict(b) = "reorganize" <=> TotalWork[b] > TotalWork[top_block]
         /\ Best!Fits(b)
<1>1. stored = top_block /\ top_block \in Block /\ kept \subseteq Block
  BY DEF Claims, RelayTypes, StorePart
<1>2. ~IsKnown(b) /\ IsKnown(Parent[b])
  BY DEF Verdict
<1>3. b \notin KnownToAll /\ Parent[b] \in KnownToAll
  BY <1>1, <1>2 DEF IsKnown, KnownToAll
<1>4. b # Genesis
  BY <1>1, <1>3, GenesisIsBelow DEF KnownToAll
<1>5. Ancestors[b] = Ancestors[Parent[b]] \cup {Parent[b]}
  BY <1>4, BlockTreeAssumption
<1>6. Ancestors[Parent[b]] \subseteq KnownToAll
  <2>1. CASE Parent[b] \in kept
    BY <2>1 DEF Claims
  <2>2. CASE Parent[b] \in Lineage(top_block)
    BY <1>1, <2>2, AncestorsAreBelow DEF Lineage, KnownToAll
  <2>. QED  BY <1>3, <2>1, <2>2 DEF KnownToAll
<1>7. Verdict(b) = "reorganize" <=> TotalWork[b] > TotalWork[top_block]
  <2>1. TotalWork[b] \in Nat /\ TotalWork[top_block] \in Nat
    BY <1>1, BlockTreeAssumption
  <2>. QED  BY <1>1, <1>2, <2>1 DEF Verdict
<1>8. Best!Fits(b)
  BY <1>3, <1>5, <1>6 DEF Best!Fits, Best!Known, Best!Chain, Best!Lineage, KnownToAll, Lineage
<1>. QED  BY <1>3, <1>5, <1>6, <1>7, <1>8

\* A verdict keeps the block, or claims the store for it, or does neither.
LEMMA VerdictMoves ==
  ASSUME RelayTypes, Claims, Idle, NEW b \in Block, Keeps(b, Verdict(b)),
         UNCHANGED <<stored, top_block>>,
         \/ Verdict(b) = "reorganize" /\ \E by \in Thread \cup {"other"} : writer' = [by |-> by, goal |-> b]
         \/ Verdict(b) # "reorganize" /\ UNCHANGED writer
  PROVE  Claims' /\ [Best!Next]_(Best!vars)
<1>1. stored = top_block /\ top_block \in Block /\ kept \subseteq Block
  BY DEF Claims, RelayTypes, StorePart
<1>2. CASE Verdict(b) = "reorganize"
  <2>1. kept' = kept /\ KnownToAll' = KnownToAll
    BY <1>2 DEF Keeps, KnownToAll
  <2>2. writer'.goal = b
    BY <1>2
  <2>3. ~Idle'
    <3>1. PICK by \in Thread \cup {"other"} : writer' = [by |-> by, goal |-> b]
      BY <1>2
    <3>2. writer'.by = by /\ by # "none"
      BY <3>1 DEF Thread
    <3>3. NoWriter.by = "none"
      BY DEF NoWriter
    <3>4. writer' # NoWriter
      BY <3>2, <3>3
    <3>. QED  BY <3>4 DEF Idle
  <2>4. Claims'
    BY <1>2, <2>1, <2>2, <2>3, VerdictFits DEF Claims
  <2>. QED  BY <2>1, <2>4 DEF Best!vars
<1>3. CASE Verdict(b) = "insufficient_work"
  <2>1. kept' = kept \cup {b} /\ writer' = writer
    BY <1>3 DEF Keeps
  <2>2. /\ Ancestors[b] \subseteq KnownToAll /\ Best!Fits(b)
        /\ TotalWork[b] <= TotalWork[top_block]
    <3>1. TotalWork[b] \in Nat /\ TotalWork[top_block] \in Nat
      BY <1>1, BlockTreeAssumption
    <3>. QED  BY <1>3, <3>1, VerdictFits
  <2>3. KnownToAll' = KnownToAll \cup {b}
    BY <2>1 DEF KnownToAll
  <2>4. Claims'
    BY <2>1, <2>2, <2>3 DEF Claims, Idle
  <2>5. Best!Keep(b)
    BY <2>1, <2>2 DEF Best!Keep
  <2>. QED  BY <2>4, <2>5 DEF Best!Next
<1>4. CASE Verdict(b) \notin {"reorganize", "insufficient_work"}
  <2>1. ChainStays
    BY <1>4 DEF Keeps, ChainStays, Idle
  <2>. QED  BY <2>1, ChainStaysKeeps
<1>. QED  BY <1>2, <1>3, <1>4

LEMMA OrganizeMoves ==
  ASSUME RelayTypes, Claims, NEW t \in Thread, Organize(t)
  PROVE  Claims' /\ [Best!Next]_(Best!vars)
<1> DEFINE b == held[t].block
<1>1. /\ b \in Block /\ Idle /\ Keeps(b, Verdict(b)) /\ UNCHANGED <<stored, top_block>>
      /\ IF Verdict(b) = "reorganize" THEN writer' = [by |-> t, goal |-> b] ELSE UNCHANGED writer
  BY HoldingFacts DEF Organize
<1>. HIDE DEF b
<1>. QED  BY <1>1, VerdictMoves

LEMMA ElsewhereMoves ==
  ASSUME RelayTypes, Claims, NEW b \in Block, Elsewhere(b)
  PROVE  Claims' /\ [Best!Next]_(Best!vars)
BY VerdictMoves DEF Elsewhere

\* What is written block by block is told when it is whole.
LEMMA CommitMoves ==
  ASSUME RelayTypes, Claims, Commit
  PROVE  Claims' /\ [Best!Next]_(Best!vars)
<1> DEFINE b == writer.goal
<1>1. /\ ~Idle /\ stored = b /\ top_block' = b /\ stored' = b
      /\ kept' = (kept \cup Lineage(top_block)) \ Lineage(b)
      /\ Idle'
  BY DEF Commit, Idle
<1>2. b \in Block /\ top_block \in Block /\ kept \subseteq Block
  BY <1>1 DEF RelayTypes, StorePart
<1>3. /\ b \notin KnownToAll /\ Ancestors[b] \subseteq KnownToAll
      /\ TotalWork[b] > TotalWork[top_block]
  BY <1>1 DEF Claims
<1>. HIDE DEF b
<1>4. Best!Switch(b)
  <2>1. Best!Fits(b)
    BY <1>2, <1>3 DEF Best!Fits, Best!Known, Best!Chain, Best!Lineage, KnownToAll, Lineage
  <2>. QED  BY <1>1, <1>3, <2>1 DEF Best!Switch, Best!Known, Best!Chain, Best!Lineage, Lineage
<1>5. Claims'
  <2>1. KnownToAll' = KnownToAll \cup Lineage(b)
    BY <1>1 DEF KnownToAll
  <2>2. \A c \in KnownToAll : Ancestors[c] \subseteq KnownToAll
    BY <1>2, AncestorsAreBelow DEF Claims, KnownToAll, Lineage
  <2>3. \A c \in kept' : c \in KnownToAll
    BY <1>1 DEF KnownToAll
  <2>. QED  BY <1>1, <2>1, <2>2, <2>3 DEF Claims
<1>. QED  BY <1>2, <1>4, <1>5 DEF Best!Next

LEMMA RelayMoves ==
  ASSUME RelayTypes, Claims, [RelayNext]_relay_vars
  PROVE  Claims' /\ [Best!Next]_(Best!vars)
<1>1. CASE UNCHANGED relay_vars
  BY <1>1, ChainStaysWhen, ChainStaysKeeps DEF relay_vars
<1>2. ASSUME NEW t \in Thread, Organize(t) PROVE Claims' /\ [Best!Next]_(Best!vars)
  BY <1>2, OrganizeMoves
<1>3. ASSUME NEW b \in Block, Elsewhere(b) PROVE Claims' /\ [Best!Next]_(Best!vars)
  BY <1>3, ElsewhereMoves
<1>4. CASE Write
  <2>1. ~Idle /\ ~Idle' /\ UNCHANGED <<top_block, kept, writer>>
    BY <1>4 DEF Write, Idle
  <2>2. KnownToAll' = KnownToAll
    BY <2>1 DEF KnownToAll
  <2>. QED  BY <2>1, <2>2 DEF Claims, Best!vars
<1>5. CASE Commit
  BY <1>5, CommitMoves
<1>6. CASE ChainStays
  BY <1>6, ChainStaysKeeps
<1>. QED  BY <1>1, <1>2, <1>3, <1>4, <1>5, <1>6, MessagesMoveNoChain DEF RelayNext, Receive, World

\* Subscribers and channels are told of the chain that BestChain promises, while
\* the store is written under the mutex, block by block.
THEOREM RelayImplementsBestChain == RelaySpec => MovesAsBestChain
<1>1. RelayInit => Claims /\ Best!Init
  BY DEF RelayInit, Claims, Idle, Best!Init
<1>. QED  BY <1>1, RelayMoves, RelayTypesHold, PTL DEF RelaySpec, MovesAsBestChain, Best!Spec

==========================================================================
