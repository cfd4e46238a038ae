------------------------- MODULE ReorgStoreProofs -------------------------
(***************************************************************************)
(* The tables of the store describe the chain after every push, pop, prune *)
(* and restart, in whatever order the prune jobs interleave: for every     *)
(* tree, every assignment of outputs to blocks, every limit, any clock and *)
(* any number of prune jobs.                                               *)
(***************************************************************************)
EXTENDS Prevouts, FiniteSetTheorems, WellFoundedInduction, TLAPS

-----------------------------------------------------------------------------
(* The block tree.  What its defining equations imply, by induction on heights; *)
(* the well-founded order of the finite segments of Nat carries the induction.  *)

\* A nonempty set of numbers has a least element.
LEMMA LeastNumber ==
  ASSUME NEW T \in SUBSET Nat, T # {}
  PROVE  \E m \in T : \A k \in T : m <= k
<1> DEFINE Segments == {0..m : m \in T}
<1>1. Segments \subseteq FiniteSubsetsOf(Nat) /\ Segments # {}
  <2>1. ASSUME NEW m \in T PROVE 0..m \in FiniteSubsetsOf(Nat)
    <3>1. IsFiniteSet(0..m)
      <4>1. 0 \in Int /\ m \in Int
        OBVIOUS
      <4>. QED  BY <4>1, FS_Interval
    <3>2. 0..m \subseteq Nat
      OBVIOUS
    <3>. QED  BY <3>1, <3>2 DEF FiniteSubsetsOf
  <2>. QED  BY <2>1
<1>2. PICK m \in T : \A s \in Segments : ~(<<s, 0..m>> \in StrictSubsetOrdering(Nat))
  <2>1. \E x \in Segments : \A s \in Segments : ~(<<s, x>> \in StrictSubsetOrdering(Nat))
    <3>. HIDE DEF Segments
    <3>. QED  BY <1>1, FS_StrictSubsetOrderingWellFounded, WFMin, Zenon
  <2>. QED  BY <2>1
<1>3. ASSUME NEW k \in T, k < m PROVE FALSE
  <2>1. m \in 0..m /\ m \notin 0..k
    BY <1>3
  <2>2. 0..k \subseteq 0..m /\ 0..k # 0..m /\ 0..m \subseteq Nat
    BY <2>1, <1>3
  <2>3. <<0..k, 0..m>> \in StrictSubsetOrdering(Nat)
    BY <2>2 DEF StrictSubsetOrdering
  <2>. QED  BY <1>2, <2>3
<1>. QED  BY <1>3

\* A statement about every block, by induction on the height of the block.
LEMMA BlockInduction ==
  ASSUME NEW S \in SUBSET Block,
         Genesis \in S,
         \A b \in Block \ {Genesis} : Parent[b] \in S => b \in S
  PROVE  \A b \in Block : b \in S
<1>1. SUFFICES ASSUME Block \ S # {} PROVE FALSE
  OBVIOUS
<1> DEFINE Heights == {Height[b] : b \in Block \ S}
<1>2. PICK m \in Heights : \A k \in Heights : m <= k
  <2>1. Heights \in SUBSET Nat /\ Heights # {}
    BY <1>1, BlockTreeAssumption
  <2>. HIDE DEF Heights
  <2>. QED  BY <2>1, LeastNumber
<1>3. PICK b \in Block \ S : Height[b] = m
  BY <1>2
<1>4. Parent[b] \in Block /\ Height[b] = Height[Parent[b]] + 1 /\ Height[Parent[b]] \in Nat
  BY <1>3, BlockTreeAssumption
<1>5. Parent[b] \notin S
  BY <1>3
<1>6. Height[b] <= Height[Parent[b]]
  BY <1>2, <1>3, <1>4, <1>5
<1>. QED  BY <1>4, <1>6

\* Ancestors are lower, weigh less and are ancestors all the way down.
LEMMA AncestorsAreBelow ==
  \A b \in Block : \A a \in Ancestors[b] :
    /\ a \in Block
    /\ Height[a] < Height[b]
    /\ TotalWork[a] < TotalWork[b]
    /\ Ancestors[a] \subseteq Ancestors[b]
<1> DEFINE Good(b) == \A a \in Ancestors[b] :
             /\ a \in Block
             /\ Height[a] < Height[b]
             /\ TotalWork[a] < TotalWork[b]
             /\ Ancestors[a] \subseteq Ancestors[b]
           S == {b \in Block : Good(b)}
<1>1. Genesis \in S
  BY BlockTreeAssumption
<1>2. ASSUME NEW b \in Block \ {Genesis}, Parent[b] \in S PROVE b \in S
  <2>1. /\ Ancestors[b] = Ancestors[Parent[b]] \cup {Parent[b]}
        /\ Parent[b] \in Block
        /\ Height[Parent[b]] < Height[b]
        /\ TotalWork[Parent[b]] < TotalWork[b]
    BY BlockTreeAssumption
  <2>2. ASSUME NEW a \in Ancestors[Parent[b]]
        PROVE  /\ a \in Block
               /\ Height[a] < Height[b]
               /\ TotalWork[a] < TotalWork[b]
               /\ Ancestors[a] \subseteq Ancestors[b]
    BY <1>2, <2>1, BlockTreeAssumption
  <2>. QED  BY <2>1, <2>2
<1>3. \A b \in Block : b \in S
  <2>. HIDE DEF Good
  <2>. QED  BY <1>1, <1>2, BlockInduction
<1>. QED  BY <1>3

\* A lineage is closed under Parent and has members at every height.
LEMMA LineageIsComplete ==
  \A b \in Block :
    /\ \A a \in Lineage(b) \ {Genesis} : Parent[a] \in Ancestors[b]
    /\ \A h \in 0..Height[b] : \E a \in Lineage(b) : Height[a] = h
<1> DEFINE Good(b) ==
             /\ \A a \in Lineage(b) \ {Genesis} : Parent[a] \in Ancestors[b]
             /\ \A h \in 0..Height[b] : \E a \in Lineage(b) : Height[a] = h
           S == {b \in Block : Good(b)}
<1>1. Genesis \in S
  BY BlockTreeAssumption DEF Lineage
<1>2. ASSUME NEW b \in Block \ {Genesis}, Parent[b] \in S PROVE b \in S
  <2>1. /\ Lineage(b) = Lineage(Parent[b]) \cup {b}
        /\ Ancestors[b] = Lineage(Parent[b])
        /\ Ancestors[Parent[b]] \subseteq Ancestors[b]
        /\ Height[Parent[b]] \in Nat
        /\ Height[b] = Height[Parent[b]] + 1
    BY BlockTreeAssumption DEF Lineage
  <2>2. ASSUME NEW a \in Lineage(b) \ {Genesis} PROVE Parent[a] \in Ancestors[b]
    BY <1>2, <2>1 DEF Lineage
  <2>3. ASSUME NEW h \in 0..Height[b]
        PROVE  \E a \in Lineage(b) : Height[a] = h
    <3>1. CASE h = Height[b]
      BY <3>1, <2>1
    <3>2. CASE h \in 0..Height[Parent[b]]
      BY <3>2, <1>2, <2>1
    <3>. QED  BY <3>1, <3>2, <2>1
  <2>. QED  BY <2>2, <2>3
<1>3. \A b \in Block : b \in S
  <2>. HIDE DEF Good
  <2>. QED  BY <1>1, <1>2, BlockInduction
<1>. QED  BY <1>3

\* Of two blocks of one lineage the lower is in the lineage of the higher.
LEMMA LineageIsOrdered ==
  \A b \in Block : \A a, c \in Lineage(b) :
    Height[a] <= Height[c] => a \in Lineage(c)
<1> DEFINE Good(b) == \A a, c \in Lineage(b) :
                        Height[a] <= Height[c] => a \in Lineage(c)
           S == {b \in Block : Good(b)}
<1>1. Genesis \in S
  BY BlockTreeAssumption DEF Lineage
<1>2. ASSUME NEW b \in Block \ {Genesis}, Parent[b] \in S PROVE b \in S
  <2>1. /\ Lineage(b) = Lineage(Parent[b]) \cup {b}
        /\ Parent[b] \in Block
        /\ Height \in [Block -> Nat]
        /\ Height[b] = Height[Parent[b]] + 1
    BY BlockTreeAssumption DEF Lineage
  <2>2. \A c \in Lineage(Parent[b]) : c \in Block /\ Height[c] <= Height[Parent[b]]
    BY <2>1, AncestorsAreBelow DEF Lineage
  <2>3. ASSUME NEW a \in Lineage(b), NEW c \in Lineage(b), Height[a] <= Height[c]
        PROVE  a \in Lineage(c)
    <3>1. CASE c = b
      BY <3>1
    <3>2. CASE c \in Lineage(Parent[b])
      <4>1. a # b
        BY <3>2, <2>1, <2>2, <2>3
      <4>. QED  BY <4>1, <3>2, <1>2, <2>1, <2>3
    <3>. QED  BY <3>1, <3>2, <2>1
  <2>. QED  BY <2>3
<1>3. \A b \in Block : b \in S
  <2>. HIDE DEF Good
  <2>. QED  BY <1>1, <1>2, BlockInduction
<1>. QED  BY <1>3

\* A lineage has one block at each height.
LEMMA OnePerHeight ==
  \A b \in Block : \A a, c \in Lineage(b) : Height[a] = Height[c] => a = c
<1>. SUFFICES ASSUME NEW b \in Block, NEW a \in Lineage(b), NEW c \in Lineage(b),
                     Height[a] = Height[c], a # c
              PROVE  FALSE
  OBVIOUS
<1>1. a \in Block /\ c \in Block
  BY AncestorsAreBelow DEF Lineage
<1>2. a \in Ancestors[c]
  BY <1>1, LineageIsOrdered, BlockTreeAssumption DEF Lineage
<1>. QED  BY <1>1, <1>2, AncestorsAreBelow, BlockTreeAssumption

-----------------------------------------------------------------------------
(* Tables. *)

LEMMA WithFacts ==
  ASSUME NEW table, NEW outpoints, NEW value
  PROVE  /\ DOMAIN With(table, outpoints, value) = DOMAIN table \cup outpoints
         /\ \A o \in DOMAIN table : With(table, outpoints, value)[o] = table[o]
         /\ \A o \in outpoints \ DOMAIN table : With(table, outpoints, value)[o] = value
BY DEF With

LEMMA WithoutFacts ==
  ASSUME NEW table, NEW outpoints
  PROVE  /\ DOMAIN Without(table, outpoints) = DOMAIN table \ outpoints
         /\ \A o \in DOMAIN table \ outpoints : Without(table, outpoints)[o] = table[o]
BY DEF Without

-----------------------------------------------------------------------------
(* The unspent outputs along the chain. *)

\* What a block finds before it and leaves behind.
LEMMA SpendingFacts ==
  ASSUME NEW b \in Block \ {Genesis}
  PROVE  /\ Parent[b] \in Block
         /\ DOMAIN Unspent[b] \subseteq Outpoint
         /\ Unspent[b] \in [DOMAIN Unspent[b] -> Nat]
         /\ Unspent[b] = UnspentAfter(Unspent[Parent[b]], b, Height[b])
         /\ Creates[b] \subseteq Outpoint /\ Spends[b] \subseteq Outpoint
         /\ Creates[b] \cap DOMAIN Unspent[Parent[b]] = {}
         /\ Spends[b] \subseteq DOMAIN Unspent[Parent[b]] \cup Creates[b]
         /\ \A a \in Ancestors[b] : Spends[a] \cap Spends[b] = {}
BY SpendingAssumption, BlockTreeAssumption

\* A height of the chain: the block there, its parent, and those below.
LEMMA ChainFacts ==
  ASSUME TypeOK, ChainIsLineage, NEW h \in 1..top
  PROVE  /\ chain[h] \in Block \ {Genesis}
         /\ Height[chain[h]] = h
         /\ Parent[chain[h]] = chain[h - 1]
         /\ \A k \in 0..h - 1 : chain[k] \in Ancestors[chain[h]]
<1>1. /\ chain[h] \in Block \ {Genesis}
      /\ Height[chain[h]] = h
      /\ Parent[chain[h]] = chain[h - 1]
  BY DEF TypeOK, ChainIsLineage
<1>2. ASSUME NEW k \in 0..h - 1 PROVE chain[k] \in Ancestors[chain[h]]
  <2>1. chain[k] \in Lineage(chain[h]) /\ Height[chain[k]] = k
    BY DEF TypeOK, ChainIsLineage
  <2>. QED  BY <2>1, <1>1 DEF Lineage
<1>. QED  BY <1>1, <1>2

\* No output is spent at two heights.
LEMMA SpentOnce ==
  ASSUME TypeOK, ChainIsLineage, NEW i \in 1..top, NEW j \in 1..top,
         NEW o \in Spends[chain[i]] \cap Spends[chain[j]]
  PROVE  i = j
<1>1. ASSUME NEW h \in 1..top, NEW k \in 1..top, k < h
      PROVE  Spends[chain[k]] \cap Spends[chain[h]] = {}
  <2>1. /\ chain[h] \in Block \ {Genesis}
        /\ \A l \in 0..h - 1 : chain[l] \in Ancestors[chain[h]]
    BY ChainFacts
  <2>2. k \in 0..h - 1
    BY <1>1
  <2>. QED  BY <2>1, <2>2, SpendingFacts
<1>2. i < j \/ j < i \/ i = j
  BY DEF TypeOK
<1>. QED  BY <1>1, <1>2

\* The index names an output under one height.
LEMMA IndexedOnce ==
  ASSUME TypeOK, ChainIsLineage, PoolIsIndexed,
         NEW e \in reorg_index, NEW f \in reorg_index, e[2] = f[2]
  PROVE  e = f
<1>1. /\ e[1] \in 1..top /\ e[2] \in Spends[chain[e[1]]]
      /\ f[1] \in 1..top /\ f[2] \in Spends[chain[f[1]]]
  BY DEF PoolIsIndexed
<1>2. e[1] = f[1]
  BY <1>1, SpentOnce
<1>. QED  BY <1>2 DEF TypeOK

\* An output of the pool that the block at height h spends is indexed there.
LEMMA IndexedWhereSpent ==
  ASSUME TypeOK, ChainIsLineage, PoolIsIndexed, NEW h \in 1..top,
         NEW o \in Spends[chain[h]] \cap DOMAIN reorg_pool
  PROVE  <<h, o>> \in reorg_index
<1>1. PICK e \in reorg_index : e[2] = o
  BY DEF PoolIsIndexed
<1>2. e[1] \in 1..top /\ o \in Spends[chain[e[1]]]
  BY <1>1 DEF PoolIsIndexed
<1>3. e[1] = h
  BY <1>2, SpentOnce
<1>4. e = <<e[1], e[2]>>
  BY DEF TypeOK
<1>. QED  BY <1>1, <1>3, <1>4

-----------------------------------------------------------------------------
(* A valid block can be pushed. *)

LEMMA NextBlockFacts ==
  ASSUME TypeOK, ChainIsLineage, Pushing
  PROVE  /\ NextBlock \in Lineage(goal)
         /\ NextBlock \in Block \ {Genesis}
         /\ Height[NextBlock] = top + 1
         /\ Parent[NextBlock] = chain[top]
         /\ \A k \in 0..top : chain[k] \in Ancestors[NextBlock]
<1>1. /\ goal \in Block
      /\ top \in 0..top /\ top \in Nat
      /\ chain[top] \in Ancestors[goal]
      /\ Height[chain[top]] = top
  BY DEF Pushing, TypeOK, Lineage, ChainIsLineage
<1>2. top < Height[goal] /\ Height[goal] \in Nat
  BY <1>1, AncestorsAreBelow, BlockTreeAssumption
<1>3. NextBlock \in Lineage(goal) /\ Height[NextBlock] = top + 1
  <2>1. \E a \in Lineage(goal) : Height[a] = top + 1
    BY <1>1, <1>2, LineageIsComplete
  <2>. QED  BY <2>1 DEF NextBlock
<1>4. NextBlock \in Block \ {Genesis}
  BY <1>1, <1>3, AncestorsAreBelow, BlockTreeAssumption DEF Lineage
<1>5. Parent[NextBlock] = chain[top]
  <2>1. Parent[NextBlock] \in Lineage(goal)
    BY <1>1, <1>3, <1>4, LineageIsComplete DEF Lineage
  <2>2. Height[Parent[NextBlock]] = top
    <3>1. /\ Parent[NextBlock] \in Block
          /\ Height[Parent[NextBlock]] \in Nat
          /\ Height[NextBlock] = Height[Parent[NextBlock]] + 1
      BY <1>4, BlockTreeAssumption
    <3>. QED  BY <3>1, <1>1, <1>3
  <2>. QED  BY <1>1, <2>1, <2>2, OnePerHeight DEF Lineage
<1>6. Ancestors[NextBlock] = Lineage(chain[top])
  BY <1>4, <1>5, BlockTreeAssumption DEF Lineage
<1>. QED  BY <1>1, <1>3, <1>4, <1>5, <1>6 DEF ChainIsLineage

\* What is left in the pool was spent below, so the block spends none of it.
LEMMA CanPushNext ==
  ASSUME StoreIsConsistent, Pushing
  PROVE  /\ Spends[NextBlock] \cap DOMAIN reorg_pool = {}
         /\ CanPush(NextBlock)
<1> DEFINE b == NextBlock
<1>1. /\ b \in Block \ {Genesis}
      /\ Parent[b] = chain[top]
      /\ \A k \in 0..top : chain[k] \in Ancestors[b]
  BY NextBlockFacts DEF StoreIsConsistent
<1>2. Spends[b] \subseteq DOMAIN utxo \cup Creates[b]
  BY <1>1, SpendingFacts DEF StoreIsConsistent, UtxoIsOfTop
<1>3. ASSUME NEW o \in Spends[b] \cap DOMAIN reorg_pool PROVE FALSE
  <2>1. PICK e \in reorg_index : e[2] = o
    BY DEF StoreIsConsistent, PoolIsIndexed
  <2>2. e[1] \in 1..top /\ o \in Spends[chain[e[1]]]
    BY <2>1 DEF StoreIsConsistent, PoolIsIndexed
  <2>3. chain[e[1]] \in Ancestors[b]
    BY <1>1, <2>2 DEF StoreIsConsistent, TypeOK
  <2>. QED  BY <1>1, <2>2, <2>3, SpendingFacts
<1>4. top + 1 \notin DOMAIN reorg_block
  BY DEF StoreIsConsistent, TypeOK
<1>. QED  BY <1>2, <1>3, <1>4 DEF CanPush

-----------------------------------------------------------------------------
(* push_block *)

LEMMA PushedChain ==
  ASSUME StoreIsConsistent, Push
  PROVE  /\ top' = top + 1 /\ top' \in Nat
         /\ chain' \in [0..top' -> Block]
         /\ \A h \in 0..top : chain'[h] = chain[h]
         /\ chain'[top + 1] = NextBlock
         /\ ChainIsLineage'
<1>1. /\ top \in Nat
      /\ Pushing
      /\ top' = top + 1
      /\ chain' = [h \in 0..top + 1 |-> IF h <= top THEN chain[h] ELSE NextBlock]
  BY DEF Push, StoreIsConsistent, TypeOK
<1>2. /\ NextBlock \in Block \ {Genesis}
      /\ Height[NextBlock] = top + 1
      /\ Parent[NextBlock] = chain[top]
      /\ \A k \in 0..top : chain[k] \in Ancestors[NextBlock]
  BY <1>1, NextBlockFacts DEF StoreIsConsistent
<1>3. /\ chain' \in [0..top' -> Block]
      /\ \A h \in 0..top : chain'[h] = chain[h]
      /\ chain'[top + 1] = NextBlock
  BY <1>1, <1>2 DEF StoreIsConsistent, TypeOK
<1>4. ChainIsLineage'
  <2>1. chain'[0] = Genesis
    BY <1>1, <1>3 DEF StoreIsConsistent, ChainIsLineage
  <2>2. ASSUME NEW h \in 1..top' PROVE chain'[h] # Genesis /\ Parent[chain'[h]] = chain'[h - 1]
    <3>1. CASE h = top + 1
      BY <3>1, <1>1, <1>2, <1>3
    <3>2. CASE h \in 1..top
      BY <3>2, <1>1, <1>3 DEF StoreIsConsistent, ChainIsLineage
    <3>. QED  BY <3>1, <3>2, <1>1
  <2>3. ASSUME NEW h \in 0..top' PROVE Height[chain'[h]] = h
    BY <1>1, <1>2, <1>3 DEF StoreIsConsistent, ChainIsLineage
  <2>4. ASSUME NEW i \in 0..top', NEW j \in 0..top', i <= j PROVE chain'[i] \in Lineage(chain'[j])
    <3>1. CASE j \in 0..top
      BY <3>1, <2>4, <1>1, <1>3 DEF StoreIsConsistent, ChainIsLineage
    <3>2. CASE j = top + 1 /\ i \in 0..top
      BY <3>2, <1>2, <1>3 DEF Lineage
    <3>3. CASE i = j
      BY <3>3 DEF Lineage
    <3>. QED  BY <3>1, <3>2, <3>3, <2>4, <1>1
  <2>. QED  BY <2>1, <2>2, <2>3, <2>4 DEF ChainIsLineage
<1>. QED  BY <1>1, <1>3, <1>4

\* Whoever prunes sees nothing below the first height it read.
LEMMA PushedTables ==
  ASSUME StoreIsConsistent, Push
  PROVE  /\ utxo' = Unspent[chain'[top']]
         /\ \/ UNCHANGED <<reorg_pool, reorg_index, reorg_block>>
            \/ /\ reorg_pool' = SpentEntries(NextBlock)
               /\ reorg_index' = reorg_index \cup {top + 1} \X Spends[NextBlock]
               /\ reorg_block' = With(reorg_block, {top + 1}, NextBlock)
         /\ UNCHANGED <<goal, origin, pop_failed, prunes, now, prune_posted>>
<1>1. /\ utxo' = UnspentAfter(utxo, NextBlock, top + 1)
      /\ UNCHANGED <<goal, origin, pop_failed, prunes, now, prune_posted>>
      /\ Pushing
  BY DEF Push
<1>2. /\ NextBlock \in Block \ {Genesis}
      /\ Height[NextBlock] = top + 1
      /\ Parent[NextBlock] = chain[top]
  BY <1>1, NextBlockFacts DEF StoreIsConsistent
<1>3. utxo' = Unspent[NextBlock]
  BY <1>1, <1>2, SpendingFacts DEF StoreIsConsistent, UtxoIsOfTop
<1>. QED  BY <1>1, <1>3, PushedChain DEF Push

LEMMA SpentEntriesFacts ==
  ASSUME StoreIsConsistent, Pushing
  PROVE  /\ DOMAIN SpentEntries(NextBlock) = DOMAIN reorg_pool \cup Spends[NextBlock]
         /\ SpentEntries(NextBlock) \in [DOMAIN SpentEntries(NextBlock) -> Nat]
         /\ \A o \in DOMAIN reorg_pool : SpentEntries(NextBlock)[o] = reorg_pool[o]
         /\ \A o \in Spends[NextBlock] :
              SpentEntries(NextBlock)[o] = With(utxo, Creates[NextBlock], top + 1)[o]
<1> DEFINE b == NextBlock
           table == With(utxo, Creates[b], top + 1)
<1>1. /\ b \in Block \ {Genesis}
      /\ Parent[b] = chain[top]
      /\ top \in Nat
  BY NextBlockFacts DEF StoreIsConsistent, TypeOK
<1>2. Spends[b] \cap DOMAIN reorg_pool = {}
  BY CanPushNext
<1>3. ASSUME NEW o \in Spends[b] PROVE table[o] \in Nat
  <2>1. o \in DOMAIN utxo \cup Creates[b]
    BY <1>1, SpendingFacts DEF StoreIsConsistent, UtxoIsOfTop
  <2>2. CASE o \in DOMAIN utxo
    <3>1. utxo[o] \in Nat
      BY <2>2 DEF StoreIsConsistent, TypeOK
    <3>. QED  BY <2>2, <3>1 DEF With
  <2>3. CASE o \in Creates[b] \ DOMAIN utxo
    BY <2>3, <1>1 DEF With
  <2>. QED  BY <2>1, <2>2, <2>3
<1>4. SpentEntries(b) =
        [o \in DOMAIN reorg_pool \cup Spends[b] |->
           IF o \in DOMAIN reorg_pool THEN reorg_pool[o] ELSE table[o]]
  BY DEF SpentEntries
<1>5. \A o \in DOMAIN reorg_pool : reorg_pool[o] \in Nat
  BY DEF StoreIsConsistent, TypeOK
<1>. HIDE DEF table
<1>6. \A o \in DOMAIN reorg_pool \cup Spends[b] :
        (IF o \in DOMAIN reorg_pool THEN reorg_pool[o] ELSE table[o]) \in Nat
  BY <1>3, <1>5
<1>7. /\ DOMAIN SpentEntries(b) = DOMAIN reorg_pool \cup Spends[b]
      /\ SpentEntries(b) \in [DOMAIN reorg_pool \cup Spends[b] -> Nat]
  BY <1>4, <1>6
<1>8. \A o \in Spends[b] : SpentEntries(b)[o] = table[o]
  BY <1>2, <1>4
<1>. QED  BY <1>4, <1>7, <1>8 DEF table

LEMMA PushType ==
  ASSUME StoreIsConsistent, Push
  PROVE  TypeOK'
<1>1. /\ top' = top + 1 /\ top' \in Nat /\ top \in Nat
      /\ chain' \in [0..top' -> Block]
  BY PushedChain DEF StoreIsConsistent, TypeOK
<1>2. /\ Pushing
      /\ NextBlock \in Block \ {Genesis}
      /\ chain'[top'] = NextBlock
      /\ utxo' = Unspent[NextBlock]
      /\ UNCHANGED <<goal, origin, pop_failed, prunes, now, prune_posted>>
  BY PushedChain, PushedTables, NextBlockFacts DEF StoreIsConsistent, Push
<1>3. DOMAIN utxo' \subseteq Outpoint /\ utxo' \in [DOMAIN utxo' -> Nat]
  BY <1>2, SpendingFacts
<1>4. DOMAIN reorg_pool' \subseteq Outpoint /\ reorg_pool' \in [DOMAIN reorg_pool' -> Nat]
  <2>1. CASE UNCHANGED reorg_pool
    BY <2>1 DEF StoreIsConsistent, TypeOK
  <2>2. CASE reorg_pool' = SpentEntries(NextBlock)
    BY <2>2, <1>2, SpentEntriesFacts, SpendingFacts DEF StoreIsConsistent, TypeOK
  <2>. QED  BY <2>1, <2>2, PushedTables
<1>5. reorg_index' \subseteq Nat \X Outpoint
  <2>1. Spends[NextBlock] \subseteq Outpoint
    BY <1>2, SpendingFacts
  <2>. QED  BY <2>1, <1>1, PushedTables DEF StoreIsConsistent, TypeOK
<1>6. DOMAIN reorg_block' \subseteq 1..top' /\ reorg_block' \in [DOMAIN reorg_block' -> Block]
  <2>0. /\ DOMAIN reorg_block \subseteq 1..top
        /\ reorg_block \in [DOMAIN reorg_block -> Block]
    BY DEF StoreIsConsistent, TypeOK
  <2>1. CASE UNCHANGED reorg_block
    BY <2>0, <2>1, <1>1
  <2>2. CASE reorg_block' = With(reorg_block, {top + 1}, NextBlock)
    BY <2>0, <2>2, <1>1, <1>2 DEF With
  <2>. QED  BY <2>1, <2>2, PushedTables
<1>. QED  BY <1>1, <1>2, <1>3, <1>4, <1>5, <1>6 DEF StoreIsConsistent, TypeOK, prunes

LEMMA PushPreserves == StoreIsConsistent /\ Push => StoreIsConsistent'
<1>. SUFFICES ASSUME StoreIsConsistent, Push PROVE StoreIsConsistent'
  OBVIOUS
<1> DEFINE b == NextBlock
<1>1. /\ top' = top + 1 /\ top \in Nat
      /\ \A h \in 0..top : chain'[h] = chain[h]
      /\ chain'[top + 1] = b
      /\ ChainIsLineage'
  BY PushedChain DEF StoreIsConsistent, TypeOK
<1>2. Pushing /\ b \in Block \ {Genesis} /\ Parent[b] = chain[top]
  BY NextBlockFacts DEF StoreIsConsistent, Push
<1>3. UtxoIsOfTop'
  BY PushedTables DEF UtxoIsOfTop
<1>4. \A h \in 1..top : SpendableAt(h)' = SpendableAt(h)
  BY <1>1 DEF SpendableAt
<1>5. \A h : h = top + 1 => SpendableAt(h)' = With(utxo, Creates[b], top + 1)
  BY <1>1, <1>2 DEF SpendableAt, StoreIsConsistent, UtxoIsOfTop
<1>6. /\ \A e \in reorg_index : /\ e[1] \in 1..top
                               /\ e[2] \in Spends[chain[e[1]]]
                               /\ e[2] \in DOMAIN reorg_pool
      /\ DOMAIN reorg_pool = {e[2] : e \in reorg_index}
  BY DEF StoreIsConsistent, PoolIsIndexed
<1>7. CASE UNCHANGED <<reorg_pool, reorg_index, reorg_block>>
  <2>1. PoolIsIndexed'
    BY <1>1, <1>6, <1>7 DEF PoolIsIndexed
  <2>2. PoolHoldsEntries'
    BY <1>4, <1>6, <1>7 DEF StoreIsConsistent, PoolHoldsEntries
  <2>3. KeptBlocksAreWhole'
    <3>1. \A h \in DOMAIN reorg_block : chain'[h] = chain[h]
      BY <1>1 DEF StoreIsConsistent, TypeOK
    <3>. QED  BY <1>7, <3>1 DEF StoreIsConsistent, KeptBlocksAreWhole
  <2>4. NothingBelowFirst'
    BY <1>1, <1>7, PushedTables DEF StoreIsConsistent, NothingBelowFirst, TypeOK, prunes
  <2>. QED  BY <1>1, <1>3, <2>1, <2>2, <2>3, <2>4, PushType DEF StoreIsConsistent
<1>8. CASE /\ reorg_pool' = SpentEntries(b)
           /\ reorg_index' = reorg_index \cup {top + 1} \X Spends[b]
           /\ reorg_block' = With(reorg_block, {top + 1}, b)
  <2>0. /\ DOMAIN reorg_pool' = DOMAIN reorg_pool \cup Spends[b]
        /\ \A o \in DOMAIN reorg_pool : reorg_pool'[o] = reorg_pool[o]
        /\ \A o \in Spends[b] : reorg_pool'[o] = With(utxo, Creates[b], top + 1)[o]
    BY <1>2, <1>8, SpentEntriesFacts
  <2>1. PoolIsIndexed'
    <3>1. {e[2] : e \in reorg_index'} = {e[2] : e \in reorg_index} \cup Spends[b]
      <4>1. \A o \in Spends[b] : <<top + 1, o>> \in reorg_index' /\ <<top + 1, o>>[2] = o
        BY <1>8
      <4>2. \A e \in reorg_index' : e \in reorg_index \/ e[2] \in Spends[b]
        BY <1>8
      <4>3. reorg_index \subseteq reorg_index'
        BY <1>8
      <4>. QED  BY <4>1, <4>2, <4>3
    <3>2. \A e \in reorg_index' : e[1] \in 1..top' /\ e[2] \in Spends[chain'[e[1]]]
      BY <1>1, <1>6, <1>8
    <3>. QED  BY <1>6, <2>0, <3>1, <3>2 DEF PoolIsIndexed
  <2>2. PoolHoldsEntries'
    <3>1. ASSUME NEW e \in reorg_index PROVE reorg_pool'[e[2]] = SpendableAt(e[1])'[e[2]]
      BY <3>1, <1>4, <1>6, <2>0 DEF StoreIsConsistent, PoolHoldsEntries
    <3>2. ASSUME NEW e \in {top + 1} \X Spends[b]
          PROVE  reorg_pool'[e[2]] = SpendableAt(e[1])'[e[2]]
      BY <1>5, <2>0
    <3>. QED  BY <1>8, <3>1, <3>2 DEF PoolHoldsEntries
  <2>3. KeptBlocksAreWhole'
    <3>1. /\ DOMAIN reorg_block' = DOMAIN reorg_block \cup {top + 1}
          /\ \A h \in DOMAIN reorg_block : reorg_block'[h] = reorg_block[h]
          /\ DOMAIN reorg_block \subseteq 1..top
      BY <1>8 DEF With, StoreIsConsistent, TypeOK
    <3>2. reorg_block'[top + 1] = b
      BY <1>1, <1>8, <3>1 DEF With
    <3>. QED  BY <1>1, <2>0, <3>1, <3>2 DEF StoreIsConsistent, KeptBlocksAreWhole
  <2>4. NothingBelowFirst'
    <3>1. DOMAIN reorg_block' = DOMAIN reorg_block \cup {top + 1}
      BY <1>8 DEF With
    <3>2. \A p \in Pruner : pruning[p].first \in Nat
      BY DEF StoreIsConsistent, TypeOK
    <3>. QED  BY <1>1, <3>1, <3>2, PushedTables DEF StoreIsConsistent, NothingBelowFirst, prunes
  <2>. QED  BY <1>1, <1>3, <2>1, <2>2, <2>3, <2>4, PushType DEF StoreIsConsistent
<1>. QED  BY <1>7, <1>8, PushedTables

-----------------------------------------------------------------------------
(* pop_block *)

LEMMA PopFacts ==
  ASSUME StoreIsConsistent, CanPop
  PROVE  /\ top \in 1..top /\ top \in Nat
         /\ reorg_block[top] = chain[top]
         /\ chain[top] \in Block \ {Genesis}
         /\ Height[chain[top]] = top
         /\ Parent[chain[top]] = chain[top - 1]
         /\ Parent[chain[top]] \in Block
         /\ Spends[chain[top]] \subseteq DOMAIN reorg_pool
<1>1. top \in 1..top /\ top \in Nat /\ reorg_block[top] = chain[top]
  BY DEF CanPop, StoreIsConsistent, TypeOK, KeptBlocksAreWhole
<1>2. /\ chain[top] \in Block \ {Genesis}
      /\ Height[chain[top]] = top
      /\ Parent[chain[top]] = chain[top - 1]
  BY <1>1, ChainFacts DEF StoreIsConsistent
<1>. QED  BY <1>1, <1>2, SpendingFacts DEF CanPop

\* remove_block undoes push_block.
LEMMA PopRestores ==
  ASSUME StoreIsConsistent, CanPop
  PROVE  UtxoAfterPop(chain[top]) = Unspent[chain[top - 1]]
<1> DEFINE b == chain[top]
           U == Unspent[Parent[b]]
           W == With(U, Creates[b], top)
<1>1. /\ b \in Block \ {Genesis}
      /\ Height[b] = top
      /\ Parent[b] = chain[top - 1] /\ Parent[b] \in Block
      /\ Spends[b] \subseteq DOMAIN reorg_pool
      /\ top \in 1..top
  BY PopFacts
<1>2. U = [o \in DOMAIN U |-> U[o]]
  BY <1>1, SpendingAssumption
<1>3. /\ Creates[b] \cap DOMAIN U = {}
      /\ Spends[b] \subseteq DOMAIN U \cup Creates[b]
      /\ utxo = Without(W, Spends[b])
  BY <1>1, SpendingFacts DEF StoreIsConsistent, UtxoIsOfTop, UnspentAfter
<1>4. DOMAIN W = DOMAIN U \cup Creates[b] /\ \A o \in DOMAIN U : W[o] = U[o]
  BY DEF With
<1>5. ASSUME NEW o \in Spends[b] PROVE reorg_pool[o] = W[o]
  <2>1. <<top, o>> \in reorg_index
    BY <1>1, IndexedWhereSpent DEF StoreIsConsistent
  <2>2. reorg_pool[<<top, o>>[2]] = SpendableAt(<<top, o>>[1])[<<top, o>>[2]]
    BY <2>1 DEF StoreIsConsistent, PoolHoldsEntries
  <2>. QED  BY <2>2 DEF SpendableAt
<1>. HIDE DEF U, W, b
<1>6. /\ DOMAIN utxo = DOMAIN W \ Spends[b]
      /\ \A o \in DOMAIN W \ Spends[b] : utxo[o] = W[o]
  BY <1>3 DEF Without
<1>7. /\ DOMAIN Restored(b) = DOMAIN U \cup Creates[b]
      /\ \A o \in DOMAIN U : Restored(b)[o] = U[o]
  <2>1. DOMAIN Restored(b) = DOMAIN U \cup Creates[b]
    BY <1>3, <1>4, <1>6 DEF Restored
  <2>2. ASSUME NEW o \in DOMAIN U PROVE Restored(b)[o] = U[o]
    <3>1. CASE o \in Spends[b]
      BY <3>1, <1>4, <1>5 DEF Restored
    <3>2. CASE o \notin Spends[b]
      BY <3>2, <1>4, <1>6 DEF Restored
    <3>. QED  BY <3>1, <3>2
  <2>. QED  BY <2>1, <2>2
<1>8. DOMAIN Restored(b) \ Creates[b] = DOMAIN U
  BY <1>3, <1>7
<1>9. UtxoAfterPop(b) = [o \in DOMAIN U |-> U[o]]
  BY <1>7, <1>8 DEF UtxoAfterPop, Without
<1>. QED  BY <1>1, <1>2, <1>9 DEF U, b

LEMMA PoppedChain ==
  ASSUME StoreIsConsistent, Pop
  PROVE  /\ CanPop
         /\ top' = top - 1 /\ top' \in Nat /\ top \in 1..top
         /\ chain' \in [0..top' -> Block]
         /\ \A h \in 0..top' : chain'[h] = chain[h] /\ h \in 0..top
         /\ ChainIsLineage'
<1>1. /\ CanPop
      /\ top' = top - 1
      /\ chain' = [h \in 0..top - 1 |-> chain[h]]
  BY DEF Pop
<1>2. top \in 1..top /\ top \in Nat /\ top' \in Nat
  BY <1>1, PopFacts
<1>3. /\ chain' \in [0..top' -> Block]
      /\ \A h \in 0..top' : chain'[h] = chain[h] /\ h \in 0..top
  BY <1>1, <1>2 DEF StoreIsConsistent, TypeOK
<1>4. ChainIsLineage'
  <2>1. chain'[0] = Genesis
    BY <1>2, <1>3 DEF StoreIsConsistent, ChainIsLineage
  <2>2. ASSUME NEW h \in 1..top' PROVE chain'[h] # Genesis /\ Parent[chain'[h]] = chain'[h - 1]
    <3>1. chain'[h] = chain[h] /\ chain'[h - 1] = chain[h - 1] /\ h \in 1..top
      BY <1>1, <1>2, <1>3
    <3>. QED  BY <3>1 DEF StoreIsConsistent, ChainIsLineage
  <2>3. /\ \A h \in 0..top' : Height[chain'[h]] = h
        /\ \A i, j \in 0..top' : i <= j => chain'[i] \in Lineage(chain'[j])
    BY <1>3 DEF StoreIsConsistent, ChainIsLineage
  <2>. QED  BY <2>1, <2>2, <2>3 DEF ChainIsLineage
<1>. QED  BY <1>1, <1>2, <1>3, <1>4

LEMMA PopPreserves == StoreIsConsistent /\ Pop => StoreIsConsistent'
<1>. SUFFICES ASSUME StoreIsConsistent, Pop PROVE StoreIsConsistent'
  OBVIOUS
<1> DEFINE b == chain[top]
<1>1. /\ CanPop
      /\ top' = top - 1 /\ top' \in Nat /\ top \in 1..top /\ top \in Nat
      /\ chain' \in [0..top' -> Block]
      /\ \A h \in 0..top' : chain'[h] = chain[h] /\ h \in 0..top
      /\ ChainIsLineage'
  BY PoppedChain DEF StoreIsConsistent, TypeOK
<1>2. reorg_block[top] = b /\ Spends[b] \subseteq DOMAIN reorg_pool
  BY <1>1, PopFacts
<1>3. /\ utxo' = UtxoAfterPop(b)
      /\ reorg_pool' = Without(reorg_pool, Spends[b])
      /\ reorg_index' = {e \in reorg_index : e[1] # top}
      /\ reorg_block' = Without(reorg_block, {top})
      /\ UNCHANGED <<goal, origin, pop_failed, prunes, now, prune_posted>>
  BY <1>2 DEF Pop, PoolAfterPop, IndexAfterPop, BlocksAfterPop
<1>4. UtxoIsOfTop' /\ utxo' = Unspent[chain'[top']]
  <2>1. utxo' = Unspent[chain[top - 1]]
    BY <1>1, <1>3, PopRestores
  <2>2. chain'[top'] = chain[top - 1]
    BY <1>1
  <2>. QED  BY <2>1, <2>2 DEF UtxoIsOfTop
<1>5. /\ DOMAIN reorg_pool' = DOMAIN reorg_pool \ Spends[b]
      /\ \A o \in DOMAIN reorg_pool \ Spends[b] : reorg_pool'[o] = reorg_pool[o]
      /\ DOMAIN reorg_block' = DOMAIN reorg_block \ {top}
      /\ \A h \in DOMAIN reorg_block \ {top} : reorg_block'[h] = reorg_block[h]
      /\ DOMAIN reorg_block \subseteq 1..top
  BY <1>3 DEF Without, StoreIsConsistent, TypeOK
<1>6. \A h \in 1..top' : h \in 0..top' /\ h - 1 \in 0..top' /\ h \in 1..top /\ h # top
  BY <1>1
<1>7. \A e \in reorg_index : /\ e[1] \in 1..top
                             /\ e[2] \in Spends[chain[e[1]]]
                             /\ e[2] \in DOMAIN reorg_pool
  BY DEF StoreIsConsistent, PoolIsIndexed
<1>8. \A e \in reorg_index : e[1] # top => e[2] \notin Spends[b]
  BY <1>1, <1>7, SpentOnce DEF StoreIsConsistent
<1>9. \A e \in reorg_index' : e \in reorg_index /\ e[1] \in 1..top' /\ e[2] \notin Spends[b]
  BY <1>1, <1>3, <1>7, <1>8
<1>10. TypeOK'
  <2>1. DOMAIN utxo' \subseteq Outpoint /\ utxo' \in [DOMAIN utxo' -> Nat]
    <3>1. chain'[top'] \in Block
      BY <1>1
    <3>. QED  BY <3>1, <1>4, SpendingAssumption
  <2>2. DOMAIN reorg_pool' \subseteq Outpoint /\ reorg_pool' \in [DOMAIN reorg_pool' -> Nat]
    BY <1>3 DEF Without, StoreIsConsistent, TypeOK
  <2>3. reorg_index' \subseteq Nat \X Outpoint
    BY <1>3 DEF StoreIsConsistent, TypeOK
  <2>4. DOMAIN reorg_block' \subseteq 1..top' /\ reorg_block' \in [DOMAIN reorg_block' -> Block]
    <3>1. DOMAIN reorg_block' \subseteq 1..top'
      BY <1>1, <1>5
    <3>2. reorg_block' \in [DOMAIN reorg_block' -> Block]
      BY <1>3 DEF Without, StoreIsConsistent, TypeOK
    <3>. QED  BY <3>1, <3>2
  <2>. QED  BY <1>1, <1>3, <2>1, <2>2, <2>3, <2>4 DEF StoreIsConsistent, TypeOK, prunes
<1>11. PoolIsIndexed'
  <2>1. DOMAIN reorg_pool' = {e[2] : e \in reorg_index'}
    <3>1. ASSUME NEW o \in DOMAIN reorg_pool' PROVE \E e \in reorg_index' : e[2] = o
      <4>1. PICK e \in reorg_index : e[2] = o
        BY <1>5 DEF StoreIsConsistent, PoolIsIndexed
      <4>2. e[1] # top
        BY <4>1, <1>5, <1>7
      <4>. QED  BY <4>1, <4>2, <1>3
    <3>2. \A e \in reorg_index' : e[2] \in DOMAIN reorg_pool'
      BY <1>5, <1>7, <1>9
    <3>. QED  BY <3>1, <3>2
  <2>2. \A e \in reorg_index' : e[1] \in 1..top' /\ e[2] \in Spends[chain'[e[1]]]
    BY <1>1, <1>6, <1>7, <1>9
  <2>. QED  BY <2>1, <2>2 DEF PoolIsIndexed
<1>12. PoolHoldsEntries'
  <2>1. \A h \in 1..top' : SpendableAt(h)' = SpendableAt(h)
    BY <1>1, <1>6 DEF SpendableAt
  <2>2. \A e \in reorg_index' : reorg_pool'[e[2]] = reorg_pool[e[2]]
    BY <1>5, <1>7, <1>9
  <2>3. \A e \in reorg_index : reorg_pool[e[2]] = SpendableAt(e[1])[e[2]]
    BY DEF StoreIsConsistent, PoolHoldsEntries
  <2>. QED  BY <1>9, <2>1, <2>2, <2>3 DEF PoolHoldsEntries
<1>13. KeptBlocksAreWhole'
  <2>. SUFFICES ASSUME NEW h \in DOMAIN reorg_block'
                PROVE  /\ reorg_block'[h] = chain'[h]
                       /\ Spends[chain'[h]] \subseteq DOMAIN reorg_pool'
    BY DEF KeptBlocksAreWhole
  <2>1. /\ h \in DOMAIN reorg_block
        /\ h \in 1..top'
        /\ reorg_block'[h] = reorg_block[h]
        /\ chain'[h] = chain[h]
    BY <1>1, <1>5
  <2>2. reorg_block[h] = chain[h] /\ Spends[chain[h]] \subseteq DOMAIN reorg_pool
    BY <2>1 DEF StoreIsConsistent, KeptBlocksAreWhole
  <2>3. Spends[chain[h]] \cap Spends[b] = {}
    BY <1>1, <1>6, <2>1, SpentOnce DEF StoreIsConsistent
  <2>. QED  BY <1>5, <2>1, <2>2, <2>3
<1>14. NothingBelowFirst'
  <2>1. \A p \in Pruner : pruning[p].first \in Nat
    BY DEF StoreIsConsistent, TypeOK
  <2>2. top \in DOMAIN reorg_block
    BY <1>1 DEF CanPop
  <2>. QED  BY <1>1, <1>3, <1>5, <2>1, <2>2 DEF StoreIsConsistent, NothingBelowFirst, prunes
<1>. QED  BY <1>1, <1>4, <1>10, <1>11, <1>12, <1>13, <1>14 DEF StoreIsConsistent

-----------------------------------------------------------------------------
(* prune *)

\* The first height is the least one.
LEMMA FirstHeightFacts ==
  ASSUME TypeOK, DOMAIN reorg_block # {}
  PROVE  /\ FirstHeight \in DOMAIN reorg_block
         /\ FirstHeight \in Nat /\ FirstHeight <= top
         /\ \A h \in DOMAIN reorg_block : FirstHeight <= h
<1>1. DOMAIN reorg_block \in SUBSET Nat /\ DOMAIN reorg_block \subseteq 1..top
  BY DEF TypeOK
<1>2. \E h \in DOMAIN reorg_block : \A k \in DOMAIN reorg_block : h <= k
  BY <1>1, LeastNumber
<1>. QED  BY <1>1, <1>2 DEF FirstHeight, TypeOK

\* Counted from the first height or above, the blocks below a height are too few
\* to keep the deletion from it.
LEMMA LowestFacts ==
  ASSUME TypeOK, NEW first \in Nat, NEW amount \in Int,
         \A h \in DOMAIN reorg_block : first <= h,
         NEW h \in DOMAIN reorg_block \ Lowest(amount)
  PROVE  first + amount <= h
<1> DEFINE under == {k \in DOMAIN reorg_block : k < h}
<1>1. /\ h \in Nat /\ first <= h
      /\ DOMAIN reorg_block \subseteq Nat
  BY DEF TypeOK
<1>2. under \subseteq first..h - 1
  BY <1>1
<1>3. /\ IsFiniteSet(first..h - 1)
      /\ Cardinality(first..h - 1) = h - first
  <2>1. first \in Int /\ h - 1 \in Int
    BY <1>1
  <2>2. /\ IsFiniteSet(first..h - 1)
        /\ Cardinality(first..h - 1) = IF first > h - 1 THEN 0 ELSE (h - 1) - first + 1
    BY <2>1, FS_Interval
  <2>. QED  BY <1>1, <2>2
<1>4. Cardinality(under) \in Nat /\ Cardinality(under) <= h - first
  BY <1>1, <1>2, <1>3, FS_Subset, FS_CardinalityType
<1>5. ~(Cardinality(under) < amount)
  BY DEF Lowest
<1>. QED  BY <1>1, <1>4, <1>5

LEMMA PruneWritePreserves ==
  ASSUME StoreIsConsistent, NEW p \in Pruner, PruneWrite(p)
  PROVE  StoreIsConsistent'
<1> DEFINE job == pruning[p]
           amount == AmountToDelete(job)
           until == RemoveUntil(job)
           gone == Below(until)
<1>1. /\ reorg_block' = Without(reorg_block, Lowest(amount))
      /\ reorg_index' = reorg_index \ gone
      /\ reorg_pool' = Without(reorg_pool, {e[2] : e \in gone})
      /\ pruning' = [pruning EXCEPT ![p] = Idle]
      /\ job.step = "write"
      /\ UNCHANGED <<top, chain, utxo, goal, origin, pop_failed, posted, now, prune_posted>>
  BY DEF PruneWrite, End
<1>2. /\ job.first \in Nat /\ job.last \in Nat
      /\ \A h \in DOMAIN reorg_block : job.first <= h
      /\ amount \in Int /\ until = job.first + amount
  <2>1. job \in [step : {"idle", "first", "write"}, last : Nat, first : Nat]
    BY DEF StoreIsConsistent, TypeOK
  <2>2. \A h \in DOMAIN reorg_block : job.first <= h
    BY <1>1 DEF StoreIsConsistent, NothingBelowFirst
  <2>3. amount \in Int
    BY <2>1, StoreAssumption DEF AmountToDelete
  <2>. QED  BY <2>1, <2>2, <2>3 DEF RemoveUntil
<1>3. \A h \in DOMAIN reorg_block \ Lowest(amount) : until <= h
  BY <1>2, LowestFacts DEF StoreIsConsistent
<1>. HIDE DEF amount, until
<1>4. \A e \in reorg_index : /\ e[1] \in 1..top
                             /\ e[2] \in Spends[chain[e[1]]]
                             /\ e[2] \in DOMAIN reorg_pool
  BY DEF StoreIsConsistent, PoolIsIndexed
<1>5. \A e \in reorg_index \ gone : e[2] \notin {f[2] : f \in gone}
  BY IndexedOnce DEF StoreIsConsistent, Below
<1>6. /\ DOMAIN reorg_pool' = DOMAIN reorg_pool \ {e[2] : e \in gone}
      /\ \A o \in DOMAIN reorg_pool' : reorg_pool'[o] = reorg_pool[o]
      /\ DOMAIN reorg_block' = DOMAIN reorg_block \ Lowest(amount)
      /\ \A h \in DOMAIN reorg_block' : reorg_block'[h] = reorg_block[h]
  BY <1>1 DEF Without
<1>7. TypeOK'
  <2>1. DOMAIN reorg_pool' \subseteq Outpoint /\ reorg_pool' \in [DOMAIN reorg_pool' -> Nat]
    BY <1>1 DEF Without, StoreIsConsistent, TypeOK
  <2>2. DOMAIN reorg_block' \subseteq 1..top /\ reorg_block' \in [DOMAIN reorg_block' -> Block]
    BY <1>1 DEF Without, StoreIsConsistent, TypeOK
  <2>3. reorg_index' \subseteq Nat \X Outpoint
    BY <1>1 DEF StoreIsConsistent, TypeOK
  <2>4. pruning' \in [Pruner -> [step : {"idle", "first", "write"}, last : Nat, first : Nat]]
    BY <1>1 DEF Idle, StoreIsConsistent, TypeOK
  <2>. QED  BY <1>1, <2>1, <2>2, <2>3, <2>4 DEF StoreIsConsistent, TypeOK
<1>8. ChainIsLineage' /\ UtxoIsOfTop'
  BY <1>1 DEF StoreIsConsistent, ChainIsLineage, UtxoIsOfTop
<1>9. PoolIsIndexed'
  <2>1. DOMAIN reorg_pool' = {e[2] : e \in reorg_index'}
    <3>1. ASSUME NEW o \in DOMAIN reorg_pool' PROVE \E e \in reorg_index' : e[2] = o
      <4>1. PICK e \in reorg_index : e[2] = o
        BY <1>6 DEF StoreIsConsistent, PoolIsIndexed
      <4>. QED  BY <1>1, <1>6, <4>1
    <3>2. \A e \in reorg_index' : e[2] \in DOMAIN reorg_pool'
      BY <1>1, <1>4, <1>5, <1>6
    <3>. QED  BY <3>1, <3>2
  <2>2. \A e \in reorg_index' : e[1] \in 1..top' /\ e[2] \in Spends[chain'[e[1]]]
    BY <1>1, <1>4
  <2>. QED  BY <2>1, <2>2 DEF PoolIsIndexed
<1>10. PoolHoldsEntries'
  <2>1. \A h : SpendableAt(h)' = SpendableAt(h)
    BY <1>1 DEF SpendableAt
  <2>2. \A e \in reorg_index' : e \in reorg_index /\ reorg_pool'[e[2]] = reorg_pool[e[2]]
    BY <1>1, <1>4, <1>5, <1>6
  <2>. QED  BY <2>1, <2>2 DEF StoreIsConsistent, PoolHoldsEntries
<1>11. KeptBlocksAreWhole'
  <2>. SUFFICES ASSUME NEW h \in DOMAIN reorg_block'
                PROVE  /\ reorg_block'[h] = chain[h]
                       /\ Spends[chain[h]] \subseteq DOMAIN reorg_pool'
    BY <1>1 DEF KeptBlocksAreWhole
  <2>1. /\ h \in DOMAIN reorg_block \ Lowest(amount)
        /\ reorg_block'[h] = chain[h]
        /\ Spends[chain[h]] \subseteq DOMAIN reorg_pool
        /\ h \in 1..top
    BY <1>6 DEF StoreIsConsistent, KeptBlocksAreWhole, TypeOK
  <2>2. ASSUME NEW o \in Spends[chain[h]] PROVE o \in DOMAIN reorg_pool'
    <3>1. <<h, o>> \in reorg_index
      BY <2>1, IndexedWhereSpent DEF StoreIsConsistent
    <3>2. <<h, o>> \notin gone
      BY <1>3, <2>1, <1>2 DEF Below
    <3>3. <<h, o>>[2] \notin {f[2] : f \in gone}
      BY <1>5, <3>1, <3>2
    <3>. QED  BY <1>6, <2>1, <3>3
  <2>. QED  BY <2>1, <2>2
<1>12. NothingBelowFirst'
  <2>1. \A q \in Pruner : pruning'[q].step = "write" => pruning'[q] = pruning[q]
    BY <1>1 DEF Idle, StoreIsConsistent, TypeOK
  <2>. QED  BY <1>1, <1>6, <2>1 DEF StoreIsConsistent, NothingBelowFirst
<1>. QED  BY <1>7, <1>8, <1>9, <1>10, <1>11, <1>12 DEF StoreIsConsistent

-----------------------------------------------------------------------------
(* Steps that leave the tables alone. *)

LEMMA TablesKept ==
  ASSUME StoreIsConsistent, UNCHANGED tables, TypeOK', NothingBelowFirst'
  PROVE  StoreIsConsistent'
<1>1. ChainIsLineage' /\ UtxoIsOfTop'
  BY DEF tables, StoreIsConsistent, ChainIsLineage, UtxoIsOfTop
<1>2. PoolIsIndexed' /\ KeptBlocksAreWhole'
  BY DEF tables, StoreIsConsistent, PoolIsIndexed, KeptBlocksAreWhole
<1>3. PoolHoldsEntries'
  BY DEF tables, StoreIsConsistent, PoolHoldsEntries, SpendableAt
<1>. QED  BY <1>1, <1>2, <1>3 DEF StoreIsConsistent

LEMMA PruneReadsPreserve ==
  ASSUME StoreIsConsistent, NEW p \in Pruner, PruneReadLast(p) \/ PruneReadFirst(p)
  PROVE  StoreIsConsistent'
<1>1. /\ UNCHANGED tables
      /\ UNCHANGED <<goal, origin, pop_failed, now, prune_posted>>
  BY DEF PruneReadLast, PruneReadFirst
<1>2. CASE PruneReadLast(p)
  <2>1. /\ posted' \in Nat
        /\ pruning' \in [Pruner -> [step : {"idle", "first", "write"}, last : Nat, first : Nat]]
        /\ \A q \in Pruner : pruning'[q].step = "write" => pruning'[q] = pruning[q]
    <3>1. posted' \in Nat
      BY <1>2 DEF PruneReadLast, StoreIsConsistent, TypeOK
    <3>2. \/ pruning' = [pruning EXCEPT ![p] = Idle]
          \/ pruning' = [pruning EXCEPT ![p] = [step |-> "first", last |-> top, first |-> 0]]
      BY <1>2 DEF PruneReadLast, Start, End
    <3>3. top \in Nat /\ pruning \in [Pruner -> [step : {"idle", "first", "write"}, last : Nat, first : Nat]]
      BY DEF StoreIsConsistent, TypeOK
    <3>4. CASE pruning' = [pruning EXCEPT ![p] = Idle]
      BY <3>1, <3>3, <3>4 DEF Idle
    <3>5. CASE pruning' = [pruning EXCEPT ![p] = [step |-> "first", last |-> top, first |-> 0]]
      <4>1. /\ pruning'[p].step = "first"
            /\ \A q \in Pruner \ {p} : pruning'[q] = pruning[q]
        BY <3>3, <3>5
      <4>2. pruning' \in [Pruner -> [step : {"idle", "first", "write"}, last : Nat, first : Nat]]
        BY <3>3, <3>5
      <4>. QED  BY <3>1, <4>1, <4>2
    <3>. QED  BY <3>2, <3>4, <3>5
  <2>2. TypeOK'
    BY <1>1, <2>1 DEF StoreIsConsistent, TypeOK, tables
  <2>3. NothingBelowFirst'
    BY <1>1, <2>1 DEF StoreIsConsistent, NothingBelowFirst, tables
  <2>. QED  BY <1>1, <2>2, <2>3, TablesKept
<1>3. CASE PruneReadFirst(p) /\ ~HasDataToPrune(pruning[p].last)
  <2>1. /\ posted' \in Nat
        /\ pruning' \in [Pruner -> [step : {"idle", "first", "write"}, last : Nat, first : Nat]]
        /\ \A q \in Pruner : pruning'[q].step = "write" => pruning'[q] = pruning[q]
    <3>1. posted' \in Nat
      BY <1>3 DEF PruneReadFirst, StoreIsConsistent, TypeOK
    <3>2. pruning' = [pruning EXCEPT ![p] = Idle]
      BY <1>3 DEF PruneReadFirst, End
    <3>. QED  BY <3>1, <3>2 DEF Idle, StoreIsConsistent, TypeOK
  <2>2. TypeOK'
    BY <1>1, <2>1 DEF StoreIsConsistent, TypeOK, tables
  <2>3. NothingBelowFirst'
    BY <1>1, <2>1 DEF StoreIsConsistent, NothingBelowFirst, tables
  <2>. QED  BY <1>1, <2>2, <2>3, TablesKept
<1>4. CASE PruneReadFirst(p) /\ HasDataToPrune(pruning[p].last)
  <2>1. /\ FirstHeight \in Nat /\ FirstHeight <= top
        /\ \A h \in DOMAIN reorg_block : FirstHeight <= h
    BY <1>4, FirstHeightFacts DEF HasDataToPrune, StoreIsConsistent
  <2>2. /\ posted' \in Nat
        /\ pruning' = [pruning EXCEPT ![p] = [@ EXCEPT !.step = "write", !.first = FirstHeight]]
    BY <1>4 DEF PruneReadFirst, StoreIsConsistent, TypeOK
  <2>3. /\ pruning' \in [Pruner -> [step : {"idle", "first", "write"}, last : Nat, first : Nat]]
        /\ pruning'[p].first = FirstHeight
        /\ \A q \in Pruner \ {p} : pruning'[q] = pruning[q]
    BY <2>1, <2>2 DEF StoreIsConsistent, TypeOK
  <2>4. TypeOK'
    BY <1>1, <2>2, <2>3 DEF StoreIsConsistent, TypeOK, tables
  <2>5. FirstHeight <= top + 1
    BY <2>1 DEF StoreIsConsistent, TypeOK
  <2>6. NothingBelowFirst'
    BY <1>1, <2>1, <2>3, <2>5 DEF StoreIsConsistent, NothingBelowFirst, tables
  <2>. QED  BY <1>1, <2>4, <2>6, TablesKept
<1>. QED  BY <1>2, <1>3, <1>4

LEMMA OthersPreserve ==
  ASSUME StoreIsConsistent,
         (\E b \in Block : Begin(b)) \/ FailPop \/ Finish \/ Tick \/ Crash
  PROVE  StoreIsConsistent'
<1>1. UNCHANGED tables
  BY DEF Begin, FailPop, Finish, Tick, Crash
<1>2. \/ UNCHANGED pruning
      \/ pruning' = [p \in Pruner |-> Idle]
  BY DEF Begin, FailPop, Finish, Tick, Crash, prunes
<1>3. /\ goal' \in Block \cup {NoBlock}
      /\ origin' \in Block /\ pop_failed' \in BOOLEAN /\ posted' \in Nat
      /\ now' \in Nat /\ prune_posted' \in BOOLEAN
  <2>1. CASE \E b \in Block : Begin(b)
    BY <2>1 DEF Begin, prunes, StoreIsConsistent, TypeOK
  <2>2. CASE FailPop
    <3>1. pop_failed' \in BOOLEAN
      BY <2>2 DEF FailPop
    <3>. QED  BY <2>2, <3>1 DEF FailPop, prunes, StoreIsConsistent, TypeOK
  <2>3. CASE Finish
    <3>1. posted' \in Nat
      BY <2>3 DEF Finish, StoreIsConsistent, TypeOK
    <3>. QED  BY <2>3, <3>1 DEF Finish, StoreIsConsistent, TypeOK
  <2>4. CASE Tick
    BY <2>4 DEF Tick, prunes, StoreIsConsistent, TypeOK
  <2>5. CASE Crash
    BY <2>5 DEF Crash, StoreIsConsistent, TypeOK
  <2>. QED  BY <2>1, <2>2, <2>3, <2>4, <2>5
<1>4. pruning' \in [Pruner -> [step : {"idle", "first", "write"}, last : Nat, first : Nat]]
  BY <1>2 DEF Idle, StoreIsConsistent, TypeOK
<1>5. TypeOK'
  BY <1>1, <1>3, <1>4 DEF StoreIsConsistent, TypeOK, tables
<1>6. NothingBelowFirst'
  BY <1>1, <1>2 DEF Idle, StoreIsConsistent, NothingBelowFirst, tables
<1>. QED  BY <1>1, <1>5, <1>6, TablesKept

-----------------------------------------------------------------------------
LEMMA InitStore == Init => StoreIsConsistent
<1>. SUFFICES ASSUME Init PROVE StoreIsConsistent
  OBVIOUS
<1>1. TypeOK
  BY BlockTreeAssumption DEF Init, TypeOK, Idle
<1>2. ChainIsLineage
  BY BlockTreeAssumption DEF Init, ChainIsLineage, Lineage
<1>3. UtxoIsOfTop
  <2>1. Unspent[Genesis] = [o \in DOMAIN Unspent[Genesis] |-> Unspent[Genesis][o]]
    BY SpendingAssumption, BlockTreeAssumption
  <2>. QED  BY <2>1, SpendingAssumption DEF Init, UtxoIsOfTop
<1>4. PoolIsIndexed /\ PoolHoldsEntries
  BY DEF Init, PoolIsIndexed, PoolHoldsEntries
<1>5. KeptBlocksAreWhole /\ NothingBelowFirst
  BY DEF Init, KeptBlocksAreWhole, NothingBelowFirst, Idle
<1>. QED  BY <1>1, <1>2, <1>3, <1>4, <1>5 DEF StoreIsConsistent

LEMMA NextPreserves == StoreIsConsistent /\ [Next]_vars => StoreIsConsistent'
<1>. SUFFICES ASSUME StoreIsConsistent, [Next]_vars PROVE StoreIsConsistent'
  OBVIOUS
<1>1. CASE Pop
  BY <1>1, PopPreserves
<1>2. CASE Push
  BY <1>2, PushPreserves
<1>3. ASSUME NEW p \in Pruner, Prune(p) PROVE StoreIsConsistent'
  BY <1>3, PruneReadsPreserve, PruneWritePreserves DEF Prune
<1>4. CASE (\E b \in Block : Begin(b)) \/ FailPop \/ Finish \/ Tick \/ Crash
  BY <1>4, OthersPreserve
<1>5. CASE UNCHANGED vars
  <2>1. TypeOK' /\ NothingBelowFirst' /\ UNCHANGED tables
    BY <1>5 DEF vars, tables, StoreIsConsistent, TypeOK, NothingBelowFirst
  <2>. QED  BY <2>1, TablesKept
<1>. QED  BY <1>1, <1>2, <1>3, <1>4, <1>5 DEF Next, Organize

\* Everything below follows from this one invariant.
THEOREM StoreConsistency == Spec => []StoreIsConsistent
<1>. QED  BY InitStore, NextPreserves, PTL DEF Spec

\* Every table of the store holds what its readers take it for.
THEOREM StoreTypeCorrectness == Spec => []TypeOK
<1>1. StoreIsConsistent => TypeOK
  BY DEF StoreIsConsistent
<1>. QED  BY <1>1, StoreConsistency, PTL

\* pop_block and push_block leave the unspent outputs of the branch in the
\* headers, wherever a reorganization was cut off.
THEOREM UtxoIsAlwaysOfTop == Spec => []UtxoIsOfTop
<1>1. StoreIsConsistent => UtxoIsOfTop
  BY DEF StoreIsConsistent
<1>. QED  BY <1>1, StoreConsistency, PTL

\* reorg_pool and reorg_index agree, so a prune job finds what it deletes.
THEOREM PoolIsAlwaysIndexed == Spec => []PoolIsIndexed
<1>1. StoreIsConsistent => PoolIsIndexed
  BY DEF StoreIsConsistent
<1>. QED  BY <1>1, StoreConsistency, PTL

\* A prune that works on stale heights deletes too much, but never half a block:
\* what reorg_block still has can be popped.
THEOREM KeptBlocksAreAlwaysWhole == Spec => []KeptBlocksAreWhole
<1>1. StoreIsConsistent => KeptBlocksAreWhole
  BY DEF StoreIsConsistent
<1>. QED  BY <1>1, StoreConsistency, PTL

\* push_block succeeds on every valid block.
THEOREM PushesNeverFail == Spec => []PushNeverFails
<1>1. StoreIsConsistent => PushNeverFails
  BY CanPushNext DEF PushNeverFails
<1>. QED  BY <1>1, StoreConsistency, PTL

-----------------------------------------------------------------------------
(* What the last branch organized left behind is pruned. *)

KeptAreRecent == \A h \in DOMAIN reorg_block : h > top - Limit

\* A prune that is posted or has read no lower a top than this one is enough, and
\* what it leaves stays enough while blocks are popped.
PruneIsDue ==
  prune_posted /\ (goal = NoBlock \/ Popping) =>
    \/ posted > 0
    \/ \E p \in Pruner : pruning[p].step # "idle" /\ top <= pruning[p].last
    \/ KeptAreRecent

\* A prune job that is not the one at work goes on.
LEMMA OthersStayDue ==
  ASSUME NEW p \in Pruner, StoreIsConsistent, PruneIsDue,
         UNCHANGED <<top, chain, goal, prune_posted, posted>>,
         \A q \in Pruner \ {p} : pruning'[q] = pruning[q],
         DOMAIN reorg_block' \subseteq DOMAIN reorg_block,
         pruning[p].step # "idle" /\ top <= pruning[p].last =>
           \/ pruning'[p].step # "idle" /\ top' <= pruning'[p].last
           \/ KeptAreRecent'
  PROVE  PruneIsDue'
<1>1. Popping' <=> Popping
  BY DEF Popping
<1>2. KeptAreRecent => KeptAreRecent'
  BY DEF KeptAreRecent
<1>. QED  BY <1>1, <1>2 DEF PruneIsDue

\* What a prune leaves of the blocks is above the height it has read less Limit.
LEMMA PruneLeavesRecent ==
  ASSUME StoreIsConsistent, NEW p \in Pruner, PruneWrite(p), top <= pruning[p].last
  PROVE  KeptAreRecent'
<1> DEFINE job == pruning[p]
           amount == AmountToDelete(job)
<1>1. /\ job.first \in Nat /\ job.last \in Nat /\ top \in Nat /\ Limit \in Nat
      /\ \A h \in DOMAIN reorg_block : job.first <= h
  <2>1. job \in [step : {"idle", "first", "write"}, last : Nat, first : Nat]
    BY DEF StoreIsConsistent, TypeOK
  <2>2. \A h \in DOMAIN reorg_block : job.first <= h
    BY DEF PruneWrite, StoreIsConsistent, NothingBelowFirst
  <2>. QED  BY <2>1, <2>2, StoreAssumption DEF StoreIsConsistent, TypeOK
<1>2. amount \in Int /\ job.first + amount = job.last + 1 - Limit
  BY <1>1 DEF AmountToDelete
<1>. HIDE DEF amount
<1>3. DOMAIN reorg_block' = DOMAIN reorg_block \ Lowest(amount) /\ top' = top
  BY DEF PruneWrite, Without, amount
<1>4. \A h \in DOMAIN reorg_block \ Lowest(amount) : job.first + amount <= h
  BY <1>1, <1>2, LowestFacts DEF StoreIsConsistent
<1>5. DOMAIN reorg_block \subseteq Nat
  BY DEF StoreIsConsistent, TypeOK
<1>. QED  BY <1>1, <1>2, <1>3, <1>4, <1>5 DEF KeptAreRecent

LEMMA PruneKeepsDue ==
  ASSUME StoreIsConsistent, PruneIsDue, NEW p \in Pruner, Prune(p)
  PROVE  PruneIsDue'
<1>1. /\ pruning \in [Pruner -> [step : {"idle", "first", "write"}, last : Nat, first : Nat]]
      /\ top \in Nat /\ Limit \in Nat
      /\ DOMAIN reorg_block \subseteq 1..top
  BY StoreAssumption DEF StoreIsConsistent, TypeOK
<1>2. CASE PruneReadLast(p)
  <2>1. CASE top < Limit
    <3>1. UNCHANGED <<top, reorg_block>>
      BY <1>2 DEF PruneReadLast, tables
    <3>2. \A h \in DOMAIN reorg_block : h > top - Limit
      BY <1>1, <2>1
    <3>3. KeptAreRecent'
      BY <3>1, <3>2 DEF KeptAreRecent
    <3>. QED  BY <3>3 DEF PruneIsDue
  <2>2. CASE ~(top < Limit)
    <3>1. pruning'[p].step = "first" /\ pruning'[p].last = top /\ top' = top
      BY <1>1, <1>2, <2>2 DEF PruneReadLast, Start, tables
    <3>. QED  BY <1>1, <3>1 DEF PruneIsDue
  <2>. QED  BY <2>1, <2>2
<1>3. CASE PruneReadFirst(p) /\ HasDataToPrune(pruning[p].last)
  <2>1. /\ pruning'[p].step = "write" /\ pruning'[p].last = pruning[p].last
        /\ \A q \in Pruner \ {p} : pruning'[q] = pruning[q]
    <3>1. pruning' = [pruning EXCEPT ![p] = [@ EXCEPT !.step = "write", !.first = FirstHeight]]
      BY <1>3 DEF PruneReadFirst
    <3>2. pruning[p] \in [step : {"idle", "first", "write"}, last : Nat, first : Nat]
      BY <1>1
    <3>3. pruning'[p] = [pruning[p] EXCEPT !.step = "write", !.first = FirstHeight]
      BY <1>1, <3>1
    <3>. QED  BY <1>1, <3>1, <3>2, <3>3
  <2>. QED  BY <1>3, <2>1, OthersStayDue DEF PruneReadFirst, tables
<1>4. CASE PruneReadFirst(p) /\ ~HasDataToPrune(pruning[p].last)
  <2>1. /\ \A q \in Pruner \ {p} : pruning'[q] = pruning[q]
        /\ UNCHANGED <<top, chain, goal, prune_posted, posted, reorg_block>>
    BY <1>1, <1>4 DEF PruneReadFirst, End, tables
  <2>2. ASSUME top <= pruning[p].last, NEW h \in DOMAIN reorg_block PROVE h > top - Limit
    <3>1. /\ FirstHeight \in Nat /\ FirstHeight <= top /\ FirstHeight <= h
      BY <2>2, FirstHeightFacts DEF StoreIsConsistent
    <3>2. pruning[p].last \in Nat /\ h \in Nat
      BY <1>1
    <3>3. ~(pruning[p].last - FirstHeight + 1 > Limit)
      BY <1>1, <1>4, <2>2, <3>1, <3>2 DEF HasDataToPrune
    <3>. QED  BY <1>1, <2>2, <3>1, <3>2, <3>3
  <2>3. top <= pruning[p].last => KeptAreRecent'
    BY <2>1, <2>2 DEF KeptAreRecent
  <2>. QED  BY <2>1, <2>3, OthersStayDue
<1>5. CASE PruneWrite(p)
  <2>1. /\ \A q \in Pruner \ {p} : pruning'[q] = pruning[q]
        /\ UNCHANGED <<top, chain, goal, prune_posted, posted>>
        /\ DOMAIN reorg_block' \subseteq DOMAIN reorg_block
    BY <1>1, <1>5 DEF PruneWrite, End, Without
  <2>. QED  BY <1>5, <2>1, PruneLeavesRecent, OthersStayDue
<1>. QED  BY <1>2, <1>3, <1>4, <1>5 DEF Prune

\* Popping asks for less, pushing for nothing until the branch is finished.
LEMMA OrganizeKeepsDue ==
  ASSUME StoreIsConsistent, PruneIsDue, Organize PROVE PruneIsDue'
<1>1. /\ top \in Nat /\ Limit \in Nat /\ posted \in Nat
      /\ pruning \in [Pruner -> [step : {"idle", "first", "write"}, last : Nat, first : Nat]]
      /\ DOMAIN reorg_block \subseteq 1..top
  BY StoreAssumption DEF StoreIsConsistent, TypeOK
<1>2. ASSUME NEW b \in Block, Begin(b) PROVE PruneIsDue'
  BY <1>2 DEF Begin, PruneIsDue, KeptAreRecent, tables, prunes
<1>3. CASE Pop
  <2>1. /\ Popping /\ top' = top - 1 /\ DOMAIN reorg_block' \subseteq DOMAIN reorg_block
        /\ UNCHANGED <<prune_posted, posted, pruning>>
    BY <1>3 DEF Pop, BlocksAfterPop, Without, prunes
  <2>2. KeptAreRecent => KeptAreRecent'
    BY <1>1, <2>1 DEF KeptAreRecent
  <2>3. \A p \in Pruner : top <= pruning[p].last => top' <= pruning'[p].last
    BY <1>1, <2>1
  <2>. QED  BY <2>1, <2>2, <2>3 DEF PruneIsDue
<1>4. CASE FailPop
  BY <1>4 DEF FailPop, PruneIsDue, KeptAreRecent, tables, prunes
<1>5. CASE Push
  <2>1. goal \in Block /\ goal' = goal /\ NoBlock \notin Block
    BY <1>5, StoreAssumption DEF Push, Pushing, StoreIsConsistent, TypeOK
  <2>2. chain'[top'] = NextBlock /\ NextBlock \in Lineage(goal)
    <3>1. chain[top] \in Ancestors[goal] /\ Height[chain[top]] = top
      <4>1. top \in 0..top
        BY <1>1
      <4>. QED  BY <4>1, <1>5 DEF Push, Pushing, Lineage, StoreIsConsistent, ChainIsLineage
    <3>2. top < Height[goal] /\ Height[goal] \in Nat
      BY <2>1, <3>1, AncestorsAreBelow, BlockTreeAssumption
    <3>3. \E a \in Lineage(goal) : Height[a] = top + 1
      BY <1>1, <2>1, <3>2, LineageIsComplete
    <3>. QED  BY <1>5, <3>3, PushedChain DEF NextBlock
  <2>. QED  BY <2>1, <2>2 DEF PruneIsDue, Popping
<1>6. CASE Finish
  <2>1. prune_posted' = ~IsStale /\ posted' = IF IsStale THEN posted ELSE posted + 1
    BY <1>6 DEF Finish
  <2>2. CASE IsStale
    BY <2>1, <2>2 DEF PruneIsDue
  <2>3. CASE ~IsStale
    <3>1. posted' > 0
      BY <1>1, <2>1, <2>3
    <3>. QED  BY <3>1 DEF PruneIsDue
  <2>. QED  BY <2>2, <2>3
<1>. QED  BY <1>2, <1>3, <1>4, <1>5, <1>6 DEF Organize

\* A branch that is organized while the chain is not stale posts a prune, and with it
\* every step keeps: it is due, or nothing is left for it (block_organizer.cpp:448).
THEOREM PruneStaysDue == Spec => []PruneIsDue
<1>1. Init => PruneIsDue
  BY DEF Init, PruneIsDue, KeptAreRecent
<1>2. StoreIsConsistent /\ PruneIsDue /\ [Next]_vars => PruneIsDue'
  <2>. SUFFICES ASSUME StoreIsConsistent, PruneIsDue, [Next]_vars PROVE PruneIsDue'
    OBVIOUS
  <2>1. CASE Organize
    BY <2>1, OrganizeKeepsDue
  <2>2. ASSUME NEW p \in Pruner, Prune(p) PROVE PruneIsDue'
    BY <2>2, PruneKeepsDue
  <2>3. CASE Tick
    BY <2>3 DEF Tick, PruneIsDue, KeptAreRecent, Popping, tables, prunes
  <2>4. CASE Crash
    BY <2>4 DEF Crash, PruneIsDue
  <2>5. CASE UNCHANGED vars
    BY <2>5 DEF vars, PruneIsDue, KeptAreRecent, Popping
  <2>. QED  BY <2>1, <2>2, <2>3, <2>4, <2>5 DEF Next
<1>. QED  BY <1>1, <1>2, StoreConsistency, PTL DEF Spec

\* However pruning on stale heights, pops and further branches interleave, no more
\* than Limit heights stay once the prune that was posted has run (prune_reorg_async).
THEOREM QuietStoreIsAlwaysPruned == Spec => []QuietStoreIsPruned
<1>1. StoreIsConsistent /\ PruneIsDue => QuietStoreIsPruned
  BY DEF PruneIsDue, KeptAreRecent, QuietStoreIsPruned, Idle
<1>. QED  BY <1>1, StoreConsistency, PruneStaysDue, PTL

-----------------------------------------------------------------------------
(* Previous outputs of a branch. *)

\* The step of the next two lemmas: an output a block does not spend is unspent
\* after it when it was before, with the same entry, or when the block creates it.
LEMMA UnspentByStep ==
  ASSUME NEW b \in Block \ {Genesis}, NEW o, o \notin Spends[b]
  PROVE  /\ o \in DOMAIN Unspent[b] <=> o \in DOMAIN Unspent[Parent[b]] \cup Creates[b]
         /\ o \in DOMAIN Unspent[Parent[b]] => Unspent[b][o] = Unspent[Parent[b]][o]
         /\ o \in Creates[b] => /\ o \notin DOMAIN Unspent[Parent[b]]
                                /\ Unspent[b][o] = Height[b]
<1> DEFINE before == Unspent[Parent[b]]
           between == With(before, Creates[b], Height[b])
<1>1. /\ Unspent[b] = Without(between, Spends[b])
      /\ Creates[b] \cap DOMAIN before = {}
  BY SpendingFacts DEF UnspentAfter
<1>2. /\ DOMAIN between = DOMAIN before \cup Creates[b]
      /\ \A x \in DOMAIN before : between[x] = before[x]
      /\ \A x \in Creates[b] \ DOMAIN before : between[x] = Height[b]
  BY DEF With
<1>3. /\ DOMAIN Without(between, Spends[b]) = DOMAIN between \ Spends[b]
      /\ \A x \in DOMAIN between \ Spends[b] : Without(between, Spends[b])[x] = between[x]
  BY WithoutFacts
<1>. HIDE DEF between
<1>. QED  BY <1>1, <1>2, <1>3

\* The blocks above a fork, one block higher.
LEMMA AboveFork ==
  ASSUME NEW b \in Block \ {Genesis}, NEW f \in Ancestors[b]
  PROVE  /\ f \in Lineage(Parent[b])
         /\ Lineage(b) \ Lineage(f) = (Lineage(Parent[b]) \ Lineage(f)) \cup {b}
<1>1. /\ Ancestors[b] = Lineage(Parent[b])
      /\ b \in Block /\ Height[b] \in Nat
  BY BlockTreeAssumption DEF Lineage
<1>2. /\ f \in Block /\ Height[f] < Height[b] /\ Height[f] \in Nat
      /\ \A a \in Ancestors[f] : Height[a] < Height[f] /\ Height[a] \in Nat
  BY AncestorsAreBelow, BlockTreeAssumption
<1>3. b \notin Lineage(f)
  BY <1>1, <1>2 DEF Lineage
<1>. QED  BY <1>1, <1>3 DEF Lineage

\* What nobody spends above a fork: it was there and is as it was, or exactly
\* one block above the fork created it.
LEMMA UnspentAlong ==
  ASSUME NEW f \in Block, NEW o
  PROVE  \A b \in Block :
           f \in Lineage(b) /\ (\A a \in Lineage(b) \ Lineage(f) : o \notin Spends[a]) =>
             /\ o \in DOMAIN Unspent[f] =>
                  o \in DOMAIN Unspent[b] /\ Unspent[b][o] = Unspent[f][o]
             /\ \A a \in Lineage(b) \ Lineage(f) : o \in Creates[a] =>
                  /\ o \notin DOMAIN Unspent[f]
                  /\ o \in DOMAIN Unspent[b]
                  /\ Unspent[b][o] = Height[a]
             /\ o \in DOMAIN Unspent[b] =>
                  \/ o \in DOMAIN Unspent[f]
                  \/ \E a \in Lineage(b) \ Lineage(f) : o \in Creates[a]
<1> DEFINE Above(b) == Lineage(b) \ Lineage(f)
           Untouched(b) == f \in Lineage(b) /\ \A a \in Above(b) : o \notin Spends[a]
           Kept(b) == o \in DOMAIN Unspent[f] =>
                        o \in DOMAIN Unspent[b] /\ Unspent[b][o] = Unspent[f][o]
           Made(b) == \A a \in Above(b) : o \in Creates[a] =>
                        /\ o \notin DOMAIN Unspent[f]
                        /\ o \in DOMAIN Unspent[b]
                        /\ Unspent[b][o] = Height[a]
           Explained(b) == o \in DOMAIN Unspent[b] =>
                             \/ o \in DOMAIN Unspent[f]
                             \/ \E a \in Above(b) : o \in Creates[a]
           Good(b) == Untouched(b) => Kept(b) /\ Made(b) /\ Explained(b)
           S == {b \in Block : Good(b)}
<1>1. ASSUME NEW b \in Block, b = f PROVE Good(b)
  BY <1>1
<1>2. Genesis \in S
  <2>1. Genesis \in Block /\ Lineage(Genesis) = {Genesis}
    BY BlockTreeAssumption DEF Lineage
  <2>2. Untouched(Genesis) => Genesis = f
    BY <2>1
  <2>. QED  BY <1>1, <2>1, <2>2
<1>3. ASSUME NEW b \in Block \ {Genesis}, Parent[b] \in S PROVE b \in S
  <2>1. CASE b = f
    BY <1>1, <2>1
  <2>2. CASE b # f
    <3>1. SUFFICES ASSUME Untouched(b) PROVE Kept(b) /\ Made(b) /\ Explained(b)
      OBVIOUS
    <3>2. f \in Ancestors[b]
      BY <2>2, <3>1 DEF Lineage
    <3>3. /\ f \in Lineage(Parent[b])
          /\ Above(b) = Above(Parent[b]) \cup {b}
      BY <3>2, AboveFork
    <3>4. Kept(Parent[b]) /\ Made(Parent[b]) /\ Explained(Parent[b])
      <4>1. Untouched(Parent[b])
        BY <3>1, <3>3
      <4>2. Good(Parent[b])
        BY <1>3
      <4>. QED  BY <4>1, <4>2
    <3>5. /\ o \in DOMAIN Unspent[b] <=> o \in DOMAIN Unspent[Parent[b]] \cup Creates[b]
          /\ o \in DOMAIN Unspent[Parent[b]] => Unspent[b][o] = Unspent[Parent[b]][o]
          /\ o \in Creates[b] => /\ o \notin DOMAIN Unspent[Parent[b]]
                                 /\ Unspent[b][o] = Height[b]
      <4>1. o \notin Spends[b]
        BY <3>1, <3>3
      <4>. QED  BY <4>1, UnspentByStep
    <3>6. Kept(b)
      BY <3>4, <3>5
    <3>7. Made(b)
      <4>1. SUFFICES ASSUME NEW a \in Above(b), o \in Creates[a]
                     PROVE  /\ o \notin DOMAIN Unspent[f]
                            /\ o \in DOMAIN Unspent[b]
                            /\ Unspent[b][o] = Height[a]
        OBVIOUS
      <4>2. CASE a = b
        BY <4>1, <4>2, <3>4, <3>5
      <4>3. CASE a \in Above(Parent[b])
        BY <4>1, <4>3, <3>4, <3>5
      <4>. QED  BY <3>3, <4>2, <4>3
    <3>8. Explained(b)
      BY <3>3, <3>4, <3>5
    <3>. QED  BY <3>6, <3>7, <3>8
  <2>. QED  BY <2>1, <2>2
<1>4. \A b \in Block : b \in S
  <2>1. S \subseteq Block
    OBVIOUS
  <2>. HIDE DEF S
  <2>. QED  BY <1>2, <1>3, <2>1, BlockInduction
<1>. QED  BY <1>4

\* An output with a height up to the fork was there at the fork, whatever was
\* spent and created again above it: this is why get_utxo compares heights.
LEMMA LowOutputsAreOld ==
  ASSUME NEW f \in Block, NEW o
  PROVE  \A b \in Block :
           /\ f \in Lineage(b)
           /\ o \in DOMAIN Unspent[b]
           /\ Unspent[b][o] <= Height[f]
           => o \in DOMAIN Unspent[f] /\ Unspent[f][o] = Unspent[b][o]
<1> DEFINE Good(b) == /\ f \in Lineage(b)
                      /\ o \in DOMAIN Unspent[b]
                      /\ Unspent[b][o] <= Height[f]
                      => o \in DOMAIN Unspent[f] /\ Unspent[f][o] = Unspent[b][o]
           S == {b \in Block : Good(b)}
<1>1. Genesis \in S
  BY SpendingAssumption, BlockTreeAssumption
<1>2. ASSUME NEW b \in Block \ {Genesis}, Parent[b] \in S PROVE b \in S
  <2>1. SUFFICES ASSUME f \in Lineage(b), f # b,
                        o \in DOMAIN Unspent[b], Unspent[b][o] <= Height[f]
                 PROVE  o \in DOMAIN Unspent[f] /\ Unspent[f][o] = Unspent[b][o]
    OBVIOUS
  <2>2. f \in Ancestors[b] /\ f \in Lineage(Parent[b])
    BY <2>1, AboveFork DEF Lineage
  <2>3. Height[f] < Height[b] /\ Height[f] \in Nat /\ Height[b] \in Nat
    BY <2>2, AncestorsAreBelow, BlockTreeAssumption
  <2>4. o \notin Spends[b]
    <3> DEFINE between == With(Unspent[Parent[b]], Creates[b], Height[b])
    <3>1. Unspent[b] = Without(between, Spends[b])
      BY SpendingFacts DEF UnspentAfter
    <3>. HIDE DEF between
    <3>2. DOMAIN Without(between, Spends[b]) = DOMAIN between \ Spends[b]
      BY WithoutFacts
    <3>. QED  BY <2>1, <3>1, <3>2
  <2>5. o \notin Creates[b]
    BY <2>1, <2>3, <2>4, UnspentByStep
  <2>6. o \in DOMAIN Unspent[Parent[b]] /\ Unspent[b][o] = Unspent[Parent[b]][o]
    BY <2>1, <2>4, <2>5, UnspentByStep
  <2>7. Good(Parent[b])
    BY <1>2
  <2>. QED  BY <2>1, <2>2, <2>6, <2>7
<1>3. \A b \in Block : b \in S
  <2>1. S \subseteq Block
    OBVIOUS
  <2>. HIDE DEF S
  <2>. QED  BY <1>1, <1>2, <2>1, BlockInduction
<1>. QED  BY <1>3

\* No entry is higher than its branch.
LEMMA EntriesAreBelow ==
  \A b \in Block : \A o \in DOMAIN Unspent[b] : Unspent[b][o] \in 0..Height[b]
<1> DEFINE S == {b \in Block : \A o \in DOMAIN Unspent[b] : Unspent[b][o] \in 0..Height[b]}
<1>1. Genesis \in S
  BY SpendingAssumption, BlockTreeAssumption
<1>2. ASSUME NEW b \in Block \ {Genesis}, Parent[b] \in S PROVE b \in S
  <2>1. SUFFICES ASSUME NEW o \in DOMAIN Unspent[b] PROVE Unspent[b][o] \in 0..Height[b]
    OBVIOUS
  <2>2. Height[b] \in Nat /\ Height[Parent[b]] \in Nat /\ Height[b] = Height[Parent[b]] + 1
    BY BlockTreeAssumption
  <2>3. o \notin Spends[b]
    <3> DEFINE between == With(Unspent[Parent[b]], Creates[b], Height[b])
    <3>1. Unspent[b] = Without(between, Spends[b])
      BY SpendingFacts DEF UnspentAfter
    <3>. HIDE DEF between
    <3>2. DOMAIN Without(between, Spends[b]) = DOMAIN between \ Spends[b]
      BY WithoutFacts
    <3>. QED  BY <2>1, <3>1, <3>2
  <2>4. CASE o \in Creates[b]
    BY <2>2, <2>3, <2>4, UnspentByStep
  <2>5. CASE o \notin Creates[b]
    <3>1. o \in DOMAIN Unspent[Parent[b]] /\ Unspent[b][o] = Unspent[Parent[b]][o]
      BY <2>1, <2>3, <2>5, UnspentByStep
    <3>. QED  BY <1>2, <2>2, <3>1
  <2>. QED  BY <2>4, <2>5
<1>3. \A b \in Block : b \in S
  <2>1. S \subseteq Block
    OBVIOUS
  <2>. HIDE DEF S
  <2>. QED  BY <1>1, <1>2, <2>1, BlockInduction
<1>. QED  BY <1>3

\* Where a branch leaves the chain, and what of it is above.
LEMMA ForkFacts ==
  ASSUME TypeOK, ChainIsLineage,
         NEW b \in Block, b \notin {chain[h] : h \in 0..top}
  PROVE  /\ b # Genesis
         /\ ForkHeight(b) \in 0..top
         /\ chain[ForkHeight(b)] \in Block /\ chain[ForkHeight(b)] \in Ancestors[b]
         /\ Height[chain[ForkHeight(b)]] = ForkHeight(b)
         /\ Branch(b) = Lineage(b) \ Lineage(chain[ForkHeight(b)])
<1>1. /\ top \in Nat /\ chain[0] = Genesis
      /\ \A h \in 0..top : chain[h] \in Block /\ Height[chain[h]] = h
      /\ \A i, j \in 0..top : i <= j => chain[i] \in Lineage(chain[j])
  BY DEF TypeOK, ChainIsLineage
<1>2. chain[0] \in Lineage(b)
  <2>1. PICK a \in Lineage(b) : Height[a] = 0
    BY LineageIsComplete, BlockTreeAssumption
  <2>2. a \in Block
    BY AncestorsAreBelow DEF Lineage
  <2>3. a = Genesis
    BY <2>1, <2>2, BlockTreeAssumption
  <2>. QED  BY <1>1, <2>1, <2>3
<1> DEFINE shared == {h \in 0..top : chain[h] \in Lineage(b)}
<1>3. \E h \in 0..top : h \in shared /\ \A k \in shared : k <= h
  <2> DEFINE depths == {d \in 0..top : top - d \in shared}
  <2>1. depths \in SUBSET Nat
    OBVIOUS
  <2>2. top \in depths
    BY <1>1, <1>2
  <2>3. PICK d \in depths : \A k \in depths : d <= k
    BY <2>1, <2>2, LeastNumber
  <2>4. ASSUME NEW k \in shared PROVE k <= top - d
    <3>1. top - k \in depths /\ k \in 0..top /\ d \in 0..top
      BY <1>1
    <3>2. d <= top - k
      BY <2>3, <3>1
    <3>3. top \in Nat /\ k \in 0..top /\ d \in 0..top
      BY <1>1, <3>1
    <3>. HIDE DEF depths, shared
    <3>. QED  BY <3>2, <3>3
  <2>. QED  BY <1>1, <2>3, <2>4
<1> DEFINE fork == ForkHeight(b)
<1>4. /\ fork \in 0..top /\ chain[fork] \in Lineage(b)
      /\ \A k \in 0..top : chain[k] \in Lineage(b) => k <= fork
  BY <1>3 DEF ForkHeight
<1>. HIDE DEF fork
<1>5. chain[fork] \in Ancestors[b]
  BY <1>4 DEF Lineage
<1>6. ASSUME NEW a \in Lineage(b)
      PROVE  (\A h \in 0..top : chain[h] # a) <=> a \notin Lineage(chain[fork])
  <2>1. ASSUME NEW h \in 0..top, chain[h] = a PROVE a \in Lineage(chain[fork])
    BY <1>1, <1>4, <2>1
  <2>2. ASSUME a \in Lineage(chain[fork]) PROVE \E h \in 0..top : chain[h] = a
    <3>1. a \in Block /\ Height[a] \in 0..fork
      BY <1>1, <1>4, <2>2, AncestorsAreBelow, BlockTreeAssumption DEF Lineage
    <3>2. Height[a] \in 0..top /\ Height[a] <= fork
      <4>1. top \in Nat /\ fork \in 0..top /\ Height[a] \in 0..fork
        BY <1>1, <1>4, <3>1
      <4>. QED  BY <4>1
    <3>3. chain[Height[a]] \in Lineage(chain[fork]) /\ Height[chain[Height[a]]] = Height[a]
      BY <1>1, <1>4, <3>2
    <3>4. chain[Height[a]] = a
      BY <1>1, <1>4, <2>2, <3>3, OnePerHeight
    <3>. QED  BY <3>2, <3>4
  <2>. QED  BY <2>1, <2>2
<1>7. Branch(b) = Lineage(b) \ Lineage(chain[fork])
  BY <1>6 DEF Branch
<1>8. b # Genesis
  BY <1>1
<1>. QED  BY <1>1, <1>4, <1>5, <1>7, <1>8 DEF fork

\* What was unspent at a fork, in the tables of the chain that goes on above it:
\* as it was, or in the pool, indexed where the chain spends it.
LEMMA ForkInTables ==
  ASSUME StoreIsConsistent, NEW fork \in 0..top,
         \A h \in fork + 1 .. top : h \in DOMAIN reorg_block,
         NEW o \in DOMAIN Unspent[chain[fork]]
  PROVE  \/ /\ o \in DOMAIN utxo /\ utxo[o] <= fork
            /\ utxo[o] = Unspent[chain[fork]][o]
         \/ /\ \E entry \in reorg_index : entry[1] > fork /\ entry[2] = o
            /\ reorg_pool[o] = Unspent[chain[fork]][o]
<1> DEFINE f == chain[fork]
<1>1. /\ top \in Nat /\ fork \in Nat /\ fork <= top
      /\ \A h \in 0..top : chain[h] \in Block /\ Height[chain[h]] = h
      /\ \A i, j \in 0..top : i <= j => chain[i] \in Lineage(chain[j])
  BY DEF StoreIsConsistent, TypeOK, ChainIsLineage
<1>2. Unspent[f][o] \in 0..fork
  BY <1>1, EntriesAreBelow
\* A block between the fork and a height of the chain is at a height between.
<1>3. ASSUME NEW n \in fork..top, NEW a \in Lineage(chain[n]) \ Lineage(f)
      PROVE  \E h \in fork + 1 .. n : chain[h] = a
  <2>1. n \in 0..top /\ n \in Nat /\ fork <= n
    BY <1>1
  <2>2. a \in Block /\ Height[a] \in 0..n
    BY <1>1, <1>3, <2>1, AncestorsAreBelow, BlockTreeAssumption DEF Lineage
  <2>3. Height[a] \in 0..top
    BY <1>1, <2>1, <2>2
  <2>4. chain[Height[a]] \in Lineage(chain[n]) /\ Height[chain[Height[a]]] = Height[a]
    BY <1>1, <2>1, <2>2, <2>3
  <2>5. chain[Height[a]] = a
    BY <1>1, <1>3, <2>1, <2>4, OnePerHeight
  <2>6. ~(Height[a] <= fork)
    BY <1>1, <1>3, <2>3, <2>5
  <2>7. Height[a] \in fork + 1 .. n
    BY <1>1, <2>1, <2>2, <2>6
  <2>. QED  BY <2>5, <2>7
<1>4. CASE \A h \in fork + 1 .. top : o \notin Spends[chain[h]]
  <2>1. f \in Block /\ chain[top] \in Block /\ f \in Lineage(chain[top])
    BY <1>1
  <2>2. \A a \in Lineage(chain[top]) \ Lineage(f) : o \notin Spends[a]
    BY <1>1, <1>3, <1>4
  <2>3. o \in DOMAIN Unspent[chain[top]] /\ Unspent[chain[top]][o] = Unspent[f][o]
    BY <2>1, <2>2, UnspentAlong
  <2>4. utxo = Unspent[chain[top]]
    BY DEF StoreIsConsistent, UtxoIsOfTop
  <2>. QED  BY <1>1, <1>2, <2>3, <2>4
<1>5. CASE \E h \in fork + 1 .. top : o \in Spends[chain[h]]
  <2>1. PICK h \in fork + 1 .. top : o \in Spends[chain[h]]
    BY <1>5
  <2>2. h \in 1..top /\ h - 1 \in fork..top /\ h - 1 \in 0..top /\ h > fork
    BY <1>1
  <2>3. /\ chain[h] \in Block \ {Genesis} /\ Parent[chain[h]] = chain[h - 1]
        /\ \A k \in 0..h - 1 : chain[k] \in Ancestors[chain[h]]
    BY <2>2, ChainFacts DEF StoreIsConsistent
  <2>4. o \in DOMAIN reorg_pool /\ <<h, o>> \in reorg_index
    <3>1. o \in DOMAIN reorg_pool
      BY <2>1 DEF StoreIsConsistent, KeptBlocksAreWhole
    <3>. QED  BY <2>1, <2>2, <3>1, IndexedWhereSpent DEF StoreIsConsistent
  <2>5. reorg_pool[o] = SpendableAt(h)[o]
    BY <2>4 DEF StoreIsConsistent, PoolHoldsEntries
  <2>6. o \in DOMAIN Unspent[chain[h - 1]] /\ Unspent[chain[h - 1]][o] = Unspent[f][o]
    <3>1. ASSUME NEW a \in Lineage(chain[h - 1]) \ Lineage(f) PROVE o \notin Spends[a]
      <4>1. PICK k \in fork + 1 .. h - 1 : chain[k] = a
        BY <1>3, <2>2, <3>1
      <4>2. k \in 0..h - 1
        BY <1>1, <2>2
      <4>3. Spends[a] \cap Spends[chain[h]] = {}
        BY <2>3, <4>1, <4>2, SpendingFacts
      <4>. QED  BY <2>1, <4>3
    <3>2. f \in Block /\ chain[h - 1] \in Block /\ f \in Lineage(chain[h - 1])
      BY <1>1, <2>2
    <3>. QED  BY <3>1, <3>2, UnspentAlong
  <2>7. SpendableAt(h)[o] = Unspent[chain[h - 1]][o]
    <3>1. SpendableAt(h) = With(Unspent[chain[h - 1]], Creates[chain[h]], h)
      BY <2>3 DEF SpendableAt
    <3>. QED  BY <2>6, <3>1 DEF With
  <2>8. \E entry \in reorg_index : entry[1] > fork /\ entry[2] = o
    BY <2>2, <2>4
  <2>9. reorg_pool[o] = Unspent[f][o]
    BY <2>5, <2>6, <2>7
  <2>. QED  BY <2>8, <2>9
<1>. QED  BY <1>4, <1>5

\* Below the fork, what the store has is what the fork had.
LEMMA StoreHasOfFork ==
  ASSUME StoreIsConsistent, NEW fork \in 0..top,
         NEW o \in DOMAIN utxo, utxo[o] <= fork
  PROVE  o \in DOMAIN Unspent[chain[fork]] /\ utxo[o] = Unspent[chain[fork]][o]
<1>1. /\ chain[fork] \in Block /\ chain[top] \in Block
      /\ chain[fork] \in Lineage(chain[top]) /\ Height[chain[fork]] = fork
  BY DEF StoreIsConsistent, TypeOK, ChainIsLineage
<1>2. utxo = Unspent[chain[top]]
  BY DEF StoreIsConsistent, UtxoIsOfTop
<1>. QED  BY <1>1, <1>2, LowOutputsAreOld

\* An output that a block of a branch spends was unspent at the fork and not
\* created since, or exactly one block of the branch creates it; and no other
\* block of the branch spends it.
LEMMA SpentInBranch ==
  ASSUME NEW b \in Block \ {Genesis}, NEW f \in Ancestors[b], NEW o \in Spends[b]
  PROVE  LET between == With(Unspent[Parent[b]], Creates[b], Height[b])
             creators == {a \in Lineage(b) \ Lineage(f) : o \in Creates[a]}
         IN  /\ \A a \in Ancestors[b] : o \notin Spends[a]
             /\ \/ /\ o \in DOMAIN Unspent[f] /\ creators = {}
                   /\ between[o] = Unspent[f][o]
                \/ /\ o \notin DOMAIN Unspent[f] /\ creators # {}
                   /\ \A a \in creators : between[o] = Height[a]
<1> DEFINE before == Unspent[Parent[b]]
           between == With(before, Creates[b], Height[b])
           Above(c) == Lineage(c) \ Lineage(f)
<1>1. /\ Parent[b] \in Block /\ Ancestors[b] = Lineage(Parent[b])
      /\ Creates[b] \cap DOMAIN before = {}
      /\ o \in DOMAIN before \cup Creates[b]
      /\ \A a \in Ancestors[b] : o \notin Spends[a]
  BY SpendingFacts, BlockTreeAssumption DEF Lineage
<1>2. /\ \A x \in DOMAIN before : between[x] = before[x]
      /\ \A x \in Creates[b] \ DOMAIN before : between[x] = Height[b]
  BY DEF With
<1>3. f \in Block /\ f \in Lineage(Parent[b]) /\ Above(b) = Above(Parent[b]) \cup {b}
  BY AboveFork, AncestorsAreBelow
<1>4. /\ o \in DOMAIN Unspent[f] => o \in DOMAIN before /\ before[o] = Unspent[f][o]
      /\ \A a \in Above(Parent[b]) : o \in Creates[a] =>
           o \notin DOMAIN Unspent[f] /\ o \in DOMAIN before /\ before[o] = Height[a]
      /\ o \in DOMAIN before =>
           o \in DOMAIN Unspent[f] \/ \E a \in Above(Parent[b]) : o \in Creates[a]
  <2>1. \A a \in Above(Parent[b]) : o \notin Spends[a]
    BY <1>1
  <2>. QED  BY <1>1, <1>3, <2>1, UnspentAlong
<1>. HIDE DEF between, before, Above
<1>5. CASE o \in DOMAIN Unspent[f]
  <2>1. o \in DOMAIN before /\ between[o] = Unspent[f][o]
    BY <1>2, <1>4, <1>5
  <2>2. \A a \in Above(b) : o \notin Creates[a]
    BY <1>1, <1>3, <1>4, <1>5, <2>1
  <2>. QED  BY <1>1, <1>5, <2>1, <2>2 DEF between, before, Above
<1>6. CASE o \notin DOMAIN Unspent[f]
  <2>1. \E a \in Above(b) : o \in Creates[a]
    BY <1>1, <1>3, <1>4, <1>6
  <2>2. \A a \in Above(b) : o \in Creates[a] => between[o] = Height[a]
    BY <1>1, <1>2, <1>3, <1>4
  <2>. QED  BY <1>1, <1>6, <2>1, <2>2 DEF between, before, Above
<1>. QED  BY <1>5, <1>6

\* The search finds what the chain or the branch has, with the right height.
LEMMA PrevoutsFound == StoreIsConsistent => PrevoutsAreRight
<1>1. SUFFICES ASSUME StoreIsConsistent, NEW b \in Block, CanFork(b), NEW o \in Spends[b]
               PROVE  /\ IsFound(b, o)
                      /\ ~IsSpent(b, o)
                      /\ PrevoutHeight(b, o)
                           = With(Unspent[Parent[b]], Creates[b], Height[b])[o]
  BY DEF PrevoutsAreRight
<1> DEFINE fork == ForkHeight(b)
           f == chain[fork]
           between == With(Unspent[Parent[b]], Creates[b], Height[b])
<1>2. /\ b # Genesis
      /\ fork \in 0..top
      /\ f \in Ancestors[b]
      /\ Branch(b) = Lineage(b) \ Lineage(f)
  BY <1>1, ForkFacts DEF CanFork, StoreIsConsistent
<1>3. \A h \in fork + 1 .. top : h \in DOMAIN reorg_block
  BY <1>1 DEF CanFork
<1>4. CreatorsIn(b, o) = {a \in Lineage(b) \ Lineage(f) : o \in Creates[a]}
  BY <1>2 DEF CreatorsIn
<1>5. /\ \A a \in Ancestors[b] : o \notin Spends[a]
      /\ \/ /\ o \in DOMAIN Unspent[f] /\ CreatorsIn(b, o) = {}
            /\ between[o] = Unspent[f][o]
         \/ /\ o \notin DOMAIN Unspent[f] /\ CreatorsIn(b, o) # {}
            /\ \A a \in CreatorsIn(b, o) : between[o] = Height[a]
  BY <1>1, <1>2, <1>4, SpentInBranch
<1>6. ~IsSpent(b, o)
  BY <1>2, <1>5 DEF IsSpent, Lineage
<1>7. IsInStore(b, o) => o \in DOMAIN Unspent[f] /\ utxo[o] = Unspent[f][o]
  BY <1>1, <1>2, StoreHasOfFork DEF IsInStore
<1>8. CASE o \in DOMAIN Unspent[f]
  <2>1. ~IsInBranch(b, o) /\ between[o] = Unspent[f][o]
    BY <1>5, <1>8 DEF IsInBranch
  <2>2. \/ IsInStore(b, o)
        \/ IsInReorgSubset(b, o) /\ reorg_pool[o] = Unspent[f][o]
    BY <1>1, <1>2, <1>3, <1>8, ForkInTables DEF IsInStore, IsInReorgSubset
  <2>. HIDE DEF between, f, fork
  <2>3. PrevoutHeight(b, o) = between[o]
    BY <1>7, <2>1, <2>2 DEF PrevoutHeight
  <2>. QED  BY <1>6, <2>2, <2>3 DEF IsFound, between
<1>9. CASE o \notin DOMAIN Unspent[f]
  <2>1. /\ IsInBranch(b, o) /\ ~IsInStore(b, o)
        /\ \A a \in CreatorsIn(b, o) : between[o] = Height[a]
    BY <1>5, <1>7, <1>9 DEF IsInBranch
  <2>2. Creator(b, o) \in CreatorsIn(b, o)
    <3>1. \A a \in CreatorsIn(b, o) : a \in Block /\ Height[a] \in Nat
      BY <1>2, <1>4, AncestorsAreBelow, BlockTreeAssumption DEF Lineage
    <3>2. \E a \in CreatorsIn(b, o) : \A c \in CreatorsIn(b, o) : Height[c] <= Height[a]
      <4>1. PICK a \in CreatorsIn(b, o) : TRUE
        BY <2>1 DEF IsInBranch
      <4>2. \A c \in CreatorsIn(b, o) : Height[c] = Height[a]
        BY <2>1
      <4>. QED  BY <3>1, <4>1, <4>2
    <3>. QED  BY <3>2 DEF Creator
  <2>. HIDE DEF between, f, fork
  <2>3. PrevoutHeight(b, o) = between[o]
    BY <2>1, <2>2 DEF PrevoutHeight
  <2>. QED  BY <1>6, <2>1, <2>3 DEF IsFound, between
<1>. QED  BY <1>8, <1>9

\* populate_block looks the previous outputs up in tables that describe another
\* branch; it still finds every output a valid block spends, unspent and with
\* the height it has along the branch, after any reorganization, prune or crash.
THEOREM PrevoutsAreAlwaysRight == Spec => []PrevoutsAreRight
<1>. QED  BY PrevoutsFound, StoreConsistency, PTL

-----------------------------------------------------------------------------
(* A reorganization, seen as one step. *)

LEMMA LineageOfChild ==
  ASSUME NEW b \in Block \ {Genesis}
  PROVE  /\ Parent[b] \in Block
         /\ Lineage(b) = Lineage(Parent[b]) \cup {b}
BY BlockTreeAssumption DEF Lineage

\* A pop goes down the lineage of the origin, and stops at the fork.
LEMMA PopOnItsWay ==
  ASSUME StoreIsConsistent, OnItsWay, Pop
  PROVE  OnItsWay'
<1>. USE DEF StoreIsConsistent
<1>1. /\ top \in 1..top
      /\ top' = top - 1 /\ chain'[top'] = chain[top - 1]
      /\ UNCHANGED <<goal, origin>>
      /\ goal # NoBlock /\ chain[top] \notin Lineage(goal)
  BY DEF Pop, CanPop, Popping, TypeOK
<1>2. /\ chain[top] \in Block \ {Genesis}
      /\ Parent[chain[top]] = chain[top - 1]
  BY <1>1, ChainFacts
<1>3. chain[top] \in Lineage(origin) /\ origin \in Block
  BY <1>1 DEF OnItsWay, TypeOK
<1>4. chain[top - 1] \in Lineage(origin)
  BY <1>2, <1>3, LineageIsComplete DEF Lineage
<1>5. Lineage(origin) \cap Lineage(goal) \subseteq Lineage(chain[top - 1])
  BY <1>1, <1>2, LineageOfChild DEF OnItsWay
<1>. QED  BY <1>1, <1>4, <1>5 DEF OnItsWay, Lineage

\* A push goes up the lineage of the branch.
LEMMA PushOnItsWay ==
  ASSUME StoreIsConsistent, OnItsWay, Push
  PROVE  OnItsWay'
<1>. USE DEF StoreIsConsistent
<1>1. Pushing /\ goal # NoBlock
  BY DEF Push, Pushing
<1>2. /\ NextBlock \in Lineage(goal)
      /\ NextBlock \in Block \ {Genesis}
      /\ Parent[NextBlock] = chain[top]
  BY <1>1, NextBlockFacts
<1>3. top' = top + 1 /\ chain'[top'] = NextBlock /\ UNCHANGED <<goal, origin>>
  BY DEF Push, TypeOK
<1>4. Lineage(chain[top]) \subseteq Lineage(NextBlock)
  BY <1>2, LineageOfChild
<1>. QED  BY <1>1, <1>2, <1>3, <1>4 DEF OnItsWay, Lineage

\* The other steps leave the chain alone.
LEMMA StaysOnItsWay == StoreIsConsistent /\ OnItsWay /\ [Next]_vars => OnItsWay'
<1>. SUFFICES ASSUME StoreIsConsistent, OnItsWay, [Next]_vars PROVE OnItsWay'
  OBVIOUS
<1>1. ASSUME NEW b \in Block, Begin(b) PROVE OnItsWay'
  <2>1. /\ goal' = b /\ origin' = chain[top]
        /\ top' = top /\ chain' = chain
        /\ TotalWork[b] > TotalWork[chain[top]]
    BY <1>1 DEF Begin, tables
  <2>. QED  BY <2>1 DEF OnItsWay, Lineage
<1>2. CASE Pop
  BY <1>2, PopOnItsWay
<1>3. CASE Push
  BY <1>3, PushOnItsWay
<1>4. CASE FailPop \/ Finish \/ Crash
  BY <1>4 DEF FailPop, Finish, Crash, OnItsWay
<1>5. CASE Tick \/ UNCHANGED vars
  BY <1>5 DEF Tick, tables, vars, OnItsWay, Lineage
<1>6. ASSUME NEW p \in Pruner, Prune(p) PROVE OnItsWay'
  <2>1. UNCHANGED <<top, chain, goal, origin>>
    BY <1>6 DEF Prune, PruneReadLast, PruneReadFirst, PruneWrite, tables
  <2>. QED  BY <2>1 DEF OnItsWay, Lineage
<1>. QED  BY <1>1, <1>2, <1>3, <1>4, <1>5, <1>6 DEF Next, Organize

\* The chain moves only while a branch is organized, and then unseen.
LEMMA UnseenUnderWay ==
  ASSUME goal # NoBlock, UNCHANGED <<goal, origin>>
  PROVE  UNCHANGED AS!vars
BY DEF AS!vars, SeenTip, SeenOutputs

\* Where a branch ends is where it is seen to end.
LEMMA SeenAtTheEnd ==
  ASSUME StoreIsConsistent, OnItsWay, UNCHANGED <<top, chain, utxo>>,
         goal # NoBlock, goal' = NoBlock
  PROVE  /\ SeenTip = origin
         /\ SeenTip' = chain[top]
         /\ SeenOutputs' = Unspent[chain[top]]
         /\ goal \in Block
         /\ AS!IsHeavier(goal)
BY DEF SeenTip, SeenOutputs, StoreIsConsistent, UtxoIsOfTop, OnItsWay, TypeOK, AS!IsHeavier

\* Every step is one that is seen as a reorganization or its failure, or not seen.
LEMMA StoreStepIsStep ==
  StoreIsConsistent /\ OnItsWay /\ [Next]_vars => [AS!Next]_AS!vars
<1>. SUFFICES ASSUME StoreIsConsistent, OnItsWay, [Next]_vars
              PROVE  AS!Next \/ UNCHANGED AS!vars
  OBVIOUS
<1>1. ASSUME NEW b \in Block, Begin(b) PROVE UNCHANGED AS!vars
  <2>1. /\ goal = NoBlock /\ goal' = b /\ origin' = chain[top]
        /\ b # NoBlock
    BY <1>1, StoreAssumption DEF Begin
  <2>2. utxo = Unspent[chain[top]]
    BY DEF StoreIsConsistent, UtxoIsOfTop
  <2>. QED  BY <2>1, <2>2 DEF AS!vars, SeenTip, SeenOutputs
<1>2. CASE Pop \/ Push
  BY <1>2, UnseenUnderWay DEF Pop, Popping, Push, Pushing
<1>3. CASE Finish
  <2>1. /\ goal # NoBlock /\ goal' = NoBlock /\ chain[top] = goal
        /\ UNCHANGED <<top, chain, utxo>>
    BY <1>3 DEF Finish, tables
  <2>. QED  BY <2>1, SeenAtTheEnd DEF AS!Next, AS!Reorganize
<1>4. CASE FailPop \/ Crash
  <2>1. goal' = NoBlock /\ UNCHANGED <<top, chain, utxo>>
    BY <1>4 DEF FailPop, Crash, tables
  <2>2. CASE goal = NoBlock
    BY <2>1, <2>2 DEF AS!vars, SeenTip, SeenOutputs
  <2>3. CASE goal # NoBlock
    <3>1. /\ chain[top] \in Lineage(origin) \cup Lineage(goal)
          /\ Lineage(origin) \cap Lineage(goal) \subseteq Lineage(chain[top])
      BY <2>3 DEF OnItsWay
    <3>2. \A b : AS!Lineage(b) = Lineage(b)
      BY DEF AS!Lineage, Lineage
    <3>. QED  BY <2>1, <2>3, <3>1, <3>2, SeenAtTheEnd DEF AS!Next, AS!BreakOff
  <2>. QED  BY <2>2, <2>3
<1>5. CASE Tick \/ UNCHANGED vars
  BY <1>5 DEF Tick, tables, vars, AS!vars, SeenTip, SeenOutputs
<1>6. ASSUME NEW p \in Pruner, Prune(p) PROVE UNCHANGED AS!vars
  <2>1. UNCHANGED <<top, chain, utxo, goal, origin>>
    BY <1>6 DEF Prune, PruneReadLast, PruneReadFirst, PruneWrite, tables
  <2>. QED  BY <2>1 DEF AS!vars, SeenTip, SeenOutputs
<1>. QED  BY <1>1, <1>2, <1>3, <1>4, <1>5, <1>6 DEF Next, Organize

\* data_base::reorganize pops and pushes block by block, beside prune jobs, and may
\* fail or die between any two; for the organizer it is one step of AtomicStore.
THEOREM StoreImplementsAtomicStore == Spec => ImplementsAtomicStore
<1>1. Init => AS!Init /\ OnItsWay
  <2>. SUFFICES ASSUME Init PROVE AS!Init /\ OnItsWay
    OBVIOUS
  <2>1. utxo = Unspent[Genesis]
    BY InitStore DEF StoreIsConsistent, UtxoIsOfTop, Init
  <2>. QED  BY <2>1 DEF Init, AS!Init, SeenTip, SeenOutputs, OnItsWay
<1>. QED  BY <1>1, StoreConsistency, StaysOnItsWay, StoreStepIsStep, PTL
          DEF Spec, ImplementsAtomicStore, AS!Spec
===========================================================================
