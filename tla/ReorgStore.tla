---------------------------- MODULE ReorgStore ----------------------------
(***************************************************************************)
(* kth::database: the tables a reorganization reads and writes, that is    *)
(* the headers, the unspent outputs and the three tables that allow blocks *)
(* to be popped again (reorg_pool, reorg_index, reorg_block), with the job *)
(* that prunes the latter.                                                 *)
(*                                                                         *)
(* Every block is pushed or popped in an LMDB transaction of its own, and  *)
(* a prune reads two heights in a transaction each before it writes in a   *)
(* third.  A transaction is a step.  The prune jobs run on the priority    *)
(* pool, are not waited for and do not hold the validation mutex: they     *)
(* interleave with the next reorganization and with each other.  A process *)
(* may die between any two steps; what was committed stays.                *)
(***************************************************************************)
EXTENDS BlockTree, FiniteSets

CONSTANTS
  Outpoint,     \* transaction outputs, by hash and index
  Creates,      \* outputs of the transactions of a block
  Spends,       \* previous outputs of its inputs, the coinbase left out
  Unspent,      \* for each block, the outputs unspent after it, with the
                \* height of their block
  Timestamp,    \* header().timestamp()
  Limit,        \* reorg_pool_limit_
  OldAfter,     \* limit_, Limit blocks in seconds
  StaleAfter,   \* block_chain::notify_limit_seconds_
  Pruner,       \* threads that can run a prune job at the same time
  MaxClock,     \* bound: the clock stops there
  MaxPosted,    \* bound: prune jobs posted and not started
  NoBlock

\* What a block adds to the set of unspent outputs and takes from it.
Without(table, outpoints) == [o \in DOMAIN table \ outpoints |-> table[o]]

With(table, outpoints, value) ==
  [o \in DOMAIN table \cup outpoints |-> IF o \in DOMAIN table THEN table[o] ELSE value]

UnspentAfter(table, b, height) ==
  Without(With(table, Creates[b], height), Spends[b])

(***************************************************************************)
(* Only branches that were accepted and connected reach the store, so the  *)
(* blocks are valid: a block spends what is unspent before it or what it   *)
(* creates, no output is spent twice along a branch, and a transaction is  *)
(* not repeated while it is unspent (BIP30; the store would keep the first *)
(* one).  Genesis is stored without outputs.                               *)
(***************************************************************************)
ASSUME SpendingAssumption ==
  /\ Creates \in [Block -> SUBSET Outpoint]
  /\ Spends \in [Block -> SUBSET Outpoint]
  /\ \A b \in Block : /\ DOMAIN Unspent[b] \subseteq Outpoint
                      /\ Unspent[b] \in [DOMAIN Unspent[b] -> Nat]
  /\ DOMAIN Unspent[Genesis] = {}
  /\ \A b \in Block \ {Genesis} :
       /\ Creates[b] \cap DOMAIN Unspent[Parent[b]] = {}
       /\ Spends[b] \subseteq DOMAIN Unspent[Parent[b]] \cup Creates[b]
       /\ \A a \in Ancestors[b] : Spends[a] \cap Spends[b] = {}
       /\ Unspent[b] = UnspentAfter(Unspent[Parent[b]], b, Height[b])

ASSUME StoreAssumption ==
  /\ Timestamp \in [Block -> Nat]
  /\ Limit \in Nat
  /\ OldAfter \in Nat /\ StaleAfter \in Nat
  /\ MaxClock \in Nat /\ MaxPosted \in Nat
  /\ NoBlock \notin Block

VARIABLES
  top, chain,     \* block_header: height |-> block, for 0..top
  utxo,           \* utxo: outpoint |-> height of its block
  reorg_pool,     \* reorg_pool: spent outpoint |-> its utxo entry
  reorg_index,    \* reorg_index: height and an outpoint spent there
  reorg_block,    \* reorg_block: height |-> block
  goal,           \* top of the branch that is being organized
  origin,         \* where the chain was when that began
  pop_failed,     \* a pop found no block within Limit of origin
  posted,         \* prune jobs not started
  pruning,        \* what each prune job has read
  now,            \* Clock::now()
  prune_posted    \* the last branch organized posted a prune, and no crash came since

tables == <<top, chain, utxo, reorg_pool, reorg_index, reorg_block>>
prunes == <<posted, pruning>>
vars == <<top, chain, utxo, reorg_pool, reorg_index, reorg_block,
          goal, origin, pop_failed, posted, pruning, now, prune_posted>>

Idle == [step |-> "idle", last |-> 0, first |-> 0]

TypeOK ==
  /\ top \in Nat
  /\ chain \in [0..top -> Block]
  /\ DOMAIN utxo \subseteq Outpoint /\ utxo \in [DOMAIN utxo -> Nat]
  /\ DOMAIN reorg_pool \subseteq Outpoint /\ reorg_pool \in [DOMAIN reorg_pool -> Nat]
  /\ reorg_index \subseteq Nat \X Outpoint
  /\ DOMAIN reorg_block \subseteq 1..top /\ reorg_block \in [DOMAIN reorg_block -> Block]
  /\ goal \in Block \cup {NoBlock}
  /\ origin \in Block
  /\ pop_failed \in BOOLEAN
  /\ posted \in Nat
  /\ pruning \in [Pruner -> [step : {"idle", "first", "write"}, last : Nat, first : Nat]]
  /\ now \in Nat
  /\ prune_posted \in BOOLEAN

-----------------------------------------------------------------------------
(* reorganize: pop_above, then push_all *)

\* Mutant: a branch is organized whatever its work.
BeginUnweighed(b) ==
  /\ goal = NoBlock
  /\ goal' = b
  /\ origin' = chain[top]
  /\ UNCHANGED <<tables, pop_failed, prunes, now, prune_posted>>

\* A heavier branch is organized.
Begin(b) ==
  /\ goal = NoBlock
  /\ TotalWork[b] > TotalWork[chain[top]]
  /\ goal' = b
  /\ origin' = chain[top]
  /\ UNCHANGED <<tables, pop_failed, prunes, now, prune_posted>>

IsOld(b) == now - Timestamp[b] >= OldAfter
IsStale == Timestamp[chain[top]] + StaleAfter < now

\* The branch has not been reached, or the next block of the branch.
Popping == goal # NoBlock /\ chain[top] \notin Lineage(goal)
Pushing == goal # NoBlock /\ chain[top] \in Lineage(goal) \ {goal}
NextBlock == CHOOSE b \in Lineage(goal) : Height[b] = top + 1

\* pop_block finds the block and remove_block finds everything it undoes.
CanPop ==
  LET b == reorg_block[top]
  IN /\ top \in DOMAIN reorg_block
     /\ Spends[b] \subseteq DOMAIN reorg_pool
     /\ Spends[b] \cap DOMAIN utxo = {}
     /\ Creates[b] \subseteq DOMAIN utxo \cup Spends[b]

\* insert_inputs: the spent outputs come back with the entries of reorg_pool.
Restored(b) ==
  [o \in DOMAIN utxo \cup Spends[b] |-> IF o \in Spends[b] THEN reorg_pool[o] ELSE utxo[o]]

\* Mutant: remove_outputs before insert_inputs.
UtxoAfterPopReversed(b) ==
  [o \in (DOMAIN utxo \ Creates[b]) \cup Spends[b] |-> Restored(b)[o]]

\* remove_outputs, after insert_inputs.
UtxoAfterPop(b) == Without(Restored(b), Creates[b])

\* Mutant: what was restored stays in the pool.
PoolAfterPopKept(b) == reorg_pool

PoolAfterPop(b) == Without(reorg_pool, Spends[b])
IndexAfterPop == {entry \in reorg_index : entry[1] # top}
BlocksAfterPop == Without(reorg_block, {top})

Pop ==
  /\ Popping
  /\ CanPop
  /\ top' = top - 1
  /\ chain' = [h \in 0..top - 1 |-> chain[h]]
  /\ LET b == reorg_block[top]
     IN /\ utxo' = UtxoAfterPop(b)
        /\ reorg_pool' = PoolAfterPop(b)
  /\ reorg_index' = IndexAfterPop
  /\ reorg_block' = BlocksAfterPop
  /\ UNCHANGED <<goal, origin, pop_failed, prunes, now, prune_posted>>

\* The transaction is aborted, and with it the reorganization.
FailPop ==
  /\ Popping
  /\ ~CanPop
  /\ goal' = NoBlock
  /\ pop_failed' = (pop_failed \/ Height[origin] - top < Limit)
  /\ UNCHANGED <<tables, origin, prunes, now, prune_posted>>

\* Nothing is in the way of push_block.
CanPush(b) ==
  /\ Spends[b] \subseteq DOMAIN utxo \cup Creates[b]
  /\ ~IsOld(b) => /\ top + 1 \notin DOMAIN reorg_block
                  /\ Spends[b] \cap DOMAIN reorg_pool = {}

SpentEntries(b) ==
  [o \in DOMAIN reorg_pool \cup Spends[b] |->
     IF o \in DOMAIN reorg_pool THEN reorg_pool[o] ELSE With(utxo, Creates[b], top + 1)[o]]

Push ==
  /\ Pushing
  /\ LET b == NextBlock
     IN /\ CanPush(b)
        /\ top' = top + 1
        /\ chain' = [h \in 0..top + 1 |-> IF h <= top THEN chain[h] ELSE b]
        /\ utxo' = UnspentAfter(utxo, b, top + 1)
        /\ IF IsOld(b) THEN UNCHANGED <<reorg_pool, reorg_index, reorg_block>>
           ELSE /\ reorg_pool' = SpentEntries(b)
                /\ reorg_index' = reorg_index \cup {top + 1} \X Spends[b]
                /\ reorg_block' = With(reorg_block, {top + 1}, b)
  /\ UNCHANGED <<goal, origin, pop_failed, prunes, now, prune_posted>>

\* handle_reorganized: prune_reorg_async, unless the chain is stale.
Finish ==
  /\ goal # NoBlock
  /\ chain[top] = goal
  /\ goal' = NoBlock
  /\ posted' = IF IsStale THEN posted ELSE posted + 1
  /\ posted' <= MaxPosted
  /\ prune_posted' = ~IsStale
  /\ UNCHANGED <<tables, origin, pop_failed, pruning, now>>

-----------------------------------------------------------------------------
(* prune *)

Start(p, height) ==
  pruning' = [pruning EXCEPT ![p] = [step |-> "first", last |-> height, first |-> 0]]
End(p) == pruning' = [pruning EXCEPT ![p] = Idle]

\* get_last_height
PruneReadLast(p) ==
  /\ posted > 0
  /\ pruning[p].step = "idle"
  /\ posted' = posted - 1
  /\ IF top < Limit THEN End(p) ELSE Start(p, top)
  /\ UNCHANGED <<tables, goal, origin, pop_failed, now, prune_posted>>

FirstHeight ==
  CHOOSE h \in DOMAIN reorg_block : \A k \in DOMAIN reorg_block : h <= k

HasDataToPrune(last) ==
  /\ DOMAIN reorg_block # {}
  /\ FirstHeight <= last
  /\ last - FirstHeight + 1 > Limit

\* get_first_reorg_block_height
PruneReadFirst(p) ==
  /\ pruning[p].step = "first"
  /\ IF HasDataToPrune(pruning[p].last)
     THEN pruning' = [pruning EXCEPT ![p] = [@ EXCEPT !.step = "write", !.first = FirstHeight]]
     ELSE End(p)
  /\ UNCHANGED <<tables, goal, origin, pop_failed, posted, now, prune_posted>>

\* Mutants: the top is not counted; the height after the last deleted is included.
AmountWithoutTop(job) == job.last - job.first - Limit
RemoveThrough(job) == job.last + 2 - Limit

AmountToDelete(job) == job.last - job.first + 1 - Limit
RemoveUntil(job) == job.first + AmountToDelete(job)

\* prune_reorg_block counts blocks, whatever their heights.
Lowest(amount) ==
  {h \in DOMAIN reorg_block : Cardinality({k \in DOMAIN reorg_block : k < h}) < amount}

\* prune_reorg_index goes by height.
Below(height) == {entry \in reorg_index : entry[1] < height}

PruneWrite(p) ==
  /\ pruning[p].step = "write"
  /\ reorg_block' = Without(reorg_block, Lowest(AmountToDelete(pruning[p])))
  /\ LET gone == Below(RemoveUntil(pruning[p]))
     IN /\ reorg_index' = reorg_index \ gone
        /\ reorg_pool' = Without(reorg_pool, {entry[2] : entry \in gone})
  /\ End(p)
  /\ UNCHANGED <<top, chain, utxo, goal, origin, pop_failed, posted, now, prune_posted>>

-----------------------------------------------------------------------------
Tick ==
  /\ now < MaxClock
  /\ now' = now + 1
  /\ UNCHANGED <<tables, goal, origin, pop_failed, prunes, prune_posted>>

\* The process dies and is started again.
Crash ==
  /\ goal' = NoBlock
  /\ posted' = 0
  /\ pruning' = [p \in Pruner |-> Idle]
  /\ prune_posted' = FALSE
  /\ UNCHANGED <<tables, origin, pop_failed, now>>

\* push_genesis writes no output and no reorg block.
Init ==
  /\ top = 0
  /\ chain = [h \in 0..0 |-> Genesis]
  /\ utxo = [o \in {} |-> 0]
  /\ reorg_pool = [o \in {} |-> 0]
  /\ reorg_index = {}
  /\ reorg_block = [h \in {} |-> Genesis]
  /\ goal = NoBlock /\ origin = Genesis /\ pop_failed = FALSE
  /\ posted = 0
  /\ pruning = [p \in Pruner |-> Idle]
  /\ now = 0
  /\ prune_posted = TRUE

Organize == (\E b \in Block : Begin(b)) \/ Pop \/ FailPop \/ Push \/ Finish
Prune(p) == PruneReadLast(p) \/ PruneReadFirst(p) \/ PruneWrite(p)

Next == Organize \/ (\E p \in Pruner : Prune(p)) \/ Tick \/ Crash

Spec == Init /\ [][Next]_vars

-----------------------------------------------------------------------------
\* Whatever was popped, pushed, pruned or cut off, the unspent outputs are
\* exactly those of the branch the headers hold, each with its own entry.
UtxoIsOfTop == utxo = Unspent[chain[top]]

\* reorg_index and reorg_pool tell the same story: an output is in the pool when
\* the index has it, under one height, where the chain spends it.  So a prune
\* finds every entry its index names, and does not abort.
PoolIsIndexed ==
  /\ DOMAIN reorg_pool = {entry[2] : entry \in reorg_index}
  /\ \A entry \in reorg_index :
       entry[1] \in 1..top /\ entry[2] \in Spends[chain[entry[1]]]

\* A block that is still in reorg_block is that of the chain, and everything it
\* spends is still in the pool: a prune never leaves half of what a pop needs.
KeptBlocksAreWhole ==
  \A h \in DOMAIN reorg_block :
    reorg_block[h] = chain[h] /\ Spends[chain[h]] \subseteq DOMAIN reorg_pool

\* Nothing an earlier reorganization or prune has left behind is in the way of
\* a valid block: push_block finds every output it spends and no key it inserts.
\* (So the steps have no push that fails.)
PushNeverFails == Pushing => CanPush(NextBlock)

\* When nothing is going on, and the last branch organized did not find the chain
\* stale, no more than Limit heights are kept: prunes that read stale heights, or pops
\* that fail between them, do not use up the one that was due.
QuietStoreIsPruned ==
  /\ goal = NoBlock
  /\ posted = 0
  /\ \A p \in Pruner : pruning[p] = Idle
  /\ prune_posted
  => \A h \in DOMAIN reorg_block : h > top - Limit

\* Nobody reads the tables between two blocks of a branch but prune jobs, so for
\* the organizer the chain is where it was until the branch is done or cut off.
SeenTip == IF goal = NoBlock THEN chain[top] ELSE origin
SeenOutputs == IF goal = NoBlock THEN utxo ELSE Unspent[origin]

AS == INSTANCE AtomicStore WITH tip <- SeenTip, outputs <- SeenOutputs

\* However many transactions it takes, prune jobs run beside it, and the process
\* dies between any two of them: a branch is reorganized as a whole, or the chain
\* ends between the fork and one of its ends, with the outputs of just that place.
ImplementsAtomicStore == AS!Spec

(***************************************************************************)
(* The inductive invariant.  The headers are one lineage of the tree, so   *)
(* that no output is spent twice along them; what the pool keeps of a      *)
(* spent output is what the output was before; and while a prune is about  *)
(* to write, nothing is stored below the first height it has read.         *)
(***************************************************************************)
ChainIsLineage ==
  /\ chain[0] = Genesis
  /\ \A h \in 1..top : chain[h] # Genesis /\ Parent[chain[h]] = chain[h - 1]
  /\ \A h \in 0..top : Height[chain[h]] = h
  /\ \A i, j \in 0..top : i <= j => chain[i] \in Lineage(chain[j])

\* The unspent outputs a block at that height was pushed on, with its own.
SpendableAt(height) ==
  With(Unspent[Parent[chain[height]]], Creates[chain[height]], height)

PoolHoldsEntries ==
  \A entry \in reorg_index : reorg_pool[entry[2]] = SpendableAt(entry[1])[entry[2]]

NothingBelowFirst ==
  \A p \in Pruner : pruning[p].step = "write" =>
    /\ pruning[p].first <= top + 1
    /\ \A h \in DOMAIN reorg_block : pruning[p].first <= h

StoreIsConsistent ==
  /\ TypeOK
  /\ ChainIsLineage
  /\ UtxoIsOfTop
  /\ PoolIsIndexed
  /\ PoolHoldsEntries
  /\ KeptBlocksAreWhole
  /\ NothingBelowFirst

\* A branch that is organized is heavier than the chain it began with, and the
\* chain is on its way from there to the branch, never below the fork of the two.
OnItsWay ==
  goal # NoBlock =>
    /\ TotalWork[goal] > TotalWork[origin]
    /\ chain[top] \in Lineage(origin) \cup Lineage(goal)
    /\ Lineage(origin) \cap Lineage(goal) \subseteq Lineage(chain[top])

-----------------------------------------------------------------------------
(* What a comment of the code says and the code does not do. *)

\* internal_database.ipp:454: the block read by pop_block "should never become
\* invalid if this call is protected", within reorg_pool_limit of the top.
PopFindsBlock == ~pop_failed
=============================================================================
