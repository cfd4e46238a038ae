-------------------------- MODULE BlockOrganizer --------------------------
(***************************************************************************)
(* kth::blockchain::block_organizer with the block pool it owns, the chain *)
(* it drives through fast_chain::reorganize and the chain state block_chain*)
(* caches for the next block.                                              *)
(*                                                                         *)
(* organize() holds the validation mutex from the first check to the last  *)
(* write, so one call is one step here; what the mutex guarantees is the   *)
(* subject of ValidationGate.  The store commits one block per             *)
(* transaction, so a reorganization that fails leaves a prefix of its work *)
(* behind: those prefixes are steps of their own.                          *)
(***************************************************************************)
EXTENDS BlockPool

CONSTANT MaximumDepth   \* block_pool::maximum_depth_, 0 for no limit

ASSUME MaximumDepthAssumption == MaximumDepth \in Nat

VARIABLES
  top,          \* height of the last header in the store
  chain,        \* header table: height |-> block, for 0..top
  unstamped,    \* chain blocks written with median_time_past 0
  pool,         \* block_pool_
  pool_state,   \* block_chain::pool_state_
  stopped,      \* block_organizer::stopped_
  corrupt,      \* a reorganization has failed since the process started
  result        \* the code the last call of organize was answered with

vars == <<top, chain, unstamped, pool, pool_state, stopped, corrupt, result>>

Codes == {"none", "success", "service_stopped", "invalid", "duplicate_block",
          "orphan_block", "insufficient_work", "double_spend",
          "operation_failed"}

TypeOK ==
  /\ top \in Nat
  /\ chain \in [0..top -> Block]
  /\ unstamped \subseteq Block
  /\ Pooled(pool) \subseteq Block
  /\ pool \in [Pooled(pool) -> PoolEntry]
  /\ pool_state \in [height : Nat, parent : Block]
  /\ stopped \in BOOLEAN
  /\ corrupt \in BOOLEAN
  /\ result \in Codes

InChain == {chain[h] : h \in 0..top}
HeightOf(b) == CHOOSE h \in 0..top : chain[h] = b

-----------------------------------------------------------------------------
(* The branch a block is the top of. *)

BranchOf(b) == Path(pool, b)

Front(b) == CHOOSE a \in BranchOf(b) : \A c \in BranchOf(b) : Height[a] <= Height[c]

\* branch::hash(), the parent of the oldest branch block.
Fork(b) == Parent[Front(b)]

\* branch::size(); the branch is a path.
Size(b) == Height[b] - Height[Fork(b)]

\* set_branch_height and branch::top_height().
ForkHeight(b) == HeightOf(Fork(b))
TopHeight(b) == ForkHeight(b) + Size(b)

\* Mutant: branch::push_front read back to front.
BlockAtReversed(b, index) ==
  CHOOSE a \in BranchOf(b) : Height[a] = Height[b] + 1 - index

BlockAt(b, index) ==
  CHOOSE a \in BranchOf(b) : Height[a] = Height[Fork(b)] + index

\* branch::work(), and get_branch_work over the chain above the fork point.
BranchWork(b) == TotalWork[b] - TotalWork[Fork(b)]
Threshold(b) == TotalWork[chain[top]] - TotalWork[chain[ForkHeight(b)]]

\* Mutant: only the pool and genesis are asked, not get_block_exists.
IsDuplicateInPool(b) == BranchOf(b) = {} \/ b = Genesis

IsDuplicate(b) == BranchOf(b) = {} \/ b \in InChain
IsOrphan(b) == Fork(b) \notin InChain

-----------------------------------------------------------------------------
(* The chain state of a candidate.  parent is the block whose successor the*)
(* collected bits, versions and timestamps describe.                       *)

\* Mutant: any branch whose top has the cached height is promoted.
IsPromotedByHeight(b) == TopHeight(b) = pool_state.height

IsPromoted(b) == Size(b) = 1 /\ TopHeight(b) = pool_state.height

StateOf(b) ==
  IF IsPromoted(b) THEN pool_state
  ELSE [height |-> TopHeight(b), parent |-> Parent[b]]

\* populate(): the state of the block after the top of the store.
StateOfNext(height, block) == [height |-> height + 1, parent |-> block]

-----------------------------------------------------------------------------
(* Outcomes of organize(block) that leave the store alone. *)

Answer(code) ==
  /\ result' = code
  /\ UNCHANGED <<top, chain, unstamped, pool_state, stopped, corrupt>>

OrganizeStopped ==
  /\ stopped
  /\ Answer("service_stopped")
  /\ UNCHANGED pool

\* check, accept or connect refuses the block.
OrganizeInvalid(b) ==
  /\ ~stopped
  /\ b \notin Valid
  /\ Answer("invalid")
  /\ UNCHANGED pool

OrganizeDuplicate(b) ==
  /\ ~stopped
  /\ IsDuplicate(b)
  /\ Answer("duplicate_block")
  /\ UNCHANGED pool

OrganizeOrphan(b) ==
  /\ ~stopped
  /\ ~IsDuplicate(b)
  /\ IsOrphan(b)
  /\ Answer("orphan_block")
  /\ UNCHANGED pool

\* Mutant: the result of the validator is not looked at.
ConnectsUnchecked(b) == ~stopped /\ ~IsDuplicate(b) /\ ~IsOrphan(b)

\* The block reaches handle_connect without an error.
Connects(b) == ~stopped /\ ~IsDuplicate(b) /\ ~IsOrphan(b) /\ b \in Valid

\* Mutants: the longer branch wins; the later of two equal branches wins.
IsLonger(b) == Size(b) > top - ForkHeight(b)
IsAsHeavy(b) == BranchWork(b) >= Threshold(b)

IsHeavier(b) == BranchWork(b) > Threshold(b)

\* A header the work query needs cannot be read.
OrganizeUnreadable(b) ==
  /\ Connects(b)
  /\ Answer("operation_failed")
  /\ UNCHANGED pool

OrganizeWeak(b, simulate) ==
  /\ Connects(b)
  /\ ~IsHeavier(b)
  /\ pool' = IF simulate THEN pool ELSE Add(pool, b, TopHeight(b))
  /\ Answer("insufficient_work")

\* Two blocks of a branch may spend the same output; each was valid alone.
OrganizeDoubleSpend(b) ==
  /\ Connects(b)
  /\ IsHeavier(b)
  /\ Size(b) > 1
  /\ Answer("double_spend")
  /\ UNCHANGED pool

OrganizeSimulated(b) ==
  /\ Connects(b)
  /\ IsHeavier(b)
  /\ Answer("success")
  /\ UNCHANGED pool

-----------------------------------------------------------------------------
(* The reorganization: pop_above the fork point, then push_all. *)

Outgoing(b) == {chain[h] : h \in ForkHeight(b) + 1 .. top}

\* Only the new top went through handle_connect in this call; a block that
\* comes from the pool is stamped if it did when it was pooled.
Unstamped(b) == {a \in BranchOf(b) \ {b} : pool[a].height = 0}

\* The store after popping to the fork point and pushing n branch blocks.
Pushed(b, n) ==
  [h \in 0..ForkHeight(b) + n |->
     IF h <= ForkHeight(b) THEN chain[h] ELSE BlockAt(b, h - ForkHeight(b))]

\* handle_reorganized: the popped copies come back from the store without
\* validation metadata, so they are pooled with height 0.
PoolAfter(b) ==
  LET removed == Remove(pool, BranchOf(b))
      pruned == Prune(removed, TopHeight(b), MaximumDepth)
  IN AddAll(pruned, Outgoing(b), [x \in Outgoing(b) |-> 0])

Reorganize(b) ==
  /\ Connects(b)
  /\ IsHeavier(b)
  /\ top' = TopHeight(b)
  /\ chain' = Pushed(b, Size(b))
  /\ unstamped' = (unstamped \ Outgoing(b)) \cup Unstamped(b)
  /\ pool' = PoolAfter(b)
  /\ pool_state' = StateOf(b)
  /\ result' = "success"
  /\ UNCHANGED <<stopped, corrupt>>

\* Popping fails with the chain at height h: the blocks popped so far are lost.
FailPop(b, h) ==
  /\ Connects(b)
  /\ IsHeavier(b)
  /\ h > ForkHeight(b)
  /\ top' = h
  /\ chain' = [k \in 0..h |-> chain[k]]
  /\ unstamped' = unstamped \ {chain[k] : k \in h + 1 .. top}
  /\ corrupt' = TRUE
  /\ result' = "operation_failed"
  /\ UNCHANGED <<pool, pool_state, stopped>>

\* Pushing fails after n blocks of the branch.
FailPush(b, n) ==
  /\ Connects(b)
  /\ IsHeavier(b)
  /\ n < Size(b)
  /\ top' = ForkHeight(b) + n
  /\ chain' = Pushed(b, n)
  /\ unstamped' = (unstamped \ Outgoing(b))
                    \cup {a \in Unstamped(b) : Height[a] <= Height[Fork(b)] + n}
  /\ corrupt' = TRUE
  /\ result' = "operation_failed"
  /\ UNCHANGED <<pool, pool_state, stopped>>

-----------------------------------------------------------------------------
Stop ==
  /\ stopped' = TRUE
  /\ UNCHANGED <<top, chain, unstamped, pool, pool_state, corrupt, result>>

\* block_chain::start: the chain state is read from the store; a new process
\* has an empty pool.
Start ==
  /\ stopped
  /\ stopped' = FALSE
  /\ pool' = EmptyPool
  /\ pool_state' = StateOfNext(top, chain[top])
  /\ corrupt' = FALSE
  /\ result' = "none"
  /\ UNCHANGED <<top, chain, unstamped>>

Init ==
  /\ top = 0
  /\ chain = [h \in 0..0 |-> Genesis]
  /\ unstamped = {}
  /\ pool = EmptyPool
  /\ pool_state = StateOfNext(0, Genesis)
  /\ stopped = FALSE
  /\ corrupt = FALSE
  /\ result = "none"

Next ==
  \/ OrganizeStopped
  \/ \E b \in Block :
       \/ OrganizeInvalid(b)
       \/ OrganizeDuplicate(b)
       \/ OrganizeOrphan(b)
       \/ OrganizeUnreadable(b)
       \/ \E simulate \in BOOLEAN : OrganizeWeak(b, simulate)
       \/ OrganizeDoubleSpend(b)
       \/ OrganizeSimulated(b)
       \/ Reorganize(b)
       \/ \E h \in 0..top : FailPop(b, h)
       \/ \E n \in 0..Height[b] : FailPush(b, n)
  \/ Stop
  \/ Start

Spec == Init /\ [][Next]_vars

-----------------------------------------------------------------------------
(* Safety. *)

\* The header table is a path of the tree from genesis, with every block at
\* its own height, after every reorganization and after every failed one.
\* (pop_above stops at the fork point and push_all starts one above it.)
ChainIsPath ==
  /\ chain[0] = Genesis
  /\ \A h \in 1..top : chain[h] # Genesis /\ Parent[chain[h]] = chain[h - 1]
  /\ InChain \subseteq Valid

\* Nothing invalid is kept for later: a pooled block is only checked when it
\* arrives, and is written to the store with its branch unchecked.
PoolIsValid == Pooled(pool) \subseteq Valid

\* Every back pointer leads to a pooled block that is keyed as a non-root and
\* names the holder as its parent.  This is what the assertions of
\* block_pool::remove and block_pool::prune rely on.  A failed reorganization
\* breaks it: its blocks stay pooled and are pooled again when they are popped.
ChildrenArePooled ==
  ~corrupt => \A b \in Pooled(pool) : \A c \in pool[b].children :
    /\ c \in Pooled(pool)
    /\ Parent[c] = b
    /\ pool[c].root = 0

\* Unless a reorganization has failed, no block is both in the chain and in
\* the pool: otherwise get_path would walk through the chain.
PoolIsDisjoint == ~corrupt => Pooled(pool) \cap InChain = {}

\* A promoted chain state describes the right ancestors although the cache is
\* one height behind after the first organization.
PromotedContext ==
  \A b \in Block :
    ~corrupt /\ Connects(b) /\ IsPromoted(b) => StateOf(b).parent = Parent[b]

\* The cached chain state is that of the top block or of the block after it,
\* and was collected along the chain the store holds.
CacheDescribesChain ==
  ~corrupt => /\ pool_state.height \in {top, top + 1} \ {0}
              /\ pool_state.parent = chain[pool_state.height - 1]

\* The node is on the chain with the most work of everything it has kept:
\* no pooled block, wherever its branch forks, outweighs the top.
ChainIsHeaviest ==
  ~corrupt => \A b \in Pooled(pool) : TotalWork[b] <= TotalWork[chain[top]]

(***************************************************************************)
(* The inductive invariant.  The chain is indexed by the heights of the    *)
(* tree and is one lineage, and genesis is never pooled: without these a   *)
(* branch could fork below the place where the store pushes it.            *)
(***************************************************************************)
ChainIsLineage ==
  /\ \A h \in 0..top : Height[chain[h]] = h
  /\ \A i, j \in 0..top : i <= j => chain[i] \in Lineage(chain[j])

Consistent ==
  /\ TypeOK
  /\ ChainIsPath
  /\ ChainIsLineage
  /\ PoolIsValid
  /\ Genesis \notin Pooled(pool)
  /\ PoolIsDisjoint
  /\ CacheDescribesChain
  /\ ChainIsHeaviest

(***************************************************************************)
(* Action properties.                                                      *)
(***************************************************************************)
\* A successful call never trades the chain for one with as much work or less.
WorkIncreases ==
  [][result' = "success" /\ chain' # chain =>
       TotalWork[chain'[top']] > TotalWork[chain[top]]]_vars

\* A block that leaves the chain while the node runs is kept in the pool,
\* unless the reorganization failed.
NothingForgotten ==
  [][~corrupt' => InChain \ InChain' \subseteq Pooled(pool')]_vars

-----------------------------------------------------------------------------
(* What the organizer promises.  A pooled block that is also in the chain,  *)
(* which only a failed reorganization leaves behind, counts as chain.       *)

BC == INSTANCE BestChain WITH
        tip <- chain[top], kept <- Pooled(pool) \ InChain, failed <- corrupt,
        Starts <- {Genesis}

\* Whatever the pool and the header table go through, a caller sees BestChain.
ImplementsBestChain == BC!Spec

-----------------------------------------------------------------------------
(* What a comment of the code says and the code does not do. *)

\* block_organizer.cpp:420: "Incoming blocks must have median_time_past set."
IncomingStamped == unstamped = {}
============================================================================
