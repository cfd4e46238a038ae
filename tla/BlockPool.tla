---------------------------- MODULE BlockPool ----------------------------
(***************************************************************************)
(* kth::blockchain::block_pool as a data structure: the valid blocks that  *)
(* lacked the work to replace the chain, kept as a forest.                 *)
(*                                                                         *)
(* A pool is a function from the pooled blocks to entries:                 *)
(*   root      the right key of the bimap: a height for a root, 0 for an   *)
(*             entry that was linked under a pooled parent when added      *)
(*   children  block_entry::children(), the back pointers                  *)
(*   height    header().validation.height of the copy that is pooled; it   *)
(*             is 0 for a copy that never went through handle_connect      *)
(* The bimap is written by one thread at a time (the organizer holds the   *)
(* validation mutex), so an operation is a function from pool to pool.     *)
(***************************************************************************)
EXTENDS BlockTree

EmptyPool == [b \in {} |-> 0]

Pooled(pool) == DOMAIN pool

PoolEntry == [root : Nat, children : SUBSET Block, height : Nat]

(***************************************************************************)
(* add(list).  The list is a path, oldest first, so the parent of every    *)
(* block but the first is already there when the block is inserted: a      *)
(* block is linked exactly when its parent is pooled or in the list.       *)
(* add_child runs before insert rejects an entry that exists.              *)
(* copied[b] is the validation height of the copy that is added.           *)
(***************************************************************************)
\* Mutant: the parent is not looked for among the blocks already pooled or in
\* the list, so that no entry is linked.
AddAllUnlinked(pool, new, copied) ==
  [b \in Pooled(pool) \cup new |->
     IF b \in Pooled(pool)
     THEN [pool[b] EXCEPT !.children = @ \cup {c \in new \ {Genesis} : Parent[c] = b}]
     ELSE [root |-> copied[b],
           children |-> {c \in new \ {Genesis} : Parent[c] = b},
           height |-> copied[b]]]

AddAll(pool, new, copied) ==
  LET everyone == Pooled(pool) \cup new
      adopted(b) == {c \in new : c # Genesis /\ Parent[c] = b}
  IN [b \in everyone |->
        IF b \in Pooled(pool)
        THEN [pool[b] EXCEPT !.children = @ \cup adopted(b)]
        ELSE [root |-> IF b # Genesis /\ Parent[b] \in everyone
                       THEN 0 ELSE copied[b],
              children |-> adopted(b),
              height |-> copied[b]]]

\* add(block)
Add(pool, b, height) == AddAll(pool, {b}, [x \in {b} |-> height])

(***************************************************************************)
(* Deleting gone and giving the children it leaves behind a height of      *)
(* their own, which is how both remove and prune pull a tree down.         *)
(***************************************************************************)
ChildrenOf(pool, blocks) == UNION {pool[b].children : b \in blocks}

Replant(pool, gone) ==
  [b \in Pooled(pool) \ gone |->
     IF b \in ChildrenOf(pool, gone)
     THEN [pool[b] EXCEPT !.root = pool[b].height]
     ELSE pool[b]]

\* remove(accepted_blocks): the blocks that are not pooled are skipped.
Remove(pool, accepted) == Replant(pool, accepted \cap Pooled(pool))

(***************************************************************************)
(* prune(hashes, minimum_height): starting from the roots below the        *)
(* minimum, delete, and go on through the children that are roots or       *)
(* expired themselves.  What the recursion deletes is the least set that   *)
(* is closed under those steps.                                            *)
(***************************************************************************)
\* Mutant: a root at the minimum height itself expires.
ExpiredRootsAtDepth(pool, minimum) ==
  {b \in Pooled(pool) : pool[b].root # 0 /\ pool[b].root <= minimum}

ExpiredRoots(pool, minimum) ==
  {b \in Pooled(pool) : pool[b].root # 0 /\ pool[b].root < minimum}

IsPruneClosed(pool, minimum, gone) ==
  /\ ExpiredRoots(pool, minimum) \subseteq gone
  /\ \A b \in gone : \A c \in pool[b].children \cap Pooled(pool) :
       (pool[c].root # 0 \/ pool[c].height < minimum) => c \in gone

Expired(pool, minimum) ==
  {b \in Pooled(pool) :
     \A gone \in SUBSET Pooled(pool) :
       IsPruneClosed(pool, minimum, gone) => b \in gone}

\* prune(top_height), with maximum_depth zero meaning no limit.
MinimumHeight(top, maximum_depth) ==
  IF maximum_depth = 0 \/ top < maximum_depth THEN 0 ELSE top - maximum_depth

Prune(pool, top, maximum_depth) ==
  Replant(pool, Expired(pool, MinimumHeight(top, maximum_depth)))

(***************************************************************************)
(* get_path(block): the block and its ancestors for as long as they are    *)
(* pooled; empty when the block itself is pooled.                          *)
(***************************************************************************)
Path(pool, b) ==
  IF b \in Pooled(pool) THEN {}
  ELSE {b} \cup {a \in Ancestors[b] :
                   \A c \in Ancestors[b] :
                     Height[c] >= Height[a] => c \in Pooled(pool)}
==========================================================================
