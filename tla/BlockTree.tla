---------------------------- MODULE BlockTree ----------------------------
(***************************************************************************)
(* The blocks a node can ever be offered, as the tree their headers spell  *)
(* out.  A block stands for its hash: two copies of one block are the same *)
(* element, and what a copy remembers (its validation metadata) is state   *)
(* of the modules that keep copies.                                        *)
(***************************************************************************)
EXTENDS Integers

CONSTANTS
  Block,        \* every block that may be offered to the node
  Genesis,      \* the block at height zero, never popped
  Parent,       \* header().previous_block_hash()
  Height,       \* distance from Genesis
  Ancestors,    \* proper ancestors of a block
  TotalWork,    \* sum of header::proof(bits) from Genesis to the block
  Valid         \* blocks the consensus rules accept on top of their ancestors

(***************************************************************************)
(* The tree is given by its defining equations.  Work is positive, which   *)
(* header::proof guarantees for every target that passes the bits check.   *)
(***************************************************************************)
ASSUME BlockTreeAssumption ==
  /\ Genesis \in Block
  /\ Genesis \in Valid
  /\ Valid \subseteq Block
  /\ Parent \in [Block \ {Genesis} -> Block]
  /\ Height \in [Block -> Nat]
  /\ Height[Genesis] = 0
  /\ \A b \in Block \ {Genesis} : Height[b] = Height[Parent[b]] + 1
  /\ Ancestors \in [Block -> SUBSET Block]
  /\ Ancestors[Genesis] = {}
  /\ \A b \in Block \ {Genesis} :
       Ancestors[b] = Ancestors[Parent[b]] \cup {Parent[b]}
  /\ TotalWork \in [Block -> Nat]
  /\ \A b \in Block \ {Genesis} : TotalWork[b] > TotalWork[Parent[b]]

\* A block and everything it builds on.
Lineage(b) == Ancestors[b] \cup {b}
==========================================================================
