---------------------------- MODULE BestChain ----------------------------
(***************************************************************************)
(* What the block organizer promises, without branches, pools of entries,  *)
(* heights or chain states: a chain that only ever moves to more work, and *)
(* the valid blocks off the chain that are kept in case their branch grows.*)
(* BlockOrganizer implements it, with one caller and an atomic store, and  *)
(* so does BlockRelay, with many callers and a store that is written block *)
(* by block (BlockOrganizerProofs).                                        *)
(***************************************************************************)
EXTENDS BlockTree

CONSTANTS
  Starts,         \* where the chain may be in the beginning
  MaximumDepth    \* how deep a kept branch may root, 0 for no limit

VARIABLES
  tip,      \* the top of the chain: the chain is Lineage(tip)
  kept,     \* the blocks off the chain that a later branch may build on
  failed    \* a reorganization has failed since the process started

vars == <<tip, kept, failed>>

Chain == Lineage(tip)
Known == Chain \cup kept

\* A block the node can place: new, valid, and all it builds on is there.
Fits(b) == b \in Valid \ Known /\ Ancestors[b] \subseteq Known

\* A block that is too deep under the top to start a branch.
IsBuried(b, top) == MaximumDepth # 0 /\ Height[b] + MaximumDepth < Height[top]

\* What may be dropped when the chain moves to a new top: a kept block that is
\* buried, or that builds on one.
Disposable(top) == {c \in kept : \E a \in Lineage(c) \cap kept : IsBuried(a, top)}

\* A block without the work to win is kept, and changes nothing else.
Keep(b) ==
  /\ Fits(b)
  /\ TotalWork[b] <= TotalWork[tip]
  /\ kept' = kept \cup {b}
  /\ UNCHANGED <<tip, failed>>

\* The chain moves to a block with more work.  Every block that leaves it is
\* kept, and of the blocks kept so far only buried branches may go.
Switch(b) ==
  /\ Fits(b)
  /\ TotalWork[b] > TotalWork[tip]
  /\ tip' = b
  /\ kept' \subseteq Known \ Lineage(b)
  /\ Chain \ Lineage(b) \subseteq kept'
  /\ ~failed => kept \ Lineage(b) \subseteq kept' \cup Disposable(b)
  /\ UNCHANGED failed

\* The move fails on the way: the chain ends somewhere between the old top,
\* the fork point and the new top, and nothing that was kept goes.  A first
\* failure never goes below the fork point; a later one may, since the kept
\* copies of the blocks that were pushed again take part in the next branch.
Fail(b) ==
  /\ Fits(b)
  /\ TotalWork[b] > TotalWork[tip]
  /\ tip' \in Chain \cup Lineage(b)
  /\ ~failed => Chain \cap Lineage(b) \subseteq Lineage(tip')
  /\ kept' \subseteq Known \ Lineage(tip')
  /\ kept \ Lineage(tip') \subseteq kept'
  /\ failed' = TRUE

\* A new process finds the chain as it was and has kept nothing.
Restart ==
  /\ kept' = {}
  /\ failed' = FALSE
  /\ UNCHANGED tip

Init == tip \in Starts /\ kept = {} /\ failed = FALSE

Next ==
  \/ \E b \in Block : Keep(b) \/ Switch(b) \/ Fail(b)
  \/ Restart

Spec == Init /\ [][Next]_vars
==========================================================================
