--------------------------- MODULE AtomicStore ---------------------------
(***************************************************************************)
(* What kth::database::data_base::reorganize promises, without blocks that *)
(* are popped and pushed one by one, tables that allow it, prune jobs and  *)
(* crashes: a branch is reorganized in one step or fails in one step, and  *)
(* afterwards the unspent outputs are those of the block the chain ends    *)
(* with.  It is what BestChain and BlockOrganizer take for granted of the  *)
(* store; ReorgStore implements it (ReorgStoreProofs).                     *)
(***************************************************************************)
EXTENDS BlockTree

CONSTANT Unspent    \* for each block, the outputs unspent after it

VARIABLES
  tip,       \* the block the chain ends with
  outputs    \* the unspent outputs

vars == <<tip, outputs>>

IsHeavier(b) == TotalWork[b] > TotalWork[tip]

Reorganize(b) ==
  /\ IsHeavier(b)
  /\ tip' = b
  /\ outputs' = Unspent[b]

\* A failure or a crash on the way: some blocks were popped, or all of them were
\* and some of the branch were pushed.  The fork is never undone.
BreakOff(b) ==
  /\ IsHeavier(b)
  /\ tip' \in Lineage(tip) \cup Lineage(b)
  /\ Lineage(tip) \cap Lineage(b) \subseteq Lineage(tip')
  /\ outputs' = Unspent[tip']

Init == tip = Genesis /\ outputs = Unspent[Genesis]

Next == \E b \in Block : Reorganize(b) \/ BreakOff(b)

Spec == Init /\ [][Next]_vars
==========================================================================
