----------------------------- MODULE Prevouts -----------------------------
(***************************************************************************)
(* kth::blockchain::populate_block: where the previous outputs of a block  *)
(* are looked for before it is accepted.  The block is the top of a branch *)
(* that leaves the chain at a fork point, so the unspent outputs in the    *)
(* store are those of another branch.  They are corrected by height, by    *)
(* the outputs of the branch and by what the chain spends above the fork.  *)
(***************************************************************************)
EXTENDS ReorgStore

\* branch::height() and the blocks above it.
Branch(b) == {a \in Lineage(b) : \A h \in 0..top : chain[h] # a}
ForkHeight(b) == CHOOSE h \in 0..top :
  chain[h] \in Lineage(b) /\ \A k \in 0..top : chain[k] \in Lineage(b) => k <= h

\* Mutant: the height of the entry is not compared with the branch.
IsInStoreAnywhere(b, o) == o \in DOMAIN utxo

\* block_chain::get_utxo
IsInStore(b, o) == o \in DOMAIN utxo /\ utxo[o] <= ForkHeight(b)

\* branch::populate_prevout, from the top of the branch down.
CreatorsIn(b, o) == {a \in Branch(b) : o \in Creates[a]}
IsInBranch(b, o) == CreatorsIn(b, o) # {}
Creator(b, o) ==
  CHOOSE a \in CreatorsIn(b, o) : \A c \in CreatorsIn(b, o) : Height[c] <= Height[a]

\* get_utxo_pool_from the block after the fork to the top of the chain.
IsInReorgSubset(b, o) ==
  \E entry \in reorg_index : entry[1] > ForkHeight(b) /\ entry[2] = o

IsFound(b, o) == IsInStore(b, o) \/ IsInBranch(b, o) \/ IsInReorgSubset(b, o)

\* prevout.height, which decides whether a coinbase is mature.
PrevoutHeight(b, o) ==
  CASE IsInStore(b, o) -> utxo[o]
    [] ~IsInStore(b, o) /\ IsInBranch(b, o) -> Height[Creator(b, o)]
    [] OTHER -> reorg_pool[o]

\* branch::populate_spent: the top of the branch is not asked.
IsSpent(b, o) == \E a \in Branch(b) \ {b} : o \in Spends[a]

-----------------------------------------------------------------------------
\* Populating runs inside the validation mutex, beside prune jobs only; and the
\* branch must fork where the chain can still be popped.
CanFork(b) ==
  /\ goal = NoBlock
  /\ b \notin {chain[h] : h \in 0..top}
  /\ \A h \in ForkHeight(b) + 1 .. top : h \in DOMAIN reorg_block

\* Every output a valid block spends is found, unspent and with the height it
\* has along the branch, although the tables describe another branch.
PrevoutsAreRight ==
  \A b \in Block : CanFork(b) =>
    \A o \in Spends[b] :
      /\ IsFound(b, o)
      /\ ~IsSpent(b, o)
      /\ PrevoutHeight(b, o) = With(Unspent[Parent[b]], Creates[b], Height[b])[o]
===========================================================================
