------------------------- MODULE MCBlockOrganizer -------------------------
(* A tree with two forks, one deep and one at the top, and an invalid leaf. *)
EXTENDS BlockOrganizer

CONSTANTS g, a1, a2, a3, b1, b2, c2, x2

MCParent ==
  [b \in {a1, a2, a3, b1, b2, c2, x2} |->
     CASE b = a1 -> g [] b = a2 -> a1 [] b = a3 -> a2
       [] b = b1 -> g [] b = b2 -> b1
       [] b = c2 -> a1 [] b = x2 -> a1]

RECURSIVE MCAncestorsOf(_)
MCAncestorsOf(b) ==
  IF b = g THEN {} ELSE {MCParent[b]} \cup MCAncestorsOf(MCParent[b])

MCBlock == {g, a1, a2, a3, b1, b2, c2, x2}
MCAncestors == [b \in MCBlock |-> MCAncestorsOf(b)]

RECURSIVE MCHeightOf(_)
MCHeightOf(b) == IF b = g THEN 0 ELSE 1 + MCHeightOf(MCParent[b])
MCHeight == [b \in MCBlock |-> MCHeightOf(b)]

\* b1 weighs as much as a1 and c2 as a2; b2 weighs more than a2, a3 more than b2.
Proof(b) == IF b = b2 THEN 3 ELSE 2
RECURSIVE MCWorkOf(_)
MCWorkOf(b) == IF b = g THEN 2 ELSE Proof(b) + MCWorkOf(MCParent[b])
MCTotalWork == [b \in MCBlock |-> MCWorkOf(b)]

MCValid == MCBlock \ {x2}
==========================================================================
