--------------------------- MODULE MCReorgStore ---------------------------
(* Two branches that share a transaction at different heights. *)
EXTENDS Prevouts

CONSTANTS g, a1, a2, a3, a4, b2, b3, o1, o2, o3, o4, o5

MCBlock == {g, a1, a2, a3, a4, b2, b3}
MCParent ==
  [b \in MCBlock \ {g} |->
     CASE b = a1 -> g [] b = a2 -> a1 [] b = a3 -> a2 [] b = a4 -> a3
       [] b = b2 -> a1 [] b = b3 -> b2]
MCHeight ==
  [b \in MCBlock |-> CASE b = g -> 0 [] b = a1 -> 1 [] b \in {a2, b2} -> 2
                       [] b \in {a3, b3} -> 3 [] b = a4 -> 4]

RECURSIVE MCAncestorsOf(_)
MCAncestorsOf(b) ==
  IF b = g THEN {} ELSE {MCParent[b]} \cup MCAncestorsOf(MCParent[b])
MCAncestors == [b \in MCBlock |-> MCAncestorsOf(b)]

\* b2 is heavier than a2, b3 than a3 and a4 than b3.
MCTotalWork ==
  [b \in MCBlock |-> CASE b = g -> 1 [] b = a1 -> 2 [] b = a2 -> 3 [] b = b2 -> 4
                       [] b = a3 -> 5 [] b = b3 -> 6 [] b = a4 -> 7]

\* o1 of a1 is spent by a2 and by b3; o2 is created by a3 and, a block lower, by
\* b2; o3 is the coinbase of a2 and o4 that of b2; o5 is spent where it is created.
MCCreates ==
  [b \in MCBlock |-> CASE b = a1 -> {o1} [] b = a2 -> {o3} [] b = a3 -> {o2, o5}
                       [] b = b2 -> {o2, o4} [] OTHER -> {}]
MCSpends ==
  [b \in MCBlock |-> CASE b = a2 -> {o1} [] b = a3 -> {o5} [] b = a4 -> {o3}
                       [] b = b3 -> {o1, o2} [] OTHER -> {}]

RECURSIVE MCUnspentOf(_)
MCUnspentOf(b) ==
  IF b = g THEN [o \in {} |-> 0]
  ELSE UnspentAfter(MCUnspentOf(MCParent[b]), b, MCHeight[b])
MCUnspent == [b \in MCBlock |-> MCUnspentOf(b)]

\* The timestamp of a3 is behind that of a2, and of b3 ahead.
MCTimestamp ==
  [b \in MCBlock |-> CASE b \in {g, a1, b2} -> 0 [] b = a3 -> 0 [] b = a2 -> 1
                       [] b \in {a4, b3} -> 2]
===========================================================================
