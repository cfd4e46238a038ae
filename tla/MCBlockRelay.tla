--------------------------- MODULE MCBlockRelay ---------------------------
(* A small tree for BlockRelay: a trunk and two branches of two blocks, so *)
(* that the longest chain takes two requests of two headers.               *)
EXTENDS BlockRelay, TLC

CONSTANTS g, t, a1, a2, b1, b2

MCBlock == {g, t, a1, a2, b1, b2}
MCParent == (t :> g) @@ (a1 :> t) @@ (a2 :> a1) @@ (b1 :> t) @@ (b2 :> b1)
MCHeight == (g :> 0) @@ (t :> 1) @@ (a1 :> 2) @@ (a2 :> 3) @@ (b1 :> 2) @@ (b2 :> 3)
MCAncestors == (g :> {}) @@ (t :> {g}) @@ (a1 :> {g, t}) @@ (a2 :> {g, t, a1})
               @@ (b1 :> {g, t}) @@ (b2 :> {g, t, b1})
MCTotalWork == (g :> 0) @@ (t :> 1) @@ (a1 :> 2) @@ (a2 :> 3) @@ (b1 :> 2) @@ (b2 :> 4)
==========================================================================
