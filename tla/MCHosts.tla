------------------------------ MODULE MCHosts ------------------------------
(***************************************************************************)
(* A buffer of four for five addresses, one of them without a port; the    *)
(* lists of a peer: none, one, with duplicates and an invalid one where    *)
(* the sampling steps, as many as there is room for, and more.             *)
(***************************************************************************)
EXTENDS Hosts

CONSTANTS a, b, c, d, p

Told ==
  {<<>>, <<a>>, <<b, a, Invalid>>, <<d, c, p, b>>, <<c, d, p, b, a>>}

\* ... and a list that adds nothing when its first address is known already
ToldMore == Told \cup {<<p, b>>}
=============================================================================
