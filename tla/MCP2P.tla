------------------------------- MODULE MCP2P -------------------------------
(***************************************************************************)
(* Two channel objects for one outbound slot with batches of two connects, *)
(* a manual connection and incoming ones, from a peer and from the node    *)
(* itself, whose own address is among those it connects to.                *)
(***************************************************************************)
EXTENDS P2P
=============================================================================
