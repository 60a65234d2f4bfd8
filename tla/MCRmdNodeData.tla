--------------------------- MODULE MCRmdNodeData ---------------------------
(***************************************************************************)
(* RmdNodeData on a few interchangeable nodes.                             *)
(***************************************************************************)
EXTENDS RmdNodeData, TLC

Perms == Permutations(Nodes)
=============================================================================
