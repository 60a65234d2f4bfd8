---------------------------- MODULE MCRmdConfig ----------------------------
(***************************************************************************)
(* Two node labels and a few selectors over them for RmdConfig.            *)
(***************************************************************************)
EXTENDS RmdConfig

CONSTANTS rdt, zone

Rdt == {rdt}
AllRdt == [n \in Nodes |-> Rdt]

\* Three changes by users and nodes, at most two of them upsets.
Budget == spent.edits + spent.upsets <= 3

SomeSelectors == {{rdt}, {rdt, zone}}
NoSelector == {{}}

MaybeZone == {{rdt}, {rdt, zone}}
=============================================================================
