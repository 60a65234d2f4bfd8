--------------------------- MODULE MCRmdWorkload ---------------------------
(***************************************************************************)
(* Small clusters for RmdWorkload: label maps, specs and names for the     *)
(* .cfg files to choose from.                                              *)
(***************************************************************************)
EXTENDS RmdWorkload, TLC

NoLabels  == [x \in {} |-> x]
Rdt       == [rdt |-> "yes"]
RdtZone   == [rdt |-> "yes", zone |-> "a"]
OtherZone == [zone |-> "a"]

OwnName    == [k \in Keys |-> k]

AllRdt    == [n \in Nodes |-> Rdt]

OnlyRdt   == {Rdt}
LostRdt   == {Rdt, RdtZone, OtherZone}

On(ns)         == [nodes |-> ns, nodeSelector |-> NoLabels]
Selecting(sel) == [nodes |-> {}, nodeSelector |-> sel]

\* The two keys are alike.  Either pods stop and nodes are forgotten, or requests
\* fail and the operator restarts.
Alike == Permutations(Keys)

TwoKindsOfUpset ==
  \/ spent.stops = 0 /\ spent.forgets = 0
  \/ spent.faults = 0 /\ spent.restarts = 0

Everywhere == {On(Nodes)}
FirstOrZone == {On({CHOOSE n \in Nodes : TRUE}), Selecting(OtherZone)}
=============================================================================
