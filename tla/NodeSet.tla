------------------------------ MODULE NodeSet ------------------------------
(***************************************************************************)
(* What callers may take RmdNodeData for, as long as no addition overlaps  *)
(* a deletion: a set of nodes that an addition changes in one step, when   *)
(* it returns, and a deletion in one step, before it returns.  The modules *)
(* of the controllers use a set in this sense.                             *)
(***************************************************************************)
CONSTANTS Nodes, None

VARIABLES
  nodes,       \* the set
  adding,      \* the node that is being added, or None
  removing,    \* the node that is being removed, or None
  overlapped   \* has an addition overlapped a removal?

vars == <<nodes, adding, removing, overlapped>>

Init == nodes = {} /\ adding = None /\ removing = None /\ overlapped = FALSE

CallAdd(n) ==
  /\ adding = None /\ removing = None
  /\ adding' = n
  /\ UNCHANGED <<nodes, removing>>

Add ==
  /\ adding # None
  /\ nodes' = nodes \cup {adding} /\ adding' = None
  /\ UNCHANGED removing

CallRemove(n) ==
  /\ adding = None /\ removing = None
  /\ removing' = n
  /\ UNCHANGED <<nodes, adding>>

Remove ==
  /\ removing # None
  /\ nodes' = nodes \ {removing}
  /\ UNCHANGED <<adding, removing>>

Removed ==
  /\ removing # None /\ removing \notin nodes
  /\ removing' = None
  /\ UNCHANGED <<nodes, adding>>

\* From then on nothing is promised.
Overlap == overlapped' = TRUE

Next ==
  \/ /\ ~overlapped /\ overlapped' = FALSE
     /\ \/ \E n \in Nodes : CallAdd(n) \/ CallRemove(n)
        \/ Add \/ Remove \/ Removed
  \/ Overlap

Spec == Init /\ [][Next]_vars
=============================================================================
