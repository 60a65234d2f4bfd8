---------------------------- MODULE WorkloadStore ----------------------------
(***************************************************************************)
(* What the RmdWorkload controller promises about the RMD servers of the   *)
(* cluster while their pods stay: one store with at most one workload of a *)
(* name on a node, in which one name at a time has its turn.  Only its own *)
(* workload changes then, on one node after the other, and it is removed   *)
(* or takes on a version that is not older.                                *)
(***************************************************************************)
EXTENDS Naturals

CONSTANTS
  Nodes, Names, None,
  Versions   \* the versions a workload can have, numbers

VARIABLES
  store,   \* [Nodes -> [Names -> version or None]]
  turn,    \* the name that is worked on, or None
  kept     \* has every server kept its workloads?

vars == <<store, turn, kept>>

Init ==
  /\ store = [n \in Nodes |-> [name \in Names |-> None]]
  /\ turn = None
  /\ kept = TRUE

Begin(name) == turn = None /\ turn' = name /\ UNCHANGED store

End == turn' = None /\ UNCHANGED store

Becomes(n, version) == store' = [store EXCEPT ![n] = [@ EXCEPT ![turn] = version]]

Configure(n, version) ==
  /\ turn # None
  /\ store[n][turn] = None \/ store[n][turn] <= version
  /\ Becomes(n, version)
  /\ UNCHANGED turn

\* The turn may end with it, as the answer may be lost.
Remove(n) == turn # None /\ Becomes(n, None) /\ turn' \in {turn, None}

\* A pod stops: nothing is promised from then on.
Lose == kept' = FALSE

Next ==
  \/ /\ kept /\ kept' = TRUE
     /\ \/ \E name \in Names : Begin(name)
        \/ \E n \in Nodes : Remove(n) \/ \E version \in Versions : Configure(n, version)
        \/ End
  \/ Lose

Spec == Init /\ [][Next]_vars
=============================================================================
