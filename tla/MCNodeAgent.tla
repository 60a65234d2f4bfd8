---------------------------- MODULE MCNodeAgent ----------------------------
(***************************************************************************)
(* Pods for NodeAgent: two containers with CPUs of their own, one with a   *)
(* limit of 0; one without CPUs and an init container, which the kubelet   *)
(* does not list; or just one.                                             *)
(***************************************************************************)
EXTENDS NodeAgent

CONSTANTS c1, c2

OwnName == [p \in PodKeys |-> p]

Pins(c)     == [name |-> c, asks |-> TRUE, cache |-> 2, exclusive |-> TRUE, init |-> FALSE]
PinsNone(c) == [Pins(c) EXCEPT !.cache = 0]
Shares(c)   == [Pins(c) EXCEPT !.exclusive = FALSE]
InitPins(c) == [Pins(c) EXCEPT !.init = TRUE]

On(n, cs) == [node |-> n, containers |-> cs]

OnePinned == {On(n, {Pins(c1)}) : n \in Nodes}
Mixed == {On(n, {Pins(c1), PinsNone(c2)}) : n \in Nodes}
         \cup {On(n, {Shares(c1), InitPins(c2)}) : n \in Nodes}
=============================================================================
