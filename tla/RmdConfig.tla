----------------------------- MODULE RmdConfig -----------------------------
(***************************************************************************)
(* Deployment of RMD (pkg/controller/rmdconfig, pkg/controller/            *)
(* rmdnodestate): the RmdConfig controller keeps two DaemonSets and one    *)
(* RmdNodeState per labelled node, and adds the nodes to RmdNodeList; the  *)
(* RmdNodeState controller takes a node off the list when its RmdNodeState *)
(* is gone.  Both read a cache that runs behind the API server, each in a  *)
(* goroutine of its own.                                                   *)
(***************************************************************************)
EXTENDS Naturals, FiniteSets

CONSTANTS
  Nodes,             \* node names
  Labels,            \* node labels, each present or absent
  Selectors,         \* the values of rmdNodeSelector users write
  ManifestSelector,  \* nodeSelector of the DaemonSet manifests
  LabelSets,         \* the labels a node may have
  InitialLabels,     \* [Nodes -> LabelSets]
  None,
  MaxEdits,          \* user edits of the RmdConfig
  MaxUpsets          \* relabelled nodes, restarts of the operator, DaemonSets and
                     \* RmdNodeStates that users delete

ASSUME ConfigConstants ==
  /\ Selectors \subseteq SUBSET Labels /\ ManifestSelector \subseteq Labels
  /\ LabelSets \subseteq SUBSET Labels /\ InitialLabels \in [Nodes -> LabelSets]
  /\ MaxEdits \in Nat /\ MaxUpsets \in Nat

DaemonSets == {"rmd", "rmd-node-agent"}

VARIABLES
  \* API server
  config,        \* the RmdConfig, or None
  daemonSets,    \* the DaemonSets, or None
  nodeStates,    \* per node the owner of its RmdNodeState, or None
  behind,        \* nodes whose RmdNodeState has events the watch will deliver
  labels,
  \* operator
  seen,          \* the informers' cache of the first three
  request,       \* the RmdConfig is in its work queue, or will be in 5 seconds
  nodeRequests,  \* nodes whose RmdNodeState is in the other work queue
  pc,            \* where the RmdConfig worker is
  rmdConfig,     \* the copy it works on
  todo,          \* labelled nodes it has not come to
  at,            \* the node it is busy with, or None
  rmdNodeList,   \* RmdNodeData.RmdNodeList, as a set
  gone,          \* the node whose RmdNodeState the other worker missed, or None
  \* history
  overlapped,    \* nodes taken off the list while the worker was busy with them
  spent

objects == <<config, daemonSets, nodeStates, behind>>
queues == <<request, nodeRequests>>
pass == <<pc, rmdConfig, todo, at>>
vars == <<objects, labels, seen, queues, pass, rmdNodeList, gone, overlapped, spent>>

Uids == 1..MaxEdits

RmdConfigs == [uid : Uids, rmdNodeSelector : Selectors, deployNodeAgent : BOOLEAN,
               nodes : SUBSET Nodes]

DaemonSet == [nodeSelector : Selectors \cup {ManifestSelector}, owner : Uids]

\* client.MatchingLabels: the nodes that have every label of the selector.
Matching(selector) == {n \in Nodes : selector \subseteq labels[n]}

Init ==
  /\ config = None
  /\ daemonSets = [d \in DaemonSets |-> None]
  /\ nodeStates = [n \in Nodes |-> None] /\ behind = {}
  /\ labels = InitialLabels
  /\ seen = [config |-> config, daemonSets |-> daemonSets, nodeStates |-> nodeStates]
  /\ request = FALSE /\ nodeRequests = {}
  /\ pc = "idle" /\ rmdConfig = None /\ todo = {} /\ at = None
  /\ rmdNodeList = {} /\ gone = None /\ overlapped = {}
  /\ spent = [edits |-> 0, upsets |-> 0]

(***************************************************************************)
(* Users, node feature discovery and the garbage collector.                *)
(***************************************************************************)
Spend(what, max) == spent[what] < max /\ spent' = [spent EXCEPT ![what] = @ + 1]

\* Create the RmdConfig, with a uid of its own, or change its spec.
ApplyConfig(selector, agent) ==
  /\ Spend("edits", MaxEdits)
  /\ config' =
       IF config = None
       THEN [uid |-> spent.edits + 1, rmdNodeSelector |-> selector,
             deployNodeAgent |-> agent, nodes |-> {}]
       ELSE [config EXCEPT !.rmdNodeSelector = selector, !.deployNodeAgent = agent]
  /\ UNCHANGED <<daemonSets, nodeStates, behind, labels, seen, queues, pass, rmdNodeList, gone, overlapped>>

DeleteConfig ==
  /\ config # None
  /\ Spend("edits", MaxEdits)
  /\ config' = None
  /\ UNCHANGED <<daemonSets, nodeStates, behind, labels, seen, queues, pass, rmdNodeList, gone, overlapped>>

\* Its owner is gone (what never had one is nobody's garbage).
Orphan(owner) == owner \in Uids \ (IF config = None THEN {} ELSE {config.uid})

\* An object goes when a user deletes it or its owner is gone.
Goes(collected) == IF collected THEN UNCHANGED spent ELSE Spend("upsets", MaxUpsets)

DropDaemonSet(d, collected) ==
  /\ daemonSets[d] # None
  /\ collected => Orphan(daemonSets[d].owner)
  /\ Goes(collected)
  /\ daemonSets' = [daemonSets EXCEPT ![d] = None]
  /\ UNCHANGED <<config, nodeStates, behind, labels, seen, queues, pass, rmdNodeList, gone, overlapped>>

\* Created or deleted: the watch delivers both events even if they cancel out.
NodeStateBecomes(n, owner) ==
  nodeStates' = [nodeStates EXCEPT ![n] = owner] /\ behind' = behind \cup {n}

DropNodeState(n, collected) ==
  /\ nodeStates[n] # None
  /\ collected => Orphan(nodeStates[n])
  /\ Goes(collected)
  /\ NodeStateBecomes(n, None)
  /\ UNCHANGED <<config, daemonSets, labels, seen, queues, pass, rmdNodeList, gone, overlapped>>

Relabel(n, ls) ==
  /\ ls # labels[n]
  /\ Spend("upsets", MaxUpsets)
  /\ labels' = [labels EXCEPT ![n] = ls]
  /\ UNCHANGED <<objects, seen, queues, pass, rmdNodeList, gone, overlapped>>

(***************************************************************************)
(* Watches.  An event of the RmdConfig, or of an object it owns, puts it   *)
(* in its work queue; one of an RmdNodeState puts that in the other, too.  *)
(***************************************************************************)
SyncConfig ==
  /\ seen.config # config
  /\ seen' = [seen EXCEPT !.config = config]
  /\ request' = TRUE
  /\ UNCHANGED <<objects, labels, nodeRequests, pass, rmdNodeList, gone, overlapped, spent>>

SyncDaemonSets ==
  /\ seen.daemonSets # daemonSets
  /\ seen' = [seen EXCEPT !.daemonSets = daemonSets]
  /\ request' = TRUE
  /\ UNCHANGED <<objects, labels, nodeRequests, pass, rmdNodeList, gone, overlapped, spent>>

SyncNodeStateKept(n) ==   \* wrong: a deletion is no event for the RmdNodeState controller
  /\ n \in behind /\ behind' = behind \ {n}
  /\ seen' = [seen EXCEPT !.nodeStates[n] = nodeStates[n]]
  /\ request' = TRUE
  /\ nodeRequests' = IF nodeStates[n] = None THEN nodeRequests ELSE nodeRequests \cup {n}
  /\ UNCHANGED <<config, daemonSets, nodeStates, labels, pass, rmdNodeList, gone, overlapped, spent>>

SyncNodeState(n) ==
  /\ n \in behind /\ behind' = behind \ {n}
  /\ seen' = [seen EXCEPT !.nodeStates[n] = nodeStates[n]]
  /\ request' = TRUE /\ nodeRequests' = nodeRequests \cup {n}
  /\ UNCHANGED <<config, daemonSets, nodeStates, labels, pass, rmdNodeList, gone, overlapped, spent>>

(***************************************************************************)
(* Reconcile of the RmdConfig controller.                                  *)
(***************************************************************************)
Rest == pc' = "idle" /\ rmdConfig' = None /\ todo' = {} /\ at' = None

\* return reconcile.Result{RequeueAfter: time.Second * 5}, nil
RequeueAfter == Rest /\ request' = TRUE

\* return reconcile.Result{}, err: the work queue retries, after another delay.
Fail == RequeueAfter

Reaches(where) == pc' = where /\ UNCHANGED <<rmdConfig, todo, at, request>>

ReconcileAny ==   \* wrong: a deleted RmdConfig is reconciled like any other
  /\ pc = "idle" /\ request
  /\ request' = FALSE
  /\ pc' = "rmd" /\ rmdConfig' = seen.config /\ UNCHANGED <<todo, at>>
  /\ UNCHANGED <<objects, labels, seen, nodeRequests, rmdNodeList, gone, overlapped, spent>>

\* Fetch the RmdConfig from the cache; a deleted one is left to the garbage
\* collector.
Reconcile ==
  /\ pc = "idle" /\ request
  /\ request' = FALSE
  /\ IF seen.config = None THEN UNCHANGED pass
     ELSE pc' = "rmd" /\ rmdConfig' = seen.config /\ UNCHANGED <<todo, at>>
  /\ UNCHANGED <<objects, labels, seen, nodeRequests, rmdNodeList, gone, overlapped, spent>>

NewDaemonSetUnowned ==   \* wrong: without SetControllerReference
  [nodeSelector |-> IF rmdConfig.rmdNodeSelector = {} THEN ManifestSelector
                    ELSE rmdConfig.rmdNodeSelector,
   owner |-> None]

\* A DaemonSet built from the manifest takes rmdNodeSelector unless that is empty.
NewDaemonSet ==
  [nodeSelector |-> IF rmdConfig.rmdNodeSelector = {} THEN ManifestSelector
                    ELSE rmdConfig.rmdNodeSelector,
   owner |-> rmdConfig.uid]

CreateDaemonSetOnce(d, next) ==   \* wrong: a DaemonSet that is present is left alone
  \/ /\ seen.daemonSets[d] = None /\ daemonSets[d] = None
     /\ daemonSets' = [daemonSets EXCEPT ![d] = NewDaemonSet]
     /\ Reaches(next)
  \/ /\ seen.daemonSets[d] = None /\ daemonSets[d] # None
     /\ Fail /\ UNCHANGED daemonSets
  \/ /\ seen.daemonSets[d] # None
     /\ Reaches(next) /\ UNCHANGED daemonSets

\* createDaemonSetIfNotPresent: Create fails if the cache missed the DaemonSet,
\* Update if it shows an older one (with another content: versions are not kept).
CreateDaemonSet(d, next) ==
  \/ /\ seen.daemonSets[d] = None /\ daemonSets[d] = None
     /\ daemonSets' = [daemonSets EXCEPT ![d] = NewDaemonSet]
     /\ Reaches(next)
  \/ /\ seen.daemonSets[d] = None /\ daemonSets[d] # None
     /\ Fail /\ UNCHANGED daemonSets
  \/ /\ seen.daemonSets[d] # None
     /\ seen.daemonSets[d].nodeSelector = rmdConfig.rmdNodeSelector
     /\ Reaches(next) /\ UNCHANGED daemonSets
  \/ /\ seen.daemonSets[d] # None
     /\ seen.daemonSets[d].nodeSelector # rmdConfig.rmdNodeSelector
     /\ IF seen.daemonSets[d] = daemonSets[d]
        THEN /\ daemonSets' = [daemonSets EXCEPT ![d].nodeSelector = rmdConfig.rmdNodeSelector]
             /\ Reaches(next)
        ELSE Fail /\ UNCHANGED daemonSets

\* deleteDaemonSetIfPresent: Delete fails if the DaemonSet has gone.
DeleteDaemonSet(d, next) ==
  \/ seen.daemonSets[d] = None /\ Reaches(next) /\ UNCHANGED daemonSets
  \/ /\ seen.daemonSets[d] # None
     /\ daemonSets' = [daemonSets EXCEPT ![d] = None]
     /\ IF daemonSets[d] = None THEN Fail ELSE Reaches(next)

DeployRmd ==
  /\ pc = "rmd"
  /\ CreateDaemonSet("rmd", "agent")
  /\ UNCHANGED <<config, nodeStates, behind, labels, seen, nodeRequests, rmdNodeList, gone, overlapped, spent>>

DeployNodeAgent ==
  /\ pc = "agent"
  /\ IF rmdConfig.deployNodeAgent THEN CreateDaemonSet("rmd-node-agent", "list")
     ELSE DeleteDaemonSet("rmd-node-agent", "list")
  /\ UNCHANGED <<config, nodeStates, behind, labels, seen, nodeRequests, rmdNodeList, gone, overlapped, spent>>

\* List the nodes that match; without one, look again in 5 seconds.
ListNodes ==
  /\ pc = "list"
  /\ LET labelledNodeList == Matching(rmdConfig.rmdNodeSelector)
     IN IF labelledNodeList = {} THEN RequeueAfter
        ELSE /\ pc' = "nodes" /\ todo' = labelledNodeList
             /\ UNCHANGED <<rmdConfig, at, request>>
  /\ UNCHANGED <<objects, labels, seen, nodeRequests, rmdNodeList, gone, overlapped, spent>>

\* createNodeStateIfNotPresent ...
CreateNodeState(n) ==
  /\ pc = "nodes" /\ at = None /\ n \in todo
  /\ IF seen.nodeStates[n] = None /\ nodeStates[n] # None
     THEN Fail /\ UNCHANGED <<nodeStates, behind>>
     ELSE /\ IF seen.nodeStates[n] = None
             THEN NodeStateBecomes(n, rmdConfig.uid)
             ELSE UNCHANGED <<nodeStates, behind>>
          /\ at' = n /\ todo' = todo \ {n}
          /\ UNCHANGED <<pc, rmdConfig, request>>
  /\ UNCHANGED <<config, daemonSets, labels, seen, nodeRequests, rmdNodeList, gone, overlapped, spent>>

\* ... and only then UpdateRmdNodeData.
UpdateRmdNodeData ==
  /\ pc = "nodes" /\ at # None
  /\ rmdNodeList' = rmdNodeList \cup {at}
  /\ at' = None
  /\ UNCHANGED <<objects, labels, seen, queues, pc, rmdConfig, todo, gone, overlapped, spent>>

\* Status().Update: an error, of an RmdConfig that changed since the cache saw
\* it, is only logged.
UpdateStatus ==
  /\ pc = "nodes" /\ at = None /\ todo = {}
  /\ config' = IF config = rmdConfig THEN [config EXCEPT !.nodes = rmdNodeList] ELSE config
  /\ RequeueAfter
  /\ UNCHANGED <<daemonSets, nodeStates, behind, labels, seen, nodeRequests, rmdNodeList, gone, overlapped, spent>>

(***************************************************************************)
(* Reconcile of the RmdNodeState controller, as far as the list goes.      *)
(***************************************************************************)
ReconcileNodeStateNever(n) ==   \* wrong: a deleted RmdNodeState stays in the list
  /\ gone = None /\ n \in nodeRequests
  /\ nodeRequests' = nodeRequests \ {n}
  /\ UNCHANGED <<objects, labels, seen, request, pass, rmdNodeList, gone, overlapped, spent>>

\* Fetch the RmdNodeState from the cache ...
ReconcileNodeState(n) ==
  /\ gone = None /\ n \in nodeRequests
  /\ nodeRequests' = nodeRequests \ {n}
  /\ gone' = IF seen.nodeStates[n] = None THEN n ELSE None
  /\ UNCHANGED <<objects, labels, seen, request, pass, rmdNodeList, overlapped, spent>>

\* ... and take the node off the list if there was none.
DeleteRmdNodeData ==
  /\ gone # None
  /\ rmdNodeList' = rmdNodeList \ {gone}
  /\ overlapped' = IF at = gone THEN overlapped \cup {gone} ELSE overlapped
  /\ gone' = None
  /\ UNCHANGED <<objects, labels, seen, queues, pass, spent>>

\* A new process: empty list, caches read anew, a request for all it reads.
OperatorRestarts ==
  /\ Spend("upsets", MaxUpsets)
  /\ seen' = [config |-> config, daemonSets |-> daemonSets, nodeStates |-> nodeStates]
  /\ request' = TRUE
  /\ nodeRequests' = {n \in Nodes : nodeStates[n] # None}
  /\ Rest
  /\ rmdNodeList' = {} /\ gone' = None /\ overlapped' = {} /\ behind' = {}
  /\ UNCHANGED <<config, daemonSets, nodeStates, labels>>

Worker ==
  \/ DeployRmd \/ DeployNodeAgent \/ ListNodes
  \/ \E n \in Nodes : CreateNodeState(n)
  \/ UpdateRmdNodeData \/ UpdateStatus

Deliver ==
  SyncConfig \/ SyncDaemonSets \/ (\E n \in Nodes : SyncNodeState(n))

Collect ==
  \/ \E d \in DaemonSets : DropDaemonSet(d, TRUE)
  \/ \E n \in Nodes : DropNodeState(n, TRUE)

Next ==
  \/ Reconcile \/ Worker
  \/ \E n \in Nodes : ReconcileNodeState(n)
  \/ DeleteRmdNodeData
  \/ Deliver \/ Collect
  \/ \E selector \in Selectors, agent \in BOOLEAN : ApplyConfig(selector, agent)
  \/ DeleteConfig
  \/ \E d \in DaemonSets : DropDaemonSet(d, FALSE)
  \/ \E n \in Nodes : DropNodeState(n, FALSE)
  \/ \E n \in Nodes, ls \in LabelSets : Relabel(n, ls)
  \/ OperatorRestarts

Spec == Init /\ [][Next]_vars

(***************************************************************************)
(* Both workers run, watches deliver and the garbage collector collects.   *)
(* Users, labels and restarts owe nothing.                                 *)
(***************************************************************************)
Fairness ==
  /\ WF_vars(Reconcile) /\ WF_vars(Worker)
  /\ \A n \in Nodes : WF_vars(ReconcileNodeState(n)) /\ WF_vars(SyncNodeState(n))
                      /\ WF_vars(DropNodeState(n, TRUE))
  /\ WF_vars(DeleteRmdNodeData)
  /\ \A d \in DaemonSets : WF_vars(DropDaemonSet(d, TRUE))
  /\ WF_vars(SyncConfig) /\ WF_vars(SyncDaemonSets)

FairSpec == Spec /\ Fairness

(***************************************************************************)
(* Properties.                                                             *)
(***************************************************************************)
\* Types of all variables; the worker has an RmdConfig exactly while it works.
TypeOK ==
  /\ config \in RmdConfigs \cup {None}
  /\ daemonSets \in [DaemonSets -> DaemonSet \cup {None}]
  /\ nodeStates \in [Nodes -> Uids \cup {None}] /\ behind \subseteq Nodes
  /\ labels \in [Nodes -> LabelSets]
  /\ seen \in [config : RmdConfigs \cup {None}, daemonSets : [DaemonSets -> DaemonSet \cup {None}],
              nodeStates : [Nodes -> Uids \cup {None}]]
  /\ request \in BOOLEAN /\ nodeRequests \subseteq Nodes
  /\ pc \in {"idle", "rmd", "agent", "list", "nodes"}
  /\ IF pc = "idle" THEN rmdConfig = None ELSE rmdConfig \in RmdConfigs
  /\ todo \cup rmdNodeList \cup overlapped \subseteq Nodes
  /\ at \in Nodes \cup {None} /\ gone \in Nodes \cup {None}
  /\ spent \in [edits : 0..MaxEdits, upsets : 0..MaxUpsets]

\* What EventuallyForgotten rests on: no order of the two workers, the watch and
\* the garbage collector loses the one event that takes a node off the list.  A
\* node in the list, or about to be added, has an RmdNodeState, or the other
\* worker has still to look and to delete (or did so while this one was at that node); and the
\* cache differs from the API server only where the watch has still to deliver.
NoEventLost ==
  /\ \A n \in rmdNodeList \cup {at} : n # None =>
       nodeStates[n] # None \/ n \in behind \cup nodeRequests \cup {gone} \cup overlapped
  /\ \A n \in Nodes : seen.nodeStates[n] # nodeStates[n] => n \in behind

\* Once users, labels and the operator leave it alone, an RmdConfig is deployed:
\* the DaemonSets have its selector, the node agent runs if it should, every
\* matching node has an RmdNodeState and is in the list and in the status; in
\* whatever order caches, garbage collection and the other worker moved.
Labelled == Matching(config.rmdNodeSelector)

HasDaemonSet(d) ==
  daemonSets[d] # None /\ daemonSets[d].nodeSelector = config.rmdNodeSelector
                       /\ daemonSets[d].owner = config.uid

Deployed ==
  config # None =>
    /\ HasDaemonSet("rmd")
    /\ IF config.deployNodeAgent THEN HasDaemonSet("rmd-node-agent")
       ELSE daemonSets["rmd-node-agent"] = None
    /\ \A n \in Labelled : nodeStates[n] = config.uid
    /\ Labelled \subseteq rmdNodeList
    /\ Labelled # {} => config.nodes = rmdNodeList

EventuallyDeployed == <>[]Deployed

\* After an RmdConfig is deleted nothing it owns is left, although the worker
\* may still be creating objects for the RmdConfig its cache shows.
Undeployed ==
  config = None =>
    (\A d \in DaemonSets : daemonSets[d] = None) /\ (\A n \in Nodes : nodeStates[n] = None)

EventuallyUndeployed == <>[]Undeployed

\* A node whose RmdNodeState is gone leaves the list; all but those the
\* RmdConfig worker was about to add at that moment.
Forgotten == \A n \in rmdNodeList : nodeStates[n] # None \/ n \in overlapped

EventuallyForgotten == <>[]Forgotten

\* README.md:122: without an rmdNodeSelector, RMD is deployed on the nodes with
\* the label for RDT L3 CAT.
Defaulted ==
  config # None /\ config.rmdNodeSelector = {} =>
    daemonSets["rmd"] # None /\ daemonSets["rmd"].nodeSelector = ManifestSelector

EventuallyDefaulted == <>[]Defaulted
=============================================================================
