-------------------------- MODULE RmdConfigProofs --------------------------
(***************************************************************************)
(* What holds of the two controllers of a deployment for every set of      *)
(* nodes and labels and any number of edits and upsets.                    *)
(***************************************************************************)
EXTENDS RmdConfig, TLAPS

(***************************************************************************)
(* TypeOK, a part for each group of variables.                             *)
(***************************************************************************)
DaemonSetsTyped == [DaemonSets -> DaemonSet \cup {None}]
NodeStatesTyped == [Nodes -> Uids \cup {None}]
Caches == [config : RmdConfigs \cup {None}, daemonSets : DaemonSetsTyped, nodeStates : NodeStatesTyped]

ObjectsTyped ==
  /\ config \in RmdConfigs \cup {None}
  /\ daemonSets \in DaemonSetsTyped
  /\ nodeStates \in NodeStatesTyped /\ behind \subseteq Nodes

PassTyped ==
  /\ pc \in {"idle", "rmd", "agent", "list", "nodes"}
  /\ IF pc = "idle" THEN rmdConfig = None ELSE rmdConfig \in RmdConfigs
  /\ todo \subseteq Nodes
  /\ at \in Nodes \cup {None}

QueuesTyped == request \in BOOLEAN /\ nodeRequests \subseteq Nodes

SpentTyped == spent \in [edits : 0..MaxEdits, upsets : 0..MaxUpsets]

LEMMA Parts ==
  TypeOK <=> /\ ObjectsTyped /\ PassTyped /\ QueuesTyped /\ SpentTyped
             /\ labels \in [Nodes -> LabelSets]
             /\ seen \in Caches
             /\ rmdNodeList \cup overlapped \subseteq Nodes /\ gone \in Nodes \cup {None}
  BY DEF TypeOK, ObjectsTyped, PassTyped, QueuesTyped, SpentTyped, Caches, DaemonSetsTyped, NodeStatesTyped

LEMMA TypeInit == Init => TypeOK
  <1>. SUFFICES ASSUME Init PROVE TypeOK
    OBVIOUS
  <1>1. MaxEdits \in Nat /\ MaxUpsets \in Nat /\ InitialLabels \in [Nodes -> LabelSets]
    BY ConfigConstants
  <1>2. spent \in [edits : 0..MaxEdits, upsets : 0..MaxUpsets]
    BY <1>1 DEF Init
  <1>3. seen \in Caches
    BY DEF Init, Caches, DaemonSetsTyped, NodeStatesTyped
  <1>. QED
    BY <1>1, <1>2, <1>3 DEF Init, TypeOK, Caches, DaemonSetsTyped, NodeStatesTyped

LEMMA SpendType ==
  ASSUME SpentTyped, NEW what \in {"edits", "upsets"}, NEW max,
         what = "edits" => max = MaxEdits, what = "upsets" => max = MaxUpsets, Spend(what, max)
  PROVE  SpentTyped' /\ (what = "edits" => spent.edits + 1 \in Uids)
  <1>1. MaxEdits \in Nat /\ MaxUpsets \in Nat
    BY ConfigConstants
  <1>2. spent.edits \in 0..MaxEdits /\ spent.upsets \in 0..MaxUpsets /\ spent[what] < max
    BY DEF SpentTyped, Spend
  <1>3. CASE what = "edits"
    <2>1. spent.edits + 1 \in 1..MaxEdits
      BY <1>1, <1>2, <1>3
    <2>2. spent' = [spent EXCEPT !.edits = spent.edits + 1]
      BY <1>3 DEF Spend
    <2>. QED
      BY <2>1, <2>2 DEF SpentTyped, Uids
  <1>4. CASE what = "upsets"
    <2>1. spent.upsets + 1 \in 0..MaxUpsets
      BY <1>1, <1>2, <1>4
    <2>2. spent' = [spent EXCEPT !.upsets = spent.upsets + 1]
      BY <1>4 DEF Spend
    <2>. QED
      BY <1>4, <2>1, <2>2 DEF SpentTyped
  <1>. QED
    BY <1>3, <1>4

(***************************************************************************)
(* Users, watches and the garbage collector.                               *)
(***************************************************************************)
LEMMA TypeApplyConfig ==
  ASSUME TypeOK, NEW selector \in Selectors, NEW agent \in BOOLEAN, ApplyConfig(selector, agent)
  PROVE  TypeOK'
  <1>1. SpentTyped' /\ spent.edits + 1 \in Uids
    BY SpendType, Parts DEF ApplyConfig
  <1>2. config' \in RmdConfigs
    <2>1. CASE config = None
      BY <1>1, <2>1 DEF ApplyConfig, RmdConfigs
    <2>2. CASE config # None
      <3>1. config \in RmdConfigs
        BY <2>2 DEF TypeOK
      <3>2. config' = [config EXCEPT !.rmdNodeSelector = selector, !.deployNodeAgent = agent]
        BY <2>2 DEF ApplyConfig
      <3>. QED
        BY <3>1, <3>2 DEF RmdConfigs
    <2>. QED
      BY <2>1, <2>2
  <1>. QED
    BY <1>1, <1>2 DEF ApplyConfig, TypeOK, SpentTyped, queues, pass

LEMMA TypeDeleteConfig == ASSUME TypeOK, DeleteConfig PROVE TypeOK'
  <1>1. SpentTyped'
    BY SpendType, Parts DEF DeleteConfig
  <1>. QED
    BY <1>1 DEF DeleteConfig, TypeOK, SpentTyped, queues, pass

LEMMA GoesType ==
  ASSUME TypeOK, NEW collected \in BOOLEAN, Goes(collected) PROVE SpentTyped'
  <1>1. CASE collected
    BY <1>1, Parts DEF Goes, SpentTyped
  <1>2. CASE ~collected
    BY <1>2, SpendType, Parts DEF Goes
  <1>. QED
    BY <1>1, <1>2

LEMMA TypeDropDaemonSet ==
  ASSUME TypeOK, NEW d \in DaemonSets, NEW collected \in BOOLEAN, DropDaemonSet(d, collected)
  PROVE  TypeOK'
  <1>1. SpentTyped'
    BY GoesType DEF DropDaemonSet
  <1>2. daemonSets' \in [DaemonSets -> DaemonSet \cup {None}]
    BY DEF DropDaemonSet, TypeOK
  <1>. QED
    BY <1>1, <1>2 DEF DropDaemonSet, TypeOK, SpentTyped, queues, pass

LEMMA NodeStateType ==
  ASSUME TypeOK, NEW n \in Nodes, NEW owner \in Uids \cup {None}, NodeStateBecomes(n, owner)
  PROVE  nodeStates' \in [Nodes -> Uids \cup {None}] /\ behind' \subseteq Nodes
  BY DEF NodeStateBecomes, TypeOK

LEMMA TypeDropNodeState ==
  ASSUME TypeOK, NEW n \in Nodes, NEW collected \in BOOLEAN, DropNodeState(n, collected)
  PROVE  TypeOK'
  <1>1. SpentTyped'
    BY GoesType DEF DropNodeState
  <1>2. nodeStates' \in [Nodes -> Uids \cup {None}] /\ behind' \subseteq Nodes
    BY NodeStateType DEF DropNodeState
  <1>. QED
    BY <1>1, <1>2 DEF DropNodeState, TypeOK, SpentTyped, queues, pass

LEMMA TypeRelabel ==
  ASSUME TypeOK, NEW n \in Nodes, NEW ls \in LabelSets, Relabel(n, ls) PROVE TypeOK'
  <1>1. SpentTyped'
    BY SpendType, Parts DEF Relabel
  <1>. QED
    BY <1>1 DEF Relabel, TypeOK, SpentTyped, objects, queues, pass

LEMMA TypeSync ==
  ASSUME TypeOK, SyncConfig \/ SyncDaemonSets \/ (\E n \in Nodes : SyncNodeState(n)) PROVE TypeOK'
  <1>1. CASE SyncConfig
    <2>1. seen' \in Caches
      BY <1>1, Parts DEF SyncConfig, Caches, ObjectsTyped
    <2>. QED
      BY <1>1, <2>1, Parts DEF SyncConfig, TypeOK, Caches, DaemonSetsTyped, NodeStatesTyped, objects, pass
  <1>2. CASE SyncDaemonSets
    <2>1. seen' \in Caches
      BY <1>2, Parts DEF SyncDaemonSets, Caches, ObjectsTyped
    <2>. QED
      BY <1>2, <2>1, Parts DEF SyncDaemonSets, TypeOK, Caches, DaemonSetsTyped, NodeStatesTyped, objects, pass
  <1>3. CASE \E n \in Nodes : SyncNodeState(n)
    <2>1. PICK n \in Nodes : SyncNodeState(n)
      BY <1>3
    <2> DEFINE s == [seen.nodeStates EXCEPT ![n] = nodeStates[n]]
    <2>2. s \in NodeStatesTyped
      BY Parts DEF Caches, ObjectsTyped, NodeStatesTyped
    <2>3. seen' = [seen EXCEPT !.nodeStates = s]
      BY <2>1 DEF SyncNodeState
    <2>. HIDE DEF s
    <2>4. seen' \in Caches
      BY <2>2, <2>3, Parts DEF Caches
    <2>. QED
      BY <2>1, <2>4 DEF SyncNodeState, TypeOK, Caches, DaemonSetsTyped, NodeStatesTyped, pass
  <1>. QED
    BY <1>1, <1>2, <1>3

LEMMA TypeOperatorRestarts == ASSUME TypeOK, OperatorRestarts PROVE TypeOK'
  <1>1. SpentTyped'
    BY SpendType, Parts DEF OperatorRestarts
  <1>2. seen' \in Caches
    BY Parts DEF OperatorRestarts, Caches, ObjectsTyped
  <1>. QED
    BY <1>1, <1>2 DEF OperatorRestarts, Rest, TypeOK, SpentTyped, Caches, DaemonSetsTyped, NodeStatesTyped

(***************************************************************************)
(* The worker of the RmdConfig controller.                                 *)
(***************************************************************************)
LEMMA RequeueType == RequeueAfter => PassTyped' /\ request' \in BOOLEAN
  BY DEF RequeueAfter, Rest, PassTyped

LEMMA ReachesType ==
  ASSUME TypeOK, pc # "idle", NEW where \in {"agent", "list"}, Reaches(where)
  PROVE  PassTyped' /\ request' \in BOOLEAN
  BY DEF TypeOK, Reaches, PassTyped

LEMMA TypeReconcile == ASSUME TypeOK, Reconcile PROVE TypeOK'
  <1>1. PassTyped'
    <2>1. CASE seen.config = None
      BY <2>1 DEF Reconcile, pass, TypeOK, PassTyped
    <2>2. CASE seen.config # None
      <3>1. seen.config \in RmdConfigs
        BY <2>2 DEF TypeOK
      <3>. QED
        BY <2>2, <3>1 DEF Reconcile, TypeOK, PassTyped
    <2>. QED
      BY <2>1, <2>2
  <1>. QED
    BY <1>1 DEF Reconcile, TypeOK, PassTyped, objects

LEMMA CreateDaemonSetType ==
  ASSUME TypeOK, pc # "idle", NEW d \in DaemonSets, NEW next \in {"agent", "list"}, CreateDaemonSet(d, next)
  PROVE  PassTyped' /\ request' \in BOOLEAN /\ daemonSets' \in [DaemonSets -> DaemonSet \cup {None}]
  <1>1. PassTyped' /\ request' \in BOOLEAN
    BY RequeueType, ReachesType DEF CreateDaemonSet, Fail
  <1>2. rmdConfig \in RmdConfigs
    BY DEF TypeOK
  <1>3. NewDaemonSet \in DaemonSet
    BY <1>2 DEF NewDaemonSet, DaemonSet, RmdConfigs
  <1>4. CASE daemonSets' = [daemonSets EXCEPT ![d] = NewDaemonSet]
    BY <1>1, <1>3, <1>4 DEF TypeOK
  <1>5. CASE /\ seen.daemonSets[d] # None /\ seen.daemonSets[d] = daemonSets[d]
             /\ daemonSets' = [daemonSets EXCEPT ![d].nodeSelector = rmdConfig.rmdNodeSelector]
    <2> DEFINE e == [daemonSets[d] EXCEPT !.nodeSelector = rmdConfig.rmdNodeSelector]
    <2>1. daemonSets[d] \in DaemonSet
      BY <1>5 DEF TypeOK
    <2>2. e \in DaemonSet
      BY <1>2, <2>1 DEF DaemonSet, RmdConfigs
    <2>3. daemonSets' = [daemonSets EXCEPT ![d] = e]
      BY <1>5
    <2>. HIDE DEF e
    <2>. QED
      BY <1>1, <2>2, <2>3 DEF TypeOK
  <1>6. CASE UNCHANGED daemonSets
    BY <1>1, <1>6 DEF TypeOK
  <1>. QED
    BY <1>1, <1>4, <1>5, <1>6 DEF CreateDaemonSet

LEMMA TypeDeploy ==
  ASSUME TypeOK, DeployRmd \/ DeployNodeAgent PROVE TypeOK'
  <1>1. PassTyped' /\ request' \in BOOLEAN /\ daemonSets' \in [DaemonSets -> DaemonSet \cup {None}]
    <2>1. CASE DeployRmd
      BY <2>1, CreateDaemonSetType DEF DeployRmd, DaemonSets
    <2>2. CASE DeployNodeAgent /\ CreateDaemonSet("rmd-node-agent", "list")
      BY <2>2, CreateDaemonSetType DEF DeployNodeAgent, DaemonSets
    <2>3. CASE DeployNodeAgent /\ DeleteDaemonSet("rmd-node-agent", "list")
      <3>1. PassTyped' /\ request' \in BOOLEAN
        BY <2>3, RequeueType, ReachesType DEF DeployNodeAgent, DeleteDaemonSet, Fail
      <3>2. daemonSets' \in [DaemonSets -> DaemonSet \cup {None}]
        BY <2>3 DEF DeleteDaemonSet, TypeOK
      <3>. QED
        BY <3>1, <3>2
    <2>. QED
      BY <2>1, <2>2, <2>3 DEF DeployNodeAgent
  <1>. QED
    BY <1>1 DEF DeployRmd, DeployNodeAgent, TypeOK, PassTyped

LEMMA TypeListNodes == ASSUME TypeOK, ListNodes PROVE TypeOK'
  <1>1. PassTyped' /\ request' \in BOOLEAN
    <2>1. CASE RequeueAfter
      BY <2>1, RequeueType
    <2>2. CASE /\ pc' = "nodes" /\ todo' = Matching(rmdConfig.rmdNodeSelector)
               /\ UNCHANGED <<rmdConfig, at, request>>
      BY <2>2 DEF ListNodes, Matching, TypeOK, PassTyped
    <2>. QED
      BY <2>1, <2>2 DEF ListNodes
  <1>. QED
    BY <1>1 DEF ListNodes, TypeOK, PassTyped, objects

LEMMA TypeCreateNodeState ==
  ASSUME TypeOK, NEW n \in Nodes, CreateNodeState(n) PROVE TypeOK'
  <1>1. PassTyped' /\ request' \in BOOLEAN
    <2>1. CASE Fail
      BY <2>1, RequeueType DEF Fail
    <2>2. CASE at' = n /\ todo' = todo \ {n} /\ UNCHANGED <<pc, rmdConfig, request>>
      BY <2>2 DEF TypeOK, PassTyped
    <2>. QED
      BY <2>1, <2>2 DEF CreateNodeState
  <1>2. nodeStates' \in [Nodes -> Uids \cup {None}] /\ behind' \subseteq Nodes
    <2>1. CASE NodeStateBecomes(n, rmdConfig.uid)
      <3>1. rmdConfig.uid \in Uids
        BY DEF CreateNodeState, TypeOK, RmdConfigs
      <3>. QED
        BY <2>1, <3>1, NodeStateType
    <2>2. CASE UNCHANGED <<nodeStates, behind>>
      BY <2>2 DEF TypeOK
    <2>. QED
      BY <2>1, <2>2 DEF CreateNodeState
  <1>. QED
    BY <1>1, <1>2 DEF CreateNodeState, TypeOK, PassTyped

LEMMA TypeNodes ==
  ASSUME TypeOK,
         \/ UpdateRmdNodeData \/ UpdateStatus
         \/ (\E n \in Nodes : ReconcileNodeState(n)) \/ DeleteRmdNodeData
  PROVE  TypeOK'
  <1>1. CASE UpdateRmdNodeData
    BY <1>1 DEF UpdateRmdNodeData, TypeOK, objects, queues
  <1>2. CASE UpdateStatus
    <2>1. PassTyped' /\ request' \in BOOLEAN
      BY <1>2, RequeueType DEF UpdateStatus
    <2>2. config' \in RmdConfigs \cup {None}
      <3>1. CASE config = rmdConfig
        <4>1. config \in RmdConfigs
          BY <1>2, <3>1 DEF UpdateStatus, TypeOK
        <4>2. config' = [config EXCEPT !.nodes = rmdNodeList] /\ rmdNodeList \subseteq Nodes
          BY <1>2, <3>1 DEF UpdateStatus, TypeOK
        <4>. QED
          BY <4>1, <4>2 DEF RmdConfigs
      <3>2. CASE config # rmdConfig
        BY <1>2, <3>2 DEF UpdateStatus, TypeOK
      <3>. QED
        BY <3>1, <3>2
    <2>. QED
      BY <1>2, <2>1, <2>2 DEF UpdateStatus, TypeOK, PassTyped
  <1>3. CASE \E n \in Nodes : ReconcileNodeState(n)
    BY <1>3 DEF ReconcileNodeState, TypeOK, objects, pass
  <1>4. CASE DeleteRmdNodeData
    BY <1>4 DEF DeleteRmdNodeData, TypeOK, objects, queues, pass
  <1>. QED
    BY <1>1, <1>2, <1>3, <1>4

LEMMA TypeStep == TypeOK /\ [Next]_vars => TypeOK'
  <1>. SUFFICES ASSUME TypeOK, [Next]_vars PROVE TypeOK'
    OBVIOUS
  <1>1. CASE UNCHANGED vars
    BY <1>1 DEF vars, objects, queues, pass, TypeOK
  <1>2. CASE Reconcile \/ Worker \/ DeleteRmdNodeData \/ \E n \in Nodes : ReconcileNodeState(n)
    BY <1>2, TypeReconcile, TypeDeploy, TypeListNodes, TypeCreateNodeState, TypeNodes DEF Worker
  <1>3. CASE Deliver \/ Collect
    BY <1>3, TypeSync, TypeDropDaemonSet, TypeDropNodeState DEF Deliver, Collect
  <1>4. CASE \E selector \in Selectors, agent \in BOOLEAN : ApplyConfig(selector, agent)
    BY <1>4, TypeApplyConfig
  <1>5. CASE DeleteConfig \/ OperatorRestarts
    BY <1>5, TypeDeleteConfig, TypeOperatorRestarts
  <1>6. CASE \E d \in DaemonSets : DropDaemonSet(d, FALSE)
    BY <1>6, TypeDropDaemonSet
  <1>7. CASE \E n \in Nodes : DropNodeState(n, FALSE)
    BY <1>7, TypeDropNodeState
  <1>8. CASE \E n \in Nodes, ls \in LabelSets : Relabel(n, ls)
    BY <1>8, TypeRelabel
  <1>. QED
    BY <1>1, <1>2, <1>3, <1>4, <1>5, <1>6, <1>7, <1>8 DEF Next

\* Every reachable state is well typed; the worker of the RmdConfig controller
\* holds an RmdConfig whenever it is not idle.
THEOREM TypeCorrect == Spec => []TypeOK
  BY TypeInit, TypeStep, PTL DEF Spec

(***************************************************************************)
(* No event of an RmdNodeState is lost.                                    *)
(***************************************************************************)
\* Steps that touch nothing it mentions, or only let go of nodes.
LEMMA NoEventLostKept ==
  ASSUME NoEventLost, UNCHANGED <<nodeStates, behind>>, seen'.nodeStates = seen.nodeStates,
         rmdNodeList' \cup {at'} \subseteq rmdNodeList \cup {at, None},
         nodeRequests \cup overlapped \subseteq nodeRequests' \cup overlapped', gone' = gone
  PROVE  NoEventLost'
  BY DEF NoEventLost

LEMMA EventNodeStateBecomes ==
  ASSUME TypeOK, NoEventLost, NEW n \in Nodes, NEW owner, NodeStateBecomes(n, owner),
         UNCHANGED <<seen, nodeRequests, gone, overlapped, rmdNodeList>>, at' \in {at, n}
  PROVE  NoEventLost'
  <1>1. /\ \A m \in Nodes : m # n => nodeStates'[m] = nodeStates[m]
        /\ behind' = behind \cup {n}
    BY DEF NodeStateBecomes, TypeOK
  <1>2. rmdNodeList \cup {at} \subseteq Nodes \cup {None}
    BY DEF TypeOK
  <1>. QED
    BY <1>1, <1>2 DEF NoEventLost

LEMMA EventCreateNodeState ==
  ASSUME TypeOK, NoEventLost, NEW n \in Nodes, CreateNodeState(n) PROVE NoEventLost'
  <1>1. CASE Fail /\ UNCHANGED <<nodeStates, behind>>
    BY <1>1, NoEventLostKept DEF Fail, RequeueAfter, Rest, CreateNodeState
  <1>2. CASE NodeStateBecomes(n, rmdConfig.uid) /\ at' = n
    BY <1>2, EventNodeStateBecomes DEF CreateNodeState
  <1>3. CASE UNCHANGED <<nodeStates, behind>> /\ seen.nodeStates[n] # None /\ at' = n
    BY <1>3 DEF NoEventLost, CreateNodeState
  <1>. QED
    BY <1>1, <1>2, <1>3 DEF CreateNodeState

\* What the cache shows is so, or the watch has still to tell; and a node that is
\* taken off the list is in nobody's hands but the RmdConfig worker's.
LEMMA EventReconcileNodeState ==
  ASSUME TypeOK, NoEventLost, NEW n \in Nodes, ReconcileNodeState(n) PROVE NoEventLost'
  <1>1. UNCHANGED <<nodeStates, behind, at, seen, rmdNodeList, overlapped>>
    BY DEF ReconcileNodeState, objects, pass
  <1>2. nodeRequests' = nodeRequests \ {n} /\ gone = None
    BY DEF ReconcileNodeState
  <1>3. CASE seen.nodeStates[n] = None
    BY <1>1, <1>2, <1>3 DEF NoEventLost, ReconcileNodeState
  <1>4. CASE seen.nodeStates[n] # None
    <2>1. nodeStates[n] # None \/ n \in behind
      BY <1>4 DEF NoEventLost
    <2>. QED
      BY <1>1, <1>2, <2>1 DEF NoEventLost
  <1>. QED
    BY <1>3, <1>4

LEMMA EventDeleteRmdNodeData ==
  ASSUME TypeOK, NoEventLost, DeleteRmdNodeData PROVE NoEventLost'
  <1>1. UNCHANGED <<nodeStates, behind, at, seen, nodeRequests>> /\ rmdNodeList' = rmdNodeList \ {gone}
    BY DEF DeleteRmdNodeData, objects, queues, pass
  <1>2. overlapped' = overlapped \cup ({gone} \cap {at})
    BY DEF DeleteRmdNodeData
  <1>. QED
    BY <1>1, <1>2 DEF NoEventLost

LEMMA EventSyncNodeState ==
  ASSUME TypeOK, NoEventLost, NEW n \in Nodes, SyncNodeState(n) PROVE NoEventLost'
  <1> DEFINE s == [seen.nodeStates EXCEPT ![n] = nodeStates[n]]
  <1>1. seen.nodeStates \in [Nodes -> Uids \cup {None}]
    BY DEF TypeOK
  <1>2. s[n] = nodeStates[n] /\ \A m \in Nodes : m # n => s[m] = seen.nodeStates[m]
    BY <1>1
  <1>3. seen' = [seen EXCEPT !.nodeStates = s]
    BY DEF SyncNodeState
  <1>. HIDE DEF s
  <1>4. seen'.nodeStates = s
    BY <1>3 DEF TypeOK
  <1>5. /\ behind' = behind \ {n} /\ nodeRequests' = nodeRequests \cup {n}
        /\ UNCHANGED <<nodeStates, rmdNodeList, at, gone, overlapped>>
    BY DEF SyncNodeState, pass
  <1>. QED
    BY <1>2, <1>4, <1>5 DEF NoEventLost

LEMMA EventStep == TypeOK /\ NoEventLost /\ [Next]_vars => NoEventLost'
  <1>. SUFFICES ASSUME TypeOK, NoEventLost, [Next]_vars PROVE NoEventLost'
    OBVIOUS
  <1>1. CASE UNCHANGED vars
    BY <1>1, NoEventLostKept DEF vars, objects, queues, pass
  <1>2. CASE Reconcile
    BY <1>2, NoEventLostKept DEF Reconcile, objects, pass
  <1>3. CASE DeployRmd \/ DeployNodeAgent
    BY <1>3, NoEventLostKept DEF DeployRmd, DeployNodeAgent, CreateDaemonSet, DeleteDaemonSet,
                                 Reaches, Fail, RequeueAfter, Rest
  <1>4. CASE ListNodes
    BY <1>4, NoEventLostKept DEF ListNodes, RequeueAfter, Rest, objects
  <1>5. CASE \E n \in Nodes : CreateNodeState(n)
    BY <1>5, EventCreateNodeState
  <1>6. CASE UpdateRmdNodeData
    BY <1>6, NoEventLostKept DEF UpdateRmdNodeData, objects, queues
  <1>7. CASE UpdateStatus
    BY <1>7, NoEventLostKept DEF UpdateStatus, RequeueAfter, Rest
  <1>8. CASE \E n \in Nodes : ReconcileNodeState(n)
    BY <1>8, EventReconcileNodeState
  <1>16. CASE DeleteRmdNodeData
    BY <1>16, EventDeleteRmdNodeData
  <1>9. CASE SyncConfig \/ SyncDaemonSets
    <2>1. seen'.nodeStates = seen.nodeStates
      BY <1>9 DEF SyncConfig, SyncDaemonSets, TypeOK
    <2>. QED
      BY <1>9, <2>1, NoEventLostKept DEF SyncConfig, SyncDaemonSets, objects, pass
  <1>10. CASE \E n \in Nodes : SyncNodeState(n)
    BY <1>10, EventSyncNodeState
  <1>11. CASE \E d \in DaemonSets, collected \in BOOLEAN : DropDaemonSet(d, collected)
    BY <1>11, NoEventLostKept DEF DropDaemonSet, queues, pass
  <1>12. CASE \E n \in Nodes, collected \in BOOLEAN : DropNodeState(n, collected)
    BY <1>12, EventNodeStateBecomes DEF DropNodeState, queues, pass
  <1>13. CASE \/ \E selector \in Selectors, agent \in BOOLEAN : ApplyConfig(selector, agent)
              \/ DeleteConfig
    BY <1>13, NoEventLostKept DEF ApplyConfig, DeleteConfig, queues, pass
  <1>14. CASE \E n \in Nodes, ls \in LabelSets : Relabel(n, ls)
    BY <1>14, NoEventLostKept DEF Relabel, objects, queues, pass
  <1>15. CASE OperatorRestarts
    BY <1>15 DEF OperatorRestarts, Rest, NoEventLost
  <1>. QED
    BY <1>1, <1>2, <1>3, <1>4, <1>5, <1>6, <1>7, <1>8, <1>9, <1>10, <1>11, <1>12, <1>13, <1>14, <1>15,
     <1>16
       DEF Next, Worker, Deliver, Collect

\* rmdnodestate_controller.go:105: the deletion from the list hangs on one event
\* per RmdNodeState, and no order of watch, workers and garbage collector loses it.
THEOREM EventsKept == Spec => []NoEventLost
  <1>1. Init => NoEventLost
    BY DEF Init, NoEventLost
  <1>. QED
    BY <1>1, TypeInit, TypeStep, EventStep, PTL DEF Spec
=============================================================================
