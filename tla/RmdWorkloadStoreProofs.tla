----------------------- MODULE RmdWorkloadStoreProofs -----------------------
(***************************************************************************)
(* While the RMD pods keep their workloads: the IDs in every copy of an    *)
(* RmdWorkload are its own, versions go forward, and the RMD servers       *)
(* implement WorkloadStore.  For every cluster whose RmdWorkloads have     *)
(* names of their own, and every bound on the environment.                 *)
(***************************************************************************)
EXTENDS RmdWorkloadProofs

\* No two namespaces have an RmdWorkload of one name.
OneNamespace == \A k1, k2 \in Keys : NameOf[k1] = NameOf[k2] => k1 = k2

(***************************************************************************)
(* Pods go only by stopping or by losing the label, so they stay while     *)
(* PodsKept, which only goes from TRUE to FALSE.                           *)
(***************************************************************************)
PodsLabelled == spent.relabels = 0 => \A n \in up : HasRmd(n)

LEMMA LabelledInit == Init => PodsLabelled
  BY DEF Init, PodsLabelled

LEMMA ChargeKeeps ==
  ASSUME TypeOK, NEW n, NEW o, Charge(n, o)
  PROVE  /\ spent'.relabels = spent.relabels /\ spent'.stops = spent.stops
         /\ spent'.edits = spent.edits
  BY DEF Charge, TypeOK, Spent

\* The worker leaves the cluster and the users' bounds alone.
LEMMA WorkerKeeps ==
  ASSUME TypeOK, ReconcileStep
  PROVE  /\ spent'.relabels = spent.relabels /\ spent'.stops = spent.stops
         /\ spent'.edits = spent.edits /\ UNCHANGED <<up, labels>>
  <1>1. ASSUME NEW n \in todo,
               FindObseleteWorkload(n) \/ GetTargetedNode(n) \/ FindRemovedNode(n)
        PROVE  (\E o : Charge(n, o)) /\ UNCHANGED <<up, labels>>
    BY <1>1 DEF FindObseleteWorkload, GetTargetedNode, FindRemovedNode, servers, nodes
  <1>2. ASSUME NEW f \in found,
               DeleteObseleteWorkload(f) \/ AddWorkload(f) \/ UpdateWorkload(f) \/ RemoveWorkload(f)
        PROVE  (\E o : Charge(f.node, o)) /\ UNCHANGED <<up, labels>>
    BY <1>2 DEF DeleteObseleteWorkload, AddWorkload, UpdateWorkload, RemoveWorkload, Answer, nodes
  <1>3. CASE UpdateRmdWorkloadStatus
    <2>1. (\E o : Charge(answered.node, o)) /\ UNCHANGED <<up, labels>>
      BY <1>3 DEF UpdateRmdWorkloadStatus, servers, nodes
    <2>. QED
      BY <2>1, ChargeKeeps
  <1>4. CASE FindRemovedNodes \/ FinishReconcile \/ FinishDeletion
    BY <1>4 DEF FindRemovedNodes, FinishReconcile, FinishDeletion, servers, nodes
  <1>. QED
    BY <1>1, <1>2, <1>3, <1>4, ChargeKeeps DEF ReconcileStep

LEMMA LabelledStep == TypeOK /\ PodsLabelled /\ [Next]_vars => PodsLabelled'
  <1>. SUFFICES ASSUME TypeOK, PodsLabelled, [Next]_vars PROVE PodsLabelled'
    OBVIOUS
  <1>1. CASE ReconcileStep
    BY <1>1, WorkerKeeps DEF PodsLabelled, HasRmd
  <1>2. ASSUME NEW k \in Keys, KeyStep(k) PROVE PodsLabelled'
    BY <1>2 DEF KeyStep, Reconcile, Sync, TimerFires, DeleteObject, ApplyObject, servers, nodes,
                PodsLabelled, HasRmd, TypeOK, Spent
  <1>3. ASSUME NEW n \in Nodes, NodeStep(n) PROVE PodsLabelled'
    <2>1. CASE \E lbl \in LabelMaps : Relabel(n, lbl)
      BY <2>1 DEF Relabel, TypeOK, Spent, PodsLabelled
    <2>2. CASE PodStops(n) \/ PodEvicted(n) \/ PodStarts(n) \/ LearnNode(n) \/ ForgetNode(n)
      BY <2>2 DEF PodStops, PodEvicted, Stop, PodStarts, LearnNode, ForgetNode, nodes, servers,
                  PodsLabelled, HasRmd, TypeOK, Spent
    <2>. QED
      BY <1>3, <2>1, <2>2 DEF NodeStep
  <1>4. CASE OperatorRestarts
    BY <1>4 DEF OperatorRestarts, servers, PodsLabelled, HasRmd, TypeOK, Spent
  <1>5. CASE UNCHANGED vars
    BY <1>5 DEF vars, servers, nodes, PodsLabelled, HasRmd
  <1>. QED
    BY <1>1, <1>2, <1>3, <1>4, <1>5 DEF Next

(***************************************************************************)
(* What a step does to the servers while the pods stay.                    *)
(***************************************************************************)
Posts(n) ==
  /\ key \in Keys /\ obj \in Objects /\ Named(n, NameOf[key]) = {}
  /\ PostWorkload(n, NameOf[key], obj.ver)
  /\ UNCHANGED <<api, cached, key, obj>> /\ spent'.edits = spent.edits

Patches(n) ==
  /\ key \in Keys /\ obj \in Objects
  /\ PatchWorkload(n, obj.status[n].id, obj.ver) /\ UNCHANGED lastId
  /\ UNCHANGED <<api, cached, key, obj>> /\ spent'.edits = spent.edits

Deletes(n, id) ==
  /\ key \in Keys
  /\ \A e \in db[n] : e.id = id => e.uuid = NameOf[key]
  /\ db' = [db EXCEPT ![n] = {e \in @ : e.id # id}] /\ UNCHANGED lastId
  /\ UNCHANGED <<api, cached>> /\ spent'.edits = spent.edits
  /\ \/ key' = None /\ obj' = None
     \/ key' = key /\ obj' = obj
     \/ key' = key /\ obj \in Objects /\ obj' = [obj EXCEPT !.status[n] = NoState]

Quiet == UNCHANGED <<db, lastId>>

\* The steps that give no object a new status: an object is copied, or let go.
CopiesOnly ==
  /\ \A k \in Keys : api'[k] \in {api[k], None} /\ cached'[k] \in {cached[k], api[k]}
  /\ \/ key' = None
     \/ key' = key /\ obj' = obj
     \/ key = None /\ key' \in Keys /\ obj' = cached[key']

LEMMA KeptBefore ==
  ASSUME TypeOK, TypeOK', [Next]_vars, PodsKept'
  PROVE  PodsKept /\ spent.edits <= spent'.edits
  <1>1. CASE ReconcileStep
    BY <1>1, WorkerKeeps DEF PodsKept, TypeOK, Spent
  <1>2. ASSUME NEW k \in Keys, KeyStep(k) PROVE PodsKept /\ spent.edits <= spent'.edits
    BY <1>2 DEF KeyStep, Reconcile, Sync, TimerFires, DeleteObject, ApplyObject,
                PodsKept, TypeOK, Spent
  <1>3. ASSUME NEW n \in Nodes, NodeStep(n) PROVE PodsKept /\ spent.edits <= spent'.edits
    BY <1>3 DEF NodeStep, PodStops, PodEvicted, Stop, PodStarts, LearnNode, ForgetNode, Relabel,
                PodsKept, TypeOK, Spent
  <1>4. CASE OperatorRestarts
    BY <1>4 DEF OperatorRestarts, PodsKept, TypeOK, Spent
  <1>5. CASE UNCHANGED vars
    BY <1>5 DEF vars, PodsKept, TypeOK, Spent
  <1>. QED
    BY <1>1, <1>2, <1>3, <1>4, <1>5 DEF Next

\* A DELETE that never arrived ends the pass.
LEMMA DeleteEffect ==
  ASSUME TypeOK, ServerInv, NEW f \in found, DeleteObseleteWorkload(f) \/ RemoveWorkload(f)
  PROVE  (Quiet /\ CopiesOnly) \/ Deletes(f.node, f.id)
  <1>1. /\ pc \in {"obselete", "removed"} /\ UNCHANGED <<api, cached, lastId>>
        /\ spent'.edits = spent.edits
        /\ (UNCHANGED db /\ Fail) \/ DeleteWorkload(f)
    BY ChargeKeeps DEF DeleteObseleteWorkload, RemoveWorkload, objects
  <1>2. \/ key' = None /\ obj' = None
        \/ key' = key /\ obj' = obj
        \/ key' = key /\ pc = "removed" /\ obj' = [obj EXCEPT !.status[f.node] = NoState]
    BY DEF DeleteObseleteWorkload, RemoveWorkload, Fail, Return
  <1>3. key \in Keys /\ (pc = "removed" => obj \in Objects)
    BY <1>1 DEF TypeOK
  <1>4. \A e \in db[f.node] : e.id = f.id => e.uuid = NameOf[key]
    BY <1>1 DEF ServerInv, DeletesOwn
  <1>5. CASE UNCHANGED db /\ Fail
    BY <1>1, <1>5 DEF Quiet, CopiesOnly, Fail, Return
  <1>6. CASE DeleteWorkload(f)
    BY <1>1, <1>2, <1>3, <1>4, <1>6 DEF Deletes, DeleteWorkload
  <1>. QED
    BY <1>1, <1>5, <1>6

LEMMA Effects ==
  ASSUME TypeOK, TypeOK', ServerInv, PodsLabelled, [Next]_vars, PodsKept'
  PROVE  \/ Quiet
         \/ \E n \in Nodes : Posts(n) \/ Patches(n)
         \/ \E n \in Nodes, id \in Nat : Deletes(n, id)
  <1>1. ASSUME NEW f \in found, AddWorkload(f)
        PROVE  Quiet \/ Posts(f.node)
    BY <1>1, ChargeKeeps DEF AddWorkload, Answer, Quiet, Posts, objects, TypeOK, ServerInv,
                             PostsOnlyAbsent
  <1>2. ASSUME NEW f \in found, UpdateWorkload(f)
        PROVE  Quiet \/ Patches(f.node)
    BY <1>2, ChargeKeeps DEF UpdateWorkload, Answer, Quiet, Patches, objects, TypeOK
  <1>3. ASSUME NEW f \in found, DeleteObseleteWorkload(f) \/ RemoveWorkload(f)
        PROVE  Quiet \/ Deletes(f.node, f.id)
    BY <1>3, DeleteEffect
  <1>4. CASE ReconcileStep
    <2>1. ASSUME NEW n \in todo,
                 FindObseleteWorkload(n) \/ GetTargetedNode(n) \/ FindRemovedNode(n)
          PROVE  Quiet
      BY <2>1 DEF FindObseleteWorkload, GetTargetedNode, FindRemovedNode, servers, Quiet
    <2>2. CASE UpdateRmdWorkloadStatus \/ FindRemovedNodes \/ FinishReconcile \/ FinishDeletion
      BY <2>2 DEF UpdateRmdWorkloadStatus, FindRemovedNodes, FinishReconcile, FinishDeletion,
                  servers, Quiet
    <2>. QED
      BY <1>1, <1>2, <1>3, <1>4, <2>1, <2>2 DEF ReconcileStep, TypeOK, NodeAt
  <1>5. ASSUME NEW k \in Keys, KeyStep(k) PROVE Quiet
    BY <1>5 DEF KeyStep, Reconcile, Sync, TimerFires, DeleteObject, ApplyObject, servers, Quiet
  <1>6. ASSUME NEW n \in Nodes, NodeStep(n) PROVE Quiet
    <2>1. ~PodStops(n)
      BY KeptBefore DEF PodStops, PodsKept, TypeOK, Spent
    <2>2. ~PodEvicted(n)
      BY KeptBefore DEF PodEvicted, Stop, PodsKept, PodsLabelled
    <2>. QED
      BY <1>6, <2>1, <2>2 DEF NodeStep, PodStarts, LearnNode, ForgetNode, Relabel, servers, Quiet
  <1>7. CASE OperatorRestarts \/ UNCHANGED vars
    BY <1>7 DEF OperatorRestarts, vars, servers, Quiet
  <1>. QED
    BY <1>4, <1>5, <1>6, <1>7 DEF Next

(***************************************************************************)
(* The IDs in the copies of an RmdWorkload.                                *)
(***************************************************************************)
IdsOwn == \A k \in Keys : \A o \in Copies(k) : OwnIds(k, o)

\* No entry has the ID 0, and the ID found under a name is that name's.
LEMMA IdZeroOwn ==
  ASSUME TypeOK, ServerInv, NEW n \in Nodes
  PROVE  0 <= lastId[n] /\ \A e \in db[n] : e.id # 0
  BY DEF TypeOK, ServerInv, IdsCounted

LEMMA FoundIdOwn ==
  ASSUME TypeOK, ServerInv, NEW n \in Nodes, NEW name
  PROVE  /\ FindWorkloadByName(n, name) <= lastId[n]
         /\ \A e \in db[n] : e.id = FindWorkloadByName(n, name) => e.uuid = name
  <1>1. CASE Named(n, name) = {}
    BY <1>1, IdZeroOwn DEF FindWorkloadByName
  <1>2. CASE Named(n, name) # {}
    <2>1. PICK e \in db[n] : e.uuid = name /\ e.id = FindWorkloadByName(n, name)
      BY <1>2, FindWorkloadByNameType DEF TypeOK
    <2>. QED
      BY <2>1 DEF ServerInv, IdsCounted, TypeOK
  <1>. QED
    BY <1>1, <1>2

\* A status whose every ID is one of an own status, 0, or just found, is own.
LEMMA OwnIdsFrom ==
  ASSUME TypeOK, ServerInv, NEW k \in Keys, NEW o, NEW p, OwnIds(k, p), o # None,
         \A n \in Nodes : \/ o.status[n].id = 0
                          \/ p # None /\ o.status[n].id = p.status[n].id
                          \/ o.status[n].id = FindWorkloadByName(n, NameOf[k])
  PROVE  OwnIds(k, o)
  BY IdZeroOwn, FoundIdOwn DEF OwnIds

\* Users write no ID.
LEMMA IdsApply ==
  ASSUME TypeOK, ServerInv, IdsOwn, NEW k \in Keys, NEW s \in Specs, ApplyObject(k, s)
  PROVE  \A j \in Keys : \A o \in Copies(j)' : OwnIds(j, o)
  <1>1. OwnIds(k, api[k])
    BY DEF IdsOwn, Copies
  <1>2. api'[k] # None
    <2> DEFINE o == [spec |-> s, ver |-> spent.edits + 1,
                     status |-> IF api[k] = None THEN NoStatus ELSE api[k].status]
    <2>1. o \in Objects
      BY DEF TypeOK, Objects, NoStatus, NoState, WorkloadState, Response, Spent
    <2>2. api'[k] = o
      BY DEF ApplyObject, TypeOK
    <2>. QED
      BY <2>1, <2>2, ConstantsOK
  <1>3. \A n \in Nodes : \/ api'[k].status[n].id = 0
                         \/ api[k] # None /\ api'[k].status[n].id = api[k].status[n].id
    BY DEF TypeOK, ApplyObject, NoStatus, NoState
  <1>4. OwnIds(k, api'[k])
    BY <1>1, <1>2, <1>3, OwnIdsFrom
  <1>. QED
    BY <1>4 DEF TypeOK, ApplyObject, IdsOwn, Copies

\* The ID that updateRmdWorkloadStatus records is the one it has just found.
LEMMA IdsRecord ==
  ASSUME TypeOK, TypeOK', ServerInv, IdsOwn, UpdateRmdWorkloadStatus
  PROVE  \A j \in Keys : \A o \in Copies(j)' : OwnIds(j, o)
  <1>1. CASE Conflict /\ Fail /\ UNCHANGED objects
    BY <1>1, ConstantsOK DEF Fail, Return, objects, IdsOwn, Copies
  <1>2. CASE ~(Conflict /\ Fail /\ UNCHANGED objects)
    <2> DEFINE n == answered.node
               status(seen) == [obj.status EXCEPT ![n] =
                                  [response |-> answered.response,
                                   id |-> IF seen # 0 THEN seen ELSE obj.status[n].id]]
    <2>1. PICK seen \in {0, FindWorkloadByName(n, NameOf[key])} :
            /\ StatusUpdate(status(seen))
            /\ obj' = [obj EXCEPT !.status = status(seen)] /\ key' = key
      BY <1>2 DEF UpdateRmdWorkloadStatus
    <2>2. n \in Nodes /\ key \in Keys /\ obj \in Objects
      BY DEF TypeOK, UpdateRmdWorkloadStatus
    <2>3. OwnIds(key, obj) /\ obj # None
      BY <2>2, ConstantsOK DEF IdsOwn, Copies
    <2>4. \A m \in Nodes : \/ status(seen)[m].id = obj.status[m].id
                           \/ status(seen)[m].id = FindWorkloadByName(m, NameOf[key])
      BY <2>2 DEF Objects
    <2>5. status(seen) \in [Nodes -> WorkloadState]
      <3>1. seen \in Nat /\ answered.response \in Response
        BY <2>2, FindWorkloadByNameType DEF TypeOK, UpdateRmdWorkloadStatus
      <3>. QED
        BY <2>2, <3>1 DEF Objects, WorkloadState
    <2>. HIDE DEF status
    <2>6. obj' # None /\ obj'.status = status(seen)
      <3>1. obj' \in Objects
        BY <2>1, <2>2, <2>5 DEF Objects
      <3>. QED
        BY <2>1, <2>2, <3>1, ConstantsOK DEF Objects
    <2>7. api'[key] # None /\ api'[key].status = status(seen)
      <3>1. api[key] \in Objects /\ api'[key] = [api[key] EXCEPT !.status = status(seen)]
        BY <2>1, <2>2 DEF TypeOK, StatusUpdate
      <3>2. api'[key] \in Objects
        BY <2>5, <3>1 DEF Objects
      <3>. QED
        BY <3>1, <3>2, ConstantsOK DEF Objects
    <2>8. OwnIds(key, obj') /\ OwnIds(key, api'[key])
      <3>1. OwnIds(key, obj')
        BY <2>2, <2>3, <2>4, <2>6, OwnIdsFrom
      <3>2. OwnIds(key, api'[key])
        BY <2>2, <2>3, <2>4, <2>7, OwnIdsFrom
      <3>. QED
        BY <3>1, <3>2
    <2>9. UNCHANGED cached /\ \A j \in Keys \ {key} : api'[j] = api[j]
      BY <2>1 DEF StatusUpdate, TypeOK
    <2>. QED
      BY <2>1, <2>8, <2>9 DEF IdsOwn, Copies
  <1>. QED
    BY <1>1, <1>2

LEMMA IdsFinish ==
  ASSUME TypeOK, TypeOK', ServerInv, IdsOwn, FinishReconcile
  PROVE  \A j \in Keys : \A o \in Copies(j)' : OwnIds(j, o)
  <1>1. CASE UNCHANGED objects
    BY <1>1, ConstantsOK DEF FinishReconcile, Fail, Return, objects, IdsOwn, Copies
  <1>2. CASE StatusUpdate(obj.status)
    <2>1. key \in Keys /\ OwnIds(key, obj) /\ obj # None
      BY ConstantsOK DEF TypeOK, FinishReconcile, IdsOwn, Copies
    <2>2. api'[key] # None /\ api'[key].status = obj.status /\ key' = None /\ UNCHANGED cached
      BY <1>2, <2>1, ConstantsOK DEF TypeOK, StatusUpdate, Objects, FinishReconcile, Fail, Return
    <2>3. OwnIds(key, api'[key])
      BY <2>1, <2>2, OwnIdsFrom
    <2>4. \A j \in Keys \ {key} : api'[j] = api[j]
      BY <1>2 DEF StatusUpdate, TypeOK
    <2>. QED
      BY <2>2, <2>3, <2>4, ConstantsOK DEF IdsOwn, Copies
  <1>. QED
    BY <1>1, <1>2 DEF FinishReconcile

LEMMA CopiesSteps ==
  ASSUME TypeOK, TypeOK', ServerInv, [Next]_vars
  PROVE  \/ CopiesOnly \/ UpdateRmdWorkloadStatus \/ FinishReconcile
         \/ \E k \in Keys, s \in Specs : ApplyObject(k, s)
         \/ \E n \in Nodes, id \in Nat : Deletes(n, id)
  <1>1. ASSUME NEW n \in todo,
               FindObseleteWorkload(n) \/ GetTargetedNode(n) \/ FindRemovedNode(n)
        PROVE  CopiesOnly
    BY <1>1 DEF FindObseleteWorkload, GetTargetedNode, FindRemovedNode, Fail, Return, objects,
                CopiesOnly
  <1>2. ASSUME NEW f \in found, AddWorkload(f) \/ UpdateWorkload(f)
        PROVE  CopiesOnly
    BY <1>2 DEF AddWorkload, UpdateWorkload, Answer, objects, CopiesOnly
  <1>3. CASE FindRemovedNodes \/ FinishDeletion
    BY <1>3 DEF FindRemovedNodes, FinishDeletion, Return, objects, CopiesOnly
  <1>4. ASSUME NEW k \in Keys, Reconcile(k) \/ Sync(k) \/ TimerFires(k) \/ DeleteObject(k)
        PROVE  CopiesOnly
    <2>1. CASE Reconcile(k)
      BY <2>1 DEF Reconcile, objects, CopiesOnly, TypeOK
    <2>2. CASE Sync(k)
      BY <2>2 DEF Sync, pass, CopiesOnly, TypeOK
    <2>3. CASE TimerFires(k) \/ DeleteObject(k)
      BY <2>3 DEF TimerFires, DeleteObject, objects, pass, CopiesOnly, TypeOK
    <2>. QED
      BY <1>4, <2>1, <2>2, <2>3
  <1>5. ASSUME NEW n \in Nodes, NodeStep(n) PROVE CopiesOnly
    BY <1>5 DEF NodeStep, PodStops, PodEvicted, Stop, PodStarts, LearnNode, ForgetNode, Relabel,
                objects, pass, CopiesOnly
  <1>6. CASE OperatorRestarts \/ UNCHANGED vars
    BY <1>6 DEF OperatorRestarts, Return, vars, objects, pass, CopiesOnly
  <1>7. ASSUME NEW f \in found, DeleteObseleteWorkload(f) \/ RemoveWorkload(f)
        PROVE  CopiesOnly \/ \E n \in Nodes, id \in Nat : Deletes(n, id)
    BY <1>7, DeleteEffect DEF TypeOK, NodeAt
  <1>. QED
    BY <1>1, <1>2, <1>3, <1>4, <1>5, <1>6, <1>7 DEF Next, ReconcileStep, KeyStep

\* While the servers stay as they are ...
LEMMA IdsQuiet ==
  ASSUME TypeOK, TypeOK', ServerInv, IdsOwn, [Next]_vars, Quiet,
         ~\E n \in Nodes, id \in Nat : Deletes(n, id)
  PROVE  IdsOwn'
  <1>1. \A j \in Keys : \A o \in Copies(j)' : OwnIds(j, o)
    <2>1. CASE CopiesOnly
      <3>1. \A j \in Keys : \A o \in Copies(j)' : o = None \/ o \in Copies(j)
        BY <2>1, ConstantsOK DEF CopiesOnly, Copies, TypeOK
      <3>. QED
        BY <3>1 DEF IdsOwn, OwnIds
    <2>. QED
      BY <2>1, CopiesSteps, IdsRecord, IdsFinish, IdsApply
  <1>. QED
    BY <1>1 DEF IdsOwn, OwnIds, Quiet

\* ... when a workload is added, under an ID that is new, ...
LEMMA IdsPost ==
  ASSUME TypeOK, IdsOwn, NEW n \in Nodes, Posts(n)
  PROVE  IdsOwn'
  <1>1. \A k \in Keys : Copies(k)' = Copies(k)
    BY DEF Posts, Copies
  <1>2. \A m \in Nodes : /\ lastId[m] \in Nat /\ lastId'[m] = IF m = n THEN lastId[m] + 1 ELSE lastId[m]
                         /\ \A e \in db'[m] : e \in db[m] \/ e.id = lastId[m] + 1
    BY DEF Posts, PostWorkload, TypeOK
  <1>3. ASSUME NEW k \in Keys, NEW o \in Copies(k), o # None, NEW m \in Nodes
        PROVE  /\ o.status[m].id <= lastId'[m]
               /\ \A e \in db'[m] : e.id = o.status[m].id => e.uuid = NameOf[k]
    <2>1. o \in Objects /\ o.status[m].id \in Nat
      BY <1>3 DEF Copies, TypeOK, Objects, WorkloadState
    <2>2. /\ o.status[m].id <= lastId[m]
          /\ \A e \in db[m] : e.id = o.status[m].id => e.uuid = NameOf[k]
      BY <1>3 DEF IdsOwn, OwnIds
    <2>. QED
      BY <1>2, <2>1, <2>2
  <1>. QED
    BY <1>1, <1>3 DEF IdsOwn, OwnIds

\* ... when one takes on another version, which leaves its ID and name, ...
LEMMA IdsPatch ==
  ASSUME TypeOK, IdsOwn, NEW n \in Nodes, Patches(n)
  PROVE  IdsOwn'
  <1>1. \A k \in Keys : Copies(k)' = Copies(k)
    BY DEF Patches, Copies
  <1>2. \A m \in Nodes : \A d \in db'[m] : \E e \in db[m] : d.id = e.id /\ d.uuid = e.uuid
    BY DEF Patches, PatchWorkload, TypeOK, Entry
  <1>3. lastId' = lastId
    BY DEF Patches
  <1>. QED
    BY <1>1, <1>2, <1>3 DEF IdsOwn, OwnIds

\* ... and when one goes.
LEMMA IdsDelete ==
  ASSUME TypeOK, ServerInv, IdsOwn, NEW n \in Nodes, NEW id \in Nat, Deletes(n, id)
  PROVE  IdsOwn'
  <1>1. \A m \in Nodes : db'[m] \subseteq db[m] /\ lastId'[m] = lastId[m]
    BY DEF Deletes, TypeOK
  <1>2. \A k \in Keys : \A o \in Copies(k)' : OwnIds(k, o)
    <2>1. CASE key' = None \/ obj' = obj
      BY <2>1, ConstantsOK DEF Deletes, IdsOwn, Copies
    <2>2. CASE key' = key /\ obj \in Objects /\ obj' = [obj EXCEPT !.status[n] = NoState]
      <3>1. OwnIds(key, obj) /\ obj # None /\ key \in Keys
        BY <2>2, ConstantsOK DEF Deletes, IdsOwn, Copies
      <3>2. obj' \in Objects
        BY <2>2 DEF Objects, NoState, WorkloadState, Response
      <3>3. \A m \in Nodes : obj'.status[m].id = 0 \/ obj'.status[m].id = obj.status[m].id
        BY <2>2 DEF Objects, NoState
      <3>4. OwnIds(key, obj')
        BY <3>1, <3>2, <3>3, OwnIdsFrom, ConstantsOK
      <3>. QED
        BY <2>2, <3>4 DEF Deletes, IdsOwn, Copies
    <2>. QED
      BY <2>1, <2>2 DEF Deletes
  <1>. QED
    BY <1>1, <1>2 DEF IdsOwn, OwnIds

LEMMA IdsInit == Init => StatusIdsOwn
  BY ConstantsOK DEF Init, StatusIdsOwn, Copies, OwnIds

LEMMA IdsStep ==
  TypeOK /\ TypeOK' /\ ServerInv /\ PodsLabelled /\ StatusIdsOwn /\ [Next]_vars => StatusIdsOwn'
  <1>. SUFFICES ASSUME TypeOK, TypeOK', ServerInv, PodsLabelled, StatusIdsOwn, [Next]_vars, PodsKept'
                PROVE  IdsOwn'
    BY DEF StatusIdsOwn, IdsOwn
  <1>1. IdsOwn
    BY KeptBefore DEF StatusIdsOwn, IdsOwn
  <1>2. CASE \E n \in Nodes : Posts(n) \/ Patches(n)
    BY <1>1, <1>2, IdsPost, IdsPatch
  <1>3. CASE \E n \in Nodes, id \in Nat : Deletes(n, id)
    BY <1>1, <1>3, IdsDelete
  <1>4. CASE Quiet /\ ~\E n \in Nodes, id \in Nat : Deletes(n, id)
    BY <1>1, <1>4, IdsQuiet
  <1>. QED
    BY <1>2, <1>3, <1>4, Effects

\* While no pod loses its workloads, no copy of an RmdWorkload, however old, holds
\* the ID of another's workload: the PATCH goes to the right one.
THEOREM StatusIdsAreOwn == Spec => []StatusIdsOwn
  <1>1. TypeOK /\ TypeOK' /\ ServerInv /\ PodsLabelled /\ StatusIdsOwn /\ [Next]_vars => StatusIdsOwn'
    BY IdsStep
  <1>2. Init => PodsLabelled
    BY LabelledInit
  <1>3. TypeOK /\ PodsLabelled /\ [Next]_vars => PodsLabelled'
    BY LabelledStep
  <1>. QED
    BY <1>1, <1>2, <1>3, IdsInit, TypeCorrect, ServersConsistent, PTL DEF Spec
(***************************************************************************)
(* Versions.                                                               *)
(***************************************************************************)
Ordered(k) ==
  /\ \A o \in Copies(k) :
       o # None =>
         /\ o.ver <= spent.edits
         /\ \A n \in Nodes : \A e \in Named(n, NameOf[k]) : e.ver <= o.ver
  /\ \A n \in Nodes : \A e \in Named(n, NameOf[k]) : e.ver <= spent.edits
  /\ NotNewer(cached[k], api[k])
  /\ key = k => NotNewer(obj, cached[k]) /\ NotNewer(obj, api[k])

\* Copies are made of copies, and statuses written; no version is.
SameVersion(o, p) == o = p \/ (o # None /\ p # None /\ o.ver = p.ver)

VersionsMove ==
  /\ \A k \in Keys : api'[k] = None \/ SameVersion(api'[k], api[k])
  /\ \A k \in Keys : SameVersion(cached'[k], cached[k]) \/ SameVersion(cached'[k], api[k])
  /\ \/ key' = None
     \/ key' = key /\ SameVersion(obj', obj)
     \/ key' \in Keys /\ SameVersion(obj', cached[key'])

LEMMA StatusKeepsVersion ==
  ASSUME TypeOK, pc \in {"record", "removed"}, NEW status, StatusUpdate(status),
         status \in [Nodes -> WorkloadState]
  PROVE  UNCHANGED cached /\ \A k \in Keys : SameVersion(api'[k], api[k])
  <1>1. key \in Keys /\ api[key] \in Objects /\ api' = [api EXCEPT ![key].status = status]
    BY DEF TypeOK, StatusUpdate
  <1>2. api'[key] \in Objects /\ api'[key].ver = api[key].ver
    BY <1>1 DEF TypeOK, Objects
  <1>. QED
    BY <1>1, <1>2, ConstantsOK DEF SameVersion, StatusUpdate, TypeOK

LEMMA VersionsMoveSteps ==
  ASSUME TypeOK, TypeOK', ServerInv, [Next]_vars, PodsKept',
         ~\E k \in Keys, s \in Specs : ApplyObject(k, s)
  PROVE  VersionsMove
  <1>1. CASE CopiesOnly
    BY <1>1 DEF CopiesOnly, VersionsMove, SameVersion
  <1>2. CASE UpdateRmdWorkloadStatus
    <2>1. CASE Fail /\ UNCHANGED objects
      BY <2>1 DEF Fail, Return, objects, VersionsMove, SameVersion
    <2>2. CASE ~(Fail /\ UNCHANGED objects)
      <3>1. PICK status : /\ StatusUpdate(status) /\ status \in [Nodes -> WorkloadState]
                          /\ obj' = [obj EXCEPT !.status = status] /\ key' = key
        <4> DEFINE n == answered.node
                   status(seen) == [obj.status EXCEPT ![n] =
                                      [response |-> answered.response,
                                       id |-> IF seen # 0 THEN seen ELSE obj.status[n].id]]
        <4>1. PICK seen \in {0, FindWorkloadByName(n, NameOf[key])} :
                /\ StatusUpdate(status(seen))
                /\ obj' = [obj EXCEPT !.status = status(seen)] /\ key' = key
          BY <1>2, <2>2 DEF UpdateRmdWorkloadStatus
        <4>2. /\ n \in Nodes /\ key \in Keys /\ obj \in Objects
              /\ answered.response \in Response
          BY <1>2 DEF TypeOK, UpdateRmdWorkloadStatus
        <4>3. seen \in Nat
          BY <4>2, FindWorkloadByNameType DEF TypeOK
        <4>4. status(seen) \in [Nodes -> WorkloadState]
          BY <4>2, <4>3 DEF Objects, WorkloadState
        <4>. QED
          BY <4>1, <4>4
      <3>2. UNCHANGED cached /\ \A k \in Keys : SameVersion(api'[k], api[k])
        BY <1>2, <3>1, StatusKeepsVersion DEF UpdateRmdWorkloadStatus
      <3>3. obj \in Objects
        BY <1>2 DEF TypeOK, UpdateRmdWorkloadStatus
      <3>4. obj' \in Objects /\ obj'.ver = obj.ver
        BY <3>1, <3>3 DEF Objects
      <3>. QED
        BY <3>1, <3>2, <3>3, <3>4, ConstantsOK DEF VersionsMove, SameVersion
    <2>. QED
      BY <2>1, <2>2
  <1>3. CASE FinishReconcile
    <2>1. CASE UNCHANGED objects
      BY <1>3, <2>1 DEF FinishReconcile, Fail, Return, objects, VersionsMove, SameVersion
    <2>2. CASE StatusUpdate(obj.status)
      <3>1. pc = "removed" /\ obj.status \in [Nodes -> WorkloadState] /\ key' = None
        BY <1>3, <2>2 DEF FinishReconcile, Fail, Return, TypeOK, Objects
      <3>2. UNCHANGED cached /\ \A k \in Keys : SameVersion(api'[k], api[k])
        BY <2>2, <3>1, StatusKeepsVersion
      <3>. QED
        BY <3>1, <3>2 DEF VersionsMove, SameVersion
    <2>. QED
      BY <1>3, <2>1, <2>2 DEF FinishReconcile
  <1>4. ASSUME NEW n \in Nodes, NEW id \in Nat, Deletes(n, id)
        PROVE  VersionsMove
    <2>1. CASE key' = None \/ obj' = obj
      BY <1>4, <2>1 DEF Deletes, VersionsMove, SameVersion
    <2>2. CASE key' = key /\ obj \in Objects /\ obj' = [obj EXCEPT !.status[n] = NoState]
      <3>1. obj' \in Objects /\ obj'.ver = obj.ver
        BY <2>2 DEF Objects, NoState, WorkloadState, Response
      <3>. QED
        BY <1>4, <2>2, <3>1, ConstantsOK DEF Deletes, VersionsMove, SameVersion
    <2>. QED
      BY <1>4, <2>1, <2>2 DEF Deletes
  <1>. QED
    BY <1>1, <1>2, <1>3, <1>4, CopiesSteps

\* Servers that hold no version they did not hold; and the versions of objects.
LEMMA OrderedMoves ==
  ASSUME TypeOK, TypeOK', VersionsMove, spent.edits <= spent'.edits, NEW k \in Keys, Ordered(k),
         \A n \in Nodes : db'[n] \subseteq db[n]
  PROVE  Ordered(k)'
  <1>1. \A n \in Nodes : Named(n, NameOf[k])' \subseteq Named(n, NameOf[k])
    BY DEF Named
  <1>2. \A o \in Copies(k)' : o = None \/ \E p \in Copies(k) : p # None /\ o.ver = p.ver
    BY ConstantsOK DEF VersionsMove, SameVersion, Copies
  <1>3. spent.edits \in Nat /\ spent'.edits \in Nat
    BY DEF TypeOK, Spent
  <1>4. \A o \in Copies(k) \cup Copies(k)' : o # None => o.ver \in Nat
    BY DEF TypeOK, Copies, Objects
  <1>5. \A n \in Nodes : \A e \in Named(n, NameOf[k]) : e.ver \in Nat
    BY DEF TypeOK, Named, Entry
  <1>6. \A o \in Copies(k)' :
          o # None =>
            /\ o.ver <= spent'.edits
            /\ \A n \in Nodes : \A e \in Named(n, NameOf[k])' : e.ver <= o.ver
    BY <1>1, <1>2, <1>3, <1>4 DEF Ordered
  <1>7. \A n \in Nodes : \A e \in Named(n, NameOf[k])' : e.ver <= spent'.edits
    BY <1>1, <1>3, <1>5 DEF Ordered
  <1>8. NotNewer(cached'[k], api'[k])
    BY <1>4 DEF Ordered, NotNewer, VersionsMove, SameVersion, Copies
  <1>9. key' = k => NotNewer(obj', cached'[k]) /\ NotNewer(obj', api'[k])
    BY <1>4, ConstantsOK DEF Ordered, NotNewer, VersionsMove, SameVersion, Copies
  <1>. QED
    BY <1>6, <1>7, <1>8, <1>9 DEF Ordered

\* Users write the next version.
LEMMA OrderedApply ==
  ASSUME TypeOK, TypeOK', NEW j \in Keys, NEW s \in Specs, ApplyObject(j, s),
         NEW k \in Keys, Ordered(k)
  PROVE  Ordered(k)'
  <1>1. /\ UNCHANGED <<cached, db, key, obj>> /\ spent'.edits = spent.edits + 1
        /\ spent.edits \in Nat
        /\ \A i \in Keys : api'[i] = api[i] \/ (i = j /\ api'[i].ver = spent.edits + 1)
    BY DEF ApplyObject, servers, TypeOK, Spent
  <1>2. \A o \in Copies(k) : o # None => o.ver \in Nat /\ o.ver <= spent.edits
    BY DEF TypeOK, Copies, Objects, Ordered
  <1>3. \A n \in Nodes : /\ Named(n, NameOf[k])' = Named(n, NameOf[k])
                         /\ \A e \in Named(n, NameOf[k]) : e.ver \in Nat /\ e.ver <= spent.edits
    BY <1>1 DEF TypeOK, Named, Entry, Ordered
  <1>4. \A o \in Copies(k)' : o \in Copies(k) \/ (o = api'[k] /\ o.ver = spent.edits + 1)
    BY <1>1 DEF Copies
  <1>5. \A o \in Copies(k)' :
          o # None =>
            /\ o.ver <= spent'.edits
            /\ \A n \in Nodes : \A e \in Named(n, NameOf[k])' : e.ver <= o.ver
    BY <1>1, <1>2, <1>3, <1>4 DEF Ordered
  <1>6. \A n \in Nodes : \A e \in Named(n, NameOf[k])' : e.ver <= spent'.edits
    BY <1>1, <1>3
  <1>7. NotNewer(cached'[k], api'[k])
    BY <1>1, <1>2 DEF Ordered, NotNewer, Copies
  <1>8. key' = k => NotNewer(obj', cached'[k]) /\ NotNewer(obj', api'[k])
    BY <1>1, <1>2 DEF Ordered, NotNewer, Copies
  <1>. QED
    BY <1>5, <1>6, <1>7, <1>8 DEF Ordered
\* A POST or a PATCH gives the reconciled workload the version of the worker's copy,
\* and no other workload anything.
Serves(n) ==
  /\ key \in Keys /\ obj \in Objects
  /\ UNCHANGED <<api, cached, key, obj>> /\ spent'.edits = spent.edits
  /\ \A m \in Nodes \ {n} : db'[m] = db[m]
  /\ \A d \in db'[n] : d \in db[n] \/ (d.uuid = NameOf[key] /\ d.ver = obj.ver)
  /\ \A e \in db[n] : e.uuid # NameOf[key] => e \in db'[n]

LEMMA PostServes ==
  ASSUME TypeOK, NEW n \in Nodes, Posts(n) PROVE Serves(n)
  BY DEF Posts, PostWorkload, TypeOK, Serves

LEMMA PatchServes ==
  ASSUME TypeOK, IdsOwn, NEW n \in Nodes, Patches(n) PROVE Serves(n)
  <1> DEFINE id == obj.status[n].id
  <1>1. OwnIds(key, obj) /\ obj # None
    BY ConstantsOK DEF Patches, IdsOwn, Copies
  <1>2. \A e \in db[n] : e.id = id => e.uuid = NameOf[key]
    BY <1>1 DEF OwnIds
  <1>3. db'[n] = {IF e.id = id THEN [e EXCEPT !.ver = obj.ver] ELSE e : e \in db[n]}
    BY DEF Patches, PatchWorkload, TypeOK
  <1>4. \A e \in db[n] : e.id = id => /\ [e EXCEPT !.ver = obj.ver].uuid = NameOf[key]
                                     /\ [e EXCEPT !.ver = obj.ver].ver = obj.ver
    BY <1>2 DEF TypeOK, Entry
  <1>5. \A d \in db'[n] : d \in db[n] \/ (d.uuid = NameOf[key] /\ d.ver = obj.ver)
    BY <1>3, <1>4
  <1>6. \A e \in db[n] : e.uuid # NameOf[key] => e \in db'[n]
    BY <1>2, <1>3
  <1>7. \A m \in Nodes \ {n} : db'[m] = db[m]
    BY DEF Patches, PatchWorkload, TypeOK
  <1>. QED
    BY <1>5, <1>6, <1>7 DEF Patches, Serves

LEMMA OrderedServes ==
  ASSUME OneNamespace, TypeOK, NEW n \in Nodes, Serves(n), \A k \in Keys : Ordered(k)
  PROVE  \A k \in Keys : Ordered(k)'
  <1>. TAKE k \in Keys
  <1>1. Copies(k)' = Copies(k)
    BY DEF Serves, Copies
  <1>2. \A m \in Nodes : \A d \in Named(m, NameOf[k])' :
          d \in Named(m, NameOf[k]) \/ (k = key /\ d.ver = obj.ver)
    BY DEF Serves, Named, OneNamespace
  <1>3. k = key => \A o \in Copies(k) : o # None => obj.ver <= o.ver /\ obj.ver <= spent.edits
    <2>1. SUFFICES ASSUME k = key PROVE \A o \in Copies(k) : o # None => obj.ver <= o.ver /\ obj.ver <= spent.edits
      OBVIOUS
    <2>2. obj # None /\ obj.ver \in Nat /\ obj \in Copies(k)
      BY <2>1, ConstantsOK DEF Serves, Objects, Copies
    <2>3. obj.ver <= spent.edits
      BY <2>2 DEF Ordered
    <2>. QED
      BY <2>1, <2>2, <2>3 DEF Ordered, NotNewer, Copies
  <1>4. \A o \in Copies(k) :
          o # None =>
            /\ o.ver <= spent'.edits
            /\ \A m \in Nodes : \A e \in Named(m, NameOf[k])' : e.ver <= o.ver
    BY <1>2, <1>3 DEF Ordered, Serves
  <1>5. \A m \in Nodes : \A e \in Named(m, NameOf[k])' : e.ver <= spent'.edits
    <2>1. k = key => obj.ver <= spent.edits
      BY <1>3, ConstantsOK DEF Copies, Serves
    <2>. QED
      BY <1>2, <2>1 DEF Ordered, Serves
  <1>. QED
    BY <1>1, <1>4, <1>5 DEF Ordered, Serves

LEMMA VersionsInit == Init => VersionsOrdered
  BY ConstantsOK DEF Init, VersionsOrdered, Copies, Named, NotNewer

LEMMA VersionsStep ==
  ASSUME OneNamespace, TypeOK, TypeOK', ServerInv, PodsLabelled, StatusIdsOwn, VersionsOrdered,
         [Next]_vars
  PROVE  VersionsOrdered'
  <1>. SUFFICES ASSUME PodsKept' PROVE \A k \in Keys : Ordered(k)'
    BY DEF VersionsOrdered, Ordered
  <1>1. PodsKept /\ IdsOwn /\ spent.edits <= spent'.edits /\ \A k \in Keys : Ordered(k)
    BY KeptBefore DEF StatusIdsOwn, IdsOwn, VersionsOrdered, Ordered
  <1>2. CASE \E n \in Nodes : Posts(n) \/ Patches(n)
    BY <1>1, <1>2, PostServes, PatchServes, OrderedServes
  <1>3. CASE \E j \in Keys, s \in Specs : ApplyObject(j, s)
    BY <1>1, <1>3, OrderedApply
  <1>4. CASE /\ Quiet \/ \E n \in Nodes, id \in Nat : Deletes(n, id)
             /\ ~\E j \in Keys, s \in Specs : ApplyObject(j, s)
    <2>1. \A n \in Nodes : db'[n] \subseteq db[n]
      BY <1>4 DEF Quiet, Deletes, TypeOK
    <2>2. VersionsMove
      BY <1>4, VersionsMoveSteps
    <2>. QED
      BY <1>1, <2>1, <2>2, OrderedMoves
  <1>. QED
    BY <1>2, <1>3, <1>4, Effects

\* While no pod loses its workloads, versions are ordered as the copies are made:
\* a PATCH never takes a workload back to an older version.
THEOREM VersionsAreOrdered ==
  ASSUME OneNamespace
  PROVE  Spec => []VersionsOrdered
  <1>1. TypeOK /\ TypeOK' /\ ServerInv /\ PodsLabelled /\ StatusIdsOwn /\ VersionsOrdered /\ [Next]_vars
          => VersionsOrdered'
    BY VersionsStep
  <1>2. Init => PodsLabelled
    BY LabelledInit
  <1>3. TypeOK /\ PodsLabelled /\ [Next]_vars => PodsLabelled'
    BY LabelledStep
  <1>. QED
    BY <1>1, <1>2, <1>3, VersionsInit, TypeCorrect, ServersConsistent, StatusIdsAreOwn, PTL DEF Spec
(***************************************************************************)
(* The refinement.                                                         *)
(***************************************************************************)
TheStore == [n \in Nodes |-> [name \in Names |-> VersionOn(n, name)]]
Turn == IF key = None THEN None ELSE NameOf[key]

\* A pass ends before the next one starts.
LEMMA TurnSteps ==
  ASSUME TypeOK, TypeOK', ServerInv, [Next]_vars
  PROVE  key' = key \/ key' = None \/ (key = None /\ key' \in Keys)
  <1>1. CASE UpdateRmdWorkloadStatus \/ FinishReconcile
    BY <1>1 DEF UpdateRmdWorkloadStatus, FinishReconcile, Fail, Return
  <1>2. CASE \E k \in Keys, s \in Specs : ApplyObject(k, s)
    BY <1>2 DEF ApplyObject
  <1>3. CASE \E n \in Nodes, id \in Nat : Deletes(n, id)
    BY <1>3 DEF Deletes
  <1>4. CASE CopiesOnly
    BY <1>4 DEF CopiesOnly
  <1>. QED
    BY <1>1, <1>2, <1>3, <1>4, CopiesSteps

\* Where only the workloads of one name on one node differ, so do the stores.
LEMMA StoreBecomes ==
  ASSUME TypeOK, NEW n \in Nodes, NEW own \in Names,
         \A m \in Nodes \ {n} : db'[m] = db[m],
         \A d \in db'[n] : d.uuid # own => d \in db[n],
         \A e \in db[n] : e.uuid # own => e \in db'[n]
  PROVE  TheStore' = [TheStore EXCEPT ![n] = [@ EXCEPT ![own] = VersionOn(n, own)']]
  <1>1. ASSUME NEW m \in Nodes, NEW name \in Names, m # n \/ name # own
        PROVE  VersionOn(m, name)' = VersionOn(m, name)
    <2>1. Named(m, name)' = Named(m, name)
      BY <1>1 DEF Named
    <2>. QED
      BY <2>1 DEF VersionOn
  <1>. DEFINE V(m, name) == VersionOn(m, name)
              W(m, name) == VersionOn(m, name)'
  <1>. HIDE DEF V, W
  <1>2. /\ TheStore = [m \in Nodes |-> [name \in Names |-> V(m, name)]]
        /\ TheStore' = [m \in Nodes |-> [name \in Names |-> W(m, name)]]
    BY DEF TheStore, V, W
  <1>3. \A m \in Nodes, name \in Names : m # n \/ name # own => W(m, name) = V(m, name)
    BY <1>1 DEF V, W
  <1>4. [m \in Nodes |-> [name \in Names |-> W(m, name)]]
          = [[m \in Nodes |-> [name \in Names |-> V(m, name)]]
               EXCEPT ![n] = [@ EXCEPT ![own] = W(n, own)]]
    BY <1>3
  <1>. QED
    BY <1>2, <1>4 DEF W

LEMMA StoreSame == Quiet => TheStore' = TheStore
  BY DEF Quiet, TheStore, VersionOn, Named

\* The version on a node is that of the one entry.
LEMMA VersionOnIs ==
  ASSUME OneEntryPerName, NEW n \in Nodes, NEW name, NEW e \in Named(n, name)
  PROVE  VersionOn(n, name) = e.ver
  BY DEF OneEntryPerName, Named, VersionOn

LEMMA VersionOnIsPrimed ==
  ASSUME OneEntryPerName', NEW n \in Nodes, NEW name, NEW e \in Named(n, name)'
  PROVE  VersionOn(n, name)' = e.ver
  BY DEF OneEntryPerName, Named, VersionOn

\* A request of the worker, seen in the store: the workload goes or stays or takes
\* on a version that is not older.
Request(n, own) ==
  /\ key \in Keys /\ own = NameOf[key] /\ key' \in {key, None}
  /\ TheStore' = [TheStore EXCEPT ![n] = [@ EXCEPT ![own] = VersionOn(n, own)']]
  /\ \/ VersionOn(n, own)' = None
     \/ VersionOn(n, own)' = VersionOn(n, own)
     \/ /\ key' = key /\ VersionOn(n, own)' = obj.ver /\ obj.ver \in 0..MaxEdits
        /\ VersionOn(n, own) = None \/ VersionOn(n, own) <= obj.ver

LEMMA ServeRequests ==
  ASSUME TypeOK, OneEntryPerName, OneEntryPerName', spent.edits <= MaxEdits,
         \A k \in Keys : Ordered(k), NEW n \in Nodes, Serves(n),
         NEW own \in Names, own = NameOf[key]
  PROVE  Request(n, own)
  <1>1. key \in Keys /\ key' = key
    BY ConstantsOK DEF Serves
  <1>2. TheStore' = [TheStore EXCEPT ![n] = [@ EXCEPT ![own] = VersionOn(n, own)']]
    BY <1>1, StoreBecomes DEF Serves
  <1>3. CASE Named(n, own)' = {}
    BY <1>1, <1>2, <1>3 DEF Request, VersionOn
  <1>4. ASSUME NEW d \in Named(n, own)' PROVE Request(n, own)
    <2>1. VersionOn(n, own)' = d.ver
      BY VersionOnIsPrimed
    <2>2. CASE d \in db[n]
      <3>1. d \in Named(n, own)
        BY <1>4, <2>2 DEF Named
      <3>. QED
        BY <1>1, <1>2, <2>1, <3>1, VersionOnIs DEF Request
    <2>3. CASE d.ver = obj.ver
      <3>1. obj \in Copies(key) /\ obj # None /\ obj.ver \in Nat
        BY ConstantsOK DEF Serves, Copies, Objects
      <3>2. obj.ver <= spent.edits /\ \A e \in Named(n, own) : e.ver <= obj.ver
        BY <1>1, <3>1 DEF Ordered
      <3>3. obj.ver \in 0..MaxEdits
        BY <3>1, <3>2, ConstantsOK DEF TypeOK, Spent
      <3>4. VersionOn(n, own) = None \/ VersionOn(n, own) <= obj.ver
        <4>1. CASE Named(n, own) = {}
          BY <4>1 DEF VersionOn
        <4>2. ASSUME NEW e \in Named(n, own) PROVE VersionOn(n, own) <= obj.ver
          BY <4>2, <3>2, VersionOnIs
        <4>. QED
          BY <4>1, <4>2
      <3>. QED
        BY <1>1, <1>2, <2>1, <2>3, <3>3, <3>4 DEF Request
    <2>. QED
      BY <1>4, <2>2, <2>3 DEF Serves, Named
  <1>. QED
    BY <1>3, <1>4

LEMMA DeleteRequests ==
  ASSUME TypeOK, OneEntryPerName, OneEntryPerName', NEW n \in Nodes, NEW id, Deletes(n, id),
         NEW own \in Names, own = NameOf[key]
  PROVE  Request(n, own)
  <1>1. key \in Keys /\ key' \in {key, None}
    BY ConstantsOK DEF Deletes
  <1>2. /\ \A m \in Nodes \ {n} : db'[m] = db[m]
        /\ \A d \in db'[n] : d \in db[n]
        /\ \A e \in db[n] : e.uuid # own => e \in db'[n]
    BY DEF Deletes, TypeOK
  <1>3. TheStore' = [TheStore EXCEPT ![n] = [@ EXCEPT ![own] = VersionOn(n, own)']]
    BY <1>1, <1>2, StoreBecomes
  <1>4. CASE Named(n, own)' = {}
    BY <1>1, <1>3, <1>4 DEF Request, VersionOn
  <1>5. ASSUME NEW d \in Named(n, own)' PROVE Request(n, own)
    <2>1. d \in Named(n, own)
      BY <1>2, <1>5 DEF Named
    <2>2. VersionOn(n, own)' = d.ver /\ VersionOn(n, own) = d.ver
      BY <2>1, VersionOnIs, VersionOnIsPrimed
    <2>. QED
      BY <1>1, <1>3, <2>2 DEF Request
  <1>. QED
    BY <1>4, <1>5
\* The bound on the users' edits bounds the versions.
LEMMA EditsStep == TypeOK /\ spent.edits <= MaxEdits /\ [Next]_vars => spent'.edits <= MaxEdits
  <1>. SUFFICES ASSUME TypeOK, spent.edits <= MaxEdits, [Next]_vars PROVE spent'.edits <= MaxEdits
    OBVIOUS
  <1>1. CASE ReconcileStep
    BY <1>1, WorkerKeeps
  <1>2. ASSUME NEW k \in Keys, KeyStep(k) PROVE spent'.edits <= MaxEdits
    BY <1>2, ConstantsOK DEF KeyStep, Reconcile, Sync, TimerFires, DeleteObject, ApplyObject,
                             TypeOK, Spent
  <1>3. ASSUME NEW n \in Nodes, NodeStep(n) PROVE spent'.edits <= MaxEdits
    BY <1>3 DEF NodeStep, PodStops, PodEvicted, Stop, PodStarts, LearnNode, ForgetNode, Relabel,
                TypeOK, Spent
  <1>4. CASE OperatorRestarts \/ UNCHANGED vars
    BY <1>4 DEF OperatorRestarts, vars, TypeOK, Spent
  <1>. QED
    BY <1>1, <1>2, <1>3, <1>4 DEF Next

LEMMA RefineInit == Init => Store!Init
  BY DEF Init, Store!Init, VersionOn, Named, PodsKept

LEMMA RefineRequest ==
  ASSUME PodsKept, PodsKept', NEW n \in Nodes, NEW own \in Names, Request(n, own)
  PROVE  [Store!Next]_(Store!vars)
  <1>1. own = Turn /\ Turn # None /\ Turn' \in {Turn, None} /\ (key' = key => Turn' = Turn)
    BY ConstantsOK DEF Request, Turn
  <1>2. CASE VersionOn(n, own)' = None
    <2>1. TheStore' = [TheStore EXCEPT ![n] = [@ EXCEPT ![Turn] = None]]
      BY <1>1, <1>2 DEF Request
    <2>2. Store!Remove(n)
      BY <1>1, <2>1 DEF Store!Remove, Store!Becomes, TheStore, Turn
    <2>. QED
      BY <2>2 DEF Store!Next
  <1>3. CASE VersionOn(n, own)' = VersionOn(n, own)
    <2>1. TheStore' = TheStore
      <3>1. [TheStore EXCEPT ![n] = [@ EXCEPT ![own] = VersionOn(n, own)]] = TheStore
        BY DEF TheStore
      <3>. QED
        BY <1>3, <3>1 DEF Request
    <2>2. CASE Turn' = Turn
      BY <2>1, <2>2 DEF Store!vars, TheStore, Turn
    <2>3. CASE Turn' = None
      <3>1. Store!End
        BY <2>1, <2>3 DEF Store!End, TheStore, Turn
      <3>. QED
        BY <3>1 DEF Store!Next
    <2>. QED
      BY <1>1, <2>2, <2>3
  <1>4. CASE /\ key' = key /\ VersionOn(n, own)' = obj.ver /\ obj.ver \in 0..MaxEdits
             /\ VersionOn(n, own) = None \/ VersionOn(n, own) <= obj.ver
    <2>1. TheStore' = [TheStore EXCEPT ![n] = [@ EXCEPT ![Turn] = obj.ver]]
      BY <1>1, <1>4 DEF Request
    <2>2. TheStore[n][Turn] = None \/ TheStore[n][Turn] <= obj.ver
      BY <1>1, <1>4 DEF TheStore
    <2>3. Store!Configure(n, obj.ver)
      BY <1>1, <1>4, <2>1, <2>2 DEF Store!Configure, Store!Becomes, TheStore, Turn
    <2>. QED
      BY <1>4, <2>3 DEF Store!Next
  <1>. QED
    BY <1>2, <1>3, <1>4 DEF Request

LEMMA RefineQuiet ==
  ASSUME PodsKept, PodsKept', Quiet,
         key' = key \/ key' = None \/ (key = None /\ key' \in Keys)
  PROVE  [Store!Next]_(Store!vars)
  <1>1. TheStore' = TheStore
    BY StoreSame
  <1>2. CASE key' = key
    BY <1>1, <1>2 DEF Store!vars, TheStore
  <1>3. CASE key' = None
    <2>1. Store!End
      BY <1>1, <1>3 DEF Store!End, TheStore
    <2>. QED
      BY <2>1 DEF Store!Next
  <1>4. CASE key = None /\ key' \in Keys
    <2>1. Turn = None /\ Turn' = NameOf[key'] /\ NameOf[key'] \in Names
      BY <1>4, ConstantsOK DEF Turn
    <2>2. PICK name \in Names : name = NameOf[key']
      BY <2>1
    <2>3. Store!Begin(name)
      BY <1>1, <2>1, <2>2 DEF Store!Begin, TheStore, Turn
    <2>. QED
      BY <2>3 DEF Store!Next
  <1>. QED
    BY <1>2, <1>3, <1>4

LEMMA RefineStep ==
  TypeOK /\ TypeOK' /\ ServerInv /\ ServerInv' /\ PodsLabelled /\ StatusIdsOwn
    /\ VersionsOrdered /\ spent.edits <= MaxEdits /\ [Next]_vars
  => [Store!Next]_(Store!vars)
  <1>. SUFFICES ASSUME TypeOK, TypeOK', ServerInv, ServerInv', PodsLabelled, StatusIdsOwn,
                       VersionsOrdered, spent.edits <= MaxEdits, [Next]_vars
                PROVE  [Store!Next]_(Store!vars)
    OBVIOUS
  <1>1. CASE ~PodsKept'
    <2>1. Store!Lose
      BY <1>1 DEF Store!Lose, PodsKept
    <2>. QED
      BY <2>1 DEF Store!Next
  <1>2. CASE PodsKept'
    <2>1. PodsKept /\ IdsOwn /\ \A k \in Keys : Ordered(k)
      BY <1>2, KeptBefore DEF StatusIdsOwn, IdsOwn, VersionsOrdered, Ordered
    <2>2. OneEntryPerName /\ OneEntryPerName'
      BY DEF ServerInv
    <2>3. ASSUME NEW n \in Nodes, Posts(n) \/ Patches(n)
          PROVE  [Store!Next]_(Store!vars)
      <3>1. Serves(n)
        BY <2>1, <2>3, PostServes, PatchServes
      <3>2. PICK own \in Names : own = NameOf[key]
        BY <3>1, ConstantsOK DEF Serves
      <3>. QED
        BY <1>2, <2>1, <2>2, <3>1, <3>2, ServeRequests, RefineRequest
    <2>4. ASSUME NEW n \in Nodes, NEW id \in Nat, Deletes(n, id)
          PROVE  [Store!Next]_(Store!vars)
      <3>1. PICK own \in Names : own = NameOf[key]
        BY <2>4, ConstantsOK DEF Deletes
      <3>. QED
        BY <1>2, <2>1, <2>2, <2>4, <3>1, DeleteRequests, RefineRequest
    <2>5. CASE Quiet
      BY <1>2, <2>1, <2>5, TurnSteps, RefineQuiet
    <2>. QED
      BY <1>2, <2>3, <2>4, <2>5, Effects
  <1>. QED
    BY <1>1, <1>2

\* The RMD servers of the cluster are one WorkloadStore until a pod stops: whatever
\* the users, faults, restarts and caches do, every request of a pass touches the
\* workload of the pass and no other, on one node, and no version goes back.
THEOREM ServersImplementStore ==
  ASSUME OneNamespace
  PROVE  Spec => ImplementsStore
  <1>1. TypeOK /\ TypeOK' /\ ServerInv /\ ServerInv' /\ PodsLabelled /\ StatusIdsOwn
          /\ VersionsOrdered /\ spent.edits <= MaxEdits /\ [Next]_vars
        => [Store!Next]_(Store!vars)
    BY RefineStep
  <1>2. Init => PodsLabelled
    BY LabelledInit
  <1>3. TypeOK /\ PodsLabelled /\ [Next]_vars => PodsLabelled'
    BY LabelledStep
  <1>4. Init => spent.edits <= MaxEdits
    BY ConstantsOK DEF Init
  <1>5. TypeOK /\ spent.edits <= MaxEdits /\ [Next]_vars => (spent.edits <= MaxEdits)'
    BY EditsStep
  <1>. QED
    BY <1>1, <1>2, <1>3, <1>4, <1>5, RefineInit, TypeCorrect, ServersConsistent, StatusIdsAreOwn,
       VersionsAreOrdered, PTL DEF Spec, ImplementsStore, Store!Spec
=============================================================================
