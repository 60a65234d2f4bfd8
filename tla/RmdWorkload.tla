---------------------------- MODULE RmdWorkload ----------------------------
(***************************************************************************)
(* The RmdWorkload controller of the operator against one RMD server per   *)
(* node (pkg/controller/rmdworkload/rmdworkload_controller.go and the RMD  *)
(* client in pkg/rmd/rmd.go).                                              *)
(*                                                                         *)
(* A user creates, edits and deletes RmdWorkload objects.  One worker      *)
(* takes their keys from a work queue and reconciles them: every request   *)
(* to an RMD server and every write to the API server is a step of its     *)
(* own, so users, caches, pods and the other controllers of the operator   *)
(* run between any two of them.                                            *)
(*                                                                         *)
(* Abstractions.  The payload of a workload (cores, cache, MBA, plugins)   *)
(* is the number of the edit that wrote it, "ver".  Spec.Nodes is a set,   *)
(* visited in any order.  RmdConfig does not change and the API server is  *)
(* always there to read it and the nodes, which it shows without delay; a  *)
(* read of an RmdWorkload fails only with NotFound.  An RMD server keeps   *)
(* its workloads in memory: a new pod starts empty and numbers from 1.     *)
(***************************************************************************)
EXTENDS Naturals, FiniteSets

CONSTANTS
  Nodes,          \* the nodes of the cluster
  Keys,           \* namespace/name of the RmdWorkload objects users work with
  Names,          \* RmdWorkload names, which RMD takes as the workload's UUID
  NameOf,         \* [Keys -> Names]: ObjectMeta.Name, the key less its namespace
  LabelMaps,      \* the label maps a node can carry
  RmdSelector,    \* RmdConfig.Spec.RmdNodeSelector, a label map
  Specs,          \* [nodes, nodeSelector] of the specs users write
  InitialLabels,  \* [Nodes -> LabelMaps]
  None,           \* no object, no key
  MaxEdits,       \* user writes and deletes of RmdWorkloads
  MaxFaults,      \* requests to a live RMD that fail or lose their answer
  MaxStops,       \* RMD pods that stop
  MaxRestarts,    \* restarts of the operator
  MaxRelabels,    \* changes of node labels
  MaxForgets      \* deletions of RmdNodeState objects

Response == {"none", "Success", "Fail"}
WorkloadState == [response : Response, id : Nat]   \* id 0 is the empty ID
Objects == [spec : Specs, ver : Nat, status : [Nodes -> WorkloadState]]
Entry == [id : Nat, uuid : Names, ver : Nat]       \* an RDTWorkLoad of RMD
NodeAt == [node : Nodes, id : Nat]                 \* a node and the ID found there

ASSUME ConstantsOK ==
  /\ NameOf \in [Keys -> Names]
  /\ InitialLabels \in [Nodes -> LabelMaps]
  /\ \A s \in Specs : s.nodes \subseteq Nodes
  /\ None \notin Keys /\ None \notin Names
  /\ None \notin Objects
  /\ MaxEdits \in Nat /\ MaxFaults \in Nat /\ MaxStops \in Nat
  /\ MaxRestarts \in Nat /\ MaxRelabels \in Nat /\ MaxForgets \in Nat

VARIABLES
  api,            \* the RmdWorkload objects the API server holds
  cached,         \* the copies in the operator's informer cache
  cacheFresh,     \* does the cached copy carry the current resourceVersion?
  up,             \* nodes whose RMD pod runs
  db,             \* the workloads each RMD server has configured
  lastId,         \* the last workload ID each RMD server gave out
  queue,          \* keys in the controller's work queue
  delayed,        \* keys waiting for their 60 second RequeueAfter
  pc,             \* what the worker is doing
  key,            \* the request being reconciled
  obj,            \* rmdWorkload, Reconcile's own copy of the object
  objFresh,       \* does obj carry the current resourceVersion?
  todo,           \* nodes the current loop has still to visit
  found,          \* what it found: targetedNodes, removedNodes or obseleteWorkloads
  answered,       \* node and response of the request just answered
  rmdNodeList,    \* rmdNodeData.RmdNodeList, shared with the other controllers
  labels,         \* node labels
  spent           \* how much of each bound on the environment is used up

objects == <<api, cached, cacheFresh>>
servers == <<up, db, lastId>>
work    == <<queue, delayed>>
loop    == <<todo, found, answered>>
pass    == <<pc, key, obj, objFresh, loop>>
nodes   == <<rmdNodeList, labels>>
vars    == <<objects, servers, work, pass, nodes, spent>>

NoState == [response |-> "none", id |-> 0]
NoStatus == [n \in Nodes |-> NoState]

(***************************************************************************)
(* Labels.  A selector and the labels of a node are maps; in labels.Merge  *)
(* the second map wins; AreLabelsInWhiteList holds for every selector when *)
(* the node has no label at all.                                           *)
(***************************************************************************)
Matches(sel, lbl) ==
  \A k \in DOMAIN sel : k \in DOMAIN lbl /\ lbl[k] = sel[k]

Merge(one, two) ==
  [k \in DOMAIN one \cup DOMAIN two |->
     IF k \in DOMAIN two THEN two[k] ELSE one[k]]

AreLabelsInWhiteList(sel, lbl) == DOMAIN lbl = {} \/ Matches(sel, lbl)

HasRmd(n) == Matches(RmdSelector, labels[n])

ByNodes(spec) == DOMAIN spec.nodeSelector = {}

\* The nodes findTargetedNodes visits: Spec.Nodes, or those with all labels.
Targets(spec) ==
  IF ByNodes(spec) THEN spec.nodes
  ELSE {n \in Nodes : Matches(Merge(RmdSelector, spec.nodeSelector), labels[n])}

\* Does findRemovedNodes leave the workload where it finds it on node n?
Kept(spec, n) ==
  IF ByNodes(spec) THEN n \in spec.nodes
  ELSE AreLabelsInWhiteList(spec.nodeSelector, labels[n])

(***************************************************************************)
(* Requests to the RMD server of node n.  "lost": the server did what it   *)
(* was asked and its answer never arrived or was not a success.  "failed": *)
(* nothing happened, which is also what a node without a pod answers.      *)
(***************************************************************************)
HasPodAddress(n) == n \in up   \* getPodAddress: there is an RMD pod on n

Outcomes(n) ==
  IF ~HasPodAddress(n) THEN {"failed"}
  ELSE {"ok"} \cup (IF spent.faults < MaxFaults THEN {"lost", "failed"} ELSE {})

Charge(n, outcome) ==
  spent' = [spent EXCEPT !.faults =
              IF HasPodAddress(n) /\ outcome # "ok" THEN @ + 1 ELSE @]

Named(n, name) == {e \in db[n] : e.uuid = name}

FirstWorkload(n, name) ==   \* wrong: whatever the server lists first
  IF db[n] = {} THEN 0 ELSE (CHOOSE e \in db[n] : TRUE).id

\* The ID of a workload with that name, 0 for none.
FindWorkloadByName(n, name) ==
  IF Named(n, name) = {} THEN 0 ELSE (CHOOSE e \in Named(n, name) : TRUE).id

\* POST adds a workload, even under a name the server has; PATCH changes the
\* one with the ID; DELETE removes it.  An unknown ID is an error.
PostWorkload(n, name, ver) ==
  /\ lastId' = [lastId EXCEPT ![n] = @ + 1]
  /\ db' = [db EXCEPT ![n] = @ \cup {[id |-> lastId[n] + 1, uuid |-> name, ver |-> ver]}]

PatchPrevious(n, id, ver) ==   \* wrong: the payload of the edit before
  db' = [db EXCEPT ![n] = {IF e.id = id THEN [e EXCEPT !.ver = ver - 1] ELSE e : e \in @}]

PatchWorkload(n, id, ver) ==
  db' = [db EXCEPT ![n] = {IF e.id = id THEN [e EXCEPT !.ver = ver] ELSE e : e \in @}]

DeleteWorkload(f) == db' = [db EXCEPT ![f.node] = {e \in @ : e.id # f.id}]

Holds(n, id) == \E e \in db[n] : e.id = id

(***************************************************************************)
(* The initial state: an operator in service, with no workload yet.        *)
(***************************************************************************)
Init ==
  /\ api = [k \in Keys |-> None] /\ cached = api
  /\ cacheFresh = [k \in Keys |-> TRUE]
  /\ labels = InitialLabels
  /\ up = {n \in Nodes : HasRmd(n)}
  /\ rmdNodeList = up
  /\ db = [n \in Nodes |-> {}] /\ lastId = [n \in Nodes |-> 0]
  /\ queue = {} /\ delayed = {}
  /\ pc = "idle" /\ key = None /\ obj = None /\ objFresh = TRUE
  /\ todo = {} /\ found = {} /\ answered = None
  /\ spent = [edits |-> 0, faults |-> 0, stops |-> 0,
              restarts |-> 0, relabels |-> 0, forgets |-> 0]

(***************************************************************************)
(* The API server: users, and the informer that follows them.  Any write   *)
(* of an object gives it a resourceVersion that no copy carries.           *)
(***************************************************************************)
Outdate(k) ==
  /\ cacheFresh' = [cacheFresh EXCEPT ![k] = FALSE]
  /\ objFresh' = (objFresh /\ key # k)

\* kubectl apply: the spec is replaced, the status subresource is not.
ApplyObject(k, s) ==
  /\ spent.edits < MaxEdits
  /\ spent' = [spent EXCEPT !.edits = @ + 1]
  /\ api' = [api EXCEPT ![k] =
               [spec |-> s, ver |-> spent.edits + 1,
                status |-> IF api[k] = None THEN NoStatus ELSE api[k].status]]
  /\ Outdate(k)
  /\ UNCHANGED <<cached, servers, work, pc, key, obj, loop, nodes>>

\* kubectl delete: no finalizer holds the object back.
DeleteObject(k) ==
  /\ spent.edits < MaxEdits /\ api[k] # None
  /\ spent' = [spent EXCEPT !.edits = @ + 1]
  /\ api' = [api EXCEPT ![k] = None]
  /\ Outdate(k)
  /\ UNCHANGED <<cached, servers, work, pc, key, obj, loop, nodes>>

\* The watch delivers: the cache catches up, the event enqueues the request.
Sync(k) ==
  /\ ~cacheFresh[k]
  /\ cached' = [cached EXCEPT ![k] = api[k]]
  /\ cacheFresh' = [cacheFresh EXCEPT ![k] = TRUE]
  /\ queue' = queue \cup {k}
  /\ UNCHANGED <<api, servers, delayed, pass, nodes, spent>>

TimerFires(k) ==
  /\ k \in delayed
  /\ delayed' = delayed \ {k}
  /\ queue' = queue \cup {k}
  /\ UNCHANGED <<objects, servers, pass, nodes, spent>>

(***************************************************************************)
(* Ends of a pass.  Return hands the worker back to the queue; an error    *)
(* puts the request back (rate limited), success may ask for 60 seconds.   *)
(***************************************************************************)
Return ==
  /\ pc' = "idle" /\ key' = None /\ obj' = None /\ objFresh' = TRUE
  /\ todo' = {} /\ found' = {} /\ answered' = None

Fail == Return /\ queue' = queue \cup {key} /\ UNCHANGED delayed

\* r.client.Status().Update with the given status: refused when the object is
\* gone or has been written since obj was read; a no-op keeps its version.
StatusUpdate(status) ==
  /\ objFresh /\ api[key] # None
  /\ api' = [api EXCEPT ![key] = [@ EXCEPT !.status = status]]
  /\ cacheFresh' = [cacheFresh EXCEPT ![key] = @ /\ status = api[key].status]
  /\ UNCHANGED cached

Conflict == ~(objFresh /\ api[key] # None)

ReconcileAny(k) ==   \* wrong: a deleted object is reconciled like any other
  /\ pc = "idle" /\ k \in queue
  /\ queue' = queue \ {k}
  /\ key' = k /\ obj' = cached[k] /\ objFresh' = cacheFresh[k]
  /\ pc' = "target" /\ todo' = rmdNodeList
  /\ UNCHANGED <<objects, servers, delayed, found, answered, nodes, spent>>

ReconcileUncached(k) ==   \* wrong: the object of the API server, around the cache
  /\ pc = "idle" /\ k \in queue
  /\ queue' = queue \ {k}
  /\ key' = k /\ obj' = api[k] /\ objFresh' = TRUE
  /\ \/ api[k] = None /\ pc' = "obselete" /\ todo' = rmdNodeList
     \/ api[k] # None /\ pc' = "target" /\ todo' = Targets(api[k].spec)
  /\ UNCHANGED <<objects, servers, delayed, found, answered, nodes, spent>>

(***************************************************************************)
(* Reconcile.  The object comes from the cache; a missing one is a         *)
(* deleted one, whose workloads are looked for on every node of            *)
(* RmdNodeList.                                                            *)
(***************************************************************************)
Reconcile(k) ==
  /\ pc = "idle" /\ k \in queue
  /\ queue' = queue \ {k}
  /\ key' = k /\ obj' = cached[k] /\ objFresh' = cacheFresh[k]
  /\ \/ cached[k] = None /\ pc' = "obselete" /\ todo' = rmdNodeList
     \/ cached[k] # None /\ pc' = "target" /\ todo' = Targets(cached[k].spec)
  /\ UNCHANGED <<objects, servers, delayed, found, answered, nodes, spent>>

\* One node of findObseleteWorkloads: any failure abandons the deletion.
FindObseleteWorkload(n) ==
  /\ pc = "obselete" /\ n \in todo
  /\ \E o \in Outcomes(n) :
       /\ Charge(n, o)
       /\ \/ /\ o = "ok"
             /\ todo' = todo \ {n}
             /\ LET id == FindWorkloadByName(n, NameOf[key])
                IN found' = IF id = 0 THEN found ELSE found \cup {[node |-> n, id |-> id]}
             /\ UNCHANGED <<work, pc, key, obj, objFresh, answered>>
          \/ o # "ok" /\ Fail
  /\ UNCHANGED <<objects, servers, nodes>>

DeleteObseleteOnce(f) ==   \* wrong: a failed DELETE is only logged
  /\ pc = "obselete" /\ todo = {} /\ f \in found
  /\ \E o \in Outcomes(f.node) :
       /\ Charge(f.node, o)
       /\ IF o = "failed" THEN UNCHANGED db ELSE DeleteWorkload(f)
  /\ found' = found \ {f}
  /\ UNCHANGED <<work, pc, key, obj, objFresh, todo, answered, objects, up, lastId, nodes>>

\* One DELETE of the loop in Reconcile: any failure abandons the deletion.
DeleteObseleteWorkload(f) ==
  /\ pc = "obselete" /\ todo = {} /\ f \in found
  /\ \E o \in Outcomes(f.node) :
       /\ Charge(f.node, o)
       /\ IF o = "failed" THEN UNCHANGED db ELSE DeleteWorkload(f)
       /\ \/ /\ o = "ok" /\ Holds(f.node, f.id)
             /\ found' = found \ {f}
             /\ UNCHANGED <<work, pc, key, obj, objFresh, todo, answered>>
          \/ (o # "ok" \/ ~Holds(f.node, f.id)) /\ Fail
  /\ UNCHANGED <<objects, up, lastId, nodes>>

\* Nothing (more) to delete: return and do not requeue.
FinishDeletion ==
  /\ pc = "obselete" /\ todo = {} /\ found = {}
  /\ Return
  /\ UNCHANGED <<objects, servers, work, nodes, spent>>

GetTargetedNodeBlind(n) ==   \* wrong: a failed GET counts as "no workload there"
  /\ pc = "target" /\ n \in todo
  /\ \E o \in Outcomes(n) :
       /\ Charge(n, o)
       /\ todo' = todo \ {n}
       /\ found' = found \cup
            {[node |-> n, id |-> IF o = "ok" THEN FindWorkloadByName(n, NameOf[key]) ELSE 0]}
  /\ UNCHANGED <<work, pc, key, obj, objFresh, answered, objects, servers, nodes>>

GetTargetedNode(n) ==
  /\ pc = "target" /\ n \in todo
  /\ \E o \in Outcomes(n) :
       /\ Charge(n, o)
       /\ \/ /\ o = "ok"
             /\ todo' = todo \ {n}
             /\ found' = found \cup
                  {[node |-> n, id |-> FindWorkloadByName(n, NameOf[key])]}
             /\ UNCHANGED <<work, pc, key, obj, objFresh, answered>>
          \/ /\ o # "ok" /\ ByNodes(obj.spec)
             /\ todo' = todo \ {n}
             /\ UNCHANGED <<work, pc, key, obj, objFresh, found, answered>>
          \/ o # "ok" /\ ~ByNodes(obj.spec) /\ Fail
  /\ UNCHANGED <<objects, servers, nodes>>

AnswerAgain(f, response) ==   \* wrong: the node stays to be served
  /\ pc' = "record"
  /\ answered' = [node |-> f.node, response |-> response]
  /\ UNCHANGED <<objects, up, work, key, obj, objFresh, todo, found, nodes>>

Answer(f, response) ==
  /\ pc' = "record"
  /\ answered' = [node |-> f.node, response |-> response]
  /\ found' = found \ {f}
  /\ UNCHANGED <<objects, up, work, key, obj, objFresh, todo, nodes>>

\* addWorkload's POST: a failure only shows in the response.
AddWorkload(f) ==
  /\ pc = "target" /\ todo = {} /\ f \in found /\ f.id = 0
  /\ \E o \in Outcomes(f.node) :
       /\ Charge(f.node, o)
       /\ IF o = "failed" THEN UNCHANGED <<db, lastId>>
          ELSE PostWorkload(f.node, NameOf[key], obj.ver)
       /\ Answer(f, IF o = "ok" THEN "Success" ELSE "Fail")

\* updateWorkload's PATCH goes to the ID in the status of the object, not to
\* the ID getTargetedNode saw.  RMD refuses an ID it does not hold.
UpdateWorkload(f) ==
  /\ pc = "target" /\ todo = {} /\ f \in found /\ f.id # 0
  /\ LET id == obj.status[f.node].id
     IN \E o \in Outcomes(f.node) :
          /\ Charge(f.node, o)
          /\ IF o = "failed" THEN UNCHANGED db ELSE PatchWorkload(f.node, id, obj.ver)
          /\ Answer(f, IF o = "ok" /\ Holds(f.node, id) THEN "Success" ELSE "Fail")
  /\ UNCHANGED lastId

UpdateStatusOnce ==   \* wrong: the first response stays
  /\ pc = "record"
  /\ LET n == answered.node
         old == obj.status[n]
     IN \E o \in Outcomes(n) :
          /\ Charge(n, o)
          /\ LET seen == IF o = "ok" THEN FindWorkloadByName(n, NameOf[key]) ELSE 0
                 status == [obj.status EXCEPT ![n] =
                              [response |-> IF old.response = "none" THEN answered.response
                                            ELSE old.response,
                               id |-> IF seen # 0 THEN seen ELSE old.id]]
             IN \/ /\ StatusUpdate(status)
                   /\ obj' = [obj EXCEPT !.status = status]
                   /\ pc' = "target" /\ answered' = None
                   /\ UNCHANGED <<work, key, objFresh, todo, found>>
                \/ Conflict /\ Fail /\ UNCHANGED objects
  /\ UNCHANGED <<servers, nodes>>

\* updateRmdWorkloadStatus: ask RMD again for the ID (a failure keeps the old
\* one), then write the status.  A refused write fails the pass.
UpdateRmdWorkloadStatus ==
  /\ pc = "record"
  /\ LET n == answered.node
         old == obj.status[n].id
     IN \E o \in Outcomes(n) :
          /\ Charge(n, o)
          /\ LET seen == IF o = "ok" THEN FindWorkloadByName(n, NameOf[key]) ELSE 0
                 status == [obj.status EXCEPT ![n] =
                              [response |-> answered.response,
                               id |-> IF seen # 0 THEN seen ELSE old]]
             IN \/ /\ StatusUpdate(status)
                   /\ obj' = [obj EXCEPT !.status = status]
                   /\ pc' = "target" /\ answered' = None
                   /\ UNCHANGED <<work, key, objFresh, todo, found>>
                \/ Conflict /\ Fail /\ UNCHANGED objects
  /\ UNCHANGED <<servers, nodes>>

FindRemovedTargets ==   \* wrong: only the targeted nodes are searched
  /\ pc = "target" /\ todo = {} /\ found = {}
  /\ pc' = "removed" /\ todo' = Targets(obj.spec)
  /\ UNCHANGED <<objects, servers, work, key, obj, objFresh, found, answered, nodes, spent>>

\* All targets are served: look for workloads to remove, on RmdNodeList.
FindRemovedNodes ==
  /\ pc = "target" /\ todo = {} /\ found = {}
  /\ pc' = "removed" /\ todo' = rmdNodeList
  /\ UNCHANGED <<objects, servers, work, key, obj, objFresh, found, answered, nodes, spent>>

\* One node of findRemovedNodes: any failure abandons the removal.
FindRemovedNode(n) ==
  /\ pc = "removed" /\ n \in todo
  /\ \E o \in Outcomes(n) :
       /\ Charge(n, o)
       /\ \/ /\ o = "ok"
             /\ todo' = todo \ {n}
             /\ found' = found \cup
                  (IF Named(n, NameOf[key]) = {} \/ Kept(obj.spec, n) THEN {}
                   ELSE {[node |-> n, id |-> FindWorkloadByName(n, NameOf[key])]})
             /\ UNCHANGED <<work, pc, key, obj, objFresh, answered>>
          \/ o # "ok" /\ Fail
  /\ UNCHANGED <<objects, servers, nodes>>

\* One DELETE of removeWorkload: its status entry goes from the copy only.  (For
\* a node that a shifted list showed twice there are two; the second fails, and
\* the pass ends as when the answer to the first is lost.)
RemoveWorkload(f) ==
  /\ pc = "removed" /\ todo = {} /\ f \in found
  /\ \E o \in Outcomes(f.node) :
       /\ Charge(f.node, o)
       /\ IF o = "failed" THEN UNCHANGED db ELSE DeleteWorkload(f)
       /\ \/ /\ o = "ok" /\ Holds(f.node, f.id)
             /\ found' = found \ {f}
             /\ obj' = [obj EXCEPT !.status[f.node] = NoState]
             /\ UNCHANGED <<work, pc, key, objFresh, todo, answered>>
          \/ (o # "ok" \/ ~Holds(f.node, f.id)) /\ Fail
  /\ UNCHANGED <<objects, up, lastId, nodes>>

FinishWithoutRequeue ==   \* wrong: no 60 second requeue
  /\ pc = "removed" /\ todo = {} /\ found = {}
  /\ \/ StatusUpdate(obj.status) /\ Return /\ UNCHANGED work
     \/ Conflict /\ Fail /\ UNCHANGED objects
  /\ UNCHANGED <<servers, nodes, spent>>

\* The end of removeWorkload and of the pass: the status, then 60 seconds.
FinishReconcile ==
  /\ pc = "removed" /\ todo = {} /\ found = {}
  /\ \/ /\ StatusUpdate(obj.status)
        /\ Return /\ delayed' = delayed \cup {key} /\ UNCHANGED queue
     \/ Conflict /\ Fail /\ UNCHANGED objects
  /\ UNCHANGED <<servers, nodes, spent>>

(***************************************************************************)
(* The cluster around the controller.                                      *)
(***************************************************************************)
\* An RMD pod stops and its workloads are gone.
Stop(n) ==
  /\ n \in up
  /\ up' = up \ {n}
  /\ db' = [db EXCEPT ![n] = {}] /\ lastId' = [lastId EXCEPT ![n] = 0]
  /\ UNCHANGED <<objects, work, pass, nodes>>

PodStops(n) ==
  /\ spent.stops < MaxStops
  /\ spent' = [spent EXCEPT !.stops = @ + 1]
  /\ Stop(n)

\* The DaemonSet controller evicts the pod of a node that lost the label...
PodEvicted(n) == ~HasRmd(n) /\ Stop(n) /\ UNCHANGED spent

\* ... and runs one on every node that has it.
PodStarts(n) ==
  /\ HasRmd(n) /\ n \notin up
  /\ up' = up \cup {n}
  /\ UNCHANGED <<objects, db, lastId, work, pass, nodes, spent>>

Relabel(n, lbl) ==
  /\ spent.relabels < MaxRelabels /\ lbl # labels[n]
  /\ spent' = [spent EXCEPT !.relabels = @ + 1]
  /\ labels' = [labels EXCEPT ![n] = lbl]
  /\ UNCHANGED <<objects, servers, work, pass, rmdNodeList>>

\* What is left to a loop over RmdNodeList when DeleteRmdNodeData shifts the
\* list under it: the node may be missed, and when it was already visited
\* the loop may step over the next one, unless that is the last.
Shifted(n) ==
  IF n \in todo THEN {todo, todo \ {n}}
  ELSE {todo} \cup {todo \ {m} : m \in {m \in todo : todo # {m}}}

\* A shift leaves the last node in two slots.  The next append fills the second,
\* and a loop that still reads it meets the new node, perhaps for the last one.
Refilled(n) ==
  IF spent.forgets > 0 /\ todo # {} /\ \A f \in found : f.node # n
  THEN {todo, todo \cup {n}} \cup {{n} : m \in {m \in todo : todo = {m}}}
  ELSE {todo}

\* The RmdConfig controller appends every labelled node (UpdateRmdNodeData).
LearnNode(n) ==
  /\ HasRmd(n) /\ n \notin rmdNodeList
  /\ rmdNodeList' = rmdNodeList \cup {n}
  /\ IF pc \in {"obselete", "removed"} THEN todo' \in Refilled(n) ELSE UNCHANGED todo
  /\ UNCHANGED <<objects, servers, work, pc, key, obj, objFresh, found, answered, labels, spent>>

\* An RmdNodeState is deleted and its controller drops the node.
ForgetNode(n) ==
  /\ spent.forgets < MaxForgets /\ n \in rmdNodeList
  /\ spent' = [spent EXCEPT !.forgets = @ + 1]
  /\ rmdNodeList' = rmdNodeList \ {n}
  /\ IF pc \in {"obselete", "removed"} THEN todo' \in Shifted(n) ELSE UNCHANGED todo
  /\ UNCHANGED <<objects, servers, work, pc, key, obj, objFresh, found, answered, labels>>

\* The operator dies; its successor lists the objects that exist and knows of
\* no node until the RmdConfig controller has run.
OperatorRestarts ==
  /\ spent.restarts < MaxRestarts
  /\ spent' = [spent EXCEPT !.restarts = @ + 1]
  /\ cached' = api /\ cacheFresh' = [k \in Keys |-> TRUE]
  /\ queue' = {k \in Keys : api[k] # None} /\ delayed' = {}
  /\ Return
  /\ rmdNodeList' = {}
  /\ UNCHANGED <<api, servers, labels>>

(***************************************************************************)
(* The worker's steps are one goroutine's; the rest is its environment.    *)
(***************************************************************************)
ReconcileStep ==
  \/ \E n \in todo : \/ FindObseleteWorkload(n)
                     \/ GetTargetedNode(n)
                     \/ FindRemovedNode(n)
  \/ \E f \in found : \/ DeleteObseleteWorkload(f)
                      \/ AddWorkload(f)
                      \/ UpdateWorkload(f)
                      \/ RemoveWorkload(f)
  \/ UpdateRmdWorkloadStatus
  \/ FindRemovedNodes
  \/ FinishReconcile
  \/ FinishDeletion

KeyStep(k) ==
  \/ Reconcile(k) \/ Sync(k) \/ TimerFires(k)
  \/ DeleteObject(k)
  \/ \E s \in Specs : ApplyObject(k, s)

NodeStep(n) ==
  \/ PodStops(n) \/ PodEvicted(n) \/ PodStarts(n)
  \/ LearnNode(n) \/ ForgetNode(n)
  \/ \E lbl \in LabelMaps : Relabel(n, lbl)

Next ==
  \/ ReconcileStep
  \/ \E k \in Keys : KeyStep(k)
  \/ \E n \in Nodes : NodeStep(n)
  \/ OperatorRestarts

Spec == Init /\ [][Next]_vars

(***************************************************************************)
(* The worker goroutine runs; the rate limited queue is first in, first    *)
(* out, so no request starves another; watches deliver and timers fire;    *)
(* the DaemonSet controller keeps its pods; RmdConfig is reconciled every  *)
(* 5 seconds.  Users, faults and restarts owe nothing.                     *)
(***************************************************************************)
Fairness ==
  /\ WF_vars(ReconcileStep)
  /\ \A k \in Keys : SF_vars(Reconcile(k)) /\ WF_vars(Sync(k)) /\ WF_vars(TimerFires(k))
  /\ \A n \in Nodes : WF_vars(PodStarts(n)) /\ WF_vars(PodEvicted(n)) /\ WF_vars(LearnNode(n))

FairSpec == Spec /\ Fairness

(***************************************************************************)
(* Properties.                                                             *)
(***************************************************************************)
Spent == [edits : Nat, faults : Nat, stops : Nat,
          restarts : Nat, relabels : Nat, forgets : Nat]

\* Every variable keeps its type; a pass has a key, an object unless it
\* deletes, and an answer to record exactly while it records one.
TypeOK ==
  /\ api \in [Keys -> Objects \cup {None}]
  /\ cached \in [Keys -> Objects \cup {None}]
  /\ cacheFresh \in [Keys -> BOOLEAN]
  /\ up \subseteq Nodes
  /\ db \in [Nodes -> SUBSET Entry]
  /\ lastId \in [Nodes -> Nat]
  /\ queue \subseteq Keys /\ delayed \subseteq Keys
  /\ pc \in {"idle", "obselete", "target", "record", "removed"}
  /\ IF pc = "idle" THEN key = None ELSE key \in Keys
  /\ IF pc \in {"target", "record", "removed"} THEN obj \in Objects ELSE obj = None
  /\ objFresh \in BOOLEAN
  /\ todo \subseteq Nodes
  /\ found \subseteq NodeAt
  /\ IF pc = "record" THEN answered \in [node : Nodes, response : Response]
     ELSE answered = None
  /\ rmdNodeList \subseteq Nodes
  /\ labels \in [Nodes -> LabelMaps]
  /\ spent \in Spent

\* An RMD server never holds two workloads of one name.  Nothing but the order
\* of GET and POST sees to that: the server would take the second one, and
\* every later lookup by name would find one of the two.
OneEntryPerName ==
  \A n \in Nodes : \A e1, e2 \in db[n] : e1.uuid = e2.uuid => e1 = e2

\* A DELETE goes out for an ID only while that ID is the reconciled workload's
\* or nobody's, although the ID was read several requests earlier and a pod
\* that restarts in between numbers its workloads from 1 again.
DeletesOwn ==
  pc \in {"obselete", "removed"} =>
    \A f \in found : \A e \in db[f.node] : e.id = f.id => e.uuid = NameOf[key]

\* What keeps the two invariants above from one step to the next.  A server's
\* IDs are its own count, so one ID is one workload;
IdsCounted ==
  \A n \in Nodes :
    /\ \A e \in db[n] : e.id \in 1..lastId[n]
    /\ \A e1, e2 \in db[n] : e1.id = e2.id => e1 = e2

\* a loop finds a node once, and the worker at rest holds nothing;
FoundOnce ==
  /\ \A f, g \in found : f.node = g.node => f = g
  /\ \A f \in found : f.node \notin todo
  /\ pc = "idle" => found = {}

\* and where a POST is due, the server still has no workload of that name.
PostsOnlyAbsent ==
  pc \in {"target", "record"} =>
    \A f \in found : f.id = 0 => Named(f.node, NameOf[key]) = {}

ServerInv ==
  OneEntryPerName /\ DeletesOwn /\ IdsCounted /\ FoundOnce /\ PostsOnlyAbsent

\* While no pod loses its workloads, an ID in the status of an RmdWorkload, in
\* whichever copy of it, is the ID of that workload or of none: IDs are not
\* used twice.  The PATCH of updateWorkload relies on it.
PodsKept == spent.stops = 0 /\ spent.relabels = 0

Copies(k) == {api[k], cached[k]} \cup (IF key = k THEN {obj} ELSE {})

OwnIds(k, o) ==
  o # None => \A n \in Nodes :
    /\ o.status[n].id <= lastId[n]
    /\ \A e \in db[n] : e.id = o.status[n].id => e.uuid = NameOf[k]

StatusIdsOwn == PodsKept => \A k \in Keys : \A o \in Copies(k) : OwnIds(k, o)

\* No copy of an RmdWorkload is older than its workload on a server, nor the
\* cache than the worker, nor the API server than either; so no PATCH puts an
\* older version over a newer one, whatever the cache shows, whoever restarts.
NotNewer(o, p) == o # None /\ p # None => o.ver <= p.ver

VersionsOrdered ==
  PodsKept =>
    \A k \in Keys :
      /\ \A o \in Copies(k) :
           o # None =>
             /\ o.ver <= spent.edits
             /\ \A n \in Nodes : \A e \in Named(n, NameOf[k]) : e.ver <= o.ver
      /\ \A n \in Nodes : \A e \in Named(n, NameOf[k]) : e.ver <= spent.edits
      /\ NotNewer(cached[k], api[k])
      /\ key = k => NotNewer(obj, cached[k]) /\ NotNewer(obj, api[k])

\* No RmdWorkload gets out of the controller's mind.  One that exists is queued,
\* in hand, waiting for its 60 seconds, or has an event still to come;
Awaited(k) == k \in queue \/ key = k \/ ~cacheFresh[k]

ObjectsAwaited == \A k \in Keys : api[k] # None => Awaited(k) \/ k \in delayed

\* and whatever a server holds is either of one that exists, or the pass that
\* removes it is under way or still to come.  There is no finalizer: the key in
\* the queue is all that is left of a deleted object, and a pass for it drops
\* the key when it finds no more, on the nodes of the list, so the list must be
\* complete: kept since the start, and no node new to RMD since.
ListKept == spent.restarts = 0 /\ spent.forgets = 0 /\ spent.relabels = 0

DeletionsAwaited ==
  ListKept =>
    \A n \in Nodes : \A e \in db[n] :
      \E k \in Keys : NameOf[k] = e.uuid /\ (api[k] # None \/ Awaited(k))

NothingForgotten == ObjectsAwaited /\ DeletionsAwaited

\* The servers behave as a store in which one name has its turn: each request
\* touches one server and the reconciled workload only, which goes or takes on
\* a version that is not older; until a pod stops.
VersionOn(n, name) ==
  IF Named(n, name) = {} THEN None ELSE (CHOOSE e \in Named(n, name) : TRUE).ver

Store == INSTANCE WorkloadStore WITH
           Versions <- 0..MaxEdits,
           store <- [n \in Nodes |-> [name \in Names |-> VersionOn(n, name)]],
           turn <- IF key = None THEN None ELSE NameOf[key],
           kept <- PodsKept

ImplementsStore == Store!Spec

\* Reconciling one RmdWorkload leaves the workloads of every other name as
\* they are, on every RMD server (a pod that stops takes all of them along).
Others(entries, k) == {e \in entries : k = None \/ e.uuid # NameOf[k]}

OnlyOwnEntries ==
  [][\A n \in up' : Others(db'[n], key) = Others(db[n], key)]_vars

\* Every declared workload ends up configured, in its last version, on every
\* node it targets that can run RMD.
Declared(k) == IF api[k] = None THEN {} ELSE {n \in Targets(api[k].spec) : HasRmd(n)}

Placed ==
  \A k \in Keys : \A n \in Declared(k) :
    \E e \in db[n] : e.uuid = NameOf[k] /\ e.ver = api[k].ver

EventuallyPlaced == <>[]Placed

\* The status the user reads ends up right for every declared node: the last
\* response a success, the ID the one the server knows.
Reported ==
  \A k \in Keys : \A n \in Declared(k) :
    api[k].status[n] = [response |-> "Success", id |-> FindWorkloadByName(n, NameOf[k])]

EventuallyReported == <>[]Reported

\* While an RmdWorkload exists, its workload leaves the nodes it no longer asks
\* for, by name or by label; unless a node of the list has lost its RMD, which
\* stops every removal.
Served == \A n \in rmdNodeList : HasRmd(n)

Exists(name) == \E k \in Keys : NameOf[k] = name /\ api[k] # None

Wanted(n, name) ==
  \E k \in Keys : NameOf[k] = name /\ api[k] # None /\ Kept(api[k].spec, n)

Shrunk == \A n \in Nodes : \A e \in db[n] : Exists(e.uuid) => Wanted(n, e.uuid)

EventuallyShrunk == <>[](Served => Shrunk)

\* After an RmdWorkload is deleted, its workload leaves every RMD server...
Deleted == \A n \in Nodes : \A e \in db[n] : Exists(e.uuid)

EventuallyDeleted == <>[]Deleted

\* ... as long as the operator keeps running, its list of nodes stays complete
\* (ListKept), and no node of the list has lost its RMD.
EventuallyDeletedIfKept == <>[](ListKept /\ Served => Deleted)
=============================================================================
