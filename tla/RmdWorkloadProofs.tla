------------------------- MODULE RmdWorkloadProofs -------------------------
(***************************************************************************)
(* What holds of the RmdWorkload controller for every cluster, every set   *)
(* of objects and every bound on the environment.                          *)
(***************************************************************************)
EXTENDS RmdWorkload, TLAPS

\* A server never gets an outcome charged that takes the budgets out of range.
LEMMA ChargeType ==
  ASSUME NEW n, NEW o, spent \in Spent, Charge(n, o)
  PROVE  spent' \in Spent
  BY DEF Charge, Spent

\* The ID under which a name is known is the ID of one of the server's entries.
LEMMA FindWorkloadByNameType ==
  ASSUME NEW n \in Nodes, NEW name, db \in [Nodes -> SUBSET Entry]
  PROVE  /\ FindWorkloadByName(n, name) \in Nat
         /\ Named(n, name) # {} =>
              \E e \in db[n] : e.uuid = name /\ e.id = FindWorkloadByName(n, name)
  <1>1. CASE Named(n, name) = {}
    BY <1>1 DEF FindWorkloadByName
  <1>2. CASE Named(n, name) # {}
    <2>. DEFINE e == CHOOSE e \in Named(n, name) : TRUE
    <2>1. e \in Named(n, name)
      BY <1>2
    <2>2. e \in db[n] /\ e.uuid = name /\ e \in Entry
      BY <2>1 DEF Named
    <2>3. FindWorkloadByName(n, name) = e.id
      BY <1>2 DEF FindWorkloadByName
    <2>. QED
      BY <2>2, <2>3 DEF Entry
  <1>. QED
    BY <1>1, <1>2

LEMMA TargetsType ==
  ASSUME NEW s \in Specs
  PROVE  Targets(s) \subseteq Nodes
  BY ConstantsOK DEF Targets

LEMMA TypeInit == Init => TypeOK
  BY ConstantsOK DEF Init, TypeOK, Spent, HasRmd

LEMMA TypeApply ==
  ASSUME TypeOK, NEW k \in Keys, NEW s \in Specs, ApplyObject(k, s)
  PROVE  TypeOK'
  <1> DEFINE o == [spec |-> s, ver |-> spent.edits + 1,
                   status |-> IF api[k] = None THEN NoStatus ELSE api[k].status]
  <1>1. o \in Objects
    BY DEF TypeOK, ApplyObject, Objects, NoStatus, NoState, WorkloadState, Response, Spent
  <1>2. api' \in [Keys -> Objects \cup {None}]
    BY <1>1 DEF TypeOK, ApplyObject
  <1>3. spent' \in Spent
    BY DEF TypeOK, ApplyObject, Spent
  <1>. QED
    BY <1>2, <1>3 DEF TypeOK, ApplyObject, Outdate, servers, work, loop, nodes

\* Ending a pass keeps the types of everything the worker holds.
LEMMA TypeReturn ==
  ASSUME TypeOK, Return
  PROVE  /\ pc' = "idle" /\ key' = None /\ obj' = None /\ objFresh' \in BOOLEAN
         /\ todo' \subseteq Nodes /\ found' \subseteq NodeAt /\ answered' = None
  BY DEF Return

LEMMA TypeFail ==
  ASSUME TypeOK, pc # "idle", Fail,
         UNCHANGED objects, UNCHANGED nodes,
         up' \subseteq Nodes, db' \in [Nodes -> SUBSET Entry],
         lastId' \in [Nodes -> Nat], spent' \in Spent
  PROVE  TypeOK'
  BY DEF TypeOK, Fail, Return, objects, nodes

LEMMA TypeStatusUpdate ==
  ASSUME TypeOK, pc \in {"record", "removed"},
         NEW status \in [Nodes -> WorkloadState], StatusUpdate(status)
  PROVE  /\ api' \in [Keys -> Objects \cup {None}]
         /\ cached' \in [Keys -> Objects \cup {None}]
         /\ cacheFresh' \in [Keys -> BOOLEAN]
  <1>1. key \in Keys /\ api[key] \in Objects
    BY DEF TypeOK, StatusUpdate
  <1>2. [api[key] EXCEPT !.status = status] \in Objects
    BY <1>1 DEF Objects
  <1>3. api' \in [Keys -> Objects \cup {None}]
    BY <1>1, <1>2 DEF TypeOK, StatusUpdate
  <1>. QED
    BY <1>1, <1>3 DEF TypeOK, StatusUpdate

LEMMA TypeRecord ==
  ASSUME TypeOK, UpdateRmdWorkloadStatus PROVE TypeOK'
  <1> DEFINE n == answered.node
             Seen(o) == IF o = "ok" THEN FindWorkloadByName(n, NameOf[key]) ELSE 0
             Status(o) == [obj.status EXCEPT ![n] =
                             [response |-> answered.response,
                              id |-> IF Seen(o) # 0 THEN Seen(o) ELSE obj.status[n].id]]
  <1>1. /\ pc = "record" /\ key \in Keys /\ obj \in Objects
        /\ n \in Nodes /\ answered.response \in Response
    BY DEF TypeOK, UpdateRmdWorkloadStatus
  <1>2. PICK o \in Outcomes(n) :
          /\ Charge(n, o)
          /\ \/ /\ StatusUpdate(Status(o))
                /\ obj' = [obj EXCEPT !.status = Status(o)]
                /\ pc' = "target" /\ answered' = None
                /\ UNCHANGED <<work, key, objFresh, todo, found>>
             \/ Conflict /\ Fail /\ UNCHANGED objects
    BY DEF UpdateRmdWorkloadStatus
  <1>3. UNCHANGED <<servers, nodes>>
    BY DEF UpdateRmdWorkloadStatus
  <1>4. spent' \in Spent
    BY <1>2, ChargeType DEF TypeOK
  <1>5. Seen(o) \in Nat
    BY <1>1, FindWorkloadByNameType DEF TypeOK
  <1>6. Status(o) \in [Nodes -> WorkloadState]
    BY <1>1, <1>5 DEF Objects, WorkloadState
  <1>7. CASE StatusUpdate(Status(o)) /\ obj' = [obj EXCEPT !.status = Status(o)]
             /\ pc' = "target" /\ answered' = None
             /\ UNCHANGED <<work, key, objFresh, todo, found>>
    <2>1. obj' \in Objects
      BY <1>1, <1>6, <1>7 DEF Objects
    <2>. QED
      BY <1>1, <1>3, <1>4, <1>6, <1>7, <2>1, TypeStatusUpdate
      DEF TypeOK, servers, nodes, work
  <1>8. CASE Conflict /\ Fail /\ UNCHANGED objects
    BY <1>1, <1>3, <1>4, <1>8, TypeFail DEF TypeOK, servers
  <1>. QED
    BY <1>2, <1>7, <1>8

\* The steps of users, caches and timers.
LEMMA TypeKeyStep ==
  ASSUME TypeOK, NEW k \in Keys, KeyStep(k)
  PROVE  TypeOK'
  <1>1. CASE Reconcile(k)
    <2>1. CASE cached[k] = None
      BY <1>1, <2>1, ConstantsOK
      DEF TypeOK, Reconcile, objects, servers, nodes
    <2>2. CASE cached[k] # None
      <3>1. cached[k] \in Objects /\ Targets(cached[k].spec) \subseteq Nodes
        BY <2>2, TargetsType DEF TypeOK, Objects
      <3>. QED
        BY <1>1, <2>2, <3>1 DEF TypeOK, Reconcile, objects, servers, nodes
    <2>. QED
      BY <2>1, <2>2
  <1>2. CASE Sync(k)
    BY <1>2 DEF TypeOK, Sync, servers, pass, loop, nodes
  <1>3. CASE TimerFires(k)
    BY <1>3 DEF TypeOK, TimerFires, objects, servers, pass, loop, nodes
  <1>4. CASE DeleteObject(k)
    BY <1>4 DEF TypeOK, DeleteObject, Outdate, servers, work, loop, nodes, Spent
  <1>5. CASE \E s \in Specs : ApplyObject(k, s)
    BY <1>5, TypeApply
  <1>. QED
    BY <1>1, <1>2, <1>3, <1>4, <1>5 DEF KeyStep

\* The steps of pods, labels and the list of nodes.
LEMMA TypeNodeStep ==
  ASSUME TypeOK, NEW n \in Nodes, NodeStep(n)
  PROVE  TypeOK'
  <1>1. CASE PodStops(n)
    BY <1>1 DEF TypeOK, PodStops, Stop, objects, work, pass, loop, nodes, Spent
  <1>2. CASE PodEvicted(n)
    BY <1>2 DEF TypeOK, PodEvicted, Stop, objects, work, pass, loop, nodes
  <1>3. CASE PodStarts(n)
    BY <1>3 DEF TypeOK, PodStarts, objects, work, pass, loop, nodes
  <1>4. CASE LearnNode(n)
    <2>1. todo' \subseteq Nodes
      BY <1>4 DEF TypeOK, LearnNode, Refilled
    <2>. QED
      BY <1>4, <2>1 DEF TypeOK, LearnNode, objects, servers, work
  <1>5. CASE ForgetNode(n)
    <2>1. todo' \subseteq Nodes
      BY <1>5 DEF TypeOK, ForgetNode, Shifted
    <2>2. spent' \in Spent
      BY <1>5 DEF TypeOK, ForgetNode, Spent
    <2>. QED
      BY <1>5, <2>1, <2>2 DEF TypeOK, ForgetNode, objects, servers, work
  <1>6. CASE \E lbl \in LabelMaps : Relabel(n, lbl)
    BY <1>6 DEF TypeOK, Relabel, objects, servers, work, pass, loop, Spent
  <1>. QED
    BY <1>1, <1>2, <1>3, <1>4, <1>5, <1>6 DEF NodeStep

LEMMA TypeRestart ==
  ASSUME TypeOK, OperatorRestarts
  PROVE  TypeOK'
  BY DEF TypeOK, OperatorRestarts, Return, servers, Spent

\* The scans: one GET of one node.
LEMMA TypeScan ==
  ASSUME TypeOK, NEW n \in todo,
         FindObseleteWorkload(n) \/ GetTargetedNode(n) \/ FindRemovedNode(n)
  PROVE  TypeOK'
  <1> DEFINE f == [node |-> n, id |-> FindWorkloadByName(n, NameOf[key])]
  <1>1. n \in Nodes /\ f \in NodeAt
    BY FindWorkloadByNameType DEF TypeOK, NodeAt
  <1>2. CASE FindObseleteWorkload(n)
    <2>1. pc = "obselete" /\ spent' \in Spent
      BY <1>2, ChargeType DEF TypeOK, FindObseleteWorkload
    <2>2. UNCHANGED <<objects, servers, nodes>>
      BY <1>2 DEF FindObseleteWorkload
    <2>3. CASE Fail
      BY <2>1, <2>2, <2>3, TypeFail DEF TypeOK, servers
    <2>4. CASE /\ todo' \subseteq todo /\ found' \subseteq found \cup {f}
               /\ UNCHANGED <<work, pc, key, obj, objFresh, answered>>
      BY <1>1, <2>1, <2>2, <2>4 DEF TypeOK, objects, servers, nodes, work
    <2>. QED
      BY <1>2, <2>3, <2>4 DEF FindObseleteWorkload
  <1>3. CASE GetTargetedNode(n)
    <2>1. pc = "target" /\ spent' \in Spent
      BY <1>3, ChargeType DEF TypeOK, GetTargetedNode
    <2>2. UNCHANGED <<objects, servers, nodes>>
      BY <1>3 DEF GetTargetedNode
    <2>3. CASE Fail
      BY <2>1, <2>2, <2>3, TypeFail DEF TypeOK, servers
    <2>4. CASE /\ todo' \subseteq todo /\ found' \subseteq found \cup {f}
               /\ UNCHANGED <<work, pc, key, obj, objFresh, answered>>
      BY <1>1, <2>1, <2>2, <2>4 DEF TypeOK, objects, servers, nodes, work
    <2>. QED
      BY <1>3, <2>3, <2>4 DEF GetTargetedNode
  <1>4. CASE FindRemovedNode(n)
    <2>1. pc = "removed" /\ spent' \in Spent
      BY <1>4, ChargeType DEF TypeOK, FindRemovedNode
    <2>2. UNCHANGED <<objects, servers, nodes>>
      BY <1>4 DEF FindRemovedNode
    <2>3. CASE Fail
      BY <2>1, <2>2, <2>3, TypeFail DEF TypeOK, servers
    <2>4. CASE /\ todo' \subseteq todo /\ found' \subseteq found \cup {f}
               /\ UNCHANGED <<work, pc, key, obj, objFresh, answered>>
      BY <1>1, <2>1, <2>2, <2>4 DEF TypeOK, objects, servers, nodes, work
    <2>. QED
      BY <1>4, <2>3, <2>4 DEF FindRemovedNode
  <1>. QED
    BY <1>2, <1>3, <1>4

\* The answer of RMD to a POST or a PATCH moves the pass to the recording.
LEMMA TypeAnswer ==
  ASSUME TypeOK, NEW f \in found, NEW r \in Response, pc = "target", Answer(f, r),
         db' \in [Nodes -> SUBSET Entry], lastId' \in [Nodes -> Nat], spent' \in Spent
  PROVE  TypeOK'
  BY DEF TypeOK, Answer, NodeAt, objects, work, nodes

LEMMA TypeDelete ==
  ASSUME TypeOK, NEW f \in found, DeleteWorkload(f) \/ UNCHANGED db
  PROVE  db' \in [Nodes -> SUBSET Entry]
  BY DEF TypeOK, DeleteWorkload, NodeAt

LEMMA TypeAddWorkload ==
  ASSUME TypeOK, NEW f \in found, AddWorkload(f)
  PROVE  TypeOK'
  <1>1. PICK o \in Outcomes(f.node) :
          /\ Charge(f.node, o)
          /\ IF o = "failed" THEN UNCHANGED <<db, lastId>>
             ELSE PostWorkload(f.node, NameOf[key], obj.ver)
          /\ Answer(f, IF o = "ok" THEN "Success" ELSE "Fail")
    BY DEF AddWorkload
  <1>2. pc = "target" /\ key \in Keys /\ obj \in Objects /\ f.node \in Nodes
    BY DEF TypeOK, AddWorkload, NodeAt
  <1>3. [id |-> lastId[f.node] + 1, uuid |-> NameOf[key], ver |-> obj.ver] \in Entry
    BY <1>2, ConstantsOK DEF TypeOK, Entry, Objects
  <1>4. db' \in [Nodes -> SUBSET Entry] /\ lastId' \in [Nodes -> Nat]
    BY <1>1, <1>2, <1>3 DEF TypeOK, PostWorkload
  <1>5. spent' \in Spent
    BY <1>1, ChargeType DEF TypeOK
  <1>. QED
    BY <1>1, <1>2, <1>4, <1>5, TypeAnswer DEF Response

LEMMA TypeUpdateWorkload ==
  ASSUME TypeOK, NEW f \in found, UpdateWorkload(f)
  PROVE  TypeOK'
  <1> DEFINE id == obj.status[f.node].id
             r(o) == IF o = "ok" /\ Holds(f.node, id) THEN "Success" ELSE "Fail"
  <1>1. PICK o \in Outcomes(f.node) :
          /\ Charge(f.node, o)
          /\ IF o = "failed" THEN UNCHANGED db ELSE PatchWorkload(f.node, id, obj.ver)
          /\ Answer(f, r(o))
    BY DEF UpdateWorkload
  <1>2. pc = "target" /\ obj \in Objects /\ f.node \in Nodes
    BY DEF TypeOK, UpdateWorkload, NodeAt
  <1>3. \A e \in db[f.node] : (IF e.id = id THEN [e EXCEPT !.ver = obj.ver] ELSE e) \in Entry
    BY <1>2 DEF TypeOK, Entry, Objects
  <1>4. db' \in [Nodes -> SUBSET Entry]
    BY <1>1, <1>2, <1>3 DEF TypeOK, PatchWorkload
  <1>5. spent' \in Spent
    BY <1>1, ChargeType DEF TypeOK
  <1>6. lastId' \in [Nodes -> Nat]
    BY DEF TypeOK, UpdateWorkload
  <1>7. r(o) \in Response
    BY DEF Response
  <1>. QED
    BY <1>1, <1>2, <1>4, <1>5, <1>6, <1>7, TypeAnswer

LEMMA TypeRemoval ==
  ASSUME TypeOK, NEW f \in found, DeleteObseleteWorkload(f) \/ RemoveWorkload(f)
  PROVE  TypeOK'
  <1>1. /\ pc \in {"obselete", "removed"} /\ f.node \in Nodes
        /\ UNCHANGED <<objects, up, lastId, nodes>>
        /\ DeleteWorkload(f) \/ UNCHANGED db
    BY DEF TypeOK, DeleteObseleteWorkload, RemoveWorkload, NodeAt
  <1>2. spent' \in Spent
    BY ChargeType DEF TypeOK, DeleteObseleteWorkload, RemoveWorkload
  <1>3. db' \in [Nodes -> SUBSET Entry] /\ lastId' \in [Nodes -> Nat]
    BY <1>1, TypeDelete DEF TypeOK
  <1>4. CASE Fail
    BY <1>1, <1>2, <1>3, <1>4, TypeFail DEF TypeOK
  <1>5. CASE /\ found' \subseteq found
             /\ UNCHANGED <<work, pc, key, obj, objFresh, todo, answered>>
    BY <1>1, <1>2, <1>3, <1>5 DEF TypeOK, objects, nodes, work
  <1>6. CASE /\ pc = "removed" /\ found' \subseteq found
             /\ obj' = [obj EXCEPT !.status[f.node] = NoState]
             /\ UNCHANGED <<work, pc, key, objFresh, todo, answered>>
    <2>1. obj' \in Objects
      BY <1>1, <1>6 DEF TypeOK, Objects, NoState, WorkloadState, Response
    <2>. QED
      BY <1>1, <1>2, <1>3, <1>6, <2>1 DEF TypeOK, objects, nodes, work
  <1>. QED
    BY <1>4, <1>5, <1>6 DEF DeleteObseleteWorkload, RemoveWorkload

LEMMA TypeFinishReconcile ==
  ASSUME TypeOK, FinishReconcile
  PROVE  TypeOK'
  <1>1. /\ pc = "removed" /\ key \in Keys /\ obj.status \in [Nodes -> WorkloadState]
        /\ UNCHANGED <<servers, nodes, spent>>
    BY DEF TypeOK, FinishReconcile, Objects
  <1>2. CASE StatusUpdate(obj.status) /\ Return /\ delayed' = delayed \cup {key} /\ UNCHANGED queue
    BY <1>1, <1>2, TypeStatusUpdate DEF TypeOK, Return, servers, nodes
  <1>3. CASE Conflict /\ Fail /\ UNCHANGED objects
    BY <1>1, <1>3, TypeFail DEF TypeOK, servers
  <1>. QED
    BY <1>2, <1>3 DEF FinishReconcile

LEMMA TypeReconcileStep ==
  ASSUME TypeOK, ReconcileStep
  PROVE  TypeOK'
  <1>1. CASE FinishDeletion
    BY <1>1 DEF TypeOK, FinishDeletion, Return, objects, servers, work, nodes
  <1>2. CASE FindRemovedNodes
    BY <1>2 DEF TypeOK, FindRemovedNodes, objects, servers, work, nodes
  <1>. QED
    BY <1>1, <1>2, TypeScan, TypeRemoval, TypeAddWorkload, TypeUpdateWorkload,
       TypeRecord, TypeFinishReconcile DEF ReconcileStep

LEMMA TypeStutter == TypeOK /\ UNCHANGED vars => TypeOK'
  BY DEF TypeOK, vars, objects, servers, work, pass, loop, nodes

LEMMA TypeStep == TypeOK /\ [Next]_vars => TypeOK'
  BY TypeReconcileStep, TypeKeyStep, TypeNodeStep, TypeRestart, TypeStutter DEF Next

\* Every reachable state is well typed, whatever the cluster: in particular a
\* pass holds an object exactly when it is not a deletion, and an answer of RMD
\* exactly while it records one.
THEOREM TypeCorrect == Spec => []TypeOK
  BY TypeInit, TypeStep, PTL DEF Spec

(***************************************************************************)
(* One entry per name, and no DELETE of a stranger.  ServerInv is          *)
(* inductive on top of TypeOK.                                             *)
(***************************************************************************)
LEMMA FindAbsent ==
  ASSUME TypeOK, IdsCounted, NEW n \in Nodes, NEW name, FindWorkloadByName(n, name) = 0
  PROVE  Named(n, name) = {}
  BY FindWorkloadByNameType DEF TypeOK, IdsCounted

LEMMA ServerInit == Init => ServerInv
  BY DEF Init, ServerInv, OneEntryPerName, DeletesOwn, IdsCounted, FoundOnce, PostsOnlyAbsent

\* A step that only takes entries away, and only forgets what it found, keeps it.
LEMMA ServerShrinks ==
  ASSUME TypeOK, TypeOK', ServerInv,
         \A n \in Nodes : db'[n] \subseteq db[n] /\ (lastId'[n] = lastId[n] \/ db'[n] = {}),
         \/ /\ found' \subseteq found /\ pc' = pc /\ key' = key
            /\ \A f \in found : f.node \in todo' => f.node \in todo
         \/ found' = {}
  PROVE  ServerInv'
  <1>1. OneEntryPerName' /\ IdsCounted'
    BY DEF ServerInv, OneEntryPerName, IdsCounted
  <1>2. DeletesOwn'
    BY DEF ServerInv, DeletesOwn, TypeOK, NodeAt
  <1>3. FoundOnce'
    BY DEF ServerInv, FoundOnce
  <1>4. PostsOnlyAbsent'
    BY DEF ServerInv, PostsOnlyAbsent, Named, TypeOK, NodeAt
  <1>. QED
    BY <1>1, <1>2, <1>3, <1>4 DEF ServerInv

\* A GET that found the workload, or found that there is none.
LEMMA ServerScan ==
  ASSUME TypeOK, TypeOK', ServerInv, NEW n \in todo,
         FindObseleteWorkload(n) \/ GetTargetedNode(n) \/ FindRemovedNode(n)
  PROVE  ServerInv'
  <1> DEFINE name == NameOf[key]
             f == [node |-> n, id |-> FindWorkloadByName(n, name)]
  <1>1. n \in Nodes /\ UNCHANGED servers
    BY DEF TypeOK, FindObseleteWorkload, GetTargetedNode, FindRemovedNode
  <1>2. CASE \/ /\ found' \subseteq found /\ todo' \subseteq todo
                /\ pc' = pc /\ key' = key
             \/ found' = {}
    BY <1>1, <1>2, ServerShrinks DEF servers
  <1>3. CASE /\ found' = found \cup {f} /\ todo' = todo \ {n}
             /\ UNCHANGED <<pc, key>>
             /\ pc \in {"obselete", "removed"} => Named(n, name) # {}
             /\ pc # "idle"
    <2>1. OneEntryPerName' /\ IdsCounted'
      BY <1>1 DEF ServerInv, OneEntryPerName, IdsCounted, servers
    <2>2. FoundOnce'
      BY <1>3 DEF ServerInv, FoundOnce
    <2>3. ASSUME pc \in {"obselete", "removed"},
                 NEW e \in db[n], e.id = f.id
          PROVE  e.uuid = name
      <3>1. PICK e2 \in db[n] : e2.uuid = name /\ e2.id = f.id
        BY <1>1, <1>3, <2>3, FindWorkloadByNameType DEF TypeOK
      <3>. QED
        BY <1>1, <2>3, <3>1 DEF ServerInv, IdsCounted
    <2>4. DeletesOwn'
      BY <1>1, <1>3, <2>3 DEF ServerInv, DeletesOwn, servers
    <2>5. f.id = 0 => Named(n, name) = {}
      BY <1>1, FindAbsent DEF ServerInv
    <2>6. PostsOnlyAbsent'
      BY <1>1, <1>3, <2>5 DEF ServerInv, PostsOnlyAbsent, Named, servers
    <2>. QED
      BY <2>1, <2>2, <2>4, <2>6 DEF ServerInv
  <1>4. CASE FindObseleteWorkload(n)
    <2>1. f.id # 0 => Named(n, name) # {}
      BY DEF FindWorkloadByName
    <2>2. CASE f.id = 0
      BY <1>2, <1>4, <2>2 DEF FindObseleteWorkload, Fail, Return
    <2>3. CASE f.id # 0
      BY <1>2, <1>3, <1>4, <2>1, <2>3 DEF FindObseleteWorkload, Fail, Return
    <2>. QED
      BY <2>2, <2>3
  <1>5. CASE GetTargetedNode(n)
    BY <1>2, <1>3, <1>5 DEF GetTargetedNode, Fail, Return
  <1>6. CASE FindRemovedNode(n)
    BY <1>2, <1>3, <1>6 DEF FindRemovedNode, Fail, Return
  <1>. QED
    BY <1>4, <1>5, <1>6

\* POST: the one step that adds an entry, under a name that is absent and an ID
\* that is new.
LEMMA ServerAdd ==
  ASSUME TypeOK, TypeOK', ServerInv, NEW f \in found, AddWorkload(f)
  PROVE  ServerInv'
  <1> DEFINE n == f.node
             e == [id |-> lastId[n] + 1, uuid |-> NameOf[key], ver |-> obj.ver]
  <1>1. /\ pc = "target" /\ pc' = "record" /\ key' = key /\ todo' = todo
        /\ found' = found \ {f} /\ f.id = 0 /\ n \in Nodes
    BY DEF AddWorkload, Answer, TypeOK, NodeAt
  <1>2. CASE UNCHANGED <<db, lastId>>
    <2>1. OneEntryPerName' /\ IdsCounted'
      BY <1>2 DEF ServerInv, OneEntryPerName, IdsCounted
    <2>2. DeletesOwn' /\ FoundOnce' /\ PostsOnlyAbsent'
      BY <1>1, <1>2 DEF ServerInv, DeletesOwn, FoundOnce, PostsOnlyAbsent, Named
    <2>. QED
      BY <2>1, <2>2 DEF ServerInv
  <1>3. CASE /\ lastId' = [lastId EXCEPT ![n] = @ + 1]
             /\ db' = [db EXCEPT ![n] = @ \cup {e}]
    <2>1. /\ db'[n] = db[n] \cup {e} /\ lastId'[n] = lastId[n] + 1
          /\ \A m \in Nodes \ {n} : db'[m] = db[m] /\ lastId'[m] = lastId[m]
          /\ lastId[n] \in Nat
      BY <1>1, <1>3 DEF TypeOK
    <2>2. \A d \in db[n] : d.uuid # e.uuid /\ d.id # e.id /\ d.id \in 1..lastId[n]
      BY <1>1, <2>1 DEF ServerInv, PostsOnlyAbsent, Named, IdsCounted
    <2>3. OneEntryPerName'
      BY <2>1, <2>2 DEF ServerInv, OneEntryPerName
    <2>4. IdsCounted'
      BY <2>1, <2>2 DEF ServerInv, IdsCounted
    <2>5. \A g \in found' : g \in found /\ g.node # n
      BY <1>1 DEF ServerInv, FoundOnce
    <2>6. DeletesOwn' /\ FoundOnce'
      BY <1>1 DEF ServerInv, DeletesOwn, FoundOnce
    <2>7. PostsOnlyAbsent'
      BY <1>1, <2>1, <2>5 DEF ServerInv, PostsOnlyAbsent, Named, TypeOK, NodeAt
    <2>. QED
      BY <2>3, <2>4, <2>6, <2>7 DEF ServerInv
  <1>. QED
    BY <1>2, <1>3 DEF AddWorkload, PostWorkload

\* PATCH: entries keep their ID and their name.
LEMMA ServerUpdate ==
  ASSUME TypeOK, TypeOK', ServerInv, NEW f \in found, UpdateWorkload(f)
  PROVE  ServerInv'
  <1> DEFINE n == f.node
             id == obj.status[n].id
             P(e) == IF e.id = id THEN [e EXCEPT !.ver = obj.ver] ELSE e
  <1>1. /\ pc = "target" /\ pc' = "record" /\ key' = key /\ todo' = todo
        /\ found' = found \ {f} /\ n \in Nodes /\ lastId' = lastId
    BY DEF UpdateWorkload, Answer, TypeOK, NodeAt
  <1>2. db' = db \/ db' = [db EXCEPT ![n] = {P(e) : e \in @}]
    BY DEF UpdateWorkload, PatchWorkload
  <1>3. \A e \in db[n] : P(e).id = e.id /\ P(e).uuid = e.uuid
    BY <1>1 DEF TypeOK, Entry
  <1>4. \A m \in Nodes : \A d \in db'[m] :
          \E e \in db[m] : /\ d.id = e.id /\ d.uuid = e.uuid
                           /\ d = IF db' = db \/ m # n THEN e ELSE P(e)
    <2>. SUFFICES ASSUME NEW m \in Nodes, NEW d \in db'[m]
                  PROVE  \E e \in db[m] : /\ d.id = e.id /\ d.uuid = e.uuid
                                          /\ d = IF db' = db \/ m # n THEN e ELSE P(e)
      OBVIOUS
    <2>1. CASE db' = db \/ m # n
      <3>1. db'[m] = db[m]
        BY <1>2, <2>1 DEF TypeOK
      <3>. QED
        BY <2>1, <3>1
    <2>2. CASE ~(db' = db \/ m # n)
      <3>1. d \in {P(e) : e \in db[n]}
        BY <1>1, <1>2, <2>2 DEF TypeOK
      <3>2. PICK e \in db[n] : d = P(e)
        BY <3>1
      <3>. QED
        BY <1>3, <2>2, <3>2
    <2>. QED
      BY <2>1, <2>2
  <1>5. OneEntryPerName'
    BY <1>4 DEF ServerInv, OneEntryPerName
  <1>6. IdsCounted'
    BY <1>1, <1>4 DEF ServerInv, IdsCounted
  <1>7. PostsOnlyAbsent'
    BY <1>1, <1>4 DEF ServerInv, PostsOnlyAbsent, Named, TypeOK, NodeAt
  <1>8. DeletesOwn' /\ FoundOnce'
    BY <1>1 DEF ServerInv, DeletesOwn, FoundOnce
  <1>. QED
    BY <1>5, <1>6, <1>7, <1>8 DEF ServerInv

\* DELETE: one entry less.
LEMMA ServerRemoval ==
  ASSUME TypeOK, TypeOK', ServerInv, NEW f \in found,
         DeleteObseleteWorkload(f) \/ RemoveWorkload(f)
  PROVE  ServerInv'
  <1>1. \A n \in Nodes : db'[n] \subseteq db[n] /\ lastId'[n] = lastId[n]
    BY DEF TypeOK, DeleteObseleteWorkload, RemoveWorkload, DeleteWorkload
  <1>2. \/ /\ found' \subseteq found /\ todo' \subseteq todo
           /\ pc' = pc /\ key' = key
        \/ found' = {}
    BY DEF DeleteObseleteWorkload, RemoveWorkload, Fail, Return
  <1>. QED
    BY <1>1, <1>2, ServerShrinks

\* A step of the worker that asks nothing of a server.
LEMMA ServerTurn ==
  ASSUME TypeOK, TypeOK', ServerInv,
         \/ UpdateRmdWorkloadStatus \/ FindRemovedNodes \/ FinishReconcile
         \/ FinishDeletion \/ OperatorRestarts \/ \E k \in Keys : Reconcile(k)
  PROVE  ServerInv'
  <1>1. UNCHANGED servers
    BY DEF UpdateRmdWorkloadStatus, FindRemovedNodes, FinishReconcile, FinishDeletion,
           OperatorRestarts, Reconcile
  <1>2. CASE found' = {}
    BY <1>1, <1>2, ServerShrinks DEF servers
  <1>3. CASE found # {} /\ found' # {}
    <2>1. UpdateRmdWorkloadStatus
      BY <1>3 DEF FindRemovedNodes, FinishReconcile, FinishDeletion, OperatorRestarts,
                  Reconcile, Fail, Return, ServerInv, FoundOnce
    <2>2. pc = "record" /\ pc' = "target" /\ UNCHANGED <<key, todo, found>>
      BY <1>3, <2>1 DEF UpdateRmdWorkloadStatus, Fail, Return
    <2>. QED
      BY <1>1, <2>2 DEF ServerInv, OneEntryPerName, DeletesOwn, IdsCounted, FoundOnce,
                        PostsOnlyAbsent, Named, servers
  <1>4. found = {} => found' = {}
    BY DEF UpdateRmdWorkloadStatus, FindRemovedNodes, FinishReconcile, FinishDeletion,
           OperatorRestarts, Reconcile, Fail, Return
  <1>. QED
    BY <1>2, <1>3, <1>4

\* Users, caches, pods, labels and the list of nodes.
LEMMA ServerEnvironment ==
  ASSUME TypeOK, TypeOK', ServerInv,
         \/ \E k \in Keys : Sync(k) \/ TimerFires(k) \/ DeleteObject(k)
         \/ \E k \in Keys : \E s \in Specs : ApplyObject(k, s)
         \/ \E n \in Nodes : NodeStep(n)
         \/ UNCHANGED vars
  PROVE  ServerInv'
  <1>1. /\ \A n \in Nodes : db'[n] \subseteq db[n] /\ (lastId'[n] = lastId[n] \/ db'[n] = {})
        /\ UNCHANGED <<pc, key, found>>
        /\ \A f \in found : f.node \in todo' => f.node \in todo
    <2>1. CASE \E n \in Nodes : NodeStep(n)
      <3>1. PICK n \in Nodes : NodeStep(n)
        BY <2>1
      <3>2. CASE Stop(n)
        BY <3>2 DEF Stop, pass, loop, TypeOK
      <3>3. CASE ForgetNode(n)
        BY <3>3 DEF ForgetNode, Shifted, servers
      <3>4. CASE LearnNode(n)
        BY <3>4 DEF LearnNode, Refilled, servers
      <3>5. CASE PodStarts(n) \/ \E lbl \in LabelMaps : Relabel(n, lbl)
        BY <3>5 DEF PodStarts, Relabel, servers, pass, loop
      <3>. QED
        BY <3>1, <3>2, <3>3, <3>4, <3>5 DEF NodeStep, PodStops, PodEvicted
    <2>2. CASE ~\E n \in Nodes : NodeStep(n)
      BY <2>2 DEF Sync, TimerFires, DeleteObject, ApplyObject, Outdate, vars,
                  servers, pass, loop
    <2>. QED
      BY <2>1, <2>2
  <1>. QED
    BY <1>1, ServerShrinks

LEMMA ServerStep == TypeOK /\ TypeOK' /\ ServerInv /\ [Next]_vars => ServerInv'
  <1>1. ASSUME TypeOK, TypeOK', ServerInv, ReconcileStep PROVE ServerInv'
    BY <1>1, ServerScan, ServerAdd, ServerUpdate, ServerRemoval, ServerTurn DEF ReconcileStep
  <1>2. ASSUME TypeOK, TypeOK', ServerInv, NEW k \in Keys, KeyStep(k) PROVE ServerInv'
    BY <1>2, ServerTurn, ServerEnvironment DEF KeyStep
  <1>. QED
    BY <1>1, <1>2, ServerTurn, ServerEnvironment DEF Next

\* An RMD server never holds two workloads of one name, in any cluster, through
\* any faults, pod restarts, operator restarts and losses of nodes; and no
\* DELETE is ever due for another workload's ID.
THEOREM ServersConsistent == Spec => []ServerInv
  <1>1. TypeOK /\ TypeOK' /\ ServerInv /\ [Next]_vars => ServerInv'
    BY ServerStep
  <1>. QED
    BY <1>1, ServerInit, TypeCorrect, PTL DEF Spec

THEOREM OneWorkloadPerName == Spec => []OneEntryPerName
  <1>1. ServerInv => OneEntryPerName
    BY DEF ServerInv
  <1>. QED
    BY <1>1, ServersConsistent, PTL

THEOREM DeletionsAreOwn == Spec => []DeletesOwn
  <1>1. ServerInv => DeletesOwn
    BY DEF ServerInv
  <1>. QED
    BY <1>1, ServersConsistent, PTL
(***************************************************************************)
(* Nothing forgotten.  RecallInv is inductive on top of TypeOK and         *)
(* ServerInv.  The cache knows which objects exist, but for events that    *)
(* are still to come;                                                      *)
(***************************************************************************)
CacheKnows == \A k \in Keys : cacheFresh[k] => (cached[k] = None <=> api[k] = None)

\* an object that is back while a pass deletes it has an event of its own;
Reappeared ==
  pc = "obselete" /\ api[key] # None => key \in queue \/ ~cacheFresh[key]

\* a workload is on a node with a pod, a pod on a node of the list;
ListCovers ==
  /\ \A n \in Nodes : db[n] # {} => n \in up
  /\ ListKept => /\ up \subseteq rmdNodeList
                 /\ \A n \in Nodes : HasRmd(n) => n \in rmdNodeList

\* and a deletion has seen each workload of its name, or has still to look.
LeftToDelete ==
  ListKept /\ pc = "obselete" =>
    \A n \in Nodes : \A e \in Named(n, NameOf[key]) :
      n \in todo \/ [node |-> n, id |-> e.id] \in found

RecallInv == NothingForgotten /\ CacheKnows /\ Reappeared /\ ListCovers /\ LeftToDelete

LEMMA RecallInit == Init => RecallInv
  BY DEF Init, RecallInv, NothingForgotten, ObjectsAwaited, DeletionsAwaited,
         CacheKnows, Reappeared, ListCovers, LeftToDelete, HasRmd

\* An entry that is not the reconciled workload's is awaited by another key.
LEMMA AwaitedByOther ==
  ASSUME NothingForgotten, ListKept, NEW n \in Nodes, NEW e \in db[n],
         e.uuid # NameOf[key]
  PROVE  \E k \in Keys \ {key} : NameOf[k] = e.uuid /\ (api[k] # None \/ Awaited(k))
  BY DEF NothingForgotten, DeletionsAwaited

\* While the worker goes on with a pass, and users, caches and pods rest, an
\* entry of its own name is awaited, and a new one is of that name.
LEMMA RecallGoesOn ==
  ASSUME TypeOK, RecallInv, pc # "idle",
         UNCHANGED <<work, key, up, nodes, cached>>,
         \A k \in Keys : api'[k] = None <=> api[k] = None,
         \A k \in Keys : cacheFresh'[k] => cacheFresh[k],
         ListKept' => ListKept,
         \A n \in Nodes : db'[n] # {} => n \in up,
         \A n \in Nodes : \A e \in db'[n] :
           e.uuid = NameOf[key] \/ \E d \in db[n] : d.uuid = e.uuid,
         pc' = "obselete" => pc = "obselete",
         LeftToDelete'
  PROVE  RecallInv'
  <1>1. key \in Keys /\ queue' = queue /\ delayed' = delayed /\ key' = key
    BY DEF TypeOK, work
  <1>2. \A k \in Keys : Awaited(k) => Awaited(k)'
    BY <1>1 DEF Awaited
  <1>3. ObjectsAwaited'
    BY <1>1, <1>2 DEF RecallInv, NothingForgotten, ObjectsAwaited
  <1>4. DeletionsAwaited'
    <2>. SUFFICES ASSUME ListKept', NEW n \in Nodes, NEW e \in db'[n]
                  PROVE  \E k \in Keys : NameOf[k] = e.uuid /\ (api'[k] # None \/ Awaited(k)')
      BY DEF DeletionsAwaited
    <2>1. CASE e.uuid = NameOf[key]
      BY <1>1, <2>1 DEF Awaited
    <2>2. CASE e.uuid # NameOf[key]
      <3>1. PICK d \in db[n] : d.uuid = e.uuid
        BY <2>2
      <3>2. PICK k \in Keys : NameOf[k] = d.uuid /\ (api[k] # None \/ Awaited(k))
        BY <3>1 DEF RecallInv, NothingForgotten, DeletionsAwaited
      <3>. QED
        BY <1>2, <3>1, <3>2
    <2>. QED
      BY <2>1, <2>2
  <1>5. CacheKnows'
    BY DEF RecallInv, CacheKnows
  <1>6. Reappeared'
    BY <1>1 DEF RecallInv, Reappeared
  <1>7. ListCovers'
    BY DEF RecallInv, ListCovers, nodes, HasRmd
  <1>. QED
    BY <1>3, <1>4, <1>5, <1>6, <1>7 DEF RecallInv, NothingForgotten

\* A pass that fails leaves its key in the queue.
LEMMA RecallFail ==
  ASSUME TypeOK, RecallInv, pc # "idle", Fail,
         UNCHANGED <<objects, up, nodes>>,
         ListKept' => ListKept,
         \A n \in Nodes : db'[n] \subseteq db[n]
  PROVE  RecallInv'
  <1>1. /\ key \in Keys /\ queue' = queue \cup {key} /\ delayed' = delayed
        /\ pc' = "idle"
        /\ api' = api /\ cached' = cached /\ cacheFresh' = cacheFresh
    BY DEF TypeOK, Fail, Return, objects
  <1>2. \A k \in Keys : Awaited(k) => Awaited(k)'
    BY <1>1 DEF Awaited
  <1>3. ObjectsAwaited'
    BY <1>1, <1>2 DEF RecallInv, NothingForgotten, ObjectsAwaited
  <1>4. DeletionsAwaited'
    <2>. SUFFICES ASSUME ListKept', NEW n \in Nodes, NEW e \in db'[n]
                  PROVE  \E k \in Keys : NameOf[k] = e.uuid /\ (api'[k] # None \/ Awaited(k)')
      BY DEF DeletionsAwaited
    <2>1. PICK k \in Keys : NameOf[k] = e.uuid /\ (api[k] # None \/ Awaited(k))
      BY DEF RecallInv, NothingForgotten, DeletionsAwaited
    <2>. QED
      BY <1>1, <1>2, <2>1
  <1>5. CacheKnows'
    BY <1>1 DEF RecallInv, CacheKnows
  <1>6. Reappeared' /\ LeftToDelete'
    BY <1>1 DEF Reappeared, LeftToDelete
  <1>7. ListCovers'
    BY DEF RecallInv, ListCovers, nodes, HasRmd
  <1>. QED
    BY <1>3, <1>4, <1>5, <1>6, <1>7 DEF RecallInv, NothingForgotten

\* Requests are charged as faults, which the list does not feel.
LEMMA ChargeKeepsList ==
  ASSUME TypeOK, NEW n, NEW o, Charge(n, o)
  PROVE  ListKept' => ListKept
  BY DEF TypeOK, Charge, ListKept, Spent

\* The first loop of a deletion: a node leaves "todo" with its workload found.
LEMMA RecallScan ==
  ASSUME TypeOK, ServerInv, RecallInv, NEW n \in todo,
         FindObseleteWorkload(n) \/ GetTargetedNode(n) \/ FindRemovedNode(n)
  PROVE  RecallInv'
  <1> DEFINE id == FindWorkloadByName(n, NameOf[key])
  <1>1. /\ pc # "idle" /\ n \in Nodes
        /\ UNCHANGED <<objects, servers, nodes>>
    BY DEF TypeOK, FindObseleteWorkload, GetTargetedNode, FindRemovedNode
  <1>2. ListKept' => ListKept
    BY ChargeKeepsList DEF FindObseleteWorkload, GetTargetedNode, FindRemovedNode
  <1>3. UNCHANGED <<api, cached, cacheFresh, up, db>>
    BY <1>1 DEF objects, servers
  <1>4. CASE Fail
    BY <1>1, <1>2, <1>3, <1>4, RecallFail
  <1>5. CASE /\ UNCHANGED <<work, pc, key>>
             /\ pc = "obselete" =>
                  /\ todo' = todo \ {n}
                  /\ found' = IF id = 0 THEN found ELSE found \cup {[node |-> n, id |-> id]}
    <2>1. LeftToDelete'
      <3>. SUFFICES ASSUME ListKept', pc = "obselete",
                           NEW m \in Nodes, NEW e \in Named(m, NameOf[key])
                    PROVE  m \in todo' \/ [node |-> m, id |-> e.id] \in found'
        BY <1>3, <1>5 DEF LeftToDelete, Named
      <3>1. m \in todo \/ [node |-> m, id |-> e.id] \in found
        BY <1>2 DEF RecallInv, LeftToDelete
      <3>2. CASE m = n
        <4>1. Named(n, NameOf[key]) # {}
          BY <3>2
        <4>2. PICK d \in db[n] : d.uuid = NameOf[key] /\ d.id = id
          BY <1>1, <4>1, FindWorkloadByNameType DEF TypeOK
        <4>3. e \in db[n] /\ e.uuid = NameOf[key]
          BY <3>2 DEF Named
        <4>4. e = d
          BY <1>1, <4>2, <4>3 DEF ServerInv, OneEntryPerName
        <4>5. e.id # 0
          BY <1>1, <4>3 DEF ServerInv, IdsCounted, TypeOK
        <4>. QED
          BY <1>5, <3>2, <4>2, <4>4, <4>5
      <3>3. CASE m # n
        BY <1>5, <3>1, <3>3
      <3>. QED
        BY <3>2, <3>3
    <2>2. \A m \in Nodes : db'[m] # {} => m \in up
      BY <1>3 DEF RecallInv, ListCovers
    <2>. QED
      BY <1>1, <1>2, <1>3, <1>5, <2>1, <2>2, RecallGoesOn
  <1>6. CASE FindObseleteWorkload(n)
    BY <1>4, <1>5, <1>6 DEF FindObseleteWorkload
  <1>7. CASE GetTargetedNode(n)
    BY <1>4, <1>5, <1>7 DEF GetTargetedNode
  <1>8. CASE FindRemovedNode(n)
    BY <1>4, <1>5, <1>8 DEF FindRemovedNode
  <1>. QED
    BY <1>6, <1>7, <1>8

\* POST and PATCH: whatever is new has the name of the key in hand.
LEMMA RecallConfigure ==
  ASSUME TypeOK, RecallInv, NEW f \in found, AddWorkload(f) \/ UpdateWorkload(f)
  PROVE  RecallInv'
  <1> DEFINE n == f.node
             id == obj.status[n].id
             e0 == [id |-> lastId[n] + 1, uuid |-> NameOf[key], ver |-> obj.ver]
             P(e) == IF e.id = id THEN [e EXCEPT !.ver = obj.ver] ELSE e
  <1>1. /\ pc = "target" /\ pc' = "record" /\ n \in Nodes
        /\ UNCHANGED <<objects, up, work, key, nodes>>
    BY DEF TypeOK, AddWorkload, UpdateWorkload, Answer, NodeAt
  <1>2. PICK o \in Outcomes(n) :
          /\ Charge(n, o)
          /\ \/ UNCHANGED db
             \/ o # "failed" /\ db' = [db EXCEPT ![n] = @ \cup {e0}]
             \/ o # "failed" /\ db' = [db EXCEPT ![n] = {P(e) : e \in @}]
    BY DEF AddWorkload, UpdateWorkload, PostWorkload, PatchWorkload
  <1>3. ListKept' => ListKept
    BY <1>2, ChargeKeepsList
  <1>4. o # "failed" => n \in up
    BY DEF Outcomes, HasPodAddress
  <1>5. \A m \in Nodes \ {n} : db'[m] = db[m]
    BY <1>1, <1>2 DEF TypeOK
  <1>6. \/ db'[n] = db[n]
        \/ n \in up /\ db'[n] = db[n] \cup {e0}
        \/ n \in up /\ db'[n] = {P(e) : e \in db[n]}
    BY <1>1, <1>2, <1>4 DEF TypeOK
  <1>7. \A e \in db[n] : P(e).uuid = e.uuid
    BY <1>1 DEF TypeOK, Entry
  <1>8. \A m \in Nodes : \A e \in db'[m] :
          e.uuid = NameOf[key] \/ \E d \in db[m] : d.uuid = e.uuid
    <2>. SUFFICES ASSUME NEW m \in Nodes, NEW e \in db'[m], e.uuid # NameOf[key]
                  PROVE  \E d \in db[m] : d.uuid = e.uuid
      OBVIOUS
    <2>1. CASE m # n \/ db'[n] = db[n]
      BY <1>5, <2>1
    <2>2. CASE m = n /\ db'[n] = db[n] \cup {e0}
      BY <2>2
    <2>3. CASE m = n /\ db'[n] = {P(e1) : e1 \in db[n]}
      <3>1. PICK d \in db[n] : e = P(d)
        BY <2>3
      <3>. QED
        BY <1>7, <2>3, <3>1
    <2>. QED
      BY <1>6, <2>1, <2>2, <2>3
  <1>9. \A m \in Nodes : db'[m] # {} => m \in up
    BY <1>1, <1>5, <1>6 DEF RecallInv, ListCovers
  <1>10. LeftToDelete'
    BY <1>1 DEF LeftToDelete
  <1>11. api' = api /\ cached' = cached /\ cacheFresh' = cacheFresh /\ up' = up
    BY <1>1 DEF objects
  <1>. QED
    BY <1>1, <1>3, <1>8, <1>9, <1>10, <1>11, RecallGoesOn

\* DELETE: a success removes what was found, a failure is tried again.
LEMMA RecallRemoval ==
  ASSUME TypeOK, RecallInv, NEW f \in found, DeleteObseleteWorkload(f) \/ RemoveWorkload(f)
  PROVE  RecallInv'
  <1> DEFINE n == f.node
  <1>1. /\ pc \in {"obselete", "removed"} /\ n \in Nodes
        /\ UNCHANGED <<objects, up, lastId, nodes>>
    BY DEF TypeOK, DeleteObseleteWorkload, RemoveWorkload, NodeAt
  <1>2. ListKept' => ListKept
    BY ChargeKeepsList DEF DeleteObseleteWorkload, RemoveWorkload
  <1>3. db' = db \/ db' = [db EXCEPT ![n] = {e \in @ : e.id # f.id}]
    BY DEF DeleteObseleteWorkload, RemoveWorkload, DeleteWorkload
  <1>4. \A m \in Nodes : db'[m] \subseteq db[m]
    BY <1>1, <1>3 DEF TypeOK
  <1>5. CASE Fail
    BY <1>1, <1>2, <1>4, <1>5, RecallFail
  <1>6. CASE /\ db' = [db EXCEPT ![n] = {e \in @ : e.id # f.id}]
             /\ found' = found \ {f}
             /\ UNCHANGED <<work, pc, key, todo>>
    <2>1. LeftToDelete'
      <3>. SUFFICES ASSUME ListKept', pc = "obselete",
                           NEW m \in Nodes, NEW e \in db'[m], e.uuid = NameOf[key]
                    PROVE  m \in todo' \/ [node |-> m, id |-> e.id] \in found'
        BY <1>6 DEF LeftToDelete, Named
      <3>1. e \in Named(m, NameOf[key])
        BY <1>4 DEF Named
      <3>2. m \in todo \/ [node |-> m, id |-> e.id] \in found
        BY <1>2, <3>1 DEF RecallInv, LeftToDelete
      <3>3. m = n => e.id # f.id
        BY <1>1, <1>6 DEF TypeOK
      <3>. QED
        BY <1>6, <3>2, <3>3
    <2>2. \A m \in Nodes : db'[m] # {} => m \in up
      BY <1>4 DEF RecallInv, ListCovers
    <2>. QED
      BY <1>1, <1>2, <1>4, <1>6, <2>1, <2>2, RecallGoesOn DEF objects
  <1>7. CASE DeleteObseleteWorkload(f)
    BY <1>5, <1>6, <1>7 DEF DeleteObseleteWorkload, DeleteWorkload
  <1>8. CASE RemoveWorkload(f)
    BY <1>5, <1>6, <1>8 DEF RemoveWorkload, DeleteWorkload
  <1>. QED
    BY <1>7, <1>8

\* A status write leaves every object where it is.
LEMMA StatusUpdateKeeps ==
  ASSUME TypeOK, pc \in {"record", "removed"}, NEW status \in [Nodes -> WorkloadState],
         StatusUpdate(status)
  PROVE  /\ api[key] # None /\ api'[key] # None
         /\ \A k \in Keys : api'[k] = None <=> api[k] = None
         /\ \A k \in Keys : cacheFresh'[k] => cacheFresh[k]
         /\ cached' = cached
  <1>1. key \in Keys /\ api[key] # None /\ cached' = cached
    BY DEF TypeOK, StatusUpdate
  <1>2. api[key] \in Objects /\ [api[key] EXCEPT !.status = status] \in Objects
    BY <1>1 DEF TypeOK, Objects
  <1>3. [api[key] EXCEPT !.status = status] # None
    BY <1>2, ConstantsOK
  <1>. QED
    BY <1>1, <1>3 DEF TypeOK, StatusUpdate

LEMMA RecallRecord ==
  ASSUME TypeOK, RecallInv, UpdateRmdWorkloadStatus
  PROVE  RecallInv'
  <1> DEFINE n == answered.node
             Seen(o) == IF o = "ok" THEN FindWorkloadByName(n, NameOf[key]) ELSE 0
             Status(o) == [obj.status EXCEPT ![n] =
                             [response |-> answered.response,
                              id |-> IF Seen(o) # 0 THEN Seen(o) ELSE obj.status[n].id]]
  <1>1. /\ pc = "record" /\ obj \in Objects /\ n \in Nodes /\ answered.response \in Response
        /\ UNCHANGED <<servers, nodes>>
    BY DEF TypeOK, UpdateRmdWorkloadStatus
  <1>2. PICK o \in Outcomes(n) :
          /\ Charge(n, o)
          /\ \/ /\ StatusUpdate(Status(o))
                /\ pc' = "target"
                /\ UNCHANGED <<work, key>>
             \/ Fail /\ UNCHANGED objects
    BY DEF UpdateRmdWorkloadStatus
  <1>3. ListKept' => ListKept
    BY <1>2, ChargeKeepsList
  <1>4. Status(o) \in [Nodes -> WorkloadState]
    BY <1>1, FindWorkloadByNameType DEF TypeOK, Objects, WorkloadState
  <1>5. db' = db /\ up' = up
    BY <1>1 DEF servers
  <1>6. CASE StatusUpdate(Status(o)) /\ pc' = "target" /\ UNCHANGED <<work, key>>
    <2>1. LeftToDelete'
      BY <1>6 DEF LeftToDelete
    <2>2. \A m \in Nodes : db'[m] # {} => m \in up
      BY <1>5 DEF RecallInv, ListCovers
    <2>. QED
      BY <1>1, <1>3, <1>4, <1>5, <1>6, <2>1, <2>2, StatusUpdateKeeps, RecallGoesOn
  <1>7. CASE Fail /\ UNCHANGED objects
    BY <1>1, <1>3, <1>5, <1>7, RecallFail
  <1>. QED
    BY <1>2, <1>6, <1>7

\* Taking a key: what was queued is in hand.  A pass that is to delete starts
\* with all nodes of the list, and so with all that have a workload.
LEMMA RecallReconcile ==
  ASSUME TypeOK, RecallInv, NEW k \in Keys, Reconcile(k)
  PROVE  RecallInv'
  <1>1. /\ pc = "idle" /\ key = None /\ key' = k /\ k \in queue
        /\ queue' = queue \ {k} /\ delayed' = delayed
        /\ UNCHANGED <<api, cached, cacheFresh, up, db, lastId, rmdNodeList, labels, spent>>
    BY DEF TypeOK, Reconcile, objects, servers, nodes
  <1>2. \A j \in Keys : Awaited(j) => Awaited(j)'
    BY <1>1, ConstantsOK DEF Awaited
  <1>3. NothingForgotten'
    BY <1>1, <1>2 DEF RecallInv, NothingForgotten, ObjectsAwaited, DeletionsAwaited, ListKept
  <1>4. CacheKnows' /\ ListCovers'
    BY <1>1 DEF RecallInv, CacheKnows, ListCovers, ListKept, HasRmd
  <1>5. pc' = "obselete" => cached[k] = None /\ todo' = rmdNodeList
    BY DEF Reconcile
  <1>6. Reappeared'
    BY <1>1, <1>5 DEF RecallInv, CacheKnows, Reappeared
  <1>7. LeftToDelete'
    BY <1>1, <1>5 DEF RecallInv, ListCovers, LeftToDelete, Named, ListKept
  <1>. QED
    BY <1>3, <1>4, <1>6, <1>7 DEF RecallInv

\* The other turns of the worker.  A deletion ends when nothing of its name is
\* left; a pass that ends well is repeated in 60 seconds.
LEMMA RecallTurn ==
  ASSUME TypeOK, RecallInv, FindRemovedNodes \/ FinishReconcile \/ FinishDeletion
  PROVE  RecallInv'
  <1>1. pc # "idle" /\ key \in Keys /\ UNCHANGED <<servers, nodes, spent>>
    BY DEF TypeOK, FindRemovedNodes, FinishReconcile, FinishDeletion
  <1>2. ListKept' = ListKept /\ db' = db /\ up' = up
    BY <1>1 DEF ListKept, servers
  <1>3. \A m \in Nodes : db'[m] # {} => m \in up
    BY <1>2 DEF RecallInv, ListCovers
  <1>4. CASE FindRemovedNodes
    <2>1. LeftToDelete' /\ pc' = "removed" /\ UNCHANGED <<objects, work, key>>
      BY <1>4 DEF FindRemovedNodes, LeftToDelete
    <2>. QED
      BY <1>1, <1>2, <1>3, <2>1, RecallGoesOn DEF objects
  <1>5. CASE FinishDeletion
    <2>1. /\ pc = "obselete" /\ todo = {} /\ found = {} /\ pc' = "idle" /\ key' = None
          /\ UNCHANGED <<api, cached, cacheFresh, queue, delayed>>
      BY <1>5 DEF FinishDeletion, Return, objects, work
    <2>2. \A k \in Keys \ {key} : Awaited(k) => Awaited(k)'
      BY <2>1 DEF Awaited
    <2>3. \A k \in Keys : k = key /\ api[k] # None => Awaited(k)'
      BY <2>1 DEF RecallInv, Reappeared, Awaited
    <2>4. ObjectsAwaited'
      <3>. SUFFICES ASSUME NEW k \in Keys, api[k] # None
                    PROVE  Awaited(k)' \/ k \in delayed
        BY <2>1 DEF ObjectsAwaited
      <3>1. Awaited(k) \/ k \in delayed
        BY DEF RecallInv, NothingForgotten, ObjectsAwaited
      <3>. QED
        BY <2>2, <2>3, <3>1
    <2>5. DeletionsAwaited'
      <3>. SUFFICES ASSUME ListKept, NEW n \in Nodes, NEW e \in db[n]
                    PROVE  \E k \in Keys : NameOf[k] = e.uuid /\ (api[k] # None \/ Awaited(k)')
        BY <1>2, <2>1 DEF DeletionsAwaited
      <3>1. e.uuid # NameOf[key]
        BY <2>1 DEF RecallInv, LeftToDelete, Named
      <3>2. PICK k \in Keys \ {key} : NameOf[k] = e.uuid /\ (api[k] # None \/ Awaited(k))
        BY <3>1, AwaitedByOther DEF RecallInv
      <3>. QED
        BY <2>2, <3>2
    <2>6. CacheKnows' /\ Reappeared' /\ LeftToDelete'
      BY <2>1 DEF RecallInv, CacheKnows, Reappeared, LeftToDelete
    <2>7. ListCovers'
      BY <1>1, <1>2 DEF RecallInv, ListCovers, nodes, HasRmd
    <2>. QED
      BY <2>4, <2>5, <2>6, <2>7 DEF RecallInv, NothingForgotten
  <1>6. CASE FinishReconcile /\ Fail /\ UNCHANGED objects
    BY <1>1, <1>2, <1>6, RecallFail
  <1>7. CASE /\ pc = "removed" /\ StatusUpdate(obj.status)
             /\ Return /\ delayed' = delayed \cup {key} /\ UNCHANGED queue
    <2>1. obj.status \in [Nodes -> WorkloadState]
      BY <1>7 DEF TypeOK, Objects
    <2>2. /\ api[key] # None /\ \A k \in Keys : api'[k] = None <=> api[k] = None
          /\ \A k \in Keys : cacheFresh'[k] => cacheFresh[k]
          /\ cached' = cached
      BY <1>7, <2>1, StatusUpdateKeeps
    <2>3. pc' = "idle" /\ key' = None /\ queue' = queue
      BY <1>7 DEF Return
    <2>4. \A k \in Keys \ {key} : Awaited(k) => Awaited(k)'
      BY <2>2, <2>3 DEF Awaited
    <2>5. ObjectsAwaited'
      BY <1>7, <2>2, <2>4 DEF RecallInv, NothingForgotten, ObjectsAwaited
    <2>6. DeletionsAwaited'
      <3>. SUFFICES ASSUME ListKept, NEW n \in Nodes, NEW e \in db[n]
                    PROVE  \E k \in Keys : NameOf[k] = e.uuid /\ (api'[k] # None \/ Awaited(k)')
        BY <1>2 DEF DeletionsAwaited
      <3>1. PICK k \in Keys : NameOf[k] = e.uuid /\ (api[k] # None \/ Awaited(k))
        BY DEF RecallInv, NothingForgotten, DeletionsAwaited
      <3>. QED
        BY <2>2, <2>4, <3>1
    <2>7. CacheKnows' /\ Reappeared' /\ LeftToDelete'
      BY <2>2, <2>3 DEF RecallInv, CacheKnows, Reappeared, LeftToDelete
    <2>8. ListCovers'
      BY <1>1, <1>2 DEF RecallInv, ListCovers, nodes, HasRmd
    <2>. QED
      BY <2>5, <2>6, <2>7, <2>8 DEF RecallInv, NothingForgotten
  <1>. QED
    BY <1>4, <1>5, <1>6, <1>7 DEF FinishReconcile

\* Users, watches and timers: an event outdates the cache, the watch turns it
\* into a key of the queue.
LEMMA RecallEvents ==
  ASSUME TypeOK, RecallInv, NEW k \in Keys,
         Sync(k) \/ TimerFires(k) \/ DeleteObject(k) \/ \E s \in Specs : ApplyObject(k, s)
  PROVE  RecallInv'
  <1>1. UNCHANGED <<up, db, pc, key, todo, found, nodes>> /\ ListKept' = ListKept
    BY DEF Sync, TimerFires, DeleteObject, ApplyObject, pass, loop, servers, ListKept,
           TypeOK, Spent
  <1>2. ListCovers'
    BY <1>1 DEF RecallInv, ListCovers, nodes, HasRmd
  <1>3. LeftToDelete'
    BY <1>1 DEF RecallInv, LeftToDelete, Named
  <1>4. CASE Sync(k) \/ TimerFires(k)
    <2>1. /\ queue \subseteq queue' /\ api' = api
          /\ \A j \in Keys : cacheFresh[j] \/ j \in queue' \/ ~cacheFresh'[j]
          /\ \A j \in Keys :
               cacheFresh'[j] =>
                 (cacheFresh[j] /\ cached'[j] = cached[j]) \/ cached'[j] = api[j]
          /\ \A j \in delayed : j \in delayed' \/ j \in queue'
      BY <1>4 DEF Sync, TimerFires, objects, TypeOK
    <2>2. \A j \in Keys : Awaited(j) => Awaited(j)'
      BY <1>1, <2>1 DEF Awaited
    <2>3. NothingForgotten'
      BY <1>1, <2>1, <2>2 DEF RecallInv, NothingForgotten, ObjectsAwaited, DeletionsAwaited, Awaited
    <2>4. CacheKnows'
      BY <2>1 DEF RecallInv, CacheKnows
    <2>5. pc # "idle" => key \in Keys
      BY DEF TypeOK
    <2>6. Reappeared'
      BY <1>1, <2>1, <2>5 DEF RecallInv, Reappeared
    <2>. QED
      BY <1>2, <1>3, <2>3, <2>4, <2>6 DEF RecallInv
  <1>5. CASE DeleteObject(k) \/ \E s \in Specs : ApplyObject(k, s)
    <2>1. /\ UNCHANGED <<queue, delayed, cached>>
          /\ cacheFresh' = [cacheFresh EXCEPT ![k] = FALSE]
          /\ \A j \in Keys \ {k} : api'[j] = api[j]
      BY <1>5 DEF DeleteObject, ApplyObject, Outdate, work, TypeOK
    <2>2. Awaited(k)' /\ \A j \in Keys : Awaited(j) => Awaited(j)'
      BY <1>1, <2>1 DEF Awaited, TypeOK
    <2>3. NothingForgotten'
      BY <1>1, <2>1, <2>2 DEF RecallInv, NothingForgotten, ObjectsAwaited, DeletionsAwaited
    <2>4. CacheKnows'
      BY <2>1 DEF RecallInv, CacheKnows, TypeOK
    <2>5. pc # "idle" => key \in Keys
      BY DEF TypeOK
    <2>6. Reappeared'
      BY <1>1, <2>1, <2>5 DEF RecallInv, Reappeared, TypeOK
    <2>. QED
      BY <1>2, <1>3, <2>3, <2>4, <2>6 DEF RecallInv
  <1>. QED
    BY <1>4, <1>5

\* Pods, labels and the list: a pod that stops takes its workloads along, and
\* what takes a node from the list, or brings another label, ends ListKept.
LEMMA RecallNodeStep ==
  ASSUME TypeOK, RecallInv, NEW n \in Nodes, NodeStep(n)
  PROVE  RecallInv'
  <1>1. UNCHANGED <<api, cached, cacheFresh, queue, delayed, pc, key, found>>
    BY DEF NodeStep, PodStops, PodEvicted, Stop, PodStarts, LearnNode, ForgetNode, Relabel,
           objects, work, pass, loop
  <1>2. /\ \A m \in Nodes : db'[m] \subseteq db[m]
        /\ \A m \in Nodes : db'[m] # {} => m \in up'
    BY DEF NodeStep, PodStops, PodEvicted, Stop, PodStarts, LearnNode, ForgetNode, Relabel,
           servers, TypeOK, RecallInv, ListCovers
  <1>3. ListKept' => /\ ListKept /\ todo' = todo /\ labels' = labels
                     /\ rmdNodeList \subseteq rmdNodeList'
                     /\ \A m \in up' : m \in up \/ (m \in Nodes /\ HasRmd(m))
    BY DEF NodeStep, PodStops, PodEvicted, Stop, PodStarts, LearnNode, Refilled, ForgetNode, Relabel,
           servers, nodes, pass, loop, TypeOK, Spent, ListKept
  <1>4. \A k \in Keys : Awaited(k)' = Awaited(k)
    BY <1>1 DEF Awaited
  <1>5. NothingForgotten'
    BY <1>1, <1>2, <1>3, <1>4 DEF RecallInv, NothingForgotten, ObjectsAwaited, DeletionsAwaited
  <1>6. CacheKnows' /\ Reappeared'
    BY <1>1 DEF RecallInv, CacheKnows, Reappeared
  <1>7. ListCovers'
    BY <1>2, <1>3 DEF RecallInv, ListCovers, HasRmd, TypeOK
  <1>8. LeftToDelete'
    BY <1>1, <1>2, <1>3 DEF RecallInv, LeftToDelete, Named
  <1>. QED
    BY <1>5, <1>6, <1>7, <1>8 DEF RecallInv

\* A new process lists the objects that exist; deletions are lost (finding 1).
LEMMA RecallRestart ==
  ASSUME TypeOK, RecallInv, OperatorRestarts
  PROVE  RecallInv'
  BY DEF OperatorRestarts, Return, servers, TypeOK, Spent, RecallInv, NothingForgotten,
         ObjectsAwaited, DeletionsAwaited, Awaited, ListKept, CacheKnows, Reappeared,
         ListCovers, LeftToDelete

LEMMA RecallStutter == RecallInv /\ UNCHANGED vars => RecallInv'
  BY DEF vars, objects, servers, work, pass, loop, nodes, RecallInv, NothingForgotten,
         ObjectsAwaited, DeletionsAwaited, Awaited, ListKept, CacheKnows, Reappeared,
         ListCovers, LeftToDelete, Named, HasRmd

LEMMA RecallStep == TypeOK /\ ServerInv /\ RecallInv /\ [Next]_vars => RecallInv'
  <1>1. ASSUME TypeOK, ServerInv, RecallInv, ReconcileStep PROVE RecallInv'
    BY <1>1, RecallScan, RecallConfigure, RecallRemoval, RecallRecord, RecallTurn
    DEF ReconcileStep
  <1>2. ASSUME TypeOK, RecallInv, NEW k \in Keys, KeyStep(k) PROVE RecallInv'
    BY <1>2, RecallReconcile, RecallEvents DEF KeyStep
  <1>. QED
    BY <1>1, <1>2, RecallNodeStep, RecallRestart, RecallStutter DEF Next

\* The controller never loses sight of an RmdWorkload that exists, nor, as long
\* as it runs and keeps its list of nodes, of one that is deleted while a server
\* still has its workload: through conflicts, failed requests, RMD pods that
\* stop, and objects that are deleted and created again during a pass.
THEOREM NoWorkloadForgotten == Spec => []NothingForgotten
  <1>1. TypeOK /\ ServerInv /\ RecallInv /\ [Next]_vars => RecallInv'
    BY RecallStep
  <1>2. RecallInv => NothingForgotten
    BY DEF RecallInv
  <1>. QED
    BY <1>1, <1>2, RecallInit, TypeCorrect, ServersConsistent, PTL DEF Spec
=============================================================================
