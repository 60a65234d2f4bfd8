------------------------- MODULE RmdNodeStateProofs -------------------------
(***************************************************************************)
(* What holds of the RmdNodeState controller for every set of nodes,       *)
(* addresses and workloads, and every bound on changes and upsets.         *)
(***************************************************************************)
EXTENDS RmdNodeState, TLAPS

(***************************************************************************)
(* Types.                                                                  *)
(***************************************************************************)
LEMMA Uint32Type ==
  ASSUME NEW i \in Int PROVE Uint32(i) \in Nat
  BY MirrorConstants DEF Uint32

\* Whatever the user asks for, a request can be made of it.
LEMMA FormatType ==
  ASSUME NEW s \in Payload PROVE formatWorkload(s) \in Data
  <1>1. CoreIds(s) \subseteq Cpus
    BY DEF CoreIds, Payload
  <1>2. \A f \in CacheFields \cup MbaFields : Uint32(s.rdt[f]) \in Nat
    BY Uint32Type DEF Payload
  <1>3. \A f \in PstateFields : s.pstate[f] \in Int \cup {None}
    BY DEF Payload
  <1>. QED
    BY <1>1, <1>2, <1>3 DEF formatWorkload, Data

LEMMA NothingType == Nothing \in Status
  BY DEF Nothing, Status

LEMMA TypeInit == Init => TypeOK
  BY NothingType, MirrorConstants DEF Init, TypeOK, Nowhere

LEMMA TypeReturn ==
  ASSUME Return
  PROVE  /\ pc' = "idle" /\ node' = None /\ address' = None /\ answer' = Nowhere
         /\ objFresh' \in BOOLEAN
         /\ answer' \in [workloads : Status, from : Nodes \cup {None}]
  BY NothingType DEF Return, Nowhere

LEMMA SixDecimalsType ==
  ASSUME NEW r \in Int \cup {None} PROVE SixDecimals(r) \in Int \cup {None}
  BY DEF SixDecimals

LEMMA PatchedType ==
  ASSUME NEW old \in Data, NEW new \in Data, NEW kept PROVE Patched(old, new, kept) \in Data
  BY DEF Patched, Data

LEMMA UpdateNodeStatusType ==
  ASSUME NEW w \in Workload PROVE UpdateNodeStatusWorkload(w) \in [id : Nat, data : Data]
  <1>1. w.data \in Data /\ w.data.pstate["ratio"] \in Int \cup {None}
    BY DEF Workload, Data, PstateFields
  <1>2. SixDecimals(w.data.pstate["ratio"]) \in Int \cup {None}
    BY <1>1, SixDecimalsType
  <1>3. [w.data EXCEPT !.pstate["ratio"] = SixDecimals(@)] \in Data
    BY <1>1, <1>2 DEF Data
  <1>. QED
    BY <1>3 DEF UpdateNodeStatusWorkload, Workload

LEMMA TypeConfigure ==
  ASSUME TypeOK, NEW n \in Nodes, NEW name \in Names, NEW s \in Specs, Configure(n, name, s)
  PROVE  TypeOK'
  <1>1. spent.changes + 1 \in 0..MaxChanges /\ spent.ids + 1 \in Nat
    BY MirrorConstants DEF Configure, TypeOK
  <1>2. formatWorkload(s) \in Data
    BY FormatType, MirrorConstants
  <1>3. asked' \in [Nodes -> [Names -> SUBSET Specs]]
    BY DEF Configure, TypeOK
  <1>4. UNCHANGED <<pods, states, views, queue, pass, sources, reused, dropped>>
    BY DEF Configure
  <1>5. CASE /\ db' = [db EXCEPT ![n] = @ \cup
                        {[id |-> spent.ids + 1, uuid |-> name, data |-> formatWorkload(s)]}]
             /\ spent' = [spent EXCEPT !.changes = @ + 1, !.ids = @ + 1]
    <2>1. [id |-> spent.ids + 1, uuid |-> name, data |-> formatWorkload(s)] \in Workload
      BY <1>1, <1>2 DEF Workload
    <2>2. db' \in [Nodes -> SUBSET Workload]
      BY <1>5, <2>1 DEF TypeOK
    <2>3. spent' \in [changes : 0..MaxChanges, upsets : 0..MaxUpsets, ids : Nat]
      BY <1>1, <1>5 DEF TypeOK
    <2>. QED
      BY <1>3, <1>4, <2>2, <2>3 DEF TypeOK, views, pass
  <1>6. CASE /\ \E w \in Named(n, name), kept \in SUBSET MayLack :
                   db' = [db EXCEPT ![n] = (@ \ {w}) \cup
                            {[w EXCEPT !.data = Patched(w.data, formatWorkload(s), kept)]}]
             /\ spent' = [spent EXCEPT !.changes = @ + 1]
    <2>1. PICK w \in Named(n, name), kept \in SUBSET MayLack :
                 db' = [db EXCEPT ![n] = (@ \ {w}) \cup
                          {[w EXCEPT !.data = Patched(w.data, formatWorkload(s), kept)]}]
      BY <1>6
    <2>2. w \in Workload /\ w.data \in Data
      BY DEF Named, TypeOK, Workload
    <2>3. Patched(w.data, formatWorkload(s), kept) \in Data
      BY <1>2, <2>2, PatchedType
    <2>4. [w EXCEPT !.data = Patched(w.data, formatWorkload(s), kept)] \in Workload
      BY <2>2, <2>3 DEF Workload
    <2>5. db' \in [Nodes -> SUBSET Workload]
      BY <2>1, <2>4 DEF TypeOK
    <2>6. spent' \in [changes : 0..MaxChanges, upsets : 0..MaxUpsets, ids : Nat]
      BY <1>1, <1>6 DEF TypeOK
    <2>. QED
      BY <1>3, <1>4, <2>5, <2>6 DEF TypeOK, views, pass
  <1>. QED
    BY <1>5, <1>6 DEF Configure

LEMMA TypeUpset ==
  ASSUME TypeOK, Upset
  PROVE  spent' \in [changes : 0..MaxChanges, upsets : 0..MaxUpsets, ids : Nat]
  BY MirrorConstants DEF TypeOK, Upset

LEMMA TypeNodeStep ==
  ASSUME TypeOK, NEW n \in Nodes, NodeStep(n)
  PROVE  TypeOK'
  <1>1. CASE Reconcile(n)
    <2>1. /\ UNCHANGED <<world, states, views, sources, reused, asked, spent>>
          /\ queue' \subseteq Nodes /\ dropped' \subseteq Nodes
      BY <1>1 DEF TypeOK, Reconcile
    <2>2. CASE UNCHANGED pass
      BY <2>1, <2>2 DEF TypeOK, world, views, pass
    <2>3. CASE /\ pc = "idle" /\ PodOf(n) # None /\ Ask(n, PodOf(n)) /\ UNCHANGED answer
      <3>1. seenPods[n] \in Pod
        BY <2>3 DEF TypeOK, PodOf
      <3>2. pc' = "get" /\ node' = n /\ objFresh' \in BOOLEAN /\ address' \in Ips \cup {Pending}
        BY <2>3, <3>1 DEF Ask, PodOf, Pod
      <3>. QED
        BY <2>1, <2>3, <3>2 DEF TypeOK, world, views
    <2>. QED
      BY <1>1, <2>2, <2>3 DEF Reconcile
  <1>2. CASE SyncState(n)
    BY <1>2 DEF TypeOK, SyncState, world, pass, history
  <1>3. CASE SyncPod(n)
    BY <1>3 DEF TypeOK, SyncPod, world, pass, history
  <1>4. CASE DeleteState(n)
    BY <1>4, TypeUpset DEF TypeOK, DeleteState, StateBecomes, world
  <1>5. CASE CreateState(n)
    BY <1>5, NothingType DEF TypeOK, CreateState, StateBecomes, world, pass, history
  <1>6. CASE PodStops(n)
    BY <1>6, TypeUpset DEF TypeOK, PodStops, views, pass, history
  <1>7. CASE PodScheduled(n)
    <2>1. pods' \in [Nodes -> Pod \cup {None}]
      <3>1. \A port \in BOOLEAN : [ip |-> Pending, port |-> port] \in Pod
        BY DEF Pod
      <3>2. PICK port \in BOOLEAN : pods' = [pods EXCEPT ![n] = [ip |-> Pending, port |-> port]]
        BY <1>7 DEF PodScheduled
      <3>. QED
        BY <3>1, <3>2 DEF TypeOK
    <2>2. spent' \in [changes : 0..MaxChanges, upsets : 0..MaxUpsets, ids : Nat]
      BY <1>7, TypeUpset DEF TypeOK, PodScheduled
    <2>. QED
      BY <1>7, <2>1, <2>2 DEF TypeOK, PodScheduled, views, pass, history
  <1>8. ASSUME NEW ip \in Ips, PodRuns(n, ip) PROVE TypeOK'
    <2>1. pods[n] \in Pod
      BY <1>8 DEF TypeOK, PodRuns, At
    <2>2. pods' \in [Nodes -> Pod \cup {None}]
      BY <1>8, <2>1 DEF TypeOK, PodRuns, Pod
    <2>3. reused' \subseteq Nodes \X Nodes
      BY <1>8 DEF TypeOK, PodRuns
    <2>. QED
      BY <1>8, <2>2, <2>3 DEF TypeOK, PodRuns, views, pass
  <1>9. CASE \E name \in Names, s \in Specs : Configure(n, name, s)
    BY <1>9, TypeConfigure
  <1>10. CASE \E w \in db[n] : Remove(n, w)
    <2>1. spent.changes < MaxChanges /\ spent' = [spent EXCEPT !.changes = spent.changes + 1]
      BY <1>10 DEF Remove
    <2>2. spent.changes + 1 \in 0..MaxChanges
      BY <2>1, MirrorConstants DEF TypeOK
    <2>3. spent' \in [changes : 0..MaxChanges, upsets : 0..MaxUpsets, ids : Nat]
      BY <2>1, <2>2 DEF TypeOK
    <2>. QED
      BY <1>10, <2>3 DEF TypeOK, Remove, views, pass, history
  <1>. QED
    BY <1>1, <1>2, <1>3, <1>4, <1>5, <1>6, <1>7, <1>8, <1>9, <1>10 DEF NodeStep

LEMMA TypeGetWorkloads ==
  ASSUME TypeOK, GetWorkloads PROVE TypeOK'
  <1>1. \A m \in Nodes :
          [name \in Names |-> IF Named(m, name) = {} THEN None
                              ELSE UpdateNodeStatusWorkload(CHOOSE w \in Named(m, name) : TRUE)]
            \in Status
    <2>. SUFFICES ASSUME NEW m \in Nodes, NEW name \in Names, Named(m, name) # {}
                  PROVE  UpdateNodeStatusWorkload(CHOOSE w \in Named(m, name) : TRUE)
                           \in [id : Nat, data : Data]
      BY DEF Status
    <2>1. (CHOOSE w \in Named(m, name) : TRUE) \in Workload
      BY DEF Named, TypeOK
    <2>. QED
      BY <2>1, UpdateNodeStatusType
  <1>2. /\ answer' \in [workloads : Status, from : Nodes \cup {None}]
        /\ pc' = "update" /\ UNCHANGED <<node, objFresh, address>>
    BY <1>1, NothingType DEF GetWorkloads, Answers
  <1>3. spent' \in [changes : 0..MaxChanges, upsets : 0..MaxUpsets, ids : Nat]
    BY TypeUpset DEF GetWorkloads, TypeOK
  <1>. QED
    BY <1>2, <1>3 DEF TypeOK, GetWorkloads, world, views, history

LEMMA TypeUpdateStatus ==
  ASSUME TypeOK, UpdateStatus PROVE TypeOK'
  <1>1. node \in Nodes /\ pc = "update"
    BY DEF TypeOK, UpdateStatus
  <1>2. /\ states' \in [Nodes -> Status \cup {None}] /\ fresh' \subseteq Nodes
        /\ sources' \in [Nodes -> Nodes \cup {None}]
    BY <1>1 DEF TypeOK, UpdateStatus, StateBecomes
  <1>. QED
    BY <1>1, <1>2, TypeReturn DEF TypeOK, UpdateStatus, world

LEMMA TypeFailWorkloads ==
  ASSUME TypeOK, FailWorkloads PROVE TypeOK'
  <1>1. node \in Nodes
    BY DEF TypeOK, FailWorkloads
  <1>. QED
    BY <1>1, TypeUpset, TypeReturn DEF TypeOK, FailWorkloads, world, views, history

LEMMA TypeStep == TypeOK /\ [Next]_vars => TypeOK'
  <1>1. ASSUME TypeOK, OperatorRestarts PROVE TypeOK'
    BY <1>1, TypeUpset, TypeReturn DEF TypeOK, OperatorRestarts, world, history
  <1>2. ASSUME TypeOK, UNCHANGED vars PROVE TypeOK'
    BY <1>2 DEF TypeOK, vars, world, views, pass, history
  <1>. QED
    BY <1>1, <1>2, TypeNodeStep, TypeGetWorkloads, TypeFailWorkloads, TypeUpdateStatus DEF Next, Worker

\* Every reachable state is well typed, for every payload that users may ask for:
\* the numbers that leave the operator are never negative, and a pass always has
\* a node and an address to ask.
THEOREM TypeCorrect == Spec => []TypeOK
  BY TypeInit, TypeStep, PTL DEF Spec

(***************************************************************************)
(* Whose workloads a status shows.  MirrorInv is inductive on top of       *)
(* TypeOK.                                                                 *)
(***************************************************************************)
LEMMA MirrorInit == Init => MirrorInv
  BY MirrorConstants DEF Init, MirrorInv, StatusOwn, AddressesOwn, AnswerOwn, At

\* A step of the cluster, of the queue or of the cache of RmdNodeStates.
LEMMA MirrorAside ==
  ASSUME TypeOK, MirrorInv,
         UNCHANGED <<seenPods, node, address, answer, reused>>,
         \A n \in Nodes : sources'[n] \in {sources[n], None},
         \A n \in Nodes, ip \in Ips : At(pods'[n], ip) => At(pods[n], ip)
  PROVE  MirrorInv'
  <1>1. StatusOwn' /\ AnswerOwn'
    BY DEF MirrorInv, StatusOwn, AnswerOwn
  <1>2. AddressesOwn'
    BY DEF MirrorInv, AddressesOwn
  <1>. QED
    BY <1>1, <1>2 DEF MirrorInv

LEMMA MirrorPodScheduled ==
  ASSUME TypeOK, MirrorInv, NEW n \in Nodes, PodScheduled(n)
  PROVE  MirrorInv'
  <1>1. UNCHANGED <<seenPods, node, address, answer, reused, sources>>
    BY DEF PodScheduled, views, pass, history
  <1>2. \A m \in Nodes : pods'[m] = pods[m] \/ pods'[m].ip = Pending
    BY DEF PodScheduled, TypeOK
  <1>3. \A m \in Nodes, ip \in Ips : At(pods'[m], ip) => At(pods[m], ip)
    BY <1>2, MirrorConstants DEF At
  <1>. QED
    BY <1>1, <1>3, MirrorAside

\* The address of another pod may be one in use here; then this pair is marked.
LEMMA MirrorPodRuns ==
  ASSUME TypeOK, MirrorInv, NEW n \in Nodes, NEW ip \in Ips, PodRuns(n, ip)
  PROVE  MirrorInv'
  <1>1. /\ UNCHANGED <<seenPods, node, address, answer, sources>> /\ reused \subseteq reused'
        /\ pods'[n].ip = ip /\ \A m \in Nodes \ {n} : pods'[m] = pods[m] /\ ~At(pods[m], ip)
    BY DEF PodRuns, TypeOK, views, pass, At, Pod
  <1>2. \A m \in Nodes \ {n} : <<m, n>> \notin reused' =>
             ~At(seenPods[m], ip) /\ (node = m => address # ip)
    BY DEF PodRuns
  <1>3. StatusOwn' /\ AnswerOwn'
    BY <1>1 DEF MirrorInv, StatusOwn, AnswerOwn
  <1>4. AddressesOwn'
    <2>. SUFFICES ASSUME NEW m \in Nodes, NEW k \in Nodes, NEW a \in Ips, m # k, At(pods'[k], a)
                  PROVE  /\ ~At(pods'[m], a)
                         /\ <<m, k>> \notin reused' => ~At(seenPods[m], a) /\ (node = m => address # a)
      BY <1>1 DEF AddressesOwn
    <2>1. CASE k = n
      <3>1. a = ip
        BY <1>1, <2>1 DEF At
      <3>. QED
        BY <1>1, <1>2, <2>1, <3>1
    <2>2. CASE k # n
      <3>1. At(pods[k], a) /\ a # ip
        BY <1>1, <2>2
      <3>2. ~At(pods'[m], a)
        BY <1>1, <3>1 DEF MirrorInv, AddressesOwn, At
      <3>. QED
        BY <1>1, <3>1, <3>2 DEF MirrorInv, AddressesOwn
    <2>. QED
      BY <2>1, <2>2
  <1>. QED
    BY <1>3, <1>4 DEF MirrorInv

LEMMA MirrorSyncPod ==
  ASSUME TypeOK, MirrorInv, NEW n \in Nodes, SyncPod(n)
  PROVE  MirrorInv'
  <1>1. /\ UNCHANGED <<pods, node, address, answer, sources, reused>>
        /\ \A m \in Nodes : seenPods'[m] = IF m = n THEN pods[n] ELSE seenPods[m]
    BY DEF SyncPod, TypeOK, world, pass, history
  <1>. QED
    BY <1>1 DEF MirrorInv, StatusOwn, AddressesOwn, AnswerOwn

\* A pass starts with the address that the cache has.
LEMMA MirrorReconcile ==
  ASSUME TypeOK, MirrorInv, NEW n \in Nodes, Reconcile(n)
  PROVE  MirrorInv'
  <1>1. UNCHANGED <<pods, seenPods, sources, reused, answer>>
    BY DEF Reconcile, world, views, pass
  <1>2. CASE UNCHANGED pass
    BY <1>1, <1>2 DEF pass, MirrorInv, StatusOwn, AddressesOwn, AnswerOwn
  <1>3. CASE pc = "idle" /\ node' = n /\ PodOf(n) # None /\ address' = PodOf(n).ip
    <2>1. answer.from = None
      BY <1>3 DEF TypeOK, Nowhere
    <2>2. At(seenPods[n], address')
      BY <1>3 DEF PodOf, At
    <2>. QED
      BY <1>1, <1>3, <2>1, <2>2 DEF MirrorInv, StatusOwn, AddressesOwn, AnswerOwn
  <1>. QED
    BY <1>2, <1>3 DEF Reconcile, Ask

\* Only the node's own pod answers at the node's address, or one it went over to.
LEMMA MirrorGetWorkloads ==
  ASSUME TypeOK, MirrorInv, GetWorkloads
  PROVE  MirrorInv'
  <1>1. UNCHANGED <<pods, seenPods, sources, reused, node, address>> /\ node \in Nodes
    BY DEF TypeOK, GetWorkloads, Answers, world, views, history
  <1>2. \/ answer'.from = None
        \/ \E m \in Nodes : IsUp(m) /\ At(pods[m], address) /\ answer'.from = m
    BY DEF GetWorkloads, Answers
  <1>3. ASSUME NEW m \in Nodes, IsUp(m), At(pods[m], address) PROVE address \in Ips
    BY <1>3 DEF IsUp, At
  <1>4. AnswerOwn'
    BY <1>1, <1>2, <1>3 DEF MirrorInv, AddressesOwn, AnswerOwn
  <1>. QED
    BY <1>1, <1>4 DEF MirrorInv, StatusOwn, AddressesOwn

LEMMA MirrorReturn ==
  ASSUME TypeOK, MirrorInv, Return, UNCHANGED <<pods, reused>>,
         \A n \in Nodes : seenPods'[n] \in {seenPods[n], pods[n]},
         \A n \in Nodes : sources'[n] \in {n, None} \/ <<n, sources'[n]>> \in reused
  PROVE  MirrorInv'
  <1>1. node' = None /\ None \notin Nodes
    BY MirrorConstants DEF Return
  <1>. QED
    BY <1>1 DEF MirrorInv, StatusOwn, AddressesOwn, AnswerOwn

LEMMA MirrorUpdateStatus ==
  ASSUME TypeOK, MirrorInv, UpdateStatus
  PROVE  MirrorInv'
  <1>1. node \in Nodes /\ (answer.from \in {node, None} \/ <<node, answer.from>> \in reused)
    BY MirrorConstants DEF TypeOK, UpdateStatus, MirrorInv, AnswerOwn
  <1>2. \A n \in Nodes : sources'[n] \in {n, None} \/ <<n, sources'[n]>> \in reused
    BY <1>1 DEF TypeOK, UpdateStatus, MirrorInv, StatusOwn
  <1>. QED
    BY <1>2, MirrorReturn DEF UpdateStatus, world

LEMMA MirrorStep == TypeOK /\ MirrorInv /\ [Next]_vars => MirrorInv'
  <1>. SUFFICES ASSUME TypeOK, MirrorInv, [Next]_vars PROVE MirrorInv'
    OBVIOUS
  <1>1. CASE OperatorRestarts
    BY <1>1, MirrorReturn DEF OperatorRestarts, world, MirrorInv, StatusOwn, TypeOK
  <1>2. CASE FailWorkloads
    BY <1>2, MirrorReturn DEF FailWorkloads, world, views, history, MirrorInv, StatusOwn
  <1>3. ASSUME NEW n \in Nodes, NodeStep(n) PROVE MirrorInv'
    <2>1. CASE PodStops(n)
      <3>1. \A m \in Nodes, ip \in Ips : At(pods'[m], ip) => At(pods[m], ip)
        BY <2>1 DEF PodStops, TypeOK, At
      <3>. QED
        BY <2>1, <3>1, MirrorAside DEF PodStops, views, pass, history
    <2>2. CASE DeleteState(n)
      BY <2>2, MirrorAside DEF DeleteState, TypeOK, world
    <2>3. CASE SyncState(n) \/ CreateState(n)
      BY <2>3, MirrorAside DEF SyncState, CreateState, world, pass, history
    <2>4. CASE \/ \E name \in Names, s \in Specs : Configure(n, name, s)
               \/ \E w \in db[n] : Remove(n, w)
      BY <2>4, MirrorAside DEF Configure, Remove, views, pass, history
    <2>. QED
      BY <1>3, <2>1, <2>2, <2>3, <2>4, MirrorPodScheduled, MirrorPodRuns, MirrorSyncPod,
         MirrorReconcile DEF NodeStep
  <1>4. CASE UNCHANGED vars
    BY <1>4, MirrorAside DEF vars, world, views, pass, history
  <1>. QED
    BY <1>1, <1>2, <1>3, <1>4, MirrorGetWorkloads, MirrorUpdateStatus DEF Next, Worker

\* Through every interleaving of pods that stop and start, caches that lag, GETs
\* and restarts: the answer at an address is the node's own, or that of a pod which
\* got the address while it was in use for this node, ...
THEOREM MirrorCorrect == Spec => []MirrorInv
  BY MirrorInit, MirrorStep, TypeCorrect, PTL DEF Spec

\* ... and so a foreign status always has such a pod as its source: a takeover of
\* the address is the one way in, and it leads to that pod's workloads only.
THEOREM StatusesOwn == Spec => []StatusOwn
  <1>1. MirrorInv => StatusOwn
    BY DEF MirrorInv
  <1>. QED
    BY <1>1, MirrorCorrect, PTL

(***************************************************************************)
(* The payload, there and back.                                            *)
(***************************************************************************)
\* A value that fits into 32 bits is sent as it is.
LEMMA FitsWhole ==
  ASSUME NEW i \in 0..(Width - 1) PROVE Uint32(i) = i
  BY MirrorConstants DEF Uint32

LEMMA RoundedNear ==
  ASSUME NEW r \in Int \cup {None} PROVE Number(SixDecimals(r)) - Number(r) \in -5..5
  <1>1. CASE r = None
    BY <1>1 DEF SixDecimals, Number
  <1>2. CASE r \in Int /\ r # None
    <2>1. SixDecimals(r) = ((r + 5) \div 10) * 10 /\ SixDecimals(r) \in Int
      BY <1>2 DEF SixDecimals
    <2>2. Number(SixDecimals(r)) = SixDecimals(r) /\ Number(r) = r
      BY <1>2, <2>1, MirrorConstants DEF Number
    <2>. QED
      BY <1>2, <2>1, <2>2
  <1>. QED
    BY <1>1, <1>2

\* What a server has of a workload: as AsAsked, but the ratio to the last digit.
Has(data, specs) ==
  /\ \E s \in specs : data.coreIds = CoresAsked(s)
  /\ \A f \in CacheFields \cup MbaFields : \E s \in specs : Number(data.rdt[f]) = s.rdt[f] % Width
  /\ \E s \in specs : Number(data.pstate["ratio"]) = Number(s.pstate["ratio"])
  /\ \E s \in specs : data.pstate["monitoring"] = s.pstate["monitoring"]

LEMMA AskedMore ==
  ASSUME NEW data, NEW S, NEW T, S \subseteq T
  PROVE  (Has(data, S) => Has(data, T)) /\ (AsAsked(data, S) => AsAsked(data, T))
  BY DEF Has, AsAsked

\* The request says what the user asked for, and leaves out only what is 0.
LEMMA FormatHas ==
  ASSUME NEW s \in Payload PROVE Has(formatWorkload(s), {s})
  <1> DEFINE data == formatWorkload(s)
  <1>1. data.coreIds = CoresAsked(s)
    BY DEF formatWorkload, CoreIds, CoresAsked, Payload
  <1>2. ASSUME NEW f \in CacheFields \cup MbaFields PROVE Number(data.rdt[f]) = s.rdt[f] % Width
    <2>1. data.rdt[f] = IF f \in MbaFields /\ Uint32(s.rdt[f]) = 0 THEN None ELSE Uint32(s.rdt[f])
      BY <1>2 DEF formatWorkload
    <2>2. Uint32(s.rdt[f]) = s.rdt[f] % Width /\ Uint32(s.rdt[f]) \in Int
      BY <1>2, Uint32Type DEF Uint32, Payload
    <2>. QED
      BY <2>1, <2>2, MirrorConstants DEF Number
  <1>3. Number(data.pstate["ratio"]) = Number(s.pstate["ratio"])
    BY MirrorConstants DEF formatWorkload, Number, PstateFields
  <1>4. data.pstate["monitoring"] = s.pstate["monitoring"]
    BY DEF formatWorkload, PstateFields
  <1>. QED
    BY <1>1, <1>2, <1>3, <1>4 DEF Has

\* After a PATCH a field is as in the request or, if that left it out, as before.
LEMMA PatchedHas ==
  ASSUME NEW old, NEW new, NEW S, NEW T, NEW kept, Has(old, S), Has(new, T)
  PROVE  Has(Patched(old, new, kept), S \cup T)
  <1> DEFINE data == Patched(old, new, kept)
  <1>1. data.coreIds \in {old.coreIds, new.coreIds}
    BY DEF Patched
  <1>2. \A f \in CacheFields \cup MbaFields : data.rdt[f] \in {old.rdt[f], new.rdt[f]}
    BY DEF Patched
  <1>3. \A f \in PstateFields : data.pstate[f] \in {old.pstate[f], new.pstate[f]}
    BY DEF Patched
  <1>4. Has(old, S \cup T) /\ Has(new, S \cup T)
    BY AskedMore
  <1>. HIDE DEF data
  <1>5. \E s \in S \cup T : data.coreIds = CoresAsked(s)
    BY <1>1, <1>4 DEF Has
  <1>6. \A f \in CacheFields \cup MbaFields :
          \E s \in S \cup T : Number(data.rdt[f]) = s.rdt[f] % Width
    BY <1>2, <1>4 DEF Has
  <1>7. \E s \in S \cup T : Number(data.pstate["ratio"]) = Number(s.pstate["ratio"])
    BY <1>3, <1>4 DEF Has, PstateFields
  <1>8. \E s \in S \cup T : data.pstate["monitoring"] = s.pstate["monitoring"]
    BY <1>3, <1>4 DEF Has, PstateFields
  <1>. QED
    BY <1>5, <1>6, <1>7, <1>8 DEF Has, data

LEMMA StatusAsAsked ==
  ASSUME NEW w \in Workload, NEW specs, Has(w.data, specs)
  PROVE  AsAsked(UpdateNodeStatusWorkload(w).data, specs)
  <1> DEFINE shown == UpdateNodeStatusWorkload(w).data
  <1>1. w.data \in Data /\ w.data.pstate["ratio"] \in Int \cup {None}
    BY DEF Workload, Data, PstateFields
  <1>2. shown = [w.data EXCEPT !.pstate["ratio"] = SixDecimals(@)]
    BY DEF UpdateNodeStatusWorkload
  <1>3. shown.coreIds = w.data.coreIds /\ shown.rdt = w.data.rdt
    BY <1>1, <1>2 DEF Data
  <1>4. /\ shown.pstate["monitoring"] = w.data.pstate["monitoring"]
        /\ shown.pstate["ratio"] = SixDecimals(w.data.pstate["ratio"])
    BY <1>1, <1>2 DEF Data, PstateFields
  <1>5. Number(shown.pstate["ratio"]) - Number(w.data.pstate["ratio"]) \in -5..5
    BY <1>1, <1>4, RoundedNear
  <1>. HIDE DEF shown
  <1>6. \E s \in specs : Number(shown.pstate["ratio"]) - Number(s.pstate["ratio"]) \in -5..5
    BY <1>5 DEF Has
  <1>. QED
    BY <1>3, <1>4, <1>6 DEF Has, AsAsked, shown

\* Also what the servers have, and what the worker has read and not yet written.
AnswerAsked ==
  \A name \in Names :
    answer.workloads[name] # None =>
      answer.from # None /\ AsAsked(answer.workloads[name].data, asked[answer.from][name])

ServersAsked == \A n \in Nodes : \A w \in db[n] : Has(w.data, asked[n][w.uuid])

AskedInv == ServersAsked /\ AnswerAsked /\ ShownAsAsked

\* A step that configures nothing; what was asked for stays asked for.
LEMMA AskedAside ==
  ASSUME TypeOK, AskedInv, UNCHANGED asked,
         \A n \in Nodes : db'[n] \subseteq db[n],
         \A n \in Nodes : \/ states'[n] \in {None, Nothing}
                          \/ states'[n] = states[n] /\ sources'[n] = sources[n]
                          \/ states'[n] = answer.workloads /\ sources'[n] = answer.from,
         answer' \in {answer, Nowhere}
  PROVE  AskedInv'
  <1>1. ServersAsked'
    BY DEF AskedInv, ServersAsked
  <1>2. AnswerAsked'
    BY DEF AskedInv, AnswerAsked, Nowhere, Nothing
  <1>3. ShownAsAsked'
    <2>. SUFFICES ASSUME NEW n \in Nodes, NEW name \in Names, states'[n] # None, states'[n][name] # None
                  PROVE  sources'[n] # None /\ AsAsked(states'[n][name].data, asked[sources'[n]][name])
      BY DEF ShownAsAsked
    <2>. QED
      BY DEF AskedInv, ShownAsAsked, AnswerAsked, Nothing
  <1>. QED
    BY <1>1, <1>2, <1>3 DEF AskedInv

LEMMA AskedConfigure ==
  ASSUME TypeOK, AskedInv, NEW n \in Nodes, NEW name \in Names, NEW s \in Specs, Configure(n, name, s)
  PROVE  AskedInv'
  <1>1. /\ UNCHANGED <<states, sources, answer>>
        /\ asked' = [asked EXCEPT ![n][name] = @ \cup {s}]
    BY DEF Configure, pass
  <1>2. \A m \in Nodes, a \in Names : asked[m][a] \subseteq asked'[m][a]
    BY <1>1 DEF TypeOK
  <1>3. s \in asked'[n][name]
    BY <1>1 DEF TypeOK
  <1>4. Has(formatWorkload(s), asked'[n][name])
    BY <1>3, FormatHas, AskedMore, MirrorConstants
  <1>5. ServersAsked'
    <2>. SUFFICES ASSUME NEW m \in Nodes, NEW v \in db'[m] PROVE Has(v.data, asked'[m][v.uuid])
      BY DEF ServersAsked
    <2>1. CASE v \in db[m]
      <3>1. v.uuid \in Names /\ Has(v.data, asked[m][v.uuid])
        BY <2>1 DEF TypeOK, Workload, AskedInv, ServersAsked
      <3>. QED
        BY <1>2, <3>1, AskedMore
    <2>2. CASE v \notin db[m]
      <3>1. m = n
        BY <2>2 DEF Configure, TypeOK
      <3>2. CASE v = [id |-> spent.ids + 1, uuid |-> name, data |-> formatWorkload(s)]
        BY <1>4, <3>1, <3>2
      <3>3. CASE \E w \in Named(n, name), kept \in SUBSET MayLack :
                   v = [w EXCEPT !.data = Patched(w.data, formatWorkload(s), kept)]
        <4>1. PICK w \in Named(n, name), kept \in SUBSET MayLack :
                     v = [w EXCEPT !.data = Patched(w.data, formatWorkload(s), kept)]
          BY <3>3
        <4>2. w \in db[n] /\ w.uuid = name /\ w \in Workload
          BY DEF Named, TypeOK
        <4>3. v.uuid = name /\ v.data = Patched(w.data, formatWorkload(s), kept)
          BY <4>1, <4>2 DEF Workload
        <4>4. Has(w.data, asked'[n][name])
          <5>1. Has(w.data, asked[n][name])
            BY <4>2 DEF AskedInv, ServersAsked
          <5>. QED
            BY <1>2, <5>1, AskedMore
        <4>5. Has(v.data, asked'[n][name] \cup asked'[n][name])
          BY <1>4, <4>3, <4>4, PatchedHas
        <4>6. asked'[n][name] \cup asked'[n][name] = asked'[n][name]
          OBVIOUS
        <4>. QED
          BY <3>1, <4>3, <4>5, <4>6
      <3>4. CASE db' = [db EXCEPT ![n] = @ \cup
                          {[id |-> spent.ids + 1, uuid |-> name, data |-> formatWorkload(s)]}]
        BY <2>2, <3>1, <3>2, <3>4 DEF TypeOK
      <3>5. ASSUME NEW w \in Named(n, name), NEW kept \in SUBSET MayLack,
                   db' = [db EXCEPT ![n] = (@ \ {w}) \cup
                            {[w EXCEPT !.data = Patched(w.data, formatWorkload(s), kept)]}]
            PROVE  Has(v.data, asked'[m][v.uuid])
        <4>1. v = [w EXCEPT !.data = Patched(w.data, formatWorkload(s), kept)]
          BY <2>2, <3>1, <3>5 DEF TypeOK
        <4>. QED
          BY <3>3, <4>1
      <3>. QED
        BY <3>4, <3>5 DEF Configure
    <2>. QED
      BY <2>1, <2>2
  <1>6. AnswerAsked'
    <2>. SUFFICES ASSUME NEW a \in Names, answer.workloads[a] # None
                  PROVE  answer.from # None /\ AsAsked(answer.workloads[a].data, asked'[answer.from][a])
      BY <1>1 DEF AnswerAsked
    <2>1. answer.from # None /\ AsAsked(answer.workloads[a].data, asked[answer.from][a])
      BY DEF AskedInv, AnswerAsked
    <2>2. answer.from \in Nodes
      BY <2>1 DEF TypeOK
    <2>. QED
      BY <1>2, <2>1, <2>2, AskedMore
  <1>7. ShownAsAsked'
    <2>. SUFFICES ASSUME NEW m \in Nodes, NEW a \in Names, states[m] # None, states[m][a] # None
                  PROVE  sources[m] # None /\ AsAsked(states[m][a].data, asked'[sources[m]][a])
      BY <1>1 DEF ShownAsAsked
    <2>1. sources[m] # None /\ AsAsked(states[m][a].data, asked[sources[m]][a])
      BY DEF AskedInv, ShownAsAsked
    <2>2. sources[m] \in Nodes
      BY <2>1 DEF TypeOK
    <2>. QED
      BY <1>2, <2>1, <2>2, AskedMore
  <1>. QED
    BY <1>5, <1>6, <1>7 DEF AskedInv

\* What is read from a server is what was asked of it.
LEMMA AskedGetWorkloads ==
  ASSUME TypeOK, AskedInv, GetWorkloads
  PROVE  AskedInv'
  <1>1. UNCHANGED <<db, states, sources, asked>>
    BY DEF GetWorkloads, world, history
  <1>2. CASE answer' = Nowhere
    BY <1>1, <1>2, AskedAside
  <1>3. ASSUME NEW m \in Nodes,
               answer' = [workloads |-> [name \in Names |->
                            IF Named(m, name) = {} THEN None
                            ELSE UpdateNodeStatusWorkload(CHOOSE w \in Named(m, name) : TRUE)],
                          from |-> m]
        PROVE  AskedInv'
    <2>1. ASSUME NEW name \in Names, Named(m, name) # {}
          PROVE  AsAsked(answer'.workloads[name].data, asked[m][name])
      <3>1. PICK w \in Named(m, name) : answer'.workloads[name] = UpdateNodeStatusWorkload(w)
        BY <1>3, <2>1
      <3>2. w \in db[m] /\ w.uuid = name /\ w \in Workload
        BY DEF Named, TypeOK
      <3>3. Has(w.data, asked[m][name])
        BY <3>2 DEF AskedInv, ServersAsked
      <3>. QED
        BY <3>1, <3>2, <3>3, StatusAsAsked
    <2>2. \A name \in Names : Named(m, name) = {} => answer'.workloads[name] = None
      BY <1>3
    <2>3. answer'.from = m /\ m # None
      BY <1>3, MirrorConstants
    <2>4. AnswerAsked'
      BY <1>1, <2>1, <2>2, <2>3 DEF AnswerAsked
    <2>. QED
      BY <1>1, <2>4 DEF AskedInv, ServersAsked, ShownAsAsked
  <1>. QED
    BY <1>2, <1>3 DEF GetWorkloads, Answers, Nowhere

LEMMA AskedStep == TypeOK /\ AskedInv /\ [Next]_vars => AskedInv'
  <1>. SUFFICES ASSUME TypeOK, AskedInv, [Next]_vars PROVE AskedInv'
    OBVIOUS
  <1>1. CASE UpdateStatus
    <2>1. UNCHANGED <<asked, db>> /\ answer' = Nowhere /\ node \in Nodes
      BY <1>1 DEF UpdateStatus, Return, world, TypeOK
    <2>2. \A n \in Nodes : \/ states'[n] = states[n] /\ sources'[n] = sources[n]
                           \/ states'[n] = answer.workloads /\ sources'[n] = answer.from
      BY <1>1 DEF UpdateStatus, StateBecomes, TypeOK
    <2>. QED
      BY <2>1, <2>2, AskedAside
  <1>2. CASE OperatorRestarts \/ FailWorkloads \/ UNCHANGED vars
    BY <1>2, AskedAside DEF OperatorRestarts, FailWorkloads, Return, world, history, vars, pass
  <1>3. ASSUME NEW n \in Nodes, NodeStep(n) PROVE AskedInv'
    <2>1. CASE Reconcile(n) \/ SyncState(n) \/ SyncPod(n) \/ PodScheduled(n) \/ \E ip \in Ips : PodRuns(n, ip)
      BY <2>1, AskedAside DEF Reconcile, SyncState, SyncPod, PodScheduled, PodRuns, world, pass, history
    <2>2. CASE DeleteState(n)
      BY <2>2, AskedAside DEF DeleteState, StateBecomes, world, TypeOK
    <2>3. CASE CreateState(n)
      BY <2>3, AskedAside DEF CreateState, StateBecomes, world, pass, history, TypeOK
    <2>4. CASE PodStops(n)
      BY <2>4, AskedAside DEF PodStops, pass, history, TypeOK
    <2>5. ASSUME NEW w \in db[n], Remove(n, w) PROVE AskedInv'
      BY <2>5, AskedAside DEF Remove, pass, history, TypeOK
    <2>. QED
      BY <1>3, <2>1, <2>2, <2>3, <2>4, <2>5, AskedConfigure DEF NodeStep
  <1>. QED
    BY <1>1, <1>2, <1>3, AskedGetWorkloads DEF Next, Worker

\* Whatever widths, CPUs and payloads, whatever RMD does with fields a PATCH leaves
\* out, and through takeovers of addresses: each field of a status is as some user
\* asked for it, under that name and on the server the status was read from.
THEOREM PayloadsAsAsked == Spec => []ShownAsAsked
  <1>1. Init => AskedInv
    BY DEF Init, AskedInv, ServersAsked, AnswerAsked, ShownAsAsked, Nowhere, Nothing
  <1>2. TypeOK /\ AskedInv /\ [Next]_vars => AskedInv'
    BY AskedStep
  <1>3. AskedInv => ShownAsAsked
    BY DEF AskedInv
  <1>. QED
    BY <1>1, <1>2, <1>3, TypeCorrect, PTL DEF Spec

(***************************************************************************)
(* The cycle.                                                              *)
(***************************************************************************)
FreshSeen == \A n \in fresh : seenStates[n] = states[n]

LEMMA CycleStep == TypeOK /\ StaysInCycle /\ FreshSeen /\ [Next]_vars => StaysInCycle' /\ FreshSeen'
  <1>. SUFFICES ASSUME TypeOK, StaysInCycle, FreshSeen, [Next]_vars PROVE StaysInCycle' /\ FreshSeen'
    OBVIOUS
  <1>1. CASE UNCHANGED <<states, seenStates, fresh, queue, node, dropped>>
    BY <1>1 DEF StaysInCycle, FreshSeen
  <1>2. CASE GetWorkloads
    BY <1>1, <1>2 DEF GetWorkloads, Answers, views, history
  <1>3. CASE UpdateStatus
    <2>1. /\ UNCHANGED <<seenStates, dropped>> /\ queue' = queue \cup {node} /\ node' = None
          /\ fresh' \subseteq fresh
      BY <1>3 DEF UpdateStatus, StateBecomes, Return
    <2>2. \A n \in fresh' : states'[n] = states[n]
      BY <1>3 DEF UpdateStatus, StateBecomes, TypeOK
    <2>3. \A n \in Nodes : states'[n] # None => states[n] # None \/ n \in queue'
      BY <1>3 DEF UpdateStatus, StateBecomes, TypeOK
    <2>4. \A n \in Nodes : n \in fresh /\ n \notin fresh' => n = node
      BY <1>3 DEF UpdateStatus, StateBecomes
    <2>. QED
      BY <2>1, <2>2, <2>3, <2>4 DEF StaysInCycle, FreshSeen
  <1>4. CASE OperatorRestarts
    BY <1>4 DEF OperatorRestarts, StaysInCycle, FreshSeen
  <1>5. ASSUME NEW n \in Nodes, NodeStep(n) PROVE StaysInCycle' /\ FreshSeen'
    <2>1. CASE Reconcile(n)
      <3>1. UNCHANGED <<states, seenStates, fresh>> /\ node = None /\ dropped \subseteq dropped'
        BY <2>1 DEF Reconcile, views, TypeOK
      <3>2. \/ UNCHANGED node /\ (UNCHANGED queue \/ (queue' = queue \ {n} /\ n \in dropped'))
            \/ UNCHANGED node /\ queue' = queue \ {n} /\ seenStates[n] = None
            \/ queue' = queue \ {n} /\ node' = n
        BY <2>1 DEF Reconcile, Ask, pass
      <3>. QED
        BY <3>1, <3>2, MirrorConstants DEF StaysInCycle, FreshSeen
    <2>2. CASE SyncState(n)
      BY <2>2 DEF SyncState, StaysInCycle, FreshSeen, TypeOK, pass
    <2>3. CASE DeleteState(n) \/ CreateState(n)
      BY <2>3 DEF DeleteState, CreateState, StateBecomes, StaysInCycle, FreshSeen, TypeOK, pass, history
    <2>4. CASE \/ SyncPod(n) \/ PodStops(n) \/ PodScheduled(n) \/ \E ip \in Ips : PodRuns(n, ip)
               \/ \E name \in Names, s \in Specs : Configure(n, name, s)
               \/ \E w \in db[n] : Remove(n, w)
      BY <1>1, <2>4 DEF SyncPod, PodStops, PodScheduled, PodRuns, Configure, Remove, pass, views, history
    <2>. QED
      BY <1>5, <2>1, <2>2, <2>3, <2>4 DEF NodeStep
  <1>6. CASE UNCHANGED vars
    BY <1>1, <1>6 DEF vars, pass, views, history
  <1>7. CASE FailWorkloads
    BY <1>7, MirrorConstants DEF FailWorkloads, Return, StaysInCycle, FreshSeen, views, history
  <1>. QED
    BY <1>2, <1>3, <1>4, <1>5, <1>6, <1>7 DEF Next, Worker

\* A pod without a port is all that takes an RmdNodeState out of the cycle which keeps
\* its status up to date: otherwise one that exists is queued, in the worker, or has an
\* event on its way that queues it.
THEOREM NoneDropsOut == Spec => []StaysInCycle
  <1>1. Init => StaysInCycle /\ FreshSeen
    BY DEF Init, StaysInCycle, FreshSeen
  <1>2. TypeOK /\ StaysInCycle /\ FreshSeen /\ [Next]_vars => StaysInCycle' /\ FreshSeen'
    BY CycleStep
  <1>. QED
    BY <1>1, <1>2, TypeCorrect, PTL DEF Spec
=============================================================================
