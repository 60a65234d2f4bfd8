-------------------------- MODULE NodeAgentProofs --------------------------
(***************************************************************************)
(* What holds of the node agent for every set of nodes, pods and           *)
(* containers, every number of CPUs and every bound on pods and upsets.    *)
(***************************************************************************)
EXTENDS NodeAgent, TLAPS

(***************************************************************************)
(* Types.                                                                  *)
(***************************************************************************)
Budget == [pods : 0..MaxPods, upsets : 0..MaxUpsets]

LEMMA SpendPods ==
  ASSUME TypeOK, Spend("pods", MaxPods)
  PROVE  /\ spent' \in Budget /\ spent'.pods = spent.pods + 1
         /\ spent.pods \in Nat /\ spent.pods + 1 \in Uids
  BY AgentConstants DEF TypeOK, Spend, Budget, Uids

LEMMA SpendUpsets ==
  ASSUME TypeOK, Spend("upsets", MaxUpsets)
  PROVE  spent' \in Budget /\ spent'.pods = spent.pods
  BY AgentConstants DEF TypeOK, Spend, Budget

LEMMA TypeInit == Init => TypeOK
  BY AgentConstants DEF Init, TypeOK, NoPods, NoWorkloads

LEMMA TypePodBecomes ==
  ASSUME TypeOK, NEW p \in PodKeys, NEW pod \in Pod \cup {None}, PodBecomes(p, pod),
         spent' \in Budget
  PROVE  TypeOK'
  BY DEF TypeOK, PodBecomes, Budget, lock, pass

\* Pods get a uid of their own, and CPUs of their node.
LEMMA NewPodType ==
  ASSUME TypeOK, NEW s \in PodSpecs, spent.pods + 1 \in Uids
  PROVE  [uid |-> spent.pods + 1, spec |-> s, phase |-> "Pending",
          cpus |-> [c \in ContainerNames |-> {}]] \in Pod
  BY DEF Pod

LEMMA PodRunsCpus ==
  ASSUME NEW p \in PodKeys, PodRuns(p)
  PROVE  \E cpus \in [ContainerNames -> SUBSET Cpus] :
           PodBecomes(p, [pods[p] EXCEPT !.phase = "Running", !.cpus = cpus])
  <1>1. PICK given \in [Pinned(pods[p].spec) -> Cpus \ Taken(pods[p].spec.node)] :
          PodBecomes(p, [pods[p] EXCEPT !.phase = "Running",
                           !.cpus = [c \in ContainerNames |->
                                       IF c \in DOMAIN given THEN {given[c]} ELSE {}]])
    BY DEF PodRuns
  <1>2. [c \in ContainerNames |-> IF c \in DOMAIN given THEN {given[c]} ELSE {}]
          \in [ContainerNames -> SUBSET Cpus]
    OBVIOUS
  <1>. QED
    BY <1>1, <1>2

LEMMA TypePodStep ==
  ASSUME TypeOK, NEW p \in PodKeys, PodStep(p)
  PROVE  TypeOK'
  <1>1. CASE \E s \in PodSpecs : CreatePod(p, s)
    BY <1>1, SpendPods, NewPodType, TypePodBecomes DEF CreatePod
  <1>2. CASE PodRuns(p)
    <2>1. PICK cpus \in [ContainerNames -> SUBSET Cpus] :
            PodBecomes(p, [pods[p] EXCEPT !.phase = "Running", !.cpus = cpus])
      BY <1>2, PodRunsCpus
    <2>2. pods[p] \in Pod
      BY <1>2 DEF PodRuns, TypeOK
    <2>3. [pods[p] EXCEPT !.phase = "Running", !.cpus = cpus] \in Pod
      BY <2>1, <2>2 DEF Pod
    <2>4. spent' \in Budget
      BY <1>2 DEF PodRuns, TypeOK, Budget
    <2>. QED
      BY <2>1, <2>3, <2>4, TypePodBecomes
  <1>3. CASE PodEnds(p)
    <2>1. [pods[p] EXCEPT !.phase = "Done"] \in Pod /\ spent' \in Budget
      BY <1>3 DEF PodEnds, TypeOK, Pod, Budget
    <2>. QED
      BY <1>3, <2>1, TypePodBecomes DEF PodEnds
  <1>4. CASE DeletePod(p)
    <2>1. spent' \in Budget
      BY <1>4 DEF DeletePod, TypeOK, Budget
    <2>. QED
      BY <1>4, <2>1, TypePodBecomes DEF DeletePod
  <1>. QED
    BY <1>1, <1>2, <1>3, <1>4 DEF PodStep

LEMMA TypeWorkloadStep ==
  ASSUME TypeOK, NEW w \in WorkloadKeys, WorkloadStep(w)
  PROVE  TypeOK'
  <1>1. CASE EditWorkload(w)
    <2>1. [workloads[w] EXCEPT !.edited = TRUE] \in Workload
      BY <1>1 DEF EditWorkload, TypeOK, Workload
    <2>. QED
      BY <1>1, <2>1, SpendUpsets DEF TypeOK, EditWorkload, WorkloadBecomes, Elsewhere, lock, pass, Budget
  <1>2. CASE DeleteWorkload(w)
    BY <1>2, SpendUpsets DEF TypeOK, DeleteWorkload, WorkloadBecomes, Elsewhere, lock, pass, Budget
  <1>3. CASE Collect(w)
    BY <1>3 DEF TypeOK, Collect, WorkloadBecomes, Elsewhere, lock, pass
  <1>4. CASE SyncWorkload(w)
    <2>1. w[1] \in PodKeys
      BY DEF WorkloadKeys
    <2>. QED
      BY <1>4, <2>1 DEF TypeOK, SyncWorkload, cluster, lock, pass
  <1>. QED
    BY <1>1, <1>2, <1>3, <1>4 DEF WorkloadStep

LEMMA TypeRest ==
  ASSUME Rest
  PROVE  /\ pc' = "idle" /\ request' = None /\ cachePod' = None
         /\ todo' = {} /\ rmdWorkloads' = {}
  BY DEF Rest

LEMMA TypeProcess ==
  ASSUME TypeOK,
         \/ AgentRestarts
         \/ \E n \in Nodes : BecomeLeader(n) \/ AgentStops(n) \/ AgentStarts(n)
  PROVE  TypeOK'
  <1>1. CASE AgentRestarts
    BY <1>1, TypeRest, SpendUpsets DEF TypeOK, AgentRestarts, StartManager, cluster, lock, Budget
  <1>2. ASSUME NEW n \in Nodes, BecomeLeader(n) PROVE TypeOK'
    BY <1>2, TypeRest DEF TypeOK, BecomeLeader, StartManager, cluster
  <1>3. ASSUME NEW n \in Nodes, AgentStops(n) PROVE TypeOK'
    <2>1. CASE leader = n
      BY <1>3, <2>1, TypeRest, SpendUpsets, AgentConstants
      DEF TypeOK, AgentStops, cluster, NoPods, NoWorkloads, Budget
    <2>2. CASE leader # n
      BY <1>3, <2>2, SpendUpsets DEF TypeOK, AgentStops, cluster, pass, cache, Budget
    <2>. QED
      BY <2>1, <2>2
  <1>4. ASSUME NEW n \in Nodes, AgentStarts(n) PROVE TypeOK'
    BY <1>4 DEF TypeOK, AgentStarts, cluster, cache, pass
  <1>. QED
    BY <1>1, <1>2, <1>3, <1>4

LEMMA TypeReconcile ==
  ASSUME TypeOK, NEW p \in PodKeys, Reconcile(p)
  PROVE  TypeOK'
  <1>1. CASE UNCHANGED pass
    BY <1>1 DEF TypeOK, Reconcile, cluster, lock, cache, pass
  <1>2. CASE seenPods[p] # None /\ leader # None /\ pc = "idle" /\ Starts(p)
    <2>1. seenPods[p] \in Pod
      BY <1>2 DEF TypeOK
    <2>2. Requesting(seenPods[p].spec) \subseteq Container
      BY <2>1, AgentConstants DEF Pod, PodSpec, Requesting
    <2>. QED
      BY <1>2, <2>1, <2>2 DEF TypeOK, Reconcile, Starts, cluster, lock, cache
  <1>. QED
    BY <1>1, <1>2 DEF Reconcile

LEMMA CpusOfType ==
  ASSUME TypeOK, NEW q \in PodKeys, NEW c \in ContainerNames, pods[q] # None
  PROVE  CpusOf(q, c) \subseteq Cpus
  BY DEF TypeOK, Pod, CpusOf

LEMMA TypeWorker ==
  ASSUME TypeOK, Worker
  PROVE  TypeOK'
  <1>1. ASSUME NEW c \in todo, GetContainerInfo(c) PROVE TypeOK'
    <2>1. pc = "build" /\ c \in Container /\ UNCHANGED <<cluster, lock, cache>>
      BY <1>1 DEF GetContainerInfo, TypeOK
    <2>2. misread' \subseteq Uids /\ spent' \in Budget
      <3>1. spent' \in Budget
        BY <1>1, SpendUpsets DEF GetContainerInfo, TypeOK, Budget
      <3>2. misread' \subseteq Uids
        BY <1>1, <2>1 DEF GetContainerInfo, TypeOK, Pod
      <3>. QED
        BY <3>1, <3>2
    <2>3. CASE Fail
      BY <2>1, <2>2, <2>3, TypeRest DEF TypeOK, Fail, cluster, lock, cache, Budget
    <2>4. ASSUME NEW coreIds \in SUBSET Cpus, NEW max \in Nat, Builds(c, coreIds, max)
          PROVE  TypeOK'
      <3>1. [name |-> c.name, coreIds |-> coreIds, max |-> max] \in Built
        BY <2>1 DEF Container, Built
      <3>. QED
        BY <2>1, <2>2, <2>4, <3>1 DEF TypeOK, Builds, cluster, lock, cache, Budget
    <2>5. CASE \E q \in Namesakes(request, c.name) : Builds(c, CpusOf(q, c.name), c.cache)
      <3>1. PICK q \in Namesakes(request, c.name) : Builds(c, CpusOf(q, c.name), c.cache)
        BY <2>5
      <3>2. q \in PodKeys /\ pods[q] # None
        BY DEF Namesakes, OnNode
      <3>3. CpusOf(q, c.name) \subseteq Cpus /\ c.cache \in Nat
        BY <2>1, <3>2, CpusOfType DEF Container
      <3>. QED
        BY <2>4, <3>1, <3>3
    <2>6. CASE Builds(c, {}, 0)
      BY <2>4, <2>6
    <2>. QED
      BY <1>1, <2>3, <2>5, <2>6 DEF GetContainerInfo
  <1>2. ASSUME NEW b \in rmdWorkloads, CreateRmdWorkload(b) PROVE TypeOK'
    <2>1. /\ pc = "build" /\ b \in Built /\ cachePod \in Pod /\ request \in PodKeys
          /\ <<request, b.name>> \in WorkloadKeys
      BY <1>2 DEF CreateRmdWorkload, TypeOK, Built, WorkloadKeys
    <2>2. NewWorkload(b) \in Workload
      BY <2>1 DEF NewWorkload, Workload, Built, Pod
    <2>3. /\ workloads' \in [WorkloadKeys -> Workload \cup {None}]
          /\ lateWorkloads' \subseteq WorkloadKeys
      BY <1>2, <2>1, <2>2 DEF CreateRmdWorkload, WorkloadBecomes, TypeOK
    <2>4. spent' \in Budget
      BY <1>2, SpendUpsets DEF CreateRmdWorkload, TypeOK, Budget
    <2>5. CASE Fail
      BY <1>2, <2>1, <2>3, <2>4, <2>5, TypeRest DEF TypeOK, CreateRmdWorkload, Fail, lock, Budget
    <2>6. CASE Done(b)
      BY <1>2, <2>1, <2>3, <2>4, <2>6 DEF TypeOK, CreateRmdWorkload, Done, lock, Budget
    <2>. QED
      BY <1>2, <2>5, <2>6 DEF CreateRmdWorkload
  <1>3. ASSUME NEW b \in rmdWorkloads, UpdateRmdWorkload(b) PROVE TypeOK'
    <2>1. pc = "build" /\ spent' \in Budget
      BY <1>3, SpendUpsets DEF UpdateRmdWorkload, TypeOK, Budget
    <2>2. CASE Fail
      BY <1>3, <2>1, <2>2, TypeRest DEF TypeOK, UpdateRmdWorkload, Fail, cluster, lock, cache, Budget
    <2>3. CASE Done(b)
      BY <1>3, <2>1, <2>3 DEF TypeOK, UpdateRmdWorkload, Done, cluster, lock, cache, Budget
    <2>. QED
      BY <1>3, <2>2, <2>3 DEF UpdateRmdWorkload
  <1>4. CASE Finish
    BY <1>4, TypeRest DEF TypeOK, Finish, cluster, lock, cache
  <1>. QED
    BY <1>1, <1>2, <1>3, <1>4 DEF Worker

LEMMA TypeStep == TypeOK /\ [Next]_vars => TypeOK'
  <1>1. ASSUME TypeOK, NEW p \in PodKeys, SyncPod(p) PROVE TypeOK'
    BY <1>1 DEF TypeOK, SyncPod, cluster, lock, pass
  <1>2. ASSUME TypeOK, UNCHANGED vars PROVE TypeOK'
    BY <1>2 DEF TypeOK, vars, cluster, lock, cache, pass
  <1>. QED
    BY <1>1, <1>2, TypePodStep, TypeWorkloadStep, TypeProcess, TypeReconcile, TypeWorker DEF Next

\* Every reachable state is well typed: in particular only the leader has a pass,
\* and every RmdWorkload of the agent has the uid of a pod that was.
THEOREM TypeCorrect == Spec => []TypeOK
  BY TypeInit, TypeStep, PTL DEF Spec
(***************************************************************************)
(* Whose CPUs an RmdWorkload has.  AgentInv is inductive on top of TypeOK. *)
(***************************************************************************)
LEMMA AgentInit == Init => AgentInv
  BY AgentConstants DEF Init, AgentInv, CpusOwn, UidsGiven, CpusSettled, BuiltOwn, NoPods,
                        NoWorkloads, Uid, HasRun

\* What can happen to a pod: it gets a new uid, goes, or lives on; its CPUs change
\* only as it starts to run.
LEMMA PodChanges ==
  ASSUME TypeOK, TypeOK', NEW p \in PodKeys, PodStep(p), NEW q \in PodKeys
  PROVE  \/ pods'[q] = pods[q] /\ spent'.pods >= spent.pods
         \/ pods'[q] = None /\ spent'.pods >= spent.pods
         \/ /\ pods'[q] # None /\ pods'[q].uid = spent.pods + 1
            /\ spent'.pods = spent.pods + 1
         \/ /\ pods[q] # None /\ pods'[q] # None /\ pods'[q].uid = pods[q].uid
            /\ pods'[q].spec = pods[q].spec
            /\ pods'[q].phase # "Pending" /\ spent'.pods = spent.pods
            /\ pods[q].phase = "Pending" \/ pods'[q].cpus = pods[q].cpus
  <1>1. CASE \E s \in PodSpecs : CreatePod(p, s)
    <2>1. PICK s \in PodSpecs : CreatePod(p, s)
      BY <1>1
    <2>2. spent.pods + 1 \in Uids /\ spent'.pods = spent.pods + 1 /\ spent.pods \in Nat
      BY <2>1, SpendPods DEF CreatePod
    <2>3. pods'[q] = IF q = p
                     THEN [uid |-> spent.pods + 1, spec |-> s, phase |-> "Pending",
                           cpus |-> [c \in ContainerNames |-> {}]]
                     ELSE pods[q]
      BY <2>1 DEF CreatePod, PodBecomes, TypeOK
    <2>. QED
      BY <2>2, <2>3, NewPodType, AgentConstants
  <1>2. CASE PodRuns(p)
    <2>1. PICK cpus \in [ContainerNames -> SUBSET Cpus] :
            pods' = [pods EXCEPT ![p] = [pods[p] EXCEPT !.phase = "Running", !.cpus = cpus]]
      BY <1>2, PodRunsCpus DEF PodBecomes
    <2>2. pods[p] \in Pod /\ pods[p].phase = "Pending" /\ spent' = spent /\ spent.pods \in Nat
      BY <1>2 DEF PodRuns, TypeOK
    <2>3. CASE q = p
      <3>1. pods'[q] = [pods[p] EXCEPT !.phase = "Running", !.cpus = cpus]
        BY <2>1, <2>3 DEF TypeOK
      <3>2. /\ pods'[q].uid = pods[q].uid /\ pods'[q].spec = pods[q].spec
            /\ pods'[q].phase = "Running"
        BY <2>2, <2>3, <3>1 DEF Pod
      <3>3. pods'[q] \in Pod
        BY <2>2, <3>1 DEF Pod
      <3>. QED
        BY <1>2, <2>2, <2>3, <3>2, <3>3, AgentConstants DEF PodRuns
    <2>4. CASE q # p
      BY <2>1, <2>2, <2>4 DEF TypeOK
    <2>. QED
      BY <2>3, <2>4
  <1>3. CASE PodEnds(p)
    <2>1. [pods[p] EXCEPT !.phase = "Done"] \in Pod /\ spent' = spent /\ spent.pods \in Nat
      BY <1>3 DEF PodEnds, TypeOK, Pod
    <2>2. pods'[q] = IF q = p THEN [pods[p] EXCEPT !.phase = "Done"] ELSE pods[q]
      BY <1>3 DEF PodEnds, PodBecomes, TypeOK
    <2>3. pods[p] \in Pod
      BY <1>3 DEF PodEnds, TypeOK
    <2>. QED
      BY <2>1, <2>2, <2>3, AgentConstants DEF Pod
  <1>4. CASE DeletePod(p)
    BY <1>4 DEF DeletePod, PodBecomes, TypeOK
  <1>. QED
    BY <1>1, <1>2, <1>3, <1>4 DEF PodStep

\* A uid that was given stays with a pod that has run.
LEMMA HasRunStays ==
  ASSUME TypeOK, TypeOK', NEW p \in PodKeys, PodStep(p), NEW q \in PodKeys,
         NEW uid \in Uids \cup {None}, uid # None => uid <= spent.pods, HasRun(q, uid)
  PROVE  /\ HasRun(q, uid)'
         /\ pods'[q] # None /\ pods'[q].uid = uid
              => /\ pods[q] # None /\ pods[q].uid = uid
                 /\ pods'[q].cpus = pods[q].cpus /\ pods'[q].spec = pods[q].spec
  <1>1. spent.pods \in Nat
    BY DEF TypeOK
  <1>2. pods'[q] # None => pods'[q].uid \in Uids /\ pods'[q].uid # None
    BY AgentConstants DEF TypeOK, Pod
  <1>3. uid # None => uid \in Nat
    BY DEF Uids
  <1>. QED
    BY <1>1, <1>2, <1>3, PodChanges DEF HasRun

LEMMA AgentPodStep ==
  ASSUME TypeOK, TypeOK', AgentInv, NEW p \in PodKeys, PodStep(p)
  PROVE  AgentInv'
  <1>1. /\ UNCHANGED <<workloads, seenPods, request, cachePod, rmdWorkloads, misread>>
    BY DEF PodStep, CreatePod, PodRuns, PodEnds, DeletePod, PodBecomes, pass
  <1>2. UidsGiven'
    <2>1. spent.pods \in Nat /\ spent'.pods \in Nat
      BY DEF TypeOK
    <2>2. \A q \in PodKeys : Uid(pods[q]) \in Nat /\ Uid(seenPods[q]) \in Nat
      BY DEF TypeOK, Pod, Uids, Uid
    <2>3. Uid(cachePod) \in Nat
      BY DEF TypeOK, Pod, Uids, Uid
    <2>4. \A w \in WorkloadKeys : workloads[w] # None /\ workloads[w].owner # None => workloads[w].owner \in Nat
      BY DEF TypeOK, Workload, Uids
    <2>5. \A q \in PodKeys : Uid(pods[q])' <= spent'.pods
      BY <2>1, <2>2, PodChanges DEF AgentInv, UidsGiven, Uid
    <2>6. spent.pods <= spent'.pods
      BY <2>1, PodChanges
    <2>. QED
      BY <1>1, <2>1, <2>2, <2>3, <2>4, <2>5, <2>6 DEF AgentInv, UidsGiven, Uid
  <1>3. \A q \in PodKeys : seenPods[q] # None =>
          seenPods[q].uid \in Uids /\ seenPods[q].uid <= spent.pods
    BY DEF TypeOK, Pod, AgentInv, UidsGiven, Uid
  <1>4. request # None =>
          request \in PodKeys /\ cachePod.uid \in Uids /\ cachePod.uid <= spent.pods
    BY AgentConstants DEF TypeOK, Pod, AgentInv, UidsGiven, Uid
  <1>5. \A w \in WorkloadKeys : workloads[w] # None =>
          /\ w[1] \in PodKeys /\ workloads[w].owner \in Uids \cup {None}
          /\ workloads[w].owner # None => workloads[w].owner <= spent.pods
    BY DEF TypeOK, Workload, AgentInv, UidsGiven, WorkloadKeys
  <1>6. CpusSettled'
    BY <1>1, <1>3, <1>4, <1>5, HasRunStays DEF AgentInv, CpusSettled
  <1>7. BuiltOwn'
    BY <1>1, <1>4, HasRunStays DEF AgentInv, CpusSettled, BuiltOwn
  <1>8. CpusOwn'
    BY <1>1, <1>5, HasRunStays DEF AgentInv, CpusSettled, CpusOwn
  <1>. QED
    BY <1>2, <1>6, <1>7, <1>8 DEF AgentInv
\* The steps that start, build and create nothing.
LEMMA AgentAside ==
  ASSUME TypeOK, AgentInv, pods' = pods, spent'.pods = spent.pods, misread \subseteq misread',
         \A q \in PodKeys : seenPods'[q] \in {seenPods[q], pods[q], None},
         \/ request' = None /\ cachePod' = None
         \/ request' = request /\ cachePod' = cachePod /\ rmdWorkloads' \subseteq rmdWorkloads,
         \A w \in WorkloadKeys :
           \/ workloads'[w] \in {workloads[w], None}
           \/ /\ workloads[w] # None /\ workloads'[w].owner = workloads[w].owner
              /\ workloads'[w].edited
  PROVE  AgentInv'
  <1>1. UidsGiven'
    <2>1. Uid(None) = 0 /\ spent.pods \in Nat
      BY DEF Uid, TypeOK
    <2>2. \A q \in PodKeys : Uid(pods[q])' <= spent'.pods /\ Uid(seenPods[q])' <= spent'.pods
      BY <2>1 DEF AgentInv, UidsGiven, Uid
    <2>3. Uid(cachePod)' <= spent'.pods
      BY <2>1 DEF AgentInv, UidsGiven, Uid
    <2>4. \A w \in WorkloadKeys :
            workloads'[w] # None /\ workloads'[w].owner # None => workloads'[w].owner <= spent'.pods
      BY DEF AgentInv, UidsGiven
    <2>. QED
      BY <2>2, <2>3, <2>4 DEF UidsGiven
  <1>2. CpusSettled'
    BY DEF AgentInv, CpusSettled, HasRun
  <1>3. BuiltOwn'
    BY DEF AgentInv, BuiltOwn
  <1>4. CpusOwn'
    BY DEF AgentInv, CpusOwn
  <1>. QED
    BY <1>1, <1>2, <1>3, <1>4 DEF AgentInv

LEMMA AgentWorkloadStep ==
  ASSUME TypeOK, AgentInv, NEW w \in WorkloadKeys, WorkloadStep(w)
  PROVE  AgentInv'
  <1>1. /\ pods' = pods /\ seenPods' = seenPods /\ misread' = misread
        /\ request' = request /\ cachePod' = cachePod /\ rmdWorkloads' = rmdWorkloads
    BY DEF WorkloadStep, EditWorkload, DeleteWorkload, Collect, SyncWorkload, Elsewhere, cluster, pass
  <1>2. spent'.pods = spent.pods
    BY SpendUpsets DEF WorkloadStep, EditWorkload, DeleteWorkload, Collect, SyncWorkload
  <1>3. \A v \in WorkloadKeys :
          \/ workloads'[v] \in {workloads[v], None}
          \/ /\ workloads[v] # None /\ workloads'[v].owner = workloads[v].owner
             /\ workloads'[v].edited
    <2>1. CASE EditWorkload(w)
      <3>1. workloads[w] \in Workload
        BY <2>1 DEF EditWorkload, TypeOK
      <3>2. /\ [workloads[w] EXCEPT !.edited = TRUE].owner = workloads[w].owner
            /\ [workloads[w] EXCEPT !.edited = TRUE].edited
        BY <3>1 DEF Workload
      <3>. QED
        BY <2>1, <3>2 DEF EditWorkload, WorkloadBecomes, TypeOK
    <2>2. CASE DeleteWorkload(w) \/ Collect(w) \/ SyncWorkload(w)
      BY <2>2 DEF DeleteWorkload, Collect, SyncWorkload, WorkloadBecomes, TypeOK, cluster
    <2>. QED
      BY <2>1, <2>2 DEF WorkloadStep
  <1>. QED
    BY <1>1, <1>2, <1>3, AgentAside

LEMMA AgentProcess ==
  ASSUME TypeOK, AgentInv,
         \/ AgentRestarts
         \/ \E n \in Nodes : BecomeLeader(n) \/ AgentStops(n) \/ AgentStarts(n)
         \/ \E p \in PodKeys : SyncPod(p)
         \/ UNCHANGED vars
  PROVE  AgentInv'
  <1>1. /\ pods' = pods /\ workloads' = workloads /\ misread' = misread
        /\ \/ request' = None /\ cachePod' = None
           \/ request' = request /\ cachePod' = cachePod /\ rmdWorkloads' = rmdWorkloads
    BY DEF AgentRestarts, BecomeLeader, AgentStops, AgentStarts, SyncPod, StartManager, Rest,
           cluster, pass, vars
  <1>2. spent'.pods = spent.pods
    BY SpendUpsets DEF AgentRestarts, BecomeLeader, AgentStops, AgentStarts, SyncPod, vars
  <1>3. \A q \in PodKeys : seenPods'[q] \in {seenPods[q], pods[q], None}
    BY DEF AgentRestarts, BecomeLeader, AgentStops, AgentStarts, SyncPod, StartManager, cache,
           NoPods, vars, TypeOK
  <1>. QED
    BY <1>1, <1>2, <1>3, AgentAside

\* A pass begins with a pod that the cache shows running.
LEMMA AgentReconcile ==
  ASSUME TypeOK, TypeOK', AgentInv, NEW p \in PodKeys, Reconcile(p)
  PROVE  AgentInv'
  <1>1. UNCHANGED <<pods, workloads, seenPods, misread, spent>>
    BY DEF Reconcile, cluster, cache
  <1>2. CASE UNCHANGED pass
    BY <1>1, <1>2, AgentAside DEF pass
  <1>3. CASE seenPods[p] # None /\ seenPods[p].phase = "Running" /\ pc = "idle" /\ Starts(p)
    <2>1. /\ request' = p /\ cachePod' = seenPods[p] /\ rmdWorkloads' = {}
      BY <1>3 DEF Starts, TypeOK
    <2>2. UidsGiven'
      BY <1>1, <2>1 DEF AgentInv, UidsGiven, Uid
    <2>3. CpusSettled'
      BY <1>1, <1>3, <2>1 DEF AgentInv, CpusSettled, HasRun
    <2>4. BuiltOwn' /\ CpusOwn'
      BY <1>1, <2>1 DEF AgentInv, BuiltOwn, CpusOwn
    <2>. QED
      BY <2>2, <2>3, <2>4 DEF AgentInv
  <1>. QED
    BY <1>2, <1>3 DEF Reconcile

\* What the kubelet says at the time is built in, for the pod of that name.
LEMMA AgentBuilds ==
  ASSUME TypeOK, TypeOK', AgentInv, NEW c \in todo, GetContainerInfo(c)
  PROVE  AgentInv'
  <1>1. /\ UNCHANGED <<pods, workloads, seenPods>> /\ misread \subseteq misread'
        /\ spent'.pods = spent.pods /\ pc = "build" /\ request \in PodKeys
    BY SpendUpsets DEF GetContainerInfo, cluster, cache, TypeOK
  <1>2. CASE Fail
    BY <1>1, <1>2, AgentAside DEF Fail, Rest
  <1>3. ASSUME NEW coreIds, NEW max, Builds(c, coreIds, max),
               \/ coreIds \in {{}, pods[request].cpus[c.name]}
               \/ cachePod.uid \in misread'
        PROVE  AgentInv'
    <2>1. /\ request' = request /\ cachePod' = cachePod
          /\ \A b \in rmdWorkloads' : b \in rmdWorkloads \/ (b.name = c.name /\ b.coreIds = coreIds)
      BY <1>3 DEF Builds
    <2>2. UidsGiven' /\ CpusSettled' /\ CpusOwn'
      BY <1>1, <2>1 DEF AgentInv, UidsGiven, Uid, CpusSettled, HasRun, CpusOwn
    <2>3. BuiltOwn'
      BY <1>1, <1>3, <2>1 DEF AgentInv, BuiltOwn
    <2>. QED
      BY <2>2, <2>3 DEF AgentInv
  <1>4. CASE Builds(c, {}, 0)
    BY <1>3, <1>4
  <1>5. ASSUME NEW q \in Namesakes(request, c.name), Builds(c, CpusOf(q, c.name), c.cache),
               misread' = IF q = request THEN misread ELSE misread \cup {cachePod.uid}
        PROVE  AgentInv'
    <2>1. CASE q = request
      <3>1. CpusOf(q, c.name) \in {{}, pods[request].cpus[c.name]}
        BY <2>1 DEF CpusOf
      <3>. QED
        BY <1>3, <1>5, <3>1
    <2>2. CASE q # request
      BY <1>3, <1>5, <2>2
    <2>. QED
      BY <2>1, <2>2
  <1>. QED
    BY <1>2, <1>4, <1>5 DEF GetContainerInfo

\* The RmdWorkload of a pod is created over what was built for that pod.
LEMMA AgentCreates ==
  ASSUME TypeOK, TypeOK', AgentInv, NEW b \in rmdWorkloads, CreateRmdWorkload(b)
  PROVE  AgentInv'
  <1> DEFINE w == <<request, b.name>>
  <1>1. /\ UNCHANGED <<pods, seenPods, misread>> /\ spent'.pods = spent.pods
        /\ pc = "build" /\ request \in PodKeys /\ cachePod \in Pod
    BY SpendUpsets DEF CreateRmdWorkload, TypeOK
  <1>2. \/ request' = None /\ cachePod' = None
        \/ request' = request /\ cachePod' = cachePod /\ rmdWorkloads' \subseteq rmdWorkloads
    BY DEF CreateRmdWorkload, Fail, Rest, Done
  <1>3. CASE UNCHANGED workloads
    BY <1>1, <1>2, <1>3, AgentAside
  <1>4. CASE workloads' = [workloads EXCEPT ![w] = NewWorkload(b)]
    <2>1. \A v \in WorkloadKeys :
            workloads'[v] = workloads[v]
            \/ (v[1] = request /\ v[2] = b.name /\ workloads'[v] = NewWorkload(b))
      BY <1>4 DEF TypeOK
    <2>2. NewWorkload(b).owner = cachePod.uid /\ NewWorkload(b).coreIds = b.coreIds
      BY DEF NewWorkload
    <2>3. cachePod.uid <= spent.pods /\ HasRun(request, cachePod.uid)
      BY <1>1, AgentConstants DEF AgentInv, UidsGiven, CpusSettled, Uid
    <2>4. UidsGiven'
      <3>1. Uid(None) = 0 /\ spent.pods \in Nat
        BY DEF Uid, TypeOK
      <3>2. Uid(cachePod)' <= spent'.pods
        BY <1>1, <1>2, <3>1 DEF AgentInv, UidsGiven, Uid
      <3>3. \A v \in WorkloadKeys :
              workloads'[v] # None /\ workloads'[v].owner # None => workloads'[v].owner <= spent'.pods
        BY <1>1, <2>1, <2>2, <2>3 DEF AgentInv, UidsGiven
      <3>. QED
        BY <1>1, <3>2, <3>3 DEF AgentInv, UidsGiven, Uid
    <2>5. CpusSettled'
      BY <1>1, <1>2, <2>1, <2>2, <2>3 DEF AgentInv, CpusSettled, HasRun
    <2>6. BuiltOwn'
      BY <1>1, <1>2 DEF AgentInv, BuiltOwn
    <2>7. CpusOwn'
      <3>1. pods[request] # None /\ pods[request].uid = cachePod.uid /\ pods[request].uid \notin misread
              => b.coreIds \in {{}, pods[request].cpus[b.name]}
        BY <1>1, AgentConstants DEF AgentInv, BuiltOwn
      <3>. QED
        BY <1>1, <2>1, <2>2, <3>1 DEF AgentInv, CpusOwn
    <2>. QED
      BY <2>4, <2>5, <2>6, <2>7 DEF AgentInv
  <1>. QED
    BY <1>3, <1>4 DEF CreateRmdWorkload, WorkloadBecomes

LEMMA AgentStep == TypeOK /\ TypeOK' /\ AgentInv /\ [Next]_vars => AgentInv'
  <1>. SUFFICES ASSUME TypeOK, TypeOK', AgentInv, [Next]_vars PROVE AgentInv'
    OBVIOUS
  <1>1. ASSUME NEW b \in rmdWorkloads, UpdateRmdWorkload(b) PROVE AgentInv'
    <2>1. UNCHANGED <<pods, workloads, seenPods, misread>> /\ spent'.pods = spent.pods
      BY <1>1, SpendUpsets DEF UpdateRmdWorkload, cluster, cache
    <2>2. \/ request' = None /\ cachePod' = None
          \/ request' = request /\ cachePod' = cachePod /\ rmdWorkloads' \subseteq rmdWorkloads
      BY <1>1 DEF UpdateRmdWorkload, Fail, Rest, Done
    <2>. QED
      BY <2>1, <2>2, AgentAside
  <1>2. CASE Finish
    BY <1>2, AgentAside DEF Finish, Rest, cluster, cache
  <1>3. CASE Worker
    BY <1>1, <1>2, <1>3, AgentBuilds, AgentCreates DEF Worker
  <1>. QED
    BY <1>3, AgentPodStep, AgentWorkloadStep, AgentProcess, AgentReconcile DEF Next

\* The inductive invariant: uids are given once, CPUs are settled before anything
\* is built for a pod, and what is built has the CPUs of the pod it is for.
THEOREM AgentCorrect == Spec => []AgentInv
  <1>1. TypeOK /\ TypeOK' /\ AgentInv /\ [Next]_vars => AgentInv'
    BY AgentStep
  <1>. QED
    BY <1>1, AgentInit, TypeCorrect, PTL DEF Spec

\* An RmdWorkload of the agent has the CPUs of its own container of its own pod,
\* or none, however pods of one name follow each other, however late the cache is
\* and wherever the leader stops; as long as no namesake is asked about.
THEOREM WorkloadCpusAreOwn == Spec => []CpusOwn
  <1>1. AgentInv => CpusOwn
    BY DEF AgentInv
  <1>. QED
    BY <1>1, AgentCorrect, PTL
\* An RmdWorkload that exists is never written over by the agent: what users have
\* changed in it stays until it is deleted, whatever the cache still shows.
THEOREM UserEditsAreKept == Spec => UserEditsKept
  <1> DEFINE Keeps == \A w \in WorkloadKeys :
                        workloads[w] # None /\ workloads[w].edited /\ workloads'[w] # None
                          => workloads'[w].edited
  <1>1. TypeOK /\ [Next]_vars => Keeps
    <2>. SUFFICES ASSUME TypeOK, [Next]_vars PROVE Keeps
      OBVIOUS
    <2>1. ASSUME NEW b \in rmdWorkloads, CreateRmdWorkload(b) PROVE Keeps
      BY <2>1 DEF CreateRmdWorkload, WorkloadBecomes, TypeOK
    <2>2. ASSUME NEW w \in WorkloadKeys, EditWorkload(w) PROVE Keeps
      <3>1. [workloads[w] EXCEPT !.edited = TRUE].edited
        BY <2>2 DEF EditWorkload, TypeOK, Workload
      <3>. QED
        BY <2>2, <3>1 DEF EditWorkload, WorkloadBecomes, TypeOK
    <2>3. ASSUME NEW w \in WorkloadKeys, DeleteWorkload(w) \/ Collect(w) PROVE Keeps
      BY <2>3 DEF DeleteWorkload, Collect, WorkloadBecomes, TypeOK
    <2>4. CASE UNCHANGED workloads
      BY <2>4
    <2>5. CASE Worker
      BY <2>1, <2>4, <2>5 DEF Worker, GetContainerInfo, UpdateRmdWorkload, Finish, cluster
    <2>6. ASSUME NEW w \in WorkloadKeys, WorkloadStep(w) PROVE Keeps
      BY <2>2, <2>3, <2>4, <2>6 DEF WorkloadStep, SyncWorkload, cluster
    <2>7. ASSUME NEW p \in PodKeys, Reconcile(p) \/ SyncPod(p) \/ PodStep(p) PROVE Keeps
      BY <2>4, <2>7 DEF Reconcile, SyncPod, PodStep, CreatePod, PodRuns, PodEnds, DeletePod,
                        PodBecomes, cluster
    <2>8. CASE \/ AgentRestarts \/ UNCHANGED vars
               \/ \E n \in Nodes : BecomeLeader(n) \/ AgentStops(n) \/ AgentStarts(n)
      BY <2>4, <2>8 DEF AgentRestarts, BecomeLeader, AgentStops, AgentStarts, vars, cluster
    <2>. QED
      BY <2>5, <2>6, <2>7, <2>8 DEF Next
  <1>. QED
    BY <1>1, TypeCorrect, PTL DEF Spec, UserEditsKept

(***************************************************************************)
(* No container is forgotten.  WorkInv is inductive on top of TypeOK; one  *)
(* lemma for each of its parts.                                            *)
(***************************************************************************)
LEMMA WorkInit == Init => WorkInv
  BY AgentInit, AgentConstants
  DEF Init, WorkInv, NoWorkLost, CacheMirrors, UidsApart, SpecsKept, TodoOwn, BuiltRight,
      WorkloadsRight, Knows, NoPods, NoWorkloads, WorkloadKeys

\* What changes in the cluster goes to the leader's watches; what they deliver is
\* what the API server has at that moment.
LEMMA MirrorStep ==
  ASSUME TypeOK, CacheMirrors, [Next]_vars
  PROVE  CacheMirrors'
  <1>1. CASE UNCHANGED <<cluster, lock, cache>>
    BY <1>1 DEF CacheMirrors, cluster, lock, cache
  <1>2. ASSUME NEW p \in PodKeys, NEW pod, PodBecomes(p, pod) PROVE CacheMirrors'
    BY <1>2 DEF CacheMirrors, PodBecomes, lock, TypeOK
  <1>3. ASSUME NEW w \in WorkloadKeys, NEW workload, WorkloadBecomes(w, workload),
               UNCHANGED <<pods, leader, seenPods, seenWorkloads, latePods>>
        PROVE  CacheMirrors'
    BY <1>3 DEF CacheMirrors, WorkloadBecomes, TypeOK
  <1>4. CASE StartManager /\ UNCHANGED cluster
    BY <1>4 DEF CacheMirrors, StartManager, cluster
  <1>5. ASSUME NEW n \in Nodes, BecomeLeader(n) \/ AgentStops(n) \/ AgentStarts(n)
        PROVE  CacheMirrors'
    BY <1>4, <1>5 DEF CacheMirrors, BecomeLeader, AgentStops, AgentStarts, cluster, cache
  <1>6. ASSUME NEW p \in PodKeys, SyncPod(p) PROVE CacheMirrors'
    BY <1>6 DEF CacheMirrors, SyncPod, cluster, lock, TypeOK
  <1>7. ASSUME NEW w \in WorkloadKeys, SyncWorkload(w) PROVE CacheMirrors'
    BY <1>7 DEF CacheMirrors, SyncWorkload, cluster, lock, TypeOK
  <1>8. ASSUME NEW p \in PodKeys, PodStep(p) PROVE CacheMirrors'
    BY <1>2, <1>8 DEF PodStep, CreatePod, PodRuns, PodEnds, DeletePod
  <1>9. ASSUME NEW w \in WorkloadKeys, WorkloadStep(w) PROVE CacheMirrors'
    BY <1>3, <1>7, <1>9 DEF WorkloadStep, EditWorkload, DeleteWorkload, Collect, Elsewhere, lock
  <1>10. ASSUME NEW b \in rmdWorkloads, CreateRmdWorkload(b) PROVE CacheMirrors'
    <2>1. <<request, b.name>> \in WorkloadKeys
      BY <1>10 DEF CreateRmdWorkload, TypeOK, Built, WorkloadKeys
    <2>2. UNCHANGED <<pods, leader, seenPods, seenWorkloads, latePods>>
      BY <1>10 DEF CreateRmdWorkload, lock
    <2>3. CASE UNCHANGED <<workloads, lateWorkloads>>
      BY <2>2, <2>3 DEF CacheMirrors
    <2>. QED
      BY <1>3, <1>10, <2>1, <2>2, <2>3 DEF CreateRmdWorkload
  <1>11. CASE Worker
    BY <1>1, <1>10, <1>11 DEF Worker, GetContainerInfo, UpdateRmdWorkload, Finish
  <1>12. ASSUME NEW p \in PodKeys, Reconcile(p) PROVE CacheMirrors'
    BY <1>1, <1>12 DEF Reconcile
  <1>13. CASE AgentRestarts
    BY <1>4, <1>13 DEF AgentRestarts
  <1>. QED
    BY <1>1, <1>5, <1>6, <1>8, <1>9, <1>11, <1>12, <1>13 DEF Next, vars

\* The worker's list is of the containers of its own copy.
LEMMA TodoStep ==
  ASSUME TypeOK, TodoOwn, [Next]_vars
  PROVE  TodoOwn'
  <1>1. CASE request' = None
    BY <1>1 DEF TodoOwn
  <1>2. CASE request' = request /\ cachePod' = cachePod /\ todo' \subseteq todo
    BY <1>2 DEF TodoOwn
  <1>3. ASSUME NEW p \in PodKeys, Reconcile(p) PROVE TodoOwn'
    BY <1>2, <1>3 DEF Reconcile, Starts, pass, TodoOwn
  <1>4. CASE Worker
    BY <1>1, <1>2, <1>4 DEF Worker, GetContainerInfo, CreateRmdWorkload, UpdateRmdWorkload, Finish,
                            Builds, Done, Fail, Rest
  <1>5. ASSUME NEW p \in PodKeys, SyncPod(p) \/ PodStep(p) PROVE TodoOwn'
    BY <1>2, <1>5 DEF SyncPod, PodStep, CreatePod, PodRuns, PodEnds, DeletePod, PodBecomes, pass
  <1>6. ASSUME NEW w \in WorkloadKeys, WorkloadStep(w) PROVE TodoOwn'
    BY <1>2, <1>6 DEF WorkloadStep, EditWorkload, DeleteWorkload, Collect, SyncWorkload, Elsewhere, pass
  <1>7. CASE \/ AgentRestarts \/ UNCHANGED vars
             \/ \E n \in Nodes : BecomeLeader(n) \/ AgentStops(n) \/ AgentStarts(n)
    BY <1>1, <1>2, <1>7 DEF AgentRestarts, BecomeLeader, AgentStops, AgentStarts, StartManager, Rest,
                            pass, vars
  <1>. QED
    BY <1>3, <1>4, <1>5, <1>6, <1>7 DEF Next

\* All steps but those of pods and kubelets: the cache has pods as they are or as
\* it had them, the worker takes its copy from the cache, and RmdWorkloads get the
\* uid of that copy.
OfCopy(w) == w[1] = request /\ workloads'[w].owner = cachePod.uid

LEMMA OtherSteps ==
  ASSUME TypeOK, [Next]_vars, ~\E p \in PodKeys : PodStep(p)
  PROVE  /\ pods' = pods
         /\ \A p \in PodKeys : seenPods'[p] \in {seenPods[p], pods[p], None}
         /\ \/ request' = None
            \/ request' = request /\ cachePod' = cachePod
            \/ request' \in PodKeys /\ seenPods[request'] # None /\ cachePod' = seenPods[request']
         /\ \A w \in WorkloadKeys :
              \/ workloads'[w] = None
              \/ workloads[w] # None /\ workloads'[w].owner = workloads[w].owner
              \/ request # None /\ OfCopy(w)
  <1> DEFINE Pass == \/ request' = None
                     \/ request' = request /\ cachePod' = cachePod
                     \/ /\ request' \in PodKeys /\ seenPods[request'] # None
                        /\ cachePod' = seenPods[request']
             Kept == \A w \in WorkloadKeys :
                       \/ workloads'[w] = None
                       \/ workloads[w] # None /\ workloads'[w].owner = workloads[w].owner
                       \/ request # None /\ OfCopy(w)
             Goal == /\ pods' = pods /\ Pass /\ Kept
                     /\ \A p \in PodKeys : seenPods'[p] \in {seenPods[p], pods[p], None}
  <1>1. UNCHANGED workloads => Kept
    OBVIOUS
  <1>2. UNCHANGED pass => Pass
    BY DEF pass
  <1>3. Rest => Pass
    BY DEF Rest
  <1>4. ASSUME NEW w \in WorkloadKeys, WorkloadStep(w) PROVE Goal
    <2>1. UNCHANGED <<pods, seenPods, pass>>
      BY <1>4 DEF WorkloadStep, EditWorkload, DeleteWorkload, Collect, SyncWorkload, Elsewhere,
                  cluster, pass
    <2>2. CASE EditWorkload(w)
      <3>1. workloads[w] \in Workload
        BY <2>2 DEF EditWorkload, TypeOK
      <3>2. [workloads[w] EXCEPT !.edited = TRUE].owner = workloads[w].owner
        BY <3>1 DEF Workload
      <3>. QED
        BY <1>2, <2>1, <2>2, <3>2 DEF EditWorkload, WorkloadBecomes, TypeOK
    <2>3. CASE DeleteWorkload(w) \/ Collect(w) \/ SyncWorkload(w)
      BY <1>2, <2>1, <2>3 DEF DeleteWorkload, Collect, SyncWorkload, WorkloadBecomes, TypeOK, cluster
    <2>. QED
      BY <1>4, <2>2, <2>3 DEF WorkloadStep
  <1>5. ASSUME NEW p \in PodKeys, Reconcile(p) PROVE Goal
    <2>1. Pass
      BY <1>2, <1>5 DEF Reconcile, Starts
    <2>. QED
      BY <1>5, <2>1 DEF Reconcile, cluster, cache
  <1>6. ASSUME NEW p \in PodKeys, SyncPod(p) PROVE Goal
    BY <1>2, <1>6 DEF SyncPod, cluster, TypeOK
  <1>7. ASSUME NEW b \in rmdWorkloads, CreateRmdWorkload(b) PROVE Goal
    <2>1. Pass /\ UNCHANGED <<pods, seenPods>> /\ request # None
      BY <1>3, <1>7, AgentConstants DEF CreateRmdWorkload, Fail, Done, TypeOK
    <2>2. Kept
      <3>1. CASE UNCHANGED workloads
        BY <3>1
      <3>2. CASE workloads' = [workloads EXCEPT ![<<request, b.name>>] = NewWorkload(b)]
        <4>1. \A w \in WorkloadKeys : w # <<request, b.name>> => workloads'[w] = workloads[w]
          BY <3>2 DEF TypeOK
        <4>2. NewWorkload(b).owner = cachePod.uid
          BY DEF NewWorkload
        <4>3. ASSUME NEW w \in WorkloadKeys, w = <<request, b.name>>, workloads'[w] # None
              PROVE  OfCopy(w)
          BY <3>2, <4>2, <4>3 DEF TypeOK, OfCopy
        <4>. QED
          BY <2>1, <4>1, <4>3
      <3>. QED
        BY <1>7, <3>1, <3>2 DEF CreateRmdWorkload, WorkloadBecomes
    <2>. QED
      BY <2>1, <2>2
  <1>8. CASE Worker
    <2>1. ASSUME UNCHANGED <<cluster, cache>>, Rest \/ UNCHANGED <<request, cachePod>> PROVE Goal
      <3>1. Pass
        BY <1>3, <2>1
      <3>2. UNCHANGED <<pods, workloads, seenPods>>
        BY <2>1 DEF cluster, cache
      <3>. QED
        BY <1>1, <3>1, <3>2
    <2>2. ASSUME NEW c \in todo, GetContainerInfo(c) PROVE Goal
      BY <2>1, <2>2 DEF GetContainerInfo, Builds, Fail
    <2>3. ASSUME NEW b \in rmdWorkloads, UpdateRmdWorkload(b) PROVE Goal
      BY <2>1, <2>3 DEF UpdateRmdWorkload, Done, Fail
    <2>4. CASE Finish
      BY <2>1, <2>4 DEF Finish
    <2>. QED
      BY <1>7, <1>8, <2>2, <2>3, <2>4 DEF Worker
  <1>9. CASE \/ AgentRestarts \/ UNCHANGED vars
             \/ \E n \in Nodes : BecomeLeader(n) \/ AgentStops(n) \/ AgentStarts(n)
    <2>1. Pass /\ UNCHANGED cluster
      BY <1>2, <1>3, <1>9 DEF AgentRestarts, BecomeLeader, AgentStops, AgentStarts, StartManager, vars
    <2>2. \A p \in PodKeys : seenPods'[p] \in {seenPods[p], pods[p], None}
      BY <1>9 DEF AgentRestarts, BecomeLeader, AgentStops, AgentStarts, StartManager, cache, NoPods,
                  vars, TypeOK
    <2>. QED
      BY <1>1, <2>1, <2>2 DEF cluster
  <1>. QED
    BY <1>4, <1>5, <1>6, <1>8, <1>9 DEF Next

\* No key learns a uid of another: a pod that is created has one that is new.
LEMMA UidStep ==
  ASSUME TypeOK, TypeOK', UidsGiven, UidsApart, SpecsKept, [Next]_vars
  PROVE  UidsApart' /\ SpecsKept'
  <1>1. \A w : w \in WorkloadKeys <=> \E p \in PodKeys, c \in ContainerNames : w = <<p, c>>
    BY DEF WorkloadKeys
  <1>2. CASE ~\E p \in PodKeys : PodStep(p)
    <2>1. \A p \in PodKeys : \A uid : Knows(p, uid)' => Knows(p, uid)
      <3>. SUFFICES ASSUME NEW p \in PodKeys, NEW uid, Knows(p, uid)' PROVE Knows(p, uid)
        OBVIOUS
      <3>1. CASE \E pod \in {pods'[p], seenPods'[p]} : pod # None /\ pod.uid = uid
        BY <1>2, <3>1, OtherSteps DEF Knows
      <3>2. CASE request' = p /\ cachePod'.uid = uid
        BY <1>2, <3>2, OtherSteps, AgentConstants DEF Knows
      <3>3. ASSUME NEW c \in ContainerNames, workloads'[<<p, c>>] # None, workloads'[<<p, c>>].owner = uid
            PROVE  Knows(p, uid)
        <4>1. <<p, c>> \in WorkloadKeys /\ <<p, c>>[1] = p
          BY <1>1
        <4>2. CASE workloads[<<p, c>>] # None /\ workloads'[<<p, c>>].owner = workloads[<<p, c>>].owner
          BY <3>3, <4>2 DEF Knows
        <4>3. CASE OfCopy(<<p, c>>)
          BY <3>3, <4>1, <4>3 DEF Knows, OfCopy
        <4>. QED
          BY <1>2, <3>3, <4>1, <4>2, <4>3, OtherSteps
      <3>. QED
        BY <3>1, <3>2, <3>3 DEF Knows
    <2>2. UidsApart'
      BY <2>1 DEF UidsApart
    <2>3. SpecsKept'
      <3>1. pods' = pods
        BY <1>2, OtherSteps
      <3>2. \A p \in PodKeys : seenPods'[p] \in {seenPods[p], pods[p], None}
        BY <1>2, OtherSteps
      <3>3. \A p \in PodKeys : request' = p =>
              \/ request = p /\ cachePod' = cachePod
              \/ seenPods[p] # None /\ cachePod' = seenPods[p]
        BY <1>2, OtherSteps, AgentConstants
      <3>. QED
        BY <3>1, <3>2, <3>3 DEF SpecsKept
    <2>. QED
      BY <2>2, <2>3
  <1>3. ASSUME NEW p \in PodKeys, PodStep(p) PROVE UidsApart' /\ SpecsKept'
    <2>1. UNCHANGED <<workloads, seenPods, request, cachePod>>
      BY <1>3 DEF PodStep, CreatePod, PodRuns, PodEnds, DeletePod, PodBecomes, pass
    <2>2. spent.pods \in Nat /\ \A uid \in Uids : uid \in Nat
      BY DEF TypeOK, Uids
    <2>3. \A q \in PodKeys : \A uid \in Uids : Knows(q, uid) => uid <= spent.pods
      <3>1. \A o \in Pod : Uid(o) = o.uid
        BY AgentConstants DEF Uid
      <3>2. \A q \in PodKeys : request = q => cachePod \in Pod
        BY AgentConstants DEF TypeOK
      <3>3. None \notin Uids
        BY AgentConstants
      <3>. SUFFICES ASSUME NEW q \in PodKeys, NEW uid \in Uids, Knows(q, uid)
                   PROVE  uid <= spent.pods
        OBVIOUS
      <3>4. CASE \E pod \in {pods[q], seenPods[q]} : pod # None /\ pod.uid = uid
        BY <3>1, <3>4 DEF UidsGiven, TypeOK
      <3>5. CASE request = q /\ cachePod.uid = uid
        BY <3>1, <3>2, <3>5 DEF UidsGiven
      <3>6. CASE \E c \in ContainerNames : workloads[<<q, c>>] # None /\ workloads[<<q, c>>].owner = uid
        BY <1>1, <3>3, <3>6 DEF UidsGiven
      <3>. QED
        BY <3>4, <3>5, <3>6 DEF Knows
    <2>4. \A q \in PodKeys : \A uid :
            Knows(q, uid)' =>
              Knows(q, uid) \/ (uid = spent.pods + 1 /\ uid # None /\ pods'[q] # pods[q])
      <3>1. \A q \in PodKeys : pods'[q] # None =>
              \/ pods[q] # None /\ pods'[q].uid = pods[q].uid
              \/ pods'[q].uid = spent.pods + 1 /\ pods'[q] # pods[q] /\ pods'[q].uid # None
        <4>1. \A q \in PodKeys : pods'[q] # None => pods'[q].uid # None
          BY AgentConstants DEF TypeOK, Pod
        <4>. QED
          BY <1>3, <2>2, <4>1, PodChanges
      <3>. QED
        BY <2>1, <3>1 DEF Knows
    <2>5. \A q \in PodKeys : pods'[q] # pods[q] => q = p
      BY <1>3 DEF PodStep, CreatePod, PodRuns, PodEnds, DeletePod, PodBecomes, TypeOK
    <2>6. UidsApart'
      BY <2>2, <2>3, <2>4, <2>5 DEF UidsApart
    <2>7. SpecsKept'
      <3>1. ASSUME NEW q \in PodKeys, pods'[q] # None, pods'[q].uid # spent.pods + 1
            PROVE  pods[q] # None /\ pods[q].uid = pods'[q].uid /\ pods[q].spec = pods'[q].spec
        BY <1>3, <2>2, <3>1, PodChanges
      <3>2. \A q \in PodKeys : seenPods[q] # None => seenPods[q].uid # spent.pods + 1
        BY <2>2, <2>3 DEF Knows, TypeOK, Pod
      <3>3. \A q \in PodKeys : request = q => cachePod.uid # spent.pods + 1
        BY <2>2, <2>3, AgentConstants DEF Knows, TypeOK, Pod
      <3>. QED
        BY <2>1, <3>1, <3>2, <3>3 DEF SpecsKept
    <2>. QED
      BY <2>6, <2>7
  <1>. QED
    BY <1>2, <1>3

\* What the kubelet tells of the pod itself is what its container is due; no other
\* container of the pod has that name.
LEMMA BuildsRight ==
  ASSUME TypeOK, SpecsKept, TodoOwn, NEW c \in todo, GetContainerInfo(c), ~Fail,
         pods[request] # None, pods[request].uid = cachePod.uid, cachePod.uid \notin misread',
         NEW b \in rmdWorkloads'
  PROVE  b \in rmdWorkloads \/ Right(request, b.name, b)
  <1>1. pc = "build" /\ request \in PodKeys /\ cachePod \in Pod /\ pods[request] \in Pod
    BY DEF GetContainerInfo, TypeOK
  <1>2. cachePod.spec = pods[request].spec /\ pods[request].spec \in PodSpecs
    BY <1>1 DEF SpecsKept, Pod
  <1>3. c \in Requesting(pods[request].spec)
    BY <1>1, <1>2, AgentConstants DEF TodoOwn
  <1>4. \A d \in Due(request) : d.name = c.name => d = c
    BY <1>2, <1>3, AgentConstants DEF Due, Requesting
  <1>5. ASSUME ~c.exclusive, Builds(c, {}, 0) PROVE b \in rmdWorkloads \/ Right(request, b.name, b)
    <2>1. \A d \in Due(request) : d.name # c.name
      BY <1>4, <1>5 DEF Due
    <2>. QED
      BY <1>5, <2>1 DEF Builds, Right
  <1>6. ASSUME NEW q \in Namesakes(request, c.name), CpusOf(q, c.name) # {},
               Builds(c, CpusOf(q, c.name), c.cache),
               misread' = IF q = request THEN misread ELSE misread \cup {cachePod.uid}
        PROVE  b \in rmdWorkloads \/ Right(request, b.name, b)
    <2>1. q = request
      BY <1>6
    <2>2. CpusOf(q, c.name) = pods[request].cpus[c.name]
      BY <1>6, <2>1 DEF CpusOf
    <2>. QED
      BY <1>4, <1>6, <2>2 DEF Builds, Right
  <1>. QED
    BY <1>5, <1>6 DEF GetContainerInfo

LEMMA BuiltStep ==
  ASSUME TypeOK, TypeOK', AgentInv, SpecsKept, TodoOwn, BuiltRight, [Next]_vars
  PROVE  BuiltRight'
  <1>1. CASE request' = None \/ rmdWorkloads' = {}
    BY <1>1 DEF BuiltRight
  <1>2. CASE /\ request' = request /\ cachePod' = cachePod /\ pods' = pods
             /\ misread \subseteq misread' /\ rmdWorkloads' \subseteq rmdWorkloads
    BY <1>2 DEF BuiltRight, Right, Due
  <1>3. ASSUME NEW p \in PodKeys, PodStep(p) PROVE BuiltRight'
    <2>1. UNCHANGED <<request, cachePod, rmdWorkloads, misread>>
      BY <1>3 DEF PodStep, CreatePod, PodRuns, PodEnds, DeletePod, PodBecomes, pass
    <2>. SUFFICES ASSUME request # None, pods'[request] # None, pods'[request].uid = cachePod.uid,
                         cachePod.uid \notin misread, NEW b \in rmdWorkloads
                  PROVE  Right(request, b.name, b)'
      BY <2>1 DEF BuiltRight
    <2>2. request \in PodKeys /\ cachePod.uid \in Uids /\ cachePod.uid <= spent.pods
      BY AgentConstants DEF TypeOK, Pod, AgentInv, UidsGiven, Uid
    <2>3. /\ pods[request] # None /\ pods[request].uid = cachePod.uid
          /\ pods'[request].cpus = pods[request].cpus /\ pods'[request].spec = pods[request].spec
      BY <1>3, <2>2, HasRunStays DEF AgentInv, CpusSettled
    <2>4. Right(request, b.name, b)
      BY <2>3 DEF BuiltRight
    <2>. QED
      BY <2>1, <2>3, <2>4 DEF Right, Due
  <1>4. ASSUME NEW c \in todo, GetContainerInfo(c) PROVE BuiltRight'
    <2>1. CASE Fail
      BY <1>1, <2>1 DEF Fail, Rest
    <2>2. CASE ~Fail
      <3>1. /\ pods' = pods /\ misread \subseteq misread'
            /\ request' = request /\ cachePod' = cachePod
        BY <1>4, <2>2 DEF GetContainerInfo, Builds, cluster
      <3>2. ASSUME pods[request] # None, pods[request].uid = cachePod.uid, cachePod.uid \notin misread',
                   NEW b \in rmdWorkloads'
            PROVE  Right(request, b.name, b)
        <4>1. request # None
          BY <1>4, AgentConstants DEF GetContainerInfo, TypeOK
        <4>2. b \in rmdWorkloads => Right(request, b.name, b)
          BY <3>1, <3>2, <4>1 DEF BuiltRight
        <4>. QED
          BY <1>4, <2>2, <3>2, <4>2, BuildsRight
      <3>. QED
        BY <3>1, <3>2 DEF BuiltRight, Right, Due
    <2>. QED
      BY <2>1, <2>2
  <1>5. ASSUME NEW b \in rmdWorkloads, CreateRmdWorkload(b) \/ UpdateRmdWorkload(b) PROVE BuiltRight'
    BY <1>1, <1>2, <1>5 DEF CreateRmdWorkload, UpdateRmdWorkload, Done, Fail, Rest, cluster
  <1>6. CASE Finish
    BY <1>1, <1>6 DEF Finish, Rest
  <1>7. ASSUME NEW p \in PodKeys, Reconcile(p) PROVE BuiltRight'
    BY <1>1, <1>2, <1>7 DEF Reconcile, Starts, pass, cluster, TypeOK
  <1>8. ASSUME NEW p \in PodKeys, SyncPod(p) PROVE BuiltRight'
    BY <1>2, <1>8 DEF SyncPod, pass, cluster
  <1>9. ASSUME NEW w \in WorkloadKeys, WorkloadStep(w) PROVE BuiltRight'
    BY <1>2, <1>9 DEF WorkloadStep, EditWorkload, DeleteWorkload, Collect, SyncWorkload, Elsewhere,
                      pass, cluster
  <1>10. CASE \/ AgentRestarts \/ UNCHANGED vars
              \/ \E n \in Nodes : BecomeLeader(n) \/ AgentStops(n) \/ AgentStarts(n)
    BY <1>1, <1>2, <1>10 DEF AgentRestarts, BecomeLeader, AgentStops, AgentStarts, StartManager, Rest,
                             pass, vars, cluster
  <1>. QED
    BY <1>3, <1>4, <1>5, <1>6, <1>7, <1>8, <1>9, <1>10 DEF Next, Worker

LEMMA WorkloadsStep ==
  ASSUME TypeOK, TypeOK', AgentInv, BuiltRight, WorkloadsRight, [Next]_vars
  PROVE  WorkloadsRight'
  <1>1. misread \subseteq misread'
    BY DEF Next, Worker, GetContainerInfo, CreateRmdWorkload, UpdateRmdWorkload, Finish, Reconcile,
           SyncPod, PodStep, CreatePod, PodRuns, PodEnds, DeletePod, PodBecomes, WorkloadStep,
           EditWorkload, DeleteWorkload, Collect, SyncWorkload, Elsewhere, BecomeLeader, AgentStops,
           AgentStarts, AgentRestarts, vars
  <1>2. ASSUME pods' = pods,
               \A w \in WorkloadKeys :
                 workloads'[w] = workloads[w] \/ workloads'[w] = None \/ workloads'[w].edited
        PROVE  WorkloadsRight'
    BY <1>1, <1>2 DEF WorkloadsRight, Right, Due
  <1>3. CASE UNCHANGED cluster
    BY <1>2, <1>3 DEF cluster
  <1>4. ASSUME NEW p \in PodKeys, PodStep(p) PROVE WorkloadsRight'
    <2>1. UNCHANGED workloads
      BY <1>4 DEF PodStep, CreatePod, PodRuns, PodEnds, DeletePod, PodBecomes
    <2>. SUFFICES ASSUME NEW w \in WorkloadKeys, workloads[w] # None, pods'[w[1]] # None,
                         workloads[w].owner = pods'[w[1]].uid, ~workloads[w].edited,
                         workloads[w].owner \notin misread
                  PROVE  Right(w[1], w[2], workloads[w])'
      BY <1>1, <2>1 DEF WorkloadsRight
    <2>2. /\ w[1] \in PodKeys /\ workloads[w].owner \in Uids
          /\ workloads[w].owner <= spent.pods
      <3>1. w[1] \in PodKeys
        BY DEF WorkloadKeys
      <3>2. pods'[w[1]].uid \in Uids
        BY <3>1 DEF TypeOK, Pod
      <3>. QED
        BY <3>1, <3>2, AgentConstants DEF AgentInv, UidsGiven
    <2>3. HasRun(w[1], workloads[w].owner)
      BY DEF AgentInv, CpusSettled
    <2>4. /\ pods[w[1]] # None /\ pods[w[1]].uid = workloads[w].owner
          /\ pods'[w[1]].cpus = pods[w[1]].cpus /\ pods'[w[1]].spec = pods[w[1]].spec
      BY <1>4, <2>2, <2>3, HasRunStays
    <2>5. Right(w[1], w[2], workloads[w])
      BY <2>4 DEF WorkloadsRight
    <2>. QED
      BY <2>1, <2>4, <2>5 DEF Right, Due
  <1>5. ASSUME NEW w \in WorkloadKeys, WorkloadStep(w) PROVE WorkloadsRight'
    <2>1. pods' = pods
      BY <1>5 DEF WorkloadStep, EditWorkload, DeleteWorkload, Collect, SyncWorkload, Elsewhere, cluster
    <2>2. EditWorkload(w) => [workloads[w] EXCEPT !.edited = TRUE].edited
      BY DEF EditWorkload, TypeOK, Workload
    <2>3. \A v \in WorkloadKeys :
            workloads'[v] = workloads[v] \/ workloads'[v] = None \/ workloads'[v].edited
      BY <1>5, <2>2 DEF WorkloadStep, EditWorkload, DeleteWorkload, Collect, SyncWorkload,
                        WorkloadBecomes, cluster, TypeOK
    <2>. QED
      BY <1>2, <2>1, <2>3
  <1>6. ASSUME NEW b \in rmdWorkloads, CreateRmdWorkload(b) PROVE WorkloadsRight'
    <2>1. pods' = pods /\ request # None /\ UNCHANGED misread
      BY <1>6, AgentConstants DEF CreateRmdWorkload, TypeOK
    <2>2. CASE UNCHANGED workloads
      BY <1>2, <2>1, <2>2
    <2>3. CASE workloads' = [workloads EXCEPT ![<<request, b.name>>] = NewWorkload(b)]
      <3>1. \A w \in WorkloadKeys :
              \/ workloads'[w] = workloads[w]
              \/ w[1] = request /\ w[2] = b.name /\ workloads'[w] = NewWorkload(b)
        BY <2>3 DEF TypeOK
      <3>2. /\ NewWorkload(b).owner = cachePod.uid
            /\ NewWorkload(b).coreIds = b.coreIds /\ NewWorkload(b).max = b.max
        BY DEF NewWorkload
      <3>3. pods[request] # None /\ pods[request].uid = cachePod.uid /\ cachePod.uid \notin misread
              => Right(request, b.name, NewWorkload(b))
        BY <2>1, <3>2 DEF BuiltRight, Right
      <3>. QED
        BY <2>1, <3>1, <3>2, <3>3 DEF WorkloadsRight, Right, Due
    <2>. QED
      BY <1>6, <2>2, <2>3 DEF CreateRmdWorkload, WorkloadBecomes
  <1>7. ASSUME NEW p \in PodKeys, Reconcile(p) \/ SyncPod(p) PROVE WorkloadsRight'
    BY <1>3, <1>7 DEF Reconcile, SyncPod
  <1>8. CASE \/ AgentRestarts \/ UNCHANGED vars
             \/ \E n \in Nodes : BecomeLeader(n) \/ AgentStops(n) \/ AgentStarts(n)
    BY <1>3, <1>8 DEF AgentRestarts, BecomeLeader, AgentStops, AgentStarts, vars
  <1>9. CASE Worker
    BY <1>3, <1>6, <1>9 DEF Worker, GetContainerInfo, UpdateRmdWorkload, Finish
  <1>. QED
    BY <1>4, <1>5, <1>7, <1>8, <1>9 DEF Next

(***************************************************************************)
(* The steps that serve a container, or put it before the agent again.     *)
(***************************************************************************)
Waits(p) == OnNode(p, leader) /\ pods[p].phase = "Running"

\* While a pod and what exists for its container stay as they are, the container
\* is served or before the agent if nothing is taken from the queues.
LEMMA AheadStays ==
  ASSUME NEW p \in PodKeys, NEW c, Serves(p, c) \/ Ahead(p, c),
         pods' = pods, misread \subseteq misread',
         workloads'[<<p, c.name>>] = workloads[<<p, c.name>>],
         p \in queue \cup latePods => p \in (queue \cup latePods)',
         <<p, c.name>> \in lateWorkloads => p \in queue' \/ <<p, c.name>> \in lateWorkloads',
         request = p /\ (c \in todo \/ \E b \in rmdWorkloads : b.name = c.name)
           => \/ p \in queue'
              \/ request' = p /\ (c \in todo' \/ \E b \in rmdWorkloads' : b.name = c.name)
  PROVE  Serves(p, c)' \/ Ahead(p, c)'
  <1>1. CASE Serves(p, c)
    BY <1>1 DEF Serves
  <1>2. CASE Ahead(p, c)
    BY <1>2 DEF Ahead, Orphaned
  <1>. QED
    BY <1>1, <1>2

LEMMA KeptPodStep ==
  ASSUME TypeOK, TypeOK', UidsGiven, NoWorkLost, NEW q \in PodKeys, PodStep(q)
  PROVE  NoWorkLost'
  <1>1. /\ UNCHANGED <<workloads, leader, lateWorkloads, queue, request, todo, rmdWorkloads, misread>>
        /\ latePods' = latePods \cup {q} /\ \A p \in PodKeys : p # q => pods'[p] = pods[p]
    BY DEF PodStep, CreatePod, PodRuns, PodEnds, DeletePod, PodBecomes, lock, pass, TypeOK
  <1>2. ASSUME NEW w \in WorkloadKeys, workloads[w] # None, Orphaned(w) PROVE Orphaned(w)'
    <2>1. workloads[w].owner \in Uids /\ spent.pods \in Nat /\ \A uid \in Uids : uid \in Nat
      BY <1>2 DEF Orphaned, TypeOK, Uids
    <2>2. workloads[w].owner <= spent.pods
      BY <1>2, <2>1, AgentConstants DEF UidsGiven
    <2>3. \A p \in PodKeys : pods'[p] # None =>
            (pods[p] # None /\ pods'[p].uid = pods[p].uid) \/ pods'[p].uid = spent.pods + 1
      BY PodChanges
    <2>. QED
      BY <1>1, <1>2, <2>1, <2>2, <2>3 DEF Orphaned
  <1>. SUFFICES ASSUME leader # None, NEW p \in PodKeys, Waits(p)', NEW c \in Due(p)'
                PROVE  Serves(p, c)' \/ Ahead(p, c)'
    BY <1>1 DEF NoWorkLost, Waits
  <1>3. CASE p = q
    BY <1>1, <1>3 DEF Ahead
  <1>4. CASE p # q
    <2>1. Waits(p) /\ c \in Due(p) /\ pods'[p] = pods[p] /\ pods[p] # None
      BY <1>1, <1>4 DEF Waits, OnNode, Due
    <2>2. <<p, c.name>> \in WorkloadKeys
      <3>1. pods[p].spec.containers \subseteq Container
        BY <2>1, AgentConstants DEF TypeOK, Pod, PodSpec
      <3>. QED
        BY <2>1, <3>1 DEF Due, Requesting, Container, WorkloadKeys
    <2>3. Serves(p, c) \/ Ahead(p, c)
      BY <2>1 DEF NoWorkLost, Waits
    <2>4. CASE Serves(p, c)
      BY <1>1, <2>1, <2>4 DEF Serves
    <2>5. CASE Ahead(p, c)
      BY <1>1, <1>2, <2>2, <2>5 DEF Ahead
    <2>. QED
      BY <2>3, <2>4, <2>5
  <1>. QED
    BY <1>3, <1>4

\* Every other step but those that make a leader: NoWorkLost stays if a pod that
\* is nowhere any more was served.
LEMMA KeptAside ==
  ASSUME NoWorkLost, pods' = pods, leader' = leader,
         \A p \in PodKeys : Waits(p) => \A c \in Due(p) :
           Serves(p, c) \/ Ahead(p, c) => Serves(p, c)' \/ Ahead(p, c)'
  PROVE  NoWorkLost'
  <1>1. \A p \in PodKeys : Waits(p)' <=> Waits(p)
    BY DEF Waits, OnNode
  <1>2. \A p \in PodKeys : Due(p)' = Due(p)
    BY DEF Due
  <1>. QED
    BY <1>1, <1>2 DEF NoWorkLost, Waits

LEMMA KeptWorkloadStep ==
  ASSUME TypeOK, NoWorkLost, NEW w \in WorkloadKeys, WorkloadStep(w)
  PROVE  NoWorkLost'
  <1>1. UNCHANGED <<pods, leader, latePods, request, todo, rmdWorkloads, misread>>
    BY DEF WorkloadStep, EditWorkload, DeleteWorkload, Collect, SyncWorkload, Elsewhere, cluster,
           lock, pass
  <1>2. CASE SyncWorkload(w)
    <2>1. UNCHANGED workloads /\ lateWorkloads' = lateWorkloads \ {w} /\ queue' = queue \cup {w[1]}
      BY <1>2 DEF SyncWorkload, cluster
    <2>. SUFFICES ASSUME NEW p \in PodKeys, NEW c \in Due(p), Serves(p, c) \/ Ahead(p, c)
                  PROVE  Serves(p, c)' \/ Ahead(p, c)'
      BY <1>1, KeptAside
    <2>2. <<p, c.name>> = w => w[1] = p
      OBVIOUS
    <2>. QED
      BY <1>1, <2>1, <2>2, AheadStays
  <1>3. CASE ~SyncWorkload(w)
    <2>1. \A workload : WorkloadBecomes(w, workload) =>
            /\ lateWorkloads' = lateWorkloads \cup {w}
            /\ \A v \in WorkloadKeys : v # w => workloads'[v] = workloads[v]
      <3>. SUFFICES ASSUME NEW workload, WorkloadBecomes(w, workload)
                    PROVE  /\ lateWorkloads' = lateWorkloads \cup {w}
                           /\ \A v \in WorkloadKeys : v # w => workloads'[v] = workloads[v]
        OBVIOUS
      <3>. QED
        BY DEF WorkloadBecomes, TypeOK
    <2>2. /\ lateWorkloads' = lateWorkloads \cup {w} /\ UNCHANGED queue
          /\ \A v \in WorkloadKeys : v # w => workloads'[v] = workloads[v]
      BY <1>3, <2>1 DEF WorkloadStep, EditWorkload, DeleteWorkload, Collect, Elsewhere
    <2>. SUFFICES ASSUME NEW p \in PodKeys, Waits(p), NEW c \in Due(p), Serves(p, c) \/ Ahead(p, c)
                  PROVE  Serves(p, c)' \/ Ahead(p, c)'
      BY <1>1, KeptAside
    <2>3. CASE <<p, c.name>> = w
      BY <2>2, <2>3 DEF Ahead
    <2>4. CASE <<p, c.name>> # w
      <3>1. pods[p].spec.containers \subseteq Container
        BY AgentConstants DEF TypeOK, Pod, PodSpec, Waits, OnNode
      <3>2. <<p, c.name>> \in WorkloadKeys
        BY <3>1 DEF Due, Requesting, Container, WorkloadKeys
      <3>. QED
        BY <1>1, <2>2, <2>4, <3>2, AheadStays
    <2>. QED
      BY <2>3, <2>4
  <1>. QED
    BY <1>2, <1>3

\* A pod leaves the queue when its pass begins, with all its containers ahead; or
\* when the cache shows that there is nothing to do for it, or a late pod.
LEMMA KeptReconcile ==
  ASSUME TypeOK, NoWorkLost, CacheMirrors, NEW q \in PodKeys, Reconcile(q)
  PROVE  NoWorkLost'
  <1>1. UNCHANGED <<pods, workloads, leader, latePods, lateWorkloads, misread>> /\ leader # None
    BY DEF Reconcile, cluster, lock, cache
  <1>2. request = None /\ queue \ {q} \subseteq queue'
    BY DEF Reconcile, TypeOK
  <1>. SUFFICES ASSUME NEW p \in PodKeys, Waits(p), NEW c \in Due(p), Serves(p, c) \/ Ahead(p, c)
                PROVE  Serves(p, c)' \/ Ahead(p, c)'
    BY <1>1, KeptAside
  <1>3. CASE p # q \/ p \in latePods \/ p \in queue'
    BY <1>1, <1>2, <1>3, AheadStays, AgentConstants
  <1>4. CASE p = q /\ p \notin latePods /\ p \notin queue'
    <2>1. seenPods[p] = pods[p] /\ pods[p] # None
      BY <1>1, <1>4 DEF CacheMirrors, Waits, OnNode
    <2>2. Starts(p)
      BY <1>4, <2>1 DEF Reconcile, Waits, OnNode
    <2>3. request' = p /\ c \in todo'
      BY <2>1, <2>2 DEF Starts, Due
    <2>. QED
      BY <2>3 DEF Ahead
  <1>. QED
    BY <1>3, <1>4

\* The worker has nothing left for a container once it has created its RmdWorkload,
\* of which an event is on its way, or found it as the cache shows it.
LEMMA KeptWorker ==
  ASSUME TypeOK, UidsApart, CacheMirrors, WorkloadsRight, NoWorkLost, Worker
  PROVE  NoWorkLost'
  <1>1. /\ UNCHANGED <<pods, leader, latePods>> /\ misread \subseteq misread'
        /\ pc = "build" /\ leader # None /\ request \in PodKeys
    BY DEF Worker, GetContainerInfo, CreateRmdWorkload, UpdateRmdWorkload, Finish, cluster, lock,
           cache, TypeOK
  <1>. SUFFICES ASSUME NEW p \in PodKeys, Waits(p), NEW c \in Due(p), Serves(p, c) \/ Ahead(p, c)
                PROVE  Serves(p, c)' \/ Ahead(p, c)'
    BY <1>1, KeptAside
  <1>2. <<p, c.name>> \in WorkloadKeys
    <2>1. pods[p].spec.containers \subseteq Container
      BY AgentConstants DEF TypeOK, Pod, PodSpec, Waits, OnNode
    <2>. QED
      BY <2>1 DEF Due, Requesting, Container, WorkloadKeys
  <1>3. ASSUME NEW d \in todo, GetContainerInfo(d) PROVE Serves(p, c)' \/ Ahead(p, c)'
    <2>1. UNCHANGED <<workloads, lateWorkloads>>
      BY <1>3 DEF GetContainerInfo, cluster, cache
    <2>2. CASE Fail
      BY <1>1, <2>1, <2>2, AheadStays DEF Fail
    <2>3. CASE \E coreIds, max : Builds(d, coreIds, max)
      <3>1. PICK coreIds, max : Builds(d, coreIds, max)
        BY <2>3
      <3>2. /\ UNCHANGED <<queue, request>>
            /\ c \in todo => c \in todo' \/ c = d
            /\ rmdWorkloads \subseteq rmdWorkloads'
            /\ [name |-> d.name, coreIds |-> coreIds, max |-> max] \in rmdWorkloads'
        BY <3>1 DEF Builds
      <3>3. [name |-> d.name, coreIds |-> coreIds, max |-> max].name = d.name
        OBVIOUS
      <3>4. c \in todo => c \in todo' \/ \E b \in rmdWorkloads' : b.name = c.name
        BY <3>2, <3>3
      <3>. QED
        BY <1>1, <2>1, <3>2, <3>4, AheadStays
    <2>. QED
      BY <1>3, <2>2, <2>3 DEF GetContainerInfo
  <1>4. ASSUME NEW b \in rmdWorkloads, CreateRmdWorkload(b) PROVE Serves(p, c)' \/ Ahead(p, c)'
    <2> DEFINE w == <<request, b.name>>
    <2>1. todo = {} /\ UNCHANGED misread /\ w \in WorkloadKeys
      BY <1>1, <1>4 DEF CreateRmdWorkload, TypeOK, Built, WorkloadKeys
    <2>2. lateWorkloads \subseteq lateWorkloads'
      BY <1>4 DEF CreateRmdWorkload, WorkloadBecomes
    <2>3. CASE <<p, c.name>> \in lateWorkloads'
      BY <2>3 DEF Ahead
    <2>4. CASE <<p, c.name>> \notin lateWorkloads'
      <3>1. workloads'[<<p, c.name>>] = workloads[<<p, c.name>>]
        BY <1>2, <1>4, <2>4 DEF CreateRmdWorkload, WorkloadBecomes, TypeOK
      <3>2. CASE Fail
        BY <1>1, <2>2, <3>1, <3>2, AheadStays DEF Fail
      <3>3. CASE ~Fail
        <4>1. w \in lateWorkloads' /\ Done(b)
          BY <1>4, <3>3 DEF CreateRmdWorkload, WorkloadBecomes
        <4>2. p = request => b.name # c.name
          BY <2>4, <4>1
        <4>. QED
          BY <1>1, <2>1, <2>2, <3>1, <4>1, <4>2, AheadStays DEF Done
      <3>. QED
        BY <3>2, <3>3
    <2>. QED
      BY <2>3, <2>4
  <1>5. ASSUME NEW b \in rmdWorkloads, UpdateRmdWorkload(b) PROVE Serves(p, c)' \/ Ahead(p, c)'
    <2> DEFINE w == <<request, b.name>>
    <2>1. /\ UNCHANGED <<workloads, lateWorkloads, misread>>
          /\ todo = {} /\ w \in WorkloadKeys /\ seenWorkloads[w] # None
      BY <1>1, <1>5 DEF UpdateRmdWorkload, cluster, cache, TypeOK, Built, WorkloadKeys
    <2>2. CASE Fail
      BY <1>1, <2>1, <2>2, AheadStays DEF Fail
    <2>3. CASE ~Fail
      <3>1. w \notin lateWorkloads /\ Done(b)
        BY <1>5, <2>3 DEF UpdateRmdWorkload
      <3>2. workloads[w] # None
        BY <1>1, <2>1, <3>1 DEF CacheMirrors
      <3>3. CASE p # request \/ b.name # c.name
        BY <1>1, <2>1, <3>1, <3>3, AheadStays DEF Done
      <3>4. CASE <<p, c.name>> = w /\ workloads[w].owner = pods[p].uid
        <4>1. Serves(p, c)
          BY <2>1, <3>2, <3>4 DEF WorkloadsRight, Right, Serves, Waits, OnNode
        <4>. QED
          BY <1>1, <2>1, <4>1 DEF Serves
      <3>5. CASE <<p, c.name>> = w /\ workloads[w].owner # pods[p].uid
        <4>1. Knows(p, workloads[w].owner)
          <5>1. c.name \in ContainerNames
            BY <1>2 DEF WorkloadKeys
          <5>. QED
            BY <3>2, <3>5, <5>1 DEF Knows
        <4>2. workloads[w].owner \in Uids
          <5>1. workloads[w] \in Workload
            BY <2>1, <3>2 DEF TypeOK
          <5>2. workloads[w].owner # None
            BY <4>1 DEF UidsApart
          <5>. QED
            BY <5>1, <5>2 DEF Workload
        <4>3. \A q \in PodKeys : pods[q] # None => pods[q].uid # workloads[w].owner
          BY <3>5, <4>1, <4>2 DEF UidsApart, Knows
        <4>4. workloads[<<p, c.name>>] # None /\ Orphaned(<<p, c.name>>)
          BY <3>2, <3>5, <4>2, <4>3 DEF Orphaned
        <4>5. workloads'[<<p, c.name>>] # None /\ Orphaned(<<p, c.name>>)'
          BY <1>1, <2>1, <4>4 DEF Orphaned
        <4>. QED
          BY <4>5 DEF Ahead
      <3>. QED
        BY <3>3, <3>4, <3>5
    <2>. QED
      BY <2>2, <2>3
  <1>6. CASE Finish
    BY <1>1, <1>6, AheadStays DEF Finish, cluster, cache
  <1>. QED
    BY <1>3, <1>4, <1>5, <1>6 DEF Worker

LEMMA KeptProcess ==
  ASSUME TypeOK, NoWorkLost,
         \/ AgentRestarts
         \/ \E n \in Nodes : BecomeLeader(n) \/ AgentStops(n) \/ AgentStarts(n)
         \/ \E q \in PodKeys : SyncPod(q)
         \/ UNCHANGED vars
  PROVE  NoWorkLost'
  <1>1. CASE StartManager /\ UNCHANGED pods
    BY <1>1 DEF StartManager, NoWorkLost, OnNode, Ahead
  <1>2. CASE leader' = None
    BY <1>2 DEF NoWorkLost
  <1>3. CASE UNCHANGED <<cluster, leader, cache, queue, pass, misread>>
    <2>1. UNCHANGED <<pods, workloads, leader, latePods, lateWorkloads, queue, request, todo,
                      rmdWorkloads, misread>>
      BY <1>3 DEF cluster, cache, pass
    <2>. QED
      BY <2>1, KeptAside, AheadStays
  <1>4. ASSUME NEW q \in PodKeys, SyncPod(q) PROVE NoWorkLost'
    <2>1. /\ UNCHANGED <<pods, workloads, leader, lateWorkloads, request, todo, rmdWorkloads, misread>>
          /\ latePods' = latePods \ {q} /\ queue' = queue \cup {q}
      BY <1>4 DEF SyncPod, cluster, lock, pass
    <2>. QED
      BY <2>1, KeptAside, AheadStays
  <1>5. ASSUME NEW n \in Nodes, AgentStops(n) PROVE NoWorkLost'
    BY <1>2, <1>3, <1>5 DEF AgentStops
  <1>6. CASE UNCHANGED vars
    BY <1>3, <1>6 DEF vars, lock
  <1>. QED
    BY <1>1, <1>3, <1>4, <1>5, <1>6 DEF AgentRestarts, BecomeLeader, AgentStarts, cluster

LEMMA WorkStep ==
  TypeOK /\ TypeOK' /\ WorkInv /\ [Next]_vars => WorkInv'
  <1>. SUFFICES ASSUME TypeOK, TypeOK', WorkInv, [Next]_vars PROVE WorkInv'
    OBVIOUS
  <1>1. /\ AgentInv /\ NoWorkLost /\ CacheMirrors
        /\ UidsApart /\ SpecsKept /\ TodoOwn /\ BuiltRight /\ WorkloadsRight
    BY DEF WorkInv
  <1>2. UidsGiven
    BY <1>1 DEF AgentInv
  <1>3. AgentInv'
    BY <1>1, AgentStep
  <1>4. CacheMirrors' /\ UidsApart' /\ SpecsKept' /\ TodoOwn' /\ BuiltRight' /\ WorkloadsRight'
    BY <1>1, <1>2, MirrorStep, UidStep, TodoStep, BuiltStep, WorkloadsStep
  <1>5. NoWorkLost'
    BY <1>1, <1>2, KeptPodStep, KeptWorkloadStep, KeptReconcile, KeptWorker, KeptProcess DEF Next
  <1>. QED
    BY <1>3, <1>4, <1>5 DEF WorkInv

\* The inductive invariant of the agent's work: the cache is right or late, a uid
\* has one key and one spec, and what is built or exists for a container is what
\* it is due.
THEOREM WorkCorrect == Spec => []WorkInv
  <1>1. TypeOK /\ TypeOK' /\ WorkInv /\ [Next]_vars => WorkInv'
    BY WorkStep
  <1>. QED
    BY <1>1, WorkInit, TypeCorrect, PTL DEF Spec

\* While an agent leads, no container of a running pod of its node that asks for
\* cache and has CPUs of its own is forgotten: unless its RmdWorkload is right, its
\* pod is queued or has an event on its way, or the worker has it ahead; through
\* pods that follow each other, deleted RmdWorkloads, failed requests and restarts.
THEOREM NoContainerForgotten == Spec => []NoWorkLost
  <1>1. WorkInv => NoWorkLost
    BY DEF WorkInv
  <1>. QED
    BY <1>1, WorkCorrect, PTL
=============================================================================
