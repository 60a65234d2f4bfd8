----------------------------- MODULE NodeAgent -----------------------------
(***************************************************************************)
(* The node agent (pkg/nodeagent, pkg/podresourcesclient, cmd/nodeagent):  *)
(* for each container of a running pod that asks for intel.com/            *)
(* l3_cache_ways it creates an RmdWorkload over the CPUs that the kubelet  *)
(* gave the container.  An agent runs on every node, but only the one that *)
(* holds the leader lock works.  Pods, kubelet, API server and garbage     *)
(* collector move between any two of its requests, and its cache lags.     *)
(*                                                                         *)
(* Abstractions.  A container asks for at most one CPU of its own.  What   *)
(* the annotations say is left out.  A read of the cache fails only with   *)
(* NotFound, and the agent finds its own pod there, so getNodeAgentPod     *)
(* does not fail; nor is a limit too large to be printed as a plain number *)
(* (getMaxCache).  An RmdWorkload is known by its pod and container, from  *)
(* which its name is put together.                                         *)
(***************************************************************************)
EXTENDS Naturals, FiniteSets

CONSTANTS
  Nodes,           \* the nodes that have a node agent
  PodKeys,         \* namespace/name of the pods users work with
  Names,           \* pod names
  PodName,         \* [PodKeys -> Names]: the key less its namespace
  ContainerNames,
  PodSpecs,        \* the pod specs users write
  Cpus,            \* the CPUs of a node that containers can have for themselves
  None,
  MaxPods,         \* pods that are created
  MaxUpsets        \* changes of RmdWorkloads by users, failed requests, stopped agents

\* asks: it has a limit of intel.com/l3_cache_ways, which is cache.  exclusive:
\* the pod is Guaranteed and the CPU request a whole number (exclusiveCPUs).
Container == [name : ContainerNames, asks : BOOLEAN, cache : Nat, exclusive : BOOLEAN,
              init : BOOLEAN]
PodSpec == [node : Nodes, containers : SUBSET Container]

Uids == 1..MaxPods
Pod == [uid : Uids, spec : PodSpecs, phase : {"Pending", "Running", "Done"},
        cpus : [ContainerNames -> SUBSET Cpus]]

WorkloadKeys == PodKeys \X ContainerNames
Workload == [owner : Uids \cup {None}, coreIds : SUBSET Cpus, max : Nat, edited : BOOLEAN]

\* An RmdWorkload as buildRmdWorkload returns it.
Built == [name : ContainerNames, coreIds : SUBSET Cpus, max : Nat]

ASSUME AgentConstants ==
  /\ PodSpecs \subseteq PodSpec
  /\ PodName \in [PodKeys -> Names]
  /\ \A s \in PodSpecs : \A c, d \in s.containers : c.name = d.name => c = d
  /\ None \notin Nodes \cup PodKeys \cup Pod \cup Workload \cup Uids
  /\ MaxPods \in Nat /\ MaxUpsets \in Nat

VARIABLES
  \* API server and kubelets
  pods,            \* the pods, or None
  workloads,       \* the RmdWorkloads, or None
  agents,          \* nodes whose agent runs
  leader,          \* the node whose agent holds the lock, or None
  \* the agent that leads
  seenPods,        \* its cache of the pods
  seenWorkloads,   \* its cache of the RmdWorkloads
  latePods,        \* pods with events its watch has still to deliver
  lateWorkloads,   \* the same of RmdWorkloads
  queue,           \* the work queue
  pc,              \* where its worker is
  request,         \* the key of the pod it reconciles
  cachePod,        \* Reconcile's copy of the pod
  todo,            \* containers buildRmdWorkload has still to look at
  rmdWorkloads,    \* what it has built and not yet written
  \* history
  misread,         \* uids of pods that were given the CPUs of a namesake
  spent

cluster == <<pods, workloads>>
lock == <<agents, leader>>
cache == <<seenPods, seenWorkloads, latePods, lateWorkloads>>
pass == <<pc, request, cachePod, todo, rmdWorkloads>>
vars == <<cluster, lock, cache, queue, pass, misread, spent>>

NoPods == [p \in PodKeys |-> None]
NoWorkloads == [w \in WorkloadKeys |-> None]

Init ==
  /\ pods = NoPods /\ workloads = NoWorkloads
  /\ agents = Nodes /\ leader = None
  /\ seenPods = NoPods /\ seenWorkloads = NoWorkloads
  /\ latePods = {} /\ lateWorkloads = {} /\ queue = {}
  /\ pc = "idle" /\ request = None /\ cachePod = None
  /\ todo = {} /\ rmdWorkloads = {}
  /\ misread = {}
  /\ spent = [pods |-> 0, upsets |-> 0]

Spend(what, max) == spent[what] < max /\ spent' = [spent EXCEPT ![what] = @ + 1]

(***************************************************************************)
(* Pods and kubelets.                                                      *)
(***************************************************************************)
PodBecomes(p, pod) ==
  /\ pods' = [pods EXCEPT ![p] = pod]
  /\ latePods' = latePods \cup {p}
  /\ UNCHANGED <<workloads, lock, seenPods, seenWorkloads, lateWorkloads, queue, pass, misread>>

CreatePod(p, s) ==
  /\ pods[p] = None
  /\ Spend("pods", MaxPods)
  /\ PodBecomes(p, [uid |-> spent.pods + 1, spec |-> s, phase |-> "Pending",
                    cpus |-> [c \in ContainerNames |-> {}]])

OnNode(p, n) == pods[p] # None /\ pods[p].spec.node = n

\* The CPUs that a running container of the node has for itself.
Taken(n) ==
  UNION {UNION {pods[p].cpus[c] : c \in ContainerNames} :
           p \in {p \in PodKeys : OnNode(p, n) /\ pods[p].phase = "Running"}}

Pinned(s) == {c.name : c \in {c \in s.containers : c.exclusive /\ ~c.init}}

\* The kubelet's CPU manager gives each such container a CPU, and the pod runs.
PodRuns(p) ==
  /\ pods[p] # None /\ pods[p].phase = "Pending"
  /\ \E given \in [Pinned(pods[p].spec) -> Cpus \ Taken(pods[p].spec.node)] :
       /\ \A c, d \in DOMAIN given : given[c] = given[d] => c = d
       /\ PodBecomes(p, [pods[p] EXCEPT !.phase = "Running",
                           !.cpus = [c \in ContainerNames |->
                                       IF c \in DOMAIN given THEN {given[c]} ELSE {}]])
  /\ UNCHANGED spent

\* It has run to its end: the CPUs are free again, the object stays.
PodEnds(p) ==
  /\ pods[p] # None /\ pods[p].phase = "Running"
  /\ PodBecomes(p, [pods[p] EXCEPT !.phase = "Done"])
  /\ UNCHANGED spent

DeletePod(p) ==
  /\ pods[p] # None
  /\ PodBecomes(p, None)
  /\ UNCHANGED spent

(***************************************************************************)
(* RmdWorkloads: users, and the garbage collector.                         *)
(***************************************************************************)
WorkloadBecomes(w, workload) ==
  /\ workloads' = [workloads EXCEPT ![w] = workload]
  /\ lateWorkloads' = lateWorkloads \cup {w}

Elsewhere == UNCHANGED <<pods, lock, seenPods, seenWorkloads, latePods, queue, pass, misread>>

EditWorkload(w) ==
  /\ workloads[w] # None
  /\ Spend("upsets", MaxUpsets)
  /\ WorkloadBecomes(w, [workloads[w] EXCEPT !.edited = TRUE])
  /\ Elsewhere

DeleteWorkload(w) ==
  /\ workloads[w] # None
  /\ Spend("upsets", MaxUpsets)
  /\ WorkloadBecomes(w, None)
  /\ Elsewhere

\* The pod that owns it is gone (one without an owner stays).
Orphaned(w) ==
  workloads[w].owner \in Uids \ {pods[p].uid : p \in {p \in PodKeys : pods[p] # None}}

Collect(w) ==
  /\ workloads[w] # None /\ Orphaned(w)
  /\ WorkloadBecomes(w, None)
  /\ Elsewhere /\ UNCHANGED spent

(***************************************************************************)
(* The process: leader.Become waits for the lock, which the API server     *)
(* drops with the pod that owns it.  Then the caches are filled, and every *)
(* pod they show is queued.                                                *)
(***************************************************************************)
Rest == pc' = "idle" /\ request' = None /\ cachePod' = None /\ todo' = {} /\ rmdWorkloads' = {}

StartManager ==
  /\ seenPods' = pods /\ seenWorkloads' = workloads
  /\ latePods' = {} /\ lateWorkloads' = {}
  /\ queue' = {p \in PodKeys : pods[p] # None}
  /\ Rest

BecomeLeader(n) ==
  /\ leader = None /\ n \in agents
  /\ leader' = n
  /\ StartManager
  /\ UNCHANGED <<cluster, agents, misread, spent>>

\* The container restarts; its pod still owns the lock.
AgentRestarts ==
  /\ leader # None
  /\ Spend("upsets", MaxUpsets)
  /\ StartManager
  /\ UNCHANGED <<cluster, lock, misread>>

\* The pod of an agent goes, the DaemonSet brings another one.
AgentStops(n) ==
  /\ n \in agents
  /\ Spend("upsets", MaxUpsets)
  /\ agents' = agents \ {n}
  /\ IF leader = n
     THEN /\ leader' = None /\ Rest /\ queue' = {}
          /\ seenPods' = NoPods /\ seenWorkloads' = NoWorkloads
          /\ latePods' = {} /\ lateWorkloads' = {}
     ELSE UNCHANGED <<leader, pass, queue, cache>>
  /\ UNCHANGED <<cluster, misread>>

AgentStarts(n) ==
  /\ n \notin agents
  /\ agents' = agents \cup {n}
  /\ UNCHANGED <<cluster, leader, cache, queue, pass, misread, spent>>

(***************************************************************************)
(* Watches: an event of a pod queues the pod, one of an RmdWorkload the    *)
(* pod of the name that its owner reference has, whatever the uid.         *)
(***************************************************************************)
SyncPod(p) ==
  /\ leader # None /\ p \in latePods
  /\ latePods' = latePods \ {p}
  /\ seenPods' = [seenPods EXCEPT ![p] = pods[p]]
  /\ queue' = queue \cup {p}
  /\ UNCHANGED <<cluster, lock, seenWorkloads, lateWorkloads, pass, misread, spent>>

SyncWorkloadQuietly(w) ==   \* wrong: without the watch of the RmdWorkloads
  /\ leader # None /\ w \in lateWorkloads
  /\ lateWorkloads' = lateWorkloads \ {w}
  /\ seenWorkloads' = [seenWorkloads EXCEPT ![w] = workloads[w]]
  /\ UNCHANGED <<cluster, lock, seenPods, latePods, queue, pass, misread, spent>>

SyncWorkload(w) ==
  /\ leader # None /\ w \in lateWorkloads
  /\ lateWorkloads' = lateWorkloads \ {w}
  /\ seenWorkloads' = [seenWorkloads EXCEPT ![w] = workloads[w]]
  /\ queue' = queue \cup {w[1]}
  /\ UNCHANGED <<cluster, lock, seenPods, latePods, pass, misread, spent>>

(***************************************************************************)
(* Reconcile.                                                              *)
(***************************************************************************)
Requesting(s) == {c \in s.containers : c.asks}   \* getContainersRequestingCache

FailForgets == Rest /\ UNCHANGED queue   \* wrong: the error is logged, and no more

\* Errors are retried, whatever the worker had built is lost.
Fail == Rest /\ queue' = queue \cup {request}

Starts(p) ==
  /\ pc' = "build" /\ request' = p /\ cachePod' = seenPods[p]
  /\ todo' = Requesting(seenPods[p].spec) /\ UNCHANGED rmdWorkloads

ReconcileMissing(p) ==   \* wrong: a pod that is gone is reconciled like any other
  /\ leader # None /\ pc = "idle" /\ p \in queue
  /\ queue' = queue \ {p}
  /\ pc' = "build" /\ request' = p /\ cachePod' = seenPods[p]
  /\ UNCHANGED <<todo, rmdWorkloads, cluster, lock, cache, misread, spent>>

\* A pod that is not running is an error, one of another node somebody else's.
Reconcile(p) ==
  /\ leader # None /\ pc = "idle" /\ p \in queue
  /\ LET pod == seenPods[p]
     IN \/ /\ pod # None /\ pod.phase = "Running" /\ pod.spec.node = leader
           /\ queue' = queue \ {p} /\ Starts(p)
        \/ /\ pod # None /\ pod.phase = "Running" /\ pod.spec.node # leader
           /\ queue' = queue \ {p} /\ UNCHANGED pass
        \/ pod # None /\ pod.phase # "Running" /\ UNCHANGED <<queue, pass>>
        \/ pod = None /\ queue' = queue \ {p} /\ UNCHANGED pass
  /\ UNCHANGED <<cluster, lock, cache, misread, spent>>

\* GetContainerCPUs asks the kubelet of the agent's node for a pod of that name,
\* in whatever namespace; init containers and pods that ended have no CPUs there.
Namesakes(p, c) ==
  {q \in PodKeys : OnNode(q, leader) /\ PodName[q] = PodName[p]
                   /\ \E d \in pods[q].spec.containers : d.name = c /\ ~d.init}

AnyCpus(q, c) ==   \* wrong: those of any container of the pod
  IF pods[q].phase = "Running" THEN UNION {pods[q].cpus[d] : d \in ContainerNames} ELSE {}

CpusOf(q, c) == IF pods[q].phase = "Running" THEN pods[q].cpus[c] ELSE {}

Builds(c, coreIds, max) ==
  /\ todo' = todo \ {c}
  /\ rmdWorkloads' = rmdWorkloads \cup {[name |-> c.name, coreIds |-> coreIds, max |-> max]}
  /\ UNCHANGED <<queue, pc, request, cachePod>>

\* getContainerInfo: without exclusive CPUs the RmdWorkload is built all the
\* same, with no CPUs and no cache; with them, no CPUs is an error.
GetContainerInfo(c) ==
  /\ pc = "build" /\ c \in todo
  /\ \/ ~c.exclusive /\ Builds(c, {}, 0) /\ UNCHANGED <<misread, spent>>
     \/ /\ c.exclusive
        /\ \E q \in Namesakes(request, c.name) :
             /\ CpusOf(q, c.name) # {}
             /\ Builds(c, CpusOf(q, c.name), c.cache)
             /\ misread' = IF q = request THEN misread ELSE misread \cup {cachePod.uid}
        /\ UNCHANGED spent
     \/ /\ c.exclusive
        /\ \/ \E q \in Namesakes(request, c.name) : CpusOf(q, c.name) = {}
           \/ Namesakes(request, c.name) = {}
        /\ Fail /\ UNCHANGED <<misread, spent>>
     \/ c.exclusive /\ Spend("upsets", MaxUpsets) /\ Fail /\ UNCHANGED misread
  /\ UNCHANGED <<cluster, lock, cache>>

Done(b) == rmdWorkloads' = rmdWorkloads \ {b} /\ UNCHANGED <<queue, pc, request, cachePod, todo>>

NewWorkloadUnowned(b) ==   \* wrong: without SetControllerReference
  [owner |-> None, coreIds |-> b.coreIds, max |-> b.max, edited |-> FALSE]

NewWorkload(b) == [owner |-> cachePod.uid, coreIds |-> b.coreIds, max |-> b.max, edited |-> FALSE]

\* Create: refused if the cache missed the RmdWorkload.  The request may fail,
\* before or after the API server has acted on it.
CreateRmdWorkload(b) ==
  /\ pc = "build" /\ todo = {} /\ b \in rmdWorkloads
  /\ seenWorkloads[<<request, b.name>>] = None
  /\ LET w == <<request, b.name>>
     IN \/ workloads[w] = None /\ WorkloadBecomes(w, NewWorkload(b)) /\ Done(b) /\ UNCHANGED spent
        \/ workloads[w] # None /\ Fail /\ UNCHANGED <<workloads, lateWorkloads, spent>>
        \/ workloads[w] = None /\ Spend("upsets", MaxUpsets)
           /\ WorkloadBecomes(w, NewWorkload(b)) /\ Fail
        \/ Spend("upsets", MaxUpsets) /\ Fail /\ UNCHANGED <<workloads, lateWorkloads>>
  /\ UNCHANGED <<pods, lock, seenPods, seenWorkloads, latePods, misread>>

UpdateWithBuilt(b) ==   \* wrong: writes what was built, without a version
  /\ pc = "build" /\ todo = {} /\ b \in rmdWorkloads
  /\ LET w == <<request, b.name>>
     IN /\ seenWorkloads[w] # None /\ workloads[w] # None
        /\ WorkloadBecomes(w, [workloads[w] EXCEPT !.coreIds = b.coreIds, !.max = b.max,
                                                   !.edited = FALSE])
  /\ Done(b)
  /\ UNCHANGED <<pods, lock, seenPods, seenWorkloads, latePods, misread, spent>>

\* Get has read the RmdWorkload over the one just built: Update writes it back
\* as it is, or is refused because there is a newer one or none.
UpdateRmdWorkload(b) ==
  /\ pc = "build" /\ todo = {} /\ b \in rmdWorkloads
  /\ LET w == <<request, b.name>>
     IN /\ seenWorkloads[w] # None
        /\ \/ w \notin lateWorkloads /\ Done(b) /\ UNCHANGED spent
           \/ w \in lateWorkloads /\ Fail /\ UNCHANGED spent
           \/ Spend("upsets", MaxUpsets) /\ Fail
  /\ UNCHANGED <<cluster, lock, cache, misread>>

Finish ==
  /\ pc = "build" /\ todo = {} /\ rmdWorkloads = {}
  /\ Rest
  /\ UNCHANGED <<cluster, lock, cache, queue, misread, spent>>

Worker ==
  \/ \E c \in todo : GetContainerInfo(c)
  \/ \E b \in rmdWorkloads : CreateRmdWorkload(b) \/ UpdateRmdWorkload(b)
  \/ Finish

PodStep(p) ==
  \/ PodRuns(p) \/ PodEnds(p) \/ DeletePod(p)
  \/ \E s \in PodSpecs : CreatePod(p, s)

WorkloadStep(w) == EditWorkload(w) \/ DeleteWorkload(w) \/ Collect(w) \/ SyncWorkload(w)

Next ==
  \/ Worker
  \/ \E p \in PodKeys : Reconcile(p) \/ SyncPod(p) \/ PodStep(p)
  \/ \E w \in WorkloadKeys : WorkloadStep(w)
  \/ \E n \in Nodes : BecomeLeader(n) \/ AgentStops(n) \/ AgentStarts(n)
  \/ AgentRestarts

Spec == Init /\ [][Next]_vars

(***************************************************************************)
(* An agent without the lock tries again every few seconds; the worker     *)
(* runs and its queue is fair; watches, garbage collector and DaemonSet do *)
(* their work.  Pods and users owe nothing.                                *)
(***************************************************************************)
Fairness ==
  /\ WF_vars(Worker)
  /\ \A p \in PodKeys : SF_vars(Reconcile(p)) /\ WF_vars(SyncPod(p))
  /\ \A w \in WorkloadKeys : WF_vars(Collect(w)) /\ WF_vars(SyncWorkload(w))
  /\ WF_vars(\E n \in Nodes : BecomeLeader(n))
  /\ \A n \in Nodes : WF_vars(AgentStarts(n))

FairSpec == Spec /\ Fairness

(***************************************************************************)
(* Properties.                                                             *)
(***************************************************************************)
\* Types of all variables; the worker has a pod and a node exactly while it works.
TypeOK ==
  /\ pods \in [PodKeys -> Pod \cup {None}] /\ seenPods \in [PodKeys -> Pod \cup {None}]
  /\ workloads \in [WorkloadKeys -> Workload \cup {None}]
  /\ seenWorkloads \in [WorkloadKeys -> Workload \cup {None}]
  /\ agents \subseteq Nodes /\ leader \in agents \cup {None}
  /\ latePods \subseteq PodKeys /\ lateWorkloads \subseteq WorkloadKeys
  /\ queue \subseteq PodKeys
  /\ IF pc = "build"
     THEN request \in PodKeys /\ cachePod \in Pod /\ leader # None
     ELSE pc = "idle" /\ request = None /\ cachePod = None /\ todo = {} /\ rmdWorkloads = {}
  /\ todo \subseteq Container /\ rmdWorkloads \subseteq Built
  /\ misread \subseteq Uids
  /\ spent \in [pods : 0..MaxPods, upsets : 0..MaxUpsets]

\* An RmdWorkload that the agent made for a pod has the CPUs that the kubelet
\* gave that container of that pod, although cache, kubelet and API server are
\* read one after the other and the pod may be replaced by one of its name in
\* between; unless the kubelet was asked about a namesake in another namespace.
CpusOwn ==
  \A w \in WorkloadKeys :
    LET workload == workloads[w]
        pod == pods[w[1]]
    IN workload # None /\ pod # None /\ workload.owner = pod.uid
       /\ ~workload.edited /\ pod.uid \notin misread
         => workload.coreIds \in {{}, pod.cpus[w[2]]}

\* What keeps it so: a uid is given once, in order; the CPUs of a pod are settled
\* when it runs, so before the agent builds anything for it; and what it has built
\* has the CPUs of the pod it was built for, if that still exists.
Uid(o) == IF o = None THEN 0 ELSE o.uid

UidsGiven ==
  /\ \A p \in PodKeys : Uid(pods[p]) <= spent.pods /\ Uid(seenPods[p]) <= spent.pods
  /\ Uid(cachePod) <= spent.pods
  /\ \A w \in WorkloadKeys :
       workloads[w] # None /\ workloads[w].owner # None => workloads[w].owner <= spent.pods

HasRun(p, uid) == pods[p] # None /\ pods[p].uid = uid => pods[p].phase # "Pending"

CpusSettled ==
  /\ \A p \in PodKeys :
       seenPods[p] # None /\ seenPods[p].phase = "Running" => HasRun(p, seenPods[p].uid)
  /\ request # None => HasRun(request, cachePod.uid)
  /\ \A w \in WorkloadKeys : workloads[w] # None => HasRun(w[1], workloads[w].owner)

BuiltOwn ==
  request # None =>
    LET pod == pods[request]
    IN pod # None /\ pod.uid = cachePod.uid /\ pod.uid \notin misread
         => \A b \in rmdWorkloads : b.coreIds \in {{}, pod.cpus[b.name]}

AgentInv == CpusOwn /\ UidsGiven /\ CpusSettled /\ BuiltOwn

\* What a user has changed in an RmdWorkload of the agent stays, until the
\* RmdWorkload is deleted: the agent writes back only what it has just read, and
\* is refused if that was outdated.
UserEditsKept ==
  [][\A w \in WorkloadKeys :
       workloads[w] # None /\ workloads[w].edited /\ workloads'[w] # None => workloads'[w].edited]_vars

\* Every container of a running pod that asks for cache and has CPUs of its own
\* ends up with an RmdWorkload of that pod, over those CPUs; after pods of the
\* same name, deleted RmdWorkloads, failed requests and agents that stop.  Not
\* for pods with an init container the kubelet does not list, or with a namesake.
Resolvable(p) ==
  /\ \A c \in Requesting(pods[p].spec) : c.exclusive => ~c.init
  /\ \A q \in PodKeys : q # p /\ OnNode(q, pods[p].spec.node) => PodName[q] # PodName[p]

Serves(p, c) ==
  LET workload == workloads[<<p, c.name>>]
  IN /\ workload # None /\ workload.owner = pods[p].uid
     /\ \/ workload.edited
        \/ pods[p].uid \in misread
        \/ workload.coreIds = pods[p].cpus[c.name] /\ workload.max = c.cache

Due(p) == {c \in Requesting(pods[p].spec) : c.exclusive}
Served(p) == \A c \in Due(p) : Serves(p, c)

Running(p) == pods[p] # None /\ pods[p].phase = "Running" /\ Resolvable(p)

EventuallyServed ==
  <>[](\A p \in PodKeys : Running(p) /\ pods[p].spec.node = leader => Served(p))

\* Why it does: a container that is due and not served is never forgotten.  Its
\* pod is queued or has an event on its way, the deletion of its RmdWorkload has,
\* the RmdWorkload is one of an earlier pod that is still to be collected, or the
\* worker has the container before it.
Ahead(p, c) ==
  LET w == <<p, c.name>>
  IN \/ p \in queue \cup latePods
     \/ w \in lateWorkloads
     \/ workloads[w] # None /\ Orphaned(w)
     \/ request = p /\ (c \in todo \/ \E b \in rmdWorkloads : b.name = c.name)

NoWorkLost ==
  leader # None =>
    \A p \in PodKeys : OnNode(p, leader) /\ pods[p].phase = "Running" =>
      \A c \in Due(p) : Serves(p, c) \/ Ahead(p, c)

\* What keeps it so.  The cache shows a thing as it is, or an event is on its way.
CacheMirrors ==
  leader # None =>
    /\ \A p \in PodKeys : seenPods[p] = pods[p] \/ p \in latePods
    /\ \A w \in WorkloadKeys : seenWorkloads[w] = workloads[w] \/ w \in lateWorkloads

\* A uid belongs to one key, and has one spec.
Knows(p, uid) ==
  \/ \E pod \in {pods[p], seenPods[p]} : pod # None /\ pod.uid = uid
  \/ request = p /\ cachePod.uid = uid
  \/ \E c \in ContainerNames : workloads[<<p, c>>] # None /\ workloads[<<p, c>>].owner = uid

UidsApart ==
  /\ \A p \in PodKeys : ~Knows(p, None)
  /\ \A p, q \in PodKeys : \A uid \in Uids : Knows(p, uid) /\ Knows(q, uid) => p = q

SpecsKept ==
  \A p \in PodKeys : pods[p] # None =>
    /\ seenPods[p] # None /\ seenPods[p].uid = pods[p].uid => seenPods[p].spec = pods[p].spec
    /\ request = p /\ cachePod.uid = pods[p].uid => cachePod.spec = pods[p].spec

\* What is built for a container, and what exists for it, is what it is due.
Right(p, name, o) ==
  \A c \in Due(p) : c.name = name => o.coreIds = pods[p].cpus[name] /\ o.max = c.cache

TodoOwn == request # None => todo \subseteq Requesting(cachePod.spec)

BuiltRight ==
  request # None /\ pods[request] # None
  /\ pods[request].uid = cachePod.uid /\ cachePod.uid \notin misread
    => \A b \in rmdWorkloads : Right(request, b.name, b)

WorkloadsRight ==
  \A w \in WorkloadKeys :
    workloads[w] # None /\ pods[w[1]] # None /\ workloads[w].owner = pods[w[1]].uid
    /\ ~workloads[w].edited /\ pods[w[1]].uid \notin misread
      => Right(w[1], w[2], workloads[w])

WorkInv ==
  /\ AgentInv
  /\ NoWorkLost /\ CacheMirrors
  /\ UidsApart /\ SpecsKept /\ TodoOwn /\ BuiltRight /\ WorkloadsRight

\* README.md:832: the RmdWorkloads of a pod go when the pod is deleted; those
\* created while the pod goes, from a cache that still shows it, too.
EventuallyCollected ==
  <>[](\A w \in WorkloadKeys :
         workloads[w] # None =>
           \E p \in PodKeys : pods[p] # None /\ pods[p].uid = workloads[w].owner)

\* README.md:524: it is the responsibility of the node agent to create the
\* RmdWorkloads of a pod; on whichever node it runs.
EventuallyServedEverywhere == <>[](\A p \in PodKeys : Running(p) => Served(p))
=============================================================================
