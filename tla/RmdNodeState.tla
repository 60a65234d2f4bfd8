---------------------------- MODULE RmdNodeState ----------------------------
(***************************************************************************)
(* The RmdNodeState controller (pkg/controller/rmdnodestate), which every  *)
(* five seconds copies the workloads of a node's RMD server into the       *)
(* status of the node's RmdNodeState, and the payload of a workload on its *)
(* way there and back: formatWorkload sends it to RMD,                     *)
(* UpdateNodeStatusWorkload shows it to the user (pkg/rmd/rmd.go).         *)
(*                                                                         *)
(* RMD pods have addresses of the cluster network: the address of a pod    *)
(* that stopped may be that of another node's pod, while the operator's    *)
(* cache still shows it for the first.  A pod may declare no port; a pass  *)
(* for its node ends without error and without the 5 second requeue.       *)
(*                                                                         *)
(* Abstractions.  Core lists are sets; in the status an empty one and one  *)
(* that is left out are the same.  A ratio is a number of ten-millionths;  *)
(* one that is no number is refused before a request is made.  A pod is    *)
(* found by its node's name; the search by node addresses finds the same.  *)
(* A read of the cache fails only with NotFound.                           *)
(***************************************************************************)
EXTENDS Integers, FiniteSets

CONSTANTS
  Nodes,        \* nodes with an RmdNodeState
  Ips,          \* addresses of RMD pods
  Names,        \* names of RmdWorkloads
  Specs,        \* what users ask for
  Cpus,         \* CPUs of a node
  Width,        \* 2^32: int fields are sent as uint32
  None,
  Pending,      \* the address of a pod that has none yet
  MaxChanges,   \* workloads that are configured or removed
  MaxUpsets     \* pods that stop, GETs that fail, deleted RmdNodeStates, operator restarts

CacheFields == {"max", "min"}
MbaFields == {"percentage", "mbps"}
PstateFields == {"ratio", "monitoring"}

\* The fields of an RmdWorkloadSpec that are the payload; an empty string is None.
Payload == [allCores : BOOLEAN, coreIds : SUBSET Cpus, reservedCoreIds : SUBSET Cpus,
            rdt : [CacheFields \cup MbaFields -> Int], pstate : [PstateFields -> Int \cup {None}]]

\* What RMD is sent, has and answers; None is a field left out.
Data == [coreIds : SUBSET Cpus, rdt : [CacheFields \cup MbaFields -> Nat \cup {None}],
         pstate : [PstateFields -> Int \cup {None}]]

Workload == [id : Nat, uuid : Names, data : Data]   \* a workload of RMD

Status == [Names -> [id : Nat, data : Data] \cup {None}]

Pod == [ip : Ips \cup {Pending}, port : BOOLEAN]

ASSUME MirrorConstants ==
  /\ Specs \subseteq Payload
  /\ None \notin Nodes \cup Ips \cup {Pending} /\ Pending \notin Ips
  /\ None \notin Pod /\ None \notin Int
  /\ Width \in Nat \ {0} /\ MaxChanges \in Nat /\ MaxUpsets \in Nat

VARIABLES
  \* the cluster
  pods,         \* each node's RMD pod, None without one
  db,           \* the workloads of each RMD server
  states,       \* the status of each RmdNodeState, None without an object
  \* the operator
  seenPods,     \* its cache of the pods
  seenStates,   \* its cache of the RmdNodeStates
  fresh,        \* RmdNodeStates whose cached copy is current
  queue,        \* the work queue, with those that wait for their 5 seconds
  pc, node,     \* what the worker does, and for which node
  objFresh,     \* is Reconcile's copy of the RmdNodeState current?
  address,      \* the address it asks
  answer,       \* what was there, and on which node (history)
  \* history
  sources,      \* the node from which each status was read
  reused,       \* <<n, m>>: m's pod got an address that was in use here for n's
  asked,        \* what users asked for under each name, on each server
  dropped,      \* nodes whose last pass saw a pod without a port
  spent

world == <<pods, db>>
views == <<seenPods, seenStates, fresh>>
pass == <<pc, node, objFresh, address, answer>>
history == <<sources, reused, asked, dropped>>
vars == <<world, states, views, queue, pass, history, spent>>

Nothing == [name \in Names |-> None]
Nowhere == [workloads |-> Nothing, from |-> None]

Init ==
  /\ pods = [n \in Nodes |-> None] /\ db = [n \in Nodes |-> {}]
  /\ states = [n \in Nodes |-> Nothing]
  /\ seenPods = pods /\ seenStates = states /\ fresh = Nodes
  /\ queue = Nodes
  /\ pc = "idle" /\ node = None /\ objFresh = TRUE /\ address = None /\ answer = Nowhere
  /\ sources = [n \in Nodes |-> None] /\ reused = {} /\ dropped = {}
  /\ asked = [n \in Nodes |-> [name \in Names |-> {}]]
  /\ spent = [changes |-> 0, upsets |-> 0, ids |-> 0]

Upset == spent.upsets < MaxUpsets /\ spent' = [spent EXCEPT !.upsets = @ + 1]

(***************************************************************************)
(* The payload.                                                            *)
(***************************************************************************)
CoresUnreserved(s) == IF s.allCores THEN Cpus ELSE s.coreIds   \* wrong: reserved cores, too

CoreIds(s) == IF s.allCores THEN Cpus \ s.reservedCoreIds ELSE s.coreIds

Uint32(i) == i % Width

\* Cache values always go, MBA values and the ratio unless they are 0.
formatWorkload(s) ==
  [coreIds |-> CoreIds(s),
   rdt     |-> [f \in CacheFields \cup MbaFields |->
                  IF f \in MbaFields /\ Uint32(s.rdt[f]) = 0 THEN None ELSE Uint32(s.rdt[f])],
   pstate  |-> [f \in PstateFields |->
                  IF f = "ratio" /\ s.pstate[f] = 0 THEN None ELSE s.pstate[f]]]

\* The status has the ratio with six decimals.
SixDecimals(ratio) == IF ratio = None THEN None ELSE ((ratio + 5) \div 10) * 10

\* What the status shows of a workload: what RMD answers and is not empty.
UpdateNodeStatusWorkload(w) ==
  [id |-> w.id, data |-> [w.data EXCEPT !.pstate["ratio"] = SixDecimals(@)]]

(***************************************************************************)
(* RMD servers and their pods.                                             *)
(***************************************************************************)
At(pod, ip) == pod # None /\ pod.ip = ip

IsUp(n) == \E ip \in Ips : At(pods[n], ip)

Named(n, name) == {w \in db[n] : w.uuid = name}

\* A PATCH: what it leaves out, RMD keeps or clears.
Patched(old, new, kept) ==
  [coreIds |-> IF "coreIds" \in kept /\ new.coreIds = {} THEN old.coreIds ELSE new.coreIds,
   rdt     |-> [f \in CacheFields \cup MbaFields |->
                  IF f \in kept /\ new.rdt[f] = None THEN old.rdt[f] ELSE new.rdt[f]],
   pstate  |-> [f \in PstateFields |->
                  IF f \in kept /\ new.pstate[f] = None THEN old.pstate[f] ELSE new.pstate[f]]]

MayLack == {"coreIds"} \cup MbaFields \cup PstateFields   \* what a request may leave out

\* The RmdWorkload controller POSTs or PATCHes a workload, or DELETEs it.
Configure(n, name, s) ==
  /\ IsUp(n) /\ pods[n].port
  /\ spent.changes < MaxChanges
  /\ \/ /\ Named(n, name) = {}
        /\ db' = [db EXCEPT ![n] = @ \cup
                    {[id |-> spent.ids + 1, uuid |-> name, data |-> formatWorkload(s)]}]
        /\ spent' = [spent EXCEPT !.changes = @ + 1, !.ids = @ + 1]
     \/ /\ \E w \in Named(n, name), kept \in SUBSET MayLack :
             db' = [db EXCEPT ![n] = (@ \ {w}) \cup
                      {[w EXCEPT !.data = Patched(w.data, formatWorkload(s), kept)]}]
        /\ spent' = [spent EXCEPT !.changes = @ + 1]
  /\ asked' = [asked EXCEPT ![n][name] = @ \cup {s}]
  /\ UNCHANGED <<pods, states, views, queue, pass, sources, reused, dropped>>

Remove(n, w) ==
  /\ w \in db[n]
  /\ spent.changes < MaxChanges /\ spent' = [spent EXCEPT !.changes = @ + 1]
  /\ db' = [db EXCEPT ![n] = @ \ {w}]
  /\ UNCHANGED <<pods, states, views, queue, pass, history>>

\* Whoever deployed a pod without a port may replace it, at no cost to the bound.
PodStops(n) ==
  /\ pods[n] # None
  /\ Upset \/ (~pods[n].port /\ UNCHANGED spent)
  /\ pods' = [pods EXCEPT ![n] = None] /\ db' = [db EXCEPT ![n] = {}]
  /\ UNCHANGED <<states, views, queue, pass, history>>

\* The DaemonSet's template, or another pod with the label, may declare no port.
PodScheduled(n) ==
  /\ pods[n] = None
  /\ \/ pods' = [pods EXCEPT ![n] = [ip |-> Pending, port |-> TRUE]] /\ UNCHANGED spent
     \/ pods' = [pods EXCEPT ![n] = [ip |-> Pending, port |-> FALSE]] /\ Upset
  /\ UNCHANGED <<db, states, views, queue, pass, history>>

\* The pod gets an address that no pod has now, though one may have had it.
PodRuns(n, ip) ==
  /\ At(pods[n], Pending) /\ \A m \in Nodes : ~At(pods[m], ip)
  /\ pods' = [pods EXCEPT ![n].ip = ip]
  /\ reused' = reused \cup
       {<<m, n>> : m \in {m \in Nodes \ {n} : At(seenPods[m], ip) \/ (node = m /\ address = ip)}}
  /\ UNCHANGED <<db, states, views, queue, pass, sources, asked, dropped, spent>>

(***************************************************************************)
(* RmdNodeStates, the operator's cache, its work queue.                    *)
(***************************************************************************)
\* A write makes all copies of the object outdated.
StateBecomes(n, status) ==
  /\ states' = [states EXCEPT ![n] = status]
  /\ fresh' = fresh \ {n}

DeleteState(n) ==
  /\ states[n] # None
  /\ Upset
  /\ StateBecomes(n, None)
  /\ objFresh' = (objFresh /\ node # n)
  /\ sources' = [sources EXCEPT ![n] = None]
  /\ UNCHANGED <<world, seenPods, seenStates, queue, pc, node, address, answer,
                 reused, asked, dropped>>

\* The RmdConfig controller creates what is missing.
CreateState(n) ==
  /\ states[n] = None
  /\ StateBecomes(n, Nothing)
  /\ UNCHANGED <<world, seenPods, seenStates, queue, pass, history, spent>>

SyncState(n) ==
  /\ n \notin fresh
  /\ seenStates' = [seenStates EXCEPT ![n] = states[n]]
  /\ fresh' = fresh \cup {n}
  /\ queue' = queue \cup {n} /\ dropped' = dropped \ {n}
  /\ UNCHANGED <<world, states, seenPods, pass, sources, reused, asked, spent>>

\* The watch of pods is for those an RmdNodeState owns, and it owns none.
SyncPod(n) ==
  /\ seenPods[n] # pods[n]
  /\ seenPods' = [seenPods EXCEPT ![n] = pods[n]]
  /\ UNCHANGED <<world, states, seenStates, fresh, queue, pass, history, spent>>

(***************************************************************************)
(* Reconcile.                                                              *)
(***************************************************************************)
Return == pc' = "idle" /\ node' = None /\ objFresh' = TRUE /\ address' = None /\ answer' = Nowhere

PodOfAny(n) ==   \* wrong: whichever pod the list has first
  LET listed == {m \in Nodes : seenPods[m] # None}
  IN IF listed = {} THEN None ELSE seenPods[CHOOSE m \in listed : TRUE]

PodOf(n) == seenPods[n]   \* GetPodFromNodeName

Ask(n, pod) == pc' = "get" /\ node' = n /\ objFresh' = (n \in fresh) /\ address' = pod.ip

ReconcileAny(n) ==   \* wrong: without a pod there is no address, and no error
  /\ pc = "idle" /\ n \in queue
  /\ queue' = queue \ {n}
  /\ IF PodOf(n) = None THEN pc' = "get" /\ node' = n /\ UNCHANGED <<objFresh, address>>
     ELSE Ask(n, PodOf(n))
  /\ UNCHANGED <<answer, world, states, views, history, spent>>

\* Without an object: its node leaves RmdNodeData.  Without a pod: an error.
\* Without a port: neither an error nor a requeue.
Reconcile(n) ==
  /\ pc = "idle" /\ n \in queue
  /\ \/ seenStates[n] = None /\ queue' = queue \ {n} /\ UNCHANGED <<pass, dropped>>
     \/ seenStates[n] # None /\ PodOf(n) = None /\ UNCHANGED <<queue, pass, dropped>>
     \/ /\ seenStates[n] # None /\ PodOf(n) # None /\ ~PodOf(n).port
        /\ queue' = queue \ {n} /\ dropped' = dropped \cup {n} /\ UNCHANGED pass
     \/ /\ seenStates[n] # None /\ PodOf(n) # None /\ PodOf(n).port
        /\ queue' = queue \ {n} /\ Ask(n, PodOf(n)) /\ UNCHANGED <<answer, dropped>>
  /\ UNCHANGED <<world, states, views, sources, reused, asked, spent>>

Answers(workloads, from) ==
  /\ answer' = [workloads |-> workloads, from |-> from]
  /\ pc' = "update" /\ UNCHANGED <<node, objFresh, address>>

\* GetWorkloads.  A failure is logged, and the status will show no workload.
GetWorkloads ==
  /\ pc = "get"
  /\ \/ \E m \in Nodes :
          /\ IsUp(m) /\ At(pods[m], address)
          /\ Answers([name \in Names |->
                        IF Named(m, name) = {} THEN None
                        ELSE UpdateNodeStatusWorkload(CHOOSE w \in Named(m, name) : TRUE)], m)
          /\ UNCHANGED spent
     \/ /\ ~(\E m \in Nodes : IsUp(m) /\ At(pods[m], address))
        /\ Answers(Nothing, None) /\ UNCHANGED spent
     \/ Upset /\ Answers(Nothing, None)
  /\ UNCHANGED <<world, states, views, queue, history>>

\* An answer whose plugins are no map of maps: the pass fails.
FailWorkloads ==
  /\ pc = "get"
  /\ \E m \in Nodes : IsUp(m) /\ At(pods[m], address) /\ db[m] # {}
  /\ Upset
  /\ queue' = queue \cup {node}
  /\ Return
  /\ UNCHANGED <<world, states, views, history>>

UpdateStatusOnce ==   \* wrong: without RequeueAfter, the write's own event is to bring it back
  /\ pc = "update"
  /\ IF objFresh
     THEN /\ IF answer.workloads = states[node] THEN UNCHANGED <<states, fresh>>
             ELSE StateBecomes(node, answer.workloads)
          /\ sources' = [sources EXCEPT ![node] = answer.from] /\ UNCHANGED queue
     ELSE queue' = queue \cup {node} /\ UNCHANGED <<states, fresh, sources>>
  /\ Return
  /\ UNCHANGED <<world, seenPods, seenStates, reused, asked, dropped, spent>>

\* Refused when the object is gone or newer; a no-op writes nothing.
UpdateStatus ==
  /\ pc = "update"
  /\ \/ /\ objFresh
        /\ IF answer.workloads = states[node] THEN UNCHANGED <<states, fresh>>
           ELSE StateBecomes(node, answer.workloads)
        /\ sources' = [sources EXCEPT ![node] = answer.from]
     \/ ~objFresh /\ UNCHANGED <<states, fresh, sources>>
  /\ queue' = queue \cup {node}
  /\ Return
  /\ UNCHANGED <<world, seenPods, seenStates, reused, asked, dropped, spent>>

OperatorRestarts ==
  /\ Upset
  /\ seenPods' = pods /\ seenStates' = states /\ fresh' = Nodes
  /\ queue' = {n \in Nodes : states[n] # None} /\ dropped' = {}
  /\ Return
  /\ UNCHANGED <<world, states, sources, reused, asked>>

Worker == GetWorkloads \/ FailWorkloads \/ UpdateStatus

NodeStep(n) ==
  \/ Reconcile(n) \/ SyncState(n) \/ SyncPod(n)
  \/ DeleteState(n) \/ CreateState(n)
  \/ PodStops(n) \/ PodScheduled(n) \/ \E ip \in Ips : PodRuns(n, ip)
  \/ \E name \in Names, s \in Specs : Configure(n, name, s)
  \/ \E w \in db[n] : Remove(n, w)

Next == Worker \/ OperatorRestarts \/ \E n \in Nodes : NodeStep(n)

Spec == Init /\ [][Next]_vars

(***************************************************************************)
(* The worker runs and its queue is fair, watches deliver, RmdNodeStates   *)
(* and RMD pods are brought back.                                          *)
(***************************************************************************)
Fairness ==
  /\ WF_vars(Worker)
  /\ \A n \in Nodes :
       /\ SF_vars(Reconcile(n))
       /\ WF_vars(SyncState(n)) /\ WF_vars(SyncPod(n))
       /\ WF_vars(CreateState(n)) /\ WF_vars(PodScheduled(n))
       /\ WF_vars(\E ip \in Ips : PodRuns(n, ip))

FairSpec == Spec /\ Fairness

(***************************************************************************)
(* Properties.                                                             *)
(***************************************************************************)
\* Types of the cluster and of the worker; a pass has a node and an address.
TypeOK ==
  /\ pods \in [Nodes -> Pod \cup {None}] /\ seenPods \in [Nodes -> Pod \cup {None}]
  /\ db \in [Nodes -> SUBSET Workload]
  /\ states \in [Nodes -> Status \cup {None}] /\ seenStates \in [Nodes -> Status \cup {None}]
  /\ fresh \subseteq Nodes /\ queue \subseteq Nodes
  /\ IF pc = "idle" THEN node = None /\ address = None /\ answer = Nowhere
     ELSE pc \in {"get", "update"} /\ node \in Nodes /\ address \in Ips \cup {Pending}
  /\ objFresh \in BOOLEAN
  /\ answer \in [workloads : Status, from : Nodes \cup {None}]
  /\ sources \in [Nodes -> Nodes \cup {None}] /\ reused \subseteq Nodes \X Nodes
  /\ asked \in [Nodes -> [Names -> SUBSET Specs]] /\ dropped \subseteq Nodes
  /\ spent \in [changes : 0..MaxChanges, upsets : 0..MaxUpsets, ids : Nat]

\* A status that was read from another node's server was read from one that got an
\* address at which the operator still looked for this node's pod, in its cache or
\* with a pass under way: cache, address and answer are read at different times,
\* and nothing else lets one node's workloads into another's status.
StatusOwn == \A n \in Nodes : sources[n] \in {n, None} \/ <<n, sources[n]>> \in reused

\* What keeps it so: two pods that run have two addresses, and none of them is one
\* that the operator uses for another node.
AddressesOwn ==
  \A n \in Nodes, m \in Nodes, ip \in Ips :
    n # m /\ At(pods[m], ip) =>
      /\ ~At(pods[n], ip)
      /\ <<n, m>> \notin reused => ~At(seenPods[n], ip) /\ (node = n => address # ip)

AnswerOwn == node # None => answer.from \in {node, None} \/ <<node, answer.from>> \in reused

MirrorInv == StatusOwn /\ AddressesOwn /\ AnswerOwn

\* Whatever is in a status, however outdated it is and whatever became of the pod,
\* somebody asked for it, under that name and on the server it was read from: the
\* cores in one request, and each number in one, modulo 2^32, with six decimals,
\* and 0 if it is not there.  A later request need not undo it: what it asks to be
\* 0 is not sent, so that a status may have one field from each of two requests.
CoresAsked(s) == {c \in Cpus : IF s.allCores THEN c \notin s.reservedCoreIds ELSE c \in s.coreIds}

Number(i) == IF i = None THEN 0 ELSE i

AsAsked(data, specs) ==
  /\ \E s \in specs : data.coreIds = CoresAsked(s)
  /\ \A f \in CacheFields \cup MbaFields : \E s \in specs : Number(data.rdt[f]) = s.rdt[f] % Width
  /\ \E s \in specs : Number(data.pstate["ratio"]) - Number(s.pstate["ratio"]) \in -5..5
  /\ \E s \in specs : data.pstate["monitoring"] = s.pstate["monitoring"]

ShownAsAsked ==
  \A n \in Nodes, name \in Names :
    states[n] # None /\ states[n][name] # None =>
      sources[n] # None /\ AsAsked(states[n][name].data, asked[sources[n]][name])

\* The status of a node is written every five seconds because a pass queues its own
\* node again, and by nothing else: no watch tells of the workloads of an RMD server.
\* A node leaves that cycle only through a pass that saw a pod without a port, and
\* otherwise is queued, in the worker, or an event brings it back; through refused
\* writes, answers that cannot be read, deletions and restarts.
StaysInCycle ==
  \A n \in Nodes : states[n] # None => n \in queue \cup {node} \cup dropped \/ n \notin fresh

\* README.md:389: the RmdNodeState of a node comes to show the workloads that run
\* there, all of them and no others, with the data that RMD has; after failed GETs,
\* restarted pods with other addresses and deleted RmdNodeStates; unless its node
\* dropped out of the cycle, as then nothing brings it back when the pod is replaced.
Reflects(shown, w) ==
  /\ shown # None
  /\ shown.id = w.id /\ shown.data.coreIds = w.data.coreIds /\ shown.data.rdt = w.data.rdt
  /\ shown.data.pstate["monitoring"] = w.data.pstate["monitoring"]
  /\ Number(shown.data.pstate["ratio"]) - Number(w.data.pstate["ratio"]) \in -5..5

Mirrored(n) ==
  /\ states[n] # None
  /\ \A name \in Names : Named(n, name) = {} => states[n][name] = None
  /\ \A w \in db[n] : Reflects(states[n][w.uuid], w)

EventuallyMirrored == <>[](\A n \in Nodes \ dropped : IsUp(n) => Mirrored(n))
=============================================================================
