# A TLA+ model of the RMD operator

The RMD operator configures Intel's Resource Management Daemon (RMD) on the
nodes of a Kubernetes cluster. A user writes two kinds of objects: an
`RmdConfig`, which says on which nodes RMD is to run, and `RmdWorkload`s, which
say which cache, bandwidth and frequency settings which cores of which nodes
should have. The operator turns them into DaemonSets, `RmdNodeState` objects and
HTTP requests to the RMD server of each node.

This directory holds TLA+ modules for the parts of the operator that decide
something, configurations that check them with TLC, and proofs that TLAPS
checks. `PROJECT.json` is the index: components, runs, the line of source each
definition stands for, hazards, findings, theorems.

## The system and its parts

| Part | Source | State it keeps | Operations |
|---|---|---|---|
| RmdWorkload controller | `pkg/controller/rmdworkload` | the `status.workloadStates` of each RmdWorkload; its work queue; the copy in hand | `Reconcile`: obsolete workloads, targeted nodes, POST or PATCH, status, removed nodes, requeue after 60 s |
| RmdConfig controller | `pkg/controller/rmdconfig` | two DaemonSets, the RmdNodeStates, `status.nodes`, additions to `RmdNodeList` | `Reconcile`: create, update or delete DaemonSets, create RmdNodeStates, status, requeue after 5 s |
| RmdNodeState controller | `pkg/controller/rmdnodestate` | `status.workloads`, deletions from `RmdNodeList` | `Reconcile`: mirror the workloads of the RMD pod, or forget the node, requeue after 5 s |
| RmdNodeData | `pkg/state` | one slice of node names, shared by the three controllers, no lock, in memory only | `UpdateRmdNodeData`, `DeleteRmdNodeData`, and `range` in the RmdWorkload controller |
| RMD client | `pkg/rmd` | none | GET, POST, PATCH, DELETE of workloads, cache and CPU queries, payload formatting |
| Node agent | `pkg/nodeagent`, `pkg/podresourcesclient`, `cmd/nodeagent` | RmdWorkloads owned by pods, the leader lock | `Reconcile` of a pod with `intel.com/l3_cache_ways`: ask the kubelet for the CPUs of its containers, create or update an RmdWorkload for each |
| Device plugin | `cmd/deviceplugin` | the devices discovered at the start, a gRPC server, its socket file | discovery, registration, `ListAndWatch`, `Allocate` |
| Utilities, mains, API types | `pkg/util`, `cmd/manager`, `pkg/apis` | none | lookup of the RMD pod of a node; start-up; field definitions |

Outside the repository, modelled from how the code uses them and marked external
in `PROJECT.json`: the RMD server (a store of workloads, a new ID for each POST,
lost when its pod stops), the API server (resource versions, conflicts, garbage
collection by owner), informers (a cache that lags), the work queue (a set of
keys, retries after an error), the DaemonSet controller (a pod on each labelled
node), node feature discovery (labels).

How they interact: the RmdConfig controller fills `RmdNodeList` and the
RmdNodeState controller empties it; the RmdWorkload controller reads it to decide
where to look for workloads that should no longer be there. That list is the
only thing that connects an RmdWorkload that was *deleted* with the nodes its
workload is still on. For an RmdWorkload that *exists* the nodes come from its
spec or from node labels. The node agent and the device plugin reach the others
only through the API server: the plugin's devices are what pods can ask for, the
agent's RmdWorkloads are reconciled like any other.

### What is hard here, and what each part must guarantee

* The three controllers run concurrently, each with one worker. Between two
  requests of a pass the object, the labels, the pods and the list may change.
* There are no finalizers. What a deletion has to undo is known only to the
  running process.
* Any request may fail, and a POST that failed for the client may have worked.
* RMD numbers workloads from 1 in each life of its pod; the operator keeps IDs in
  the status. The address of a pod that stopped may be another node's next.
* The node agent reads the pod, the CPUs of its containers and the RmdWorkload one
  after the other, from three places; the pod may be gone, or replaced by one of
  the same name, in between.
* The device plugin registers once and sends its devices once; its socket is a
  file that any process of its kind removes.

So: an RMD server must never get two workloads of one name, or have the workload
of one RmdWorkload changed or deleted on behalf of another; a workload must not
go back to an older version; in the end every declared workload is where it
should be, in its last version, and reported so, and every other one is gone; the
list must be the set of nodes with an RmdNodeState; an RmdConfig must end up
deployed, and leave nothing behind; a status must come to show what its own
node's server holds, and nothing nobody asked for; an RmdWorkload made for a container
must have that container's CPUs, keep what users change, and go with its pod; the
cache ways must come to be advertised, each under an ID of its own. The list
`hazards` in `PROJECT.json` names the lines at which each of these is at stake.

## Modules

| Module | What it is |
|---|---|
| `RmdWorkload.tla`, `MCRmdWorkload.tla` | The RmdWorkload controller against API server, cache, RMD servers and pods; specs, labels and names for small instances. |
| `WorkloadStore.tla` | The abstract specification of what that controller promises about the RMD servers. |
| `RmdWorkloadProofs.tla` | Theorems of `RmdWorkload`: types, the invariants of the RMD servers, and that nothing is forgotten. |
| `RmdWorkloadStoreProofs.tla` | Theorems of `RmdWorkload`: IDs and versions, and that it implements `WorkloadStore`. |
| `RmdNodeData.tla`, `MCRmdNodeData.tla` | The shared slice, down to headers and backing arrays. |
| `NodeSet.tla` | The abstract specification of that list: a set with atomic additions and deletions. |
| `RmdNodeDataProofs.tla` | Its theorems: types, and that it is a set while calls do not overlap. |
| `RmdNodeSetProofs.tla` | Its theorems: that it implements `NodeSet`, and what a loop over it can miss. |
| `RmdConfig.tla`, `MCRmdConfig.tla` | The RmdConfig controller, and the RmdNodeState controller as far as the list goes. |
| `RmdConfigProofs.tla` | Its theorems: types, and that no event is lost. |
| `RmdNodeState.tla`, `MCRmdNodeState.tla` | The RmdNodeState controller as a mirror of RMD servers, and the payload on its way to RMD and back. |
| `RmdNodeStateProofs.tla` | Its theorems: types, whose workloads a status shows and that each field was asked for, and the one way out of the cycle of passes. |
| `NodeAgent.tla`, `MCNodeAgent.tla` | The node agents against pods, kubelets, API server and garbage collector. |
| `NodeAgentProofs.tla` | Its theorems: types, whose CPUs an RmdWorkload has, that edits stay and that no container is forgotten. |
| `DevicePlugin.tla`, `MCDevicePlugin.tla` | The device plugin against RMD, the kubelet and a second process of its kind. |
| `DevicePluginProofs.tla` | Its theorems: types, that IDs tell cache ways apart, and that a process is never past helping. |

Operators whose comment begins with "wrong:" are no part of a specification.
Each is a plausible mistake in the definition it precedes, and `mutants` in
`PROJECT.json` says which property notices it.

### RmdWorkload

One action is one access to something shared: `Reconcile(k)` takes a key and reads
the cache; `FindObseleteWorkload(n)`, `GetTargetedNode(n)` and
`FindRemovedNode(n)` are one GET each; `AddWorkload`, `UpdateWorkload`,
`RemoveWorkload` and `DeleteObseleteWorkload` are one POST, PATCH or DELETE;
`UpdateRmdWorkloadStatus` is the GET and the status write after a POST or PATCH;
`FinishReconcile` and `FinishDeletion` end a pass. `pc` says which loop of the
source the worker is in, `todo` and `found` hold what the loops have still to
visit and what they have collected, `obj` is the Go variable `rmdWorkload`.
Users, pods, labels, cache and restarts move between any two of these.

Abstractions: the settings of a workload are a version number that grows with
each edit (`ver`), so "configured right" is "configured with the last version".
A response is `Success` or `Fail`. `Spec.Nodes` and `RmdNodeList` are sets, and
loops visit them in any order. What a loop sees of a slice that changes under it
comes from `RmdNodeData`: a node the shifted slice makes `range` skip is left out of
`todo` by `ForgetNode`, and a node that an `append` then writes into the last slot, which
the loop has still to read, comes into it by `LearnNode` (`Refilled`). A shifted
slice may also show a node twice, and the second DELETE for it finds nothing and fails the
pass; that is what a first DELETE with a lost answer does, which the model has, so
`found` stays a set. The RmdConfig, read for its `rmdNodeSelector`, does not change, and
reading it and the nodes does not fail. The
watch takes the cache to the newest version at once. A restart is one step and no
request outlives it. Node labels and pods are read without lag. If a pod starts
again it is on the address of the one before; in a cluster the address usually
changes and a request to the old one fails, which the model has as a fault.

`WorkloadStore` is what the controller promises of the RMD servers as long as their
pods stay: one store, a version (or none) per node and name, and one name at a time
that has its turn; only the workload of that name changes, on one node per step, and
it is removed or becomes a version that is not older. `RmdWorkload` implements it
under the mapping `Store`: the version on a node is that of the entry of that name,
the turn is the name of the key in hand, and `kept` is `PodsKept`: no
pod has stopped and no node was relabelled so far. That the mapping is a function of the state rests on `OneEntryPerName`;
that versions do not go back, on `VersionsOrdered`: what the server has is not newer
than what the pass has in hand or will read, the cache, and the object. When a pod
stops, the promise ends, because the numbers start from 1 again (finding 2).

### RmdNodeData

The Go slice as it is: `list` is a header, `heap` its backing arrays, `append`
writes in place or doubles. One action is one load or store of an element or a
header, of any of three goroutines: an addition, a deletion, a loop of the
RmdWorkload controller. Torn headers are left out, and a copy of several elements, when
`append` moves to a larger array or a deletion closes the gap, is one step (`Grown`,
`DeleteShifts`): a loop that reads in the middle of the copy is not covered, and may see an
element twice, or an old one, that a read before or after the copy does not show it. `panicked` is an index out of
range, which ends the process. `members`, `unsure`, `raced`, `wanted` and
`deleted` are history variables.

`NodeSet` is what the controllers take the list for, and what `RmdWorkload` and
`RmdConfig` have as `rmdNodeList`: a set that an addition changes in one step when it
returns, and a deletion in one step before it returns; if the two overlap, nothing is
promised from then on. `RmdNodeData` implements it under the mapping `Set`: the set is the
elements the header of the list spans, `adding` and `removing` are the nodes of the calls in
progress, `overlapped` is `raced`.

### RmdConfig

`Reconcile` reads the cached RmdConfig, then come `DeployRmd`, `DeployNodeAgent`,
`ListNodes`, for each node `CreateNodeState` and `UpdateRmdNodeData`, and
`UpdateStatus`. `seen` is the informers' cache: Create, Update and Delete act on
the API server and fail if the cache was behind; an Update is refused when the DaemonSet
is another than in the cache, by content, where the API server goes by version. The
other controller is there with two steps: `ReconcileNodeState(n)` reads the cache, and
if the RmdNodeState is not in it (`gone`) `DeleteRmdNodeData` takes the node off the
list. Either may come between `CreateNodeState(n)` and `UpdateRmdNodeData`, and anything
between the two. A DaemonSet has
a selector and an owner, an RmdNodeState an owner; `DropDaemonSet` and
`DropNodeState` are the garbage collector, or a user. A requeue after 5 seconds
and a retry after an error are both "the request is in the queue again": how long
the worker waits is left open. What else the RmdNodeState controller does is in
`RmdNodeState`.

### RmdNodeState

A pass is `Reconcile(n)`, which reads the cached RmdNodeState and the cached address of
the node's RMD pod; `GetWorkloads`, the GET at that address, at which by then another
node's pod may answer; and `UpdateStatus`. A GET that fails is logged only, and the
status is written without workloads; one whose answer cannot be read (`FailWorkloads`)
fails the pass. Without an object or without a pod there is no GET. A pod may declare no
port: then the pass ends without an error and without the requeue, and the node is in
`dropped` until something else queues it. `pods` and `seenPods` are the addresses in the API server and in the cache;
`fresh` and `objFresh` say which copies of an RmdNodeState are current, as resource
versions would. The watch of pods queues nothing: it is for pods an RmdNodeState
owns, and it owns none, so only the 5 second requeue brings a change.

The payload is modelled by what the conversions do. `formatWorkload` takes all CPUs
but the reserved ones if all cores are asked for (what `getAllCPUs` does with strings),
sends cache values always, MBA values and the ratio unless they are 0, and every
`int` modulo `Width`, which stands for 2^32. So a PATCH does not say that a value is to
become 0; whether RMD then keeps the old one or clears it, the repository does not tell,
and `Patched` allows both, for each field by itself. `UpdateNodeStatusWorkload` shows what RMD
answers, the ratio with six decimals. `Configure` and `Remove` are the requests of the RmdWorkload controller,
here without their causes.

### NodeAgent

There is an agent on every node, but `leader.Become` lets one at a time start its
manager (`BecomeLeader`); it then has its caches filled and a queue of all pods.
`SyncPod` and `SyncWorkload` are the watches; an event of an RmdWorkload queues the
pod that its owner reference names. `Reconcile(p)` takes a pod from the cache: one that
does not run is an error, one of another node is left alone. `GetContainerInfo(c)` asks
the kubelet for the CPUs of one container that asks for cache ways, found by pod name and
container name; a limit that is there asks for them, be it 0 (`asks`);
`CreateRmdWorkload(b)` and `UpdateRmdWorkload(b)` are the Create or Update of one
RmdWorkload it has built. The pod's UID tells it from its namesakes; the kubelet's CPU
manager gives a pinned container a CPU nobody else has when the pod starts, and takes
it back when the pod ends. An agent's container may restart (its pod keeps the lock)
or its pod may go (the lock goes with it).

Abstractions: at most one CPU of its own per container; what annotations say is left
out; an RmdWorkload is known by pod and container, of which its name is made. The names of
the containers of a pod are unique, which Kubernetes sees to (`AgentConstants`).

### DevicePlugin

`main` in its order: `Cleanup` of the socket file, `DiscoverResources` from RMD,
`Listen` and serve, `Dial` to itself, `Register` with the kubelet, then wait for a
signal. `KubeletConnects` and `ListAndWatch` are the kubelet's call and the one answer
the plugin sends. A socket file is known by who listens on it: the present process, an
`old` one whose pod was deleted by force and which still runs, or one that is gone;
`PodReplaced` and `OldStops` are the beginning and the end of such an overlap. The
environment may end the process at any point, restart the kubelet (which forgets
plugins and empties their directory) and restart RMD. A device's ID is the sequence of
the digits of NUMA node and cache way, as `fmt.Sprintf` writes them one after the other.
A `Listen` that fails ends the process: the code logs it and goes on to `Serve` with no
listener, which does not survive it. `GetGuaranteedCacheWayPools` is the constant set
`Pools` from which RMD answers; the empty pool, for which the plugin registers with
no devices, may be among them.
`Allocate` changes nothing and is part of what `WaysApart` says of an ID.

## Runs

All bounds are constants in the `.cfg`: `MaxEdits` counts user edits, `MaxFaults`
requests that fail or whose answer is lost, `MaxStops` RMD pods that fail,
`MaxRestarts` operator restarts, `MaxRelabels` label changes, `MaxForgets`
deletions from the list, `MaxPods` pods that are created, `MaxChanges` workloads that
are configured or removed, and `MaxUpsets` all events of the other modules' that go
against the system, together (`RmdConfig_deploy` also bounds the sum of edits and upsets,
by the constraint `Budget`; in `RmdNodeState` the replacement of a pod without a port is
free). Each event of these kinds costs the system the same
however many came before, so one or two of each are enough to meet any other one in
any order. Deadlock is not checked: when budgets are spent and nothing is queued the
system rightly rests.

| Run | Instance | What it shows |
|---|---|---|
| `RmdWorkload_steps` | 1 node, 2 objects (interchangeable), 3 edits; either 1 fault and 1 operator restart, or 1 pod restart and 1 node forgotten | `TypeOK`; `OneEntryPerName`: no second workload of a name, even if the answer to a POST is lost; `DeletesOwn`: a DELETE whose ID was read some requests ago hits the right workload or none; `ServerInv`: the inductive invariant of both; `NothingForgotten`: an RmdWorkload that exists, or was deleted while a server has its workload, is queued, in hand, due in 60 seconds, or has an event to come; as long as pods live, `StatusIdsOwn`: an ID in any copy of a status is the object's own, `VersionsOrdered`, and `ImplementsStore`: the refinement of `WorkloadStore`. |
| `RmdWorkload_live` | 2 nodes, 1 object, specs by name and by label, 2 edits, one fault, pod restart, operator restart and relabelled node | `EventuallyPlaced`, `EventuallyReported`, `EventuallyShrunk`, `EventuallyDeletedIfKept`. |
| `RmdWorkload_restart_leak` | 1 object, restart | Finding 1: `EventuallyDeleted` fails. |
| `RmdWorkload_wrong_patch` | 2 objects, pod restart, 1 fault | Finding 2: `OnlyOwnEntries` fails once an RMD pod has lost its workloads. |
| `RmdNodeData_sequential` | 3 nodes, 4 additions, 2 deletions, 1 loop | `SequentialIsSet`: while no addition overlaps a deletion the slice is the set it stands for; `ListInv`: what both loops rely on in the middle of a call; `ImplementsSet`: the refinement of `NodeSet`; `ScanMissesLittle`: a loop never reads a slot nobody wrote and, as long as no addition overlapped a deletion, misses at most one node for each deletion that overlaps it, besides the deleted ones; `ScanInv`: what keeps it so. |
| `RmdNodeData_race` | the same | Finding 3: `AlwaysSet` fails. |
| `RmdConfig_deploy` | 1 node, 3 edits and upsets, at most 2 of them upsets | `NoEventLost`: the event that takes a node off the list is still to come wherever it is needed; `EventuallyDeployed`, `EventuallyUndeployed`, `EventuallyForgotten`. |
| `RmdConfig_default` | 2 nodes, 1 edit | Finding 4: `EventuallyDefaulted` fails. |
| `RmdNodeState_mirror` | 2 nodes, 2 addresses, 2 payloads, `Width` 8, 2 changes, 1 upset | `StatusOwn`: a status shows another node's workloads only if the address of this node's pod went over to that one while it was in use; `MirrorInv`: what keeps it so; `ShownAsAsked`: each field that a status shows somebody asked for, under that name and on the server it was read from, modulo `Width` and 0 if it is not there; `StaysInCycle`: an RmdNodeState is queued, in the worker, or has an event to come, unless its last pass saw a pod without a port; `EventuallyMirrored`: the status comes to show what the server has. |
| `NodeAgent_pods` | 1 node, 2 CPUs, a pod and its successor of the same name, 2 containers, 2 upsets | `CpusOwn`: an RmdWorkload has the CPUs of the very container it was made for; `NoWorkLost`: a container that is due an RmdWorkload and has not got it is never out of the agent's sight; `WorkInv`: what keeps both so (`AgentInv` is a part of it); `UserEditsKept`; `EventuallyServed`; `EventuallyCollected`. |
| `NodeAgent_leader` | 2 nodes, 1 pod | Finding 5: `EventuallyServedEverywhere` fails. |
| `DevicePlugin_advertise` | 4 pools, one empty, 4 upsets | `WaysApart`: an ID is one way of one cache, and the plugin tells its NUMA node; `InReach`: a process that waits and was not cut off is listed, served, or still to be found behind the socket it registered; `EventuallyAdvertised`. |

Two objects are enough for `steps`, as the properties relate the object of the pass to
one other. The constraint `TwoKindsOfUpset` of that run keeps apart the two pairs
whose product is too large; the proofs, which know no bounds, cover it. Two nodes are
enough for `live`, as a pass may fail, be skipped or be blocked on one node because of
another. Three nodes in `RmdNodeData` give arrays of capacity 1, 2 and 4, so that
`append` both copies and writes in place. One node is enough for `RmdConfig_deploy`:
nodes meet only in that a pass that fails for one is repeated for all. Two nodes and
two addresses let an address wander in `RmdNodeState`; the payloads have a field that is
`Width`, one that is negative, a ratio of more than six decimals, and fields that are 0
in one payload and not in the other, so that a PATCH leaves them out. One key is enough for
`NodeAgent_pods`: its pods come one after the other, which is where UIDs matter, and
pods of other names meet only in the kubelet's CPUs, which the proofs cover for any
number; the pods have two pinned containers, or a container without CPUs of its own and an init
container, or a pinned container with a limit of 0. The pools of `DevicePlugin` are empty, or have two ways in each
of two caches, an ID that is a suffix of another, and two NUMA nodes of two digits whose
IDs coincide; with four upsets every pair of environment events fits into the life
of two processes.

What the liveness properties exempt, and why:

* `EventuallyShrunk` and `EventuallyDeletedIfKept` say "if all listed nodes can run
  RMD": a listed node without an RMD pod stops every removal
  (`findObseleteWorkloads` and `findRemovedNodes` return its error), for as long as
  it stays in the list, and nothing takes a node off the list when it loses its
  label. `EventuallyDeletedIfKept` and, for deletions, `NothingForgotten` exclude
  restarts and forgotten nodes, and the run `RmdWorkload_restart_leak` shows why. Both
  exclude relabelled nodes, too (`ListKept`): a node new to RMD has its pod, and an RmdWorkload that names it is
  POSTed to it, before the RmdConfig controller has put it on the list. TLC finds that a
  deletion in between leaves the workload there.
* `ScanMissesLittle` ends with the first overlap of an addition and a deletion: it may leave
  a node twice in the list, and the deletion of that one hides two others from a loop.
* `EventuallyForgotten` exempts nodes deleted from the list while the RmdConfig worker
  was at them (`overlapped`): without the exemption TLC finds that such a node
  stays in the list after the RmdConfig is gone.
* `EventuallyServed` is about pods of the leader's node (finding 5), whose requesting
  containers the kubelet lists and whose name no other pod of the node has
  (`Resolvable`): an init container with CPUs of its own makes every pass fail, and
  `GetContainerCPUs` may answer for the namesake. `misread` marks the pods that were
  given the CPUs of a namesake.
* `StatusOwn` allows the workloads of another node's server if that node's pod got an
  address at which the operator still looked for this node's (the pairs in `reused`):
  address and answer belong to different times, and TLC finds it at once.
* `EventuallyMirrored` is about nodes whose RMD pod runs: without one, passes end before
  the status is written, and it goes on showing what there was. It also leaves out the
  nodes in `dropped`: a pass that saw a pod without a port was the last one, though the
  comment at `rmdnodestate_controller.go:164` says "Requeue every 5 seconds".
  `rmd-ds.yaml` declares a port, so such a pod comes from elsewhere. Without the exemption
  TLC finds that the pod with a port that replaces it is never looked at.
* `EventuallyAdvertised` exempts a process that the environment has cut off from the
  kubelet (`harmed`): the kubelet restarted after it had reached its own server, its
  one Send failed, or the process of a replaced pod removed its socket before the
  kubelet connected. The plugin registers once, sends once and then waits for a
  signal, so only the next process brings the devices back. Without the exemption TLC
  finds each of the three.

### Findings

1. **A deletion does not survive a restart** (`RmdWorkload_restart_leak`). Nothing
   records that an RmdWorkload was deleted, and `RmdNodeList` starts empty; the
   workload stays on the RMD server. README.md:380 promises a delete request to
   every RMD instance.
2. **PATCH with a stale ID** (`RmdWorkload_wrong_patch`). `updateWorkload` uses the
   ID in the status, not the one `getTargetedNode` has just seen. After an RMD pod
   restarts and another workload gets that ID, PATCH overwrites it.
3. **RmdNodeList is changed from two goroutines** (`RmdNodeData_race`). A deleted
   node comes back, or an added one is lost.
4. **The default selector does not last** (`RmdConfig_default`). The second pass
   takes the manifest's `nodeSelector` away.
5. **One leader for the agents of all nodes** (`NodeAgent_leader`).
   `cmd/nodeagent/main.go:88` makes every agent of the DaemonSet wait for one lock of the
   namespace, and the one that has it serves only pods of its own node: no RmdWorkload
   is created for pods of the others, against README.md:524.

### Fairness

`RmdWorkload!FairSpec`: the worker goroutine takes its next step (weak fairness
of all steps of a pass: nothing in the code waits for anything but answers, and
the model lets a request end); each key in the work queue is taken in the end
(strong fairness of `Reconcile(k)`, as the queue is first in, first out and other
keys come and go); watches deliver, timers fire, the DaemonSet controller keeps
its pods, and a node with a label comes to be in `RmdNodeList` (weak fairness;
the last one is what `EventuallyDeployed` of `RmdConfig` shows). Nothing is
assumed of users, faults, labels, pod failures and restarts; they are bounded.
`RmdConfig!FairSpec`: weak fairness of both workers, the watches and the garbage
collector.

`RmdNodeState!FairSpec`: the worker takes its next step (weak), each key is taken in the
end (strong, as above); watches deliver, a missing RmdNodeState is created again (what
`EventuallyDeployed` of `RmdConfig` shows), a pod is scheduled and gets an address (weak).

`NodeAgent!FairSpec`: worker and queue the same; watches, garbage collector and
DaemonSet controller do their work, and while nobody has the lock an agent gets it,
whichever (weak: `leader.Become` tries again every few seconds). Pods owe nothing:
they need not run, end or be deleted.

`DevicePlugin!FairSpec`: `main` goes on, the kubelet (with its pod restart policy)
starts it again when it has ended, connects to a plugin that registered and reads,
RMD answers in the end, and an old process gets its signal (all weak).

## Proofs

Each theorem holds for any values of the constants that satisfy the assumption named in
its module (`AgentConstants`, `PluginConstants` and so on): any number of nodes, objects,
pods, CPUs, calls and faults. TLC checks every invariant proved in a run, the
strengthened ones included, but for the auxiliary ones defined beside the proofs:
`RecallInv`, `PodsLabelled`, `Leaves`, `AskedInv`, `FreshSeen`, `OfPool` and `AtSocket`.

**RmdWorkload** (`RmdWorkloadProofs`: `TypeCorrect`, `ServersConsistent`,
`OneWorkloadPerName`, `DeletionsAreOwn`, `NoWorkloadForgotten`). `OneEntryPerName` is not inductive. A POST adds a
second entry unless the name is absent, and what the code knows of that is an answer to
a GET some requests ago. The strengthening is `ServerInv`: besides the two goals, IDs are
counted by each server and identify an entry (`IdsCounted`), a loop has at most one
finding per node and none for a node still to be visited (`FoundOnce`), and a finding
without an ID means that the name is still absent (`PostsOnlyAbsent`). The last one holds
because only the one worker adds entries, and it takes a node out of `found` in the step
in which it POSTs. `DeletesOwn` needs `IdsCounted`, as a pod that restarts between GET and
DELETE starts to count anew, and that `found` is emptied before another pass begins.

`NothingForgotten` is the safety half of `EventuallyPlaced` and `EventuallyDeletedIfKept`.
There is no finalizer, so the key in the queue is all that is left of a deleted object,
and the pass that takes it drops it for good when it finds no more to delete. `RecallInv`
adds what makes that right: a fresh cache knows which objects exist (`CacheKnows`); an
object that is created again while a pass deletes its predecessor's workload has an event
of its own (`Reappeared`); a workload is on a node with a pod, and a pod on a node of the
list (`ListCovers`); so that a deletion has found each workload of its name or has that
node still to visit (`LeftToDelete`, which needs `OneEntryPerName`: the search by name finds
one). A pass for an object that exists ends with a status write, which the API server
refuses if the object is gone, or with an error, and both keep the key.

**RmdWorkload as a WorkloadStore** (`RmdWorkloadStoreProofs`: `StatusIdsAreOwn`,
`VersionsAreOrdered`, `ServersImplementStore`). A PATCH goes to the ID in the status, so
that it hits the right entry is `StatusIdsOwn`: while pods keep their workloads, an ID in
any of the copies of a status, in the API server, the cache or the worker's hand, is
that of an entry of the object's name or of none. It rests on `ServerInv` (IDs are never
given twice) and on `PodsLabelled`: as long as no node was relabelled, a pod stands only
on a node with the RMD label, so that the DaemonSet controller evicts none.
`VersionsOrdered` then says that along server, pass, cache and object versions only grow.
With these, each step of `RmdWorkload` is a step of `WorkloadStore` or a stutter: POST and
PATCH are `Configure`, DELETE is `Remove`, taking a key `Begin`, the last step of a pass
`End`, a pod that stops `Lose`. The last two theorems assume `OneNamespace`, that two
objects have different names: without it they are false, as the objects take turns in
PATCHing one workload (a hazard on the list).

**RmdNodeData** (`RmdNodeDataProofs`: `TypeCorrect`, `ListCorrect`, `SequentialCorrect`).
`TypeOK` says that no header a goroutine holds is longer than the array it points to,
and that is not inductive: the index a deletion has found must lie within the header it
has loaded (`IndexHeld`). The two together are preserved whatever calls overlap.
`SequentialIsSet` is proved from `ListInv`: in the middle of an addition the part of the
list it has passed has not the new name (`UpdateInv`); a deletion still searches a list
that has the name nowhere behind it (`Searching`), or has shifted the elements and goes on
over the old header, whose rest has not the name (`Through`). The number of elements is
that of the set by the theorems on `Cardinality`.

**RmdNodeData as a NodeSet** (`RmdNodeSetProofs`: `ListImplementsSet`, `ScanCorrect`,
`ScanMissesFew`). Each step of `RmdNodeData` is a step of `NodeSet` or a stutter: the step of an
addition that finds the name, or that stores the header, is `Add`; the step of a deletion
that shifts the elements or stores the shorter header is `Remove` or leaves the elements
as they are; the end of its search is `Removed`; the begin of a call that overlaps one of
the other kind is `Overlap`. It rests on `Leaves`: what a deletion may still have to take out
of the list is its own node only.

For loops, `ScanInv` counts. As long as the array the loop reads is still the list's (`Shared`),
the nodes that stay and are not ahead of it (`Missed`) are no more than the deletions whose
node has none of those that stay behind it (`Done`). A deletion shifts each node behind its
own by one place, so at most the one at the loop's position passes it, and from then on that
deletion is counted. When an addition has moved the list to a larger array nothing is
shifted under the loop any more, and the bound is the number of deletions. Slots that
nothing was written to are in no header at all (`NoneFree`), races included.

**RmdConfig** (`RmdConfigProofs`: `TypeCorrect`, `EventsKept`). `NoEventLost` is inductive on
top of the types: the watch takes a node from `behind` only into the queue, the other
worker takes it from the queue only when it has deleted it from the list, or when the
cache shows an RmdNodeState; in the latter case either it is there or its deletion is
still to be delivered, as the cache differs only where the watch is behind. Between the
read of the cache and the deletion from the list the event is in the worker (`gone`).

**RmdNodeState** (`RmdNodeStateProofs`: `TypeCorrect`, `MirrorCorrect`, `StatusesOwn`,
`PayloadsAsAsked`, `NoneDropsOut`).
`StatusOwn` holds because the address in the cache and that in the worker's hand are not the
address of another pod (`AddressesOwn`), but for the pairs of nodes in `reused`; hence the
answer is the node's own (`AnswerOwn`). `ShownAsAsked` is about any number of requests for one
workload, of which each PATCH may leave fields out that RMD keeps from an earlier one: the
lemma `FormatHas` says that what one request sends was asked for in it, `PatchedHas` that this
goes for each field after a PATCH, whichever fields were kept, `StatusAsAsked` that the status
shows it so, with the ratio rounded (`RoundedNear`). That a server's workloads were asked for
on that server, and what the worker has read and not yet written, are part of the invariant
(`AskedInv`). `StaysInCycle` needs that a fresh copy in the cache is the object (`FreshSeen`):
a pass that finds no object in the cache queues nothing, and that must not happen to a node
whose object is there. The one pass that ends with an object and without a requeue is that
for a pod without a port, and it puts the node into `dropped`.

**NodeAgent** (`NodeAgentProofs`: `TypeCorrect`, `AgentCorrect`, `WorkCorrect`,
`WorkloadCpusAreOwn`, `NoContainerForgotten`, `UserEditsAreKept`). `CpusOwn` relates an RmdWorkload to a pod that was read from a cache,
and to CPUs read at another time. It needs that UIDs are given once and in order
(`UidsGiven`); that a pod in the cache as running, in hand, or owning an RmdWorkload is no
longer pending, so its CPUs do not change any more (`CpusSettled`); and that what has been
built has the CPUs of the pod in hand, if that still exists (`BuiltOwn`).
`UserEditsKept` follows from the types, step by step.

`NoWorkLost` is the safety half of `EventuallyServed`: each container that is due is served, or
something that is still to happen leads the worker to it (`Ahead`). An `UpdateRmdWorkload` that
finds the RmdWorkload of an earlier pod writes it back as it is, without an error; what
brings the pod back is the deletion of that RmdWorkload by the garbage collector. The proof needs
that the cache shows a thing as it is or an event is on its way (`CacheMirrors`); that a UID
belongs to one key and one spec (`UidsApart`, `SpecsKept`), since the pod in hand is an older
copy; that the worker has only containers of that copy before it (`TodoOwn`); and that what is
built, and what exists unedited, is what the container is due (`BuiltRight`, `WorkloadsRight`).
The lemma `AheadStays` gathers what nearly all steps have in common. `WorkInv` is the conjunction
of all of these with `AgentInv`.

**DevicePlugin** (`DevicePluginProofs`: `TypeCorrect`, `WaysKeptApart`, `NeverPastHelping`). From discovery to its
end the process has the devices of the pool it was told (`OfPool`); that two of them have
two IDs as long as the nodes have one digit is a lemma on sequences of digits (`IdsApart`).
`InReach`, the safety half of `EventuallyAdvertised`, needs that a process registers while the
socket file is its own (`AtSocket`).

Only model-checked: everything about liveness, as TLAPS does not deal with fairness here.
Refuted, and so not to be proved: the properties of the five
violation runs.

## What is not modelled

* A request that never ends: the HTTP client has no timeout, so one silent server
  stops the worker for good. Every liveness property here assumes that requests end.
  The response bodies that are not closed after a failure are left out likewise.
* A read in the middle of a copy of several elements of `RmdNodeList`; a GET of the RmdConfig
  or a list of nodes that fails in `findTargetedNodes` (the pass returns the error and is
  retried, as after the faults the model has); a second DELETE for a node that a shifted list
  shows twice (it fails like a retry after a lost answer).
* A conflict of a DaemonSet update over a change that was undone again: the model compares
  what the DaemonSets say, the API server versions.
* A failing search of the node agent's own pod (`getNodeAgentPod`), of which the agent takes
  its node: it runs in that pod, and what it reads is its cache. A limit too large to be
  printed as a plain number, which `getMaxCache` cannot read.
* The numbers of a workload in `status.workloadStates`: one version stands for them. (There,
  `rmdworkload_controller.go:504` writes `monitoring` over the ratio.)
* The addresses of RMD pods in `RmdWorkload`, where servers are reached by node; only
  `RmdNodeState` has addresses.
* A node that `Spec.Nodes` names twice: it is a set in the model.
* What stays in a status after the removal of a node if the status write is refused:
  `EventuallyReported` covers the nodes that are declared.
* Two objects of one name in two namespaces, two pods of one name on a node: the modules
  have them (`NameOf`, `PodName`) and the theorems hold for any, but the runs use
  different names.
* What annotations of a pod say, which are matched by the prefix of a container's name,
  and the check that no container name has `-rmd-workload-` in it.
* The lookups of `Allocate`; `resource.MustParse`, which panics on a quantity the API
  server would not accept; the map of UUIDs the status loop builds and drops.
* The strings in `getAllCPUs` and the search of a pod by node addresses: sets, and a search
  that finds the same as the one by node name.
* The operator's own leader lock (there is one process of it), TLS, metrics, command
  lines, the listeners of `pkg/util`: library calls and I/O.
* Generated code, manifests and samples: declarative. What `rmd-ds.yaml` says of the
  `nodeSelector` is the constant `ManifestSelector` of `RmdConfig`.

## Plan

Done: all parts of the operator that change state have a module with runs; the
safety invariants have proofs; `WorkloadStore` and `NodeSet` are abstract specifications with
proofs that the modules implement them; for each controller but that of RmdConfig, and for the
device plugin, the safety half of what it must eventually do is proved. What is left, in this
order:

1. RMD pod addresses in `RmdWorkload`, as in `RmdNodeState`: a POST, PATCH or DELETE that
   reaches the server of another node.
2. `Spec.Nodes` as a sequence, for the node that it names twice, and the status entries of
   removed nodes.
3. What `NoWorkloadForgotten` is to RmdWorkloads, for the DaemonSets and the status of an RmdConfig.
4. A model of the annotations in `NodeAgent`, as a relation between container names.
5. `WorkloadStore` for clusters whose pods stop, where an ID is trusted only until then.
