---------------------------- MODULE DevicePlugin ----------------------------
(***************************************************************************)
(* The device plugin (cmd/deviceplugin/main.go), which runs beside RMD in  *)
(* the RMD pod: it discovers the cache ways of RMD's guaranteed pool       *)
(* (GetGuaranteedCacheWayPools in pkg/rmd/rmd.go) and advertises them to   *)
(* the kubelet as the devices intel.com/l3_cache_ways.  RMD, the kubelet   *)
(* and the process of a pod deleted by force go their own ways meanwhile.  *)
(*                                                                         *)
(* Abstractions.  A socket file is known by who listens on it.  Devices    *)
(* are always healthy, as GetDeviceState says.                             *)
(***************************************************************************)
EXTENDS Naturals, Sequences, FiniteSets

CONSTANTS
  Pools,       \* the guaranteed pools RMD can have: sets of [node, way]
  None,        \* no pool: RMD does not answer
  MaxUpsets    \* of the environment

Digits(i) == IF i < 10 THEN <<i>> ELSE <<i \div 10, i % 10>>

ASSUME PluginConstants ==
  /\ \A p \in Pools : p \subseteq [node : 0..99, way : 0..99]
  /\ None \notin Pools
  /\ MaxUpsets \in Nat

VARIABLES
  rmd,         \* RMD's pool, or None
  pc,          \* where main of the present process is
  devices,     \* pm.devices: [ID -> NUMA node]
  discovered,  \* the pool they were made of (history)
  socket,      \* who listens on rmddp.sock: "none", "ours", or a process gone or "old"
  stream,      \* the kubelet's ListAndWatch: "none", "due", "open", "listed", "old"
  list,        \* the devices the kubelet knows
  old,         \* does a process of a pod deleted by force still run?
  harmed,      \* has the environment cut this process off from the kubelet? (history)
  spent

process == <<pc, devices, discovered>>
kubelet == <<stream, list>>
vars == <<rmd, process, socket, kubelet, old, harmed, spent>>

NoDevices == [id \in {} |-> 0]

Init ==
  /\ rmd = None
  /\ pc = "start" /\ devices = NoDevices /\ discovered = {}
  /\ socket = "none"
  /\ stream = "none" /\ list = {}
  /\ old = FALSE /\ harmed = FALSE /\ spent = 0

Upset == spent < MaxUpsets /\ spent' = spent + 1

(***************************************************************************)
(* main.                                                                   *)
(***************************************************************************)
\* The process ends, and with it its server and its streams.
Gone ==
  /\ pc' = "exited" /\ UNCHANGED <<devices, discovered>>
  /\ IF stream \in {"due", "open", "listed"} THEN stream' = "none" /\ list' = {} ELSE UNCHANGED kubelet

CleanupNothing ==   \* wrong: a socket file that a dead process left stays
  /\ pc = "start"
  /\ pc' = "discover"
  /\ UNCHANGED <<rmd, devices, discovered, socket, kubelet, old, harmed, spent>>

\* cleanup: the socket of whoever made it.
Cleanup ==
  /\ pc = "start"
  /\ socket' = "none" /\ pc' = "discover"
  /\ UNCHANGED <<rmd, devices, discovered, kubelet, old, harmed, spent>>

WayId(d) == Digits(d.way)   \* wrong: without the NUMA node

\* A device's ID: the digits of NUMA node and way, one after the other.
Id(d) == Digits(d.node) \o Digits(d.way)

\* discoverResources: a device per way of the guaranteed pool; of two with one
\* ID the map keeps one.  Without RMD's answer the process ends.
DiscoverResources ==
  /\ pc = "discover"
  /\ \/ /\ rmd # None
        /\ devices' \in [{Id(d) : d \in rmd} -> {d.node : d \in rmd}]
        /\ \A id \in DOMAIN devices' : \E d \in rmd : Id(d) = id /\ d.node = devices'[id]
        /\ discovered' = rmd
        /\ pc' = "listen" /\ UNCHANGED kubelet
     \/ rmd = None /\ Gone
  /\ UNCHANGED <<rmd, socket, old, harmed, spent>>

\* net.Listen and Serve.  That Listen failed is only logged: Serve finds no
\* listener, and the process dies of it or of a Dial that nobody answers.
Listen ==
  /\ pc = "listen"
  /\ \/ /\ socket = "none"
        /\ socket' = "ours" /\ pc' = "dial" /\ UNCHANGED <<devices, discovered, kubelet, spent>>
     \/ /\ IF socket = "none" THEN Upset ELSE UNCHANGED spent
        /\ Gone /\ UNCHANGED socket
  /\ UNCHANGED <<rmd, old, harmed>>

DialUnblocked ==   \* wrong: without WithBlock it waits for nothing
  /\ pc = "dial"
  /\ pc' = "register"
  /\ UNCHANGED <<rmd, devices, discovered, socket, kubelet, old, harmed, spent>>

\* Start waits until it reaches itself through the socket, or ends.
Dial ==
  /\ pc = "dial"
  /\ \/ socket = "ours" /\ pc' = "register" /\ UNCHANGED <<devices, discovered, kubelet, socket>>
     \/ socket # "ours" /\ Gone /\ UNCHANGED socket
  /\ UNCHANGED <<rmd, old, harmed, spent>>

\* The kubelet takes the request and connects later.  Or it is away, and the
\* process ends.
Register ==
  /\ pc = "register"
  /\ \/ pc' = "wait" /\ stream' = "due" /\ list' = {} /\ UNCHANGED <<devices, discovered, spent, socket>>
     \/ Upset /\ Gone /\ socket' = (IF socket = "ours" THEN "gone" ELSE socket)
  /\ UNCHANGED <<rmd, old, harmed>>

KubeletConnects ==
  /\ stream = "due"
  /\ stream' = IF socket = "ours" THEN "open" ELSE "none"
  /\ UNCHANGED <<rmd, process, socket, list, old, harmed, spent>>

SendNothing ==   \* wrong: changed starts FALSE
  /\ stream = "open"
  /\ stream' = "listed"
  /\ UNCHANGED <<rmd, process, socket, list, old, harmed, spent>>

\* ListAndWatch sends the devices once.  If that fails, Stop removes the socket
\* and stops the server, and main goes on waiting for a signal.
ListAndWatch ==
  /\ stream = "open"
  /\ \/ stream' = "listed" /\ list' = DOMAIN devices /\ UNCHANGED <<process, socket, harmed, spent>>
     \/ /\ Upset
        /\ socket' = "none" /\ harmed' = TRUE
        /\ stream' = "none" /\ list' = {}
        /\ UNCHANGED <<pc, devices, discovered>>
  /\ UNCHANGED <<rmd, old>>

\* SIGTERM in main: Stop, which removes the socket, whoever's it is.
Terminate ==
  /\ pc = "wait"
  /\ Upset
  /\ Gone /\ socket' = "none"
  /\ UNCHANGED <<rmd, old, harmed>>

(***************************************************************************)
(* The environment: containers, the kubelet, RMD.                          *)
(***************************************************************************)
\* The process dies; nobody listens on its socket any more.
Crash ==
  /\ pc # "exited"
  /\ Upset
  /\ Gone /\ socket' = (IF socket = "ours" THEN "gone" ELSE socket)
  /\ UNCHANGED <<rmd, old, harmed>>

Restart ==
  /\ pc = "exited"
  /\ pc' = "start" /\ harmed' = FALSE
  /\ UNCHANGED <<rmd, devices, discovered, socket, kubelet, old, spent>>

\* The pod is deleted by force: the next one starts beside it.
PodReplaced ==
  /\ ~old /\ pc = "wait"
  /\ Upset
  /\ old' = TRUE /\ harmed' = FALSE
  /\ pc' = "start" /\ devices' = NoDevices /\ discovered' = {}
  /\ socket' = (IF socket = "ours" THEN "old" ELSE socket)
  /\ stream' = (IF stream = "listed" THEN "old" ELSE "none")
  /\ UNCHANGED <<rmd, list>>

\* The old process gets its SIGTERM, and stops as the new one would.
OldStops ==
  /\ old
  /\ old' = FALSE /\ socket' = "none"
  /\ IF stream = "old" THEN stream' = "none" /\ list' = {} ELSE UNCHANGED kubelet
  /\ harmed' = (harmed \/ pc = "register" \/ stream = "due")
  /\ UNCHANGED <<rmd, process, spent>>

\* The kubelet starts with an empty directory and without registrations.
KubeletRestarts ==
  /\ Upset
  /\ socket' = "none" /\ stream' = "none" /\ list' = {}
  /\ harmed' = (harmed \/ pc \in {"register", "wait"})
  /\ UNCHANGED <<rmd, process, old>>

RmdAnswers ==
  /\ rmd = None
  /\ rmd' \in Pools
  /\ UNCHANGED <<process, socket, kubelet, old, harmed, spent>>

\* The container of RMD restarts, perhaps with another pool.
RmdRestarts ==
  /\ rmd # None
  /\ Upset
  /\ rmd' = None
  /\ UNCHANGED <<process, socket, kubelet, old, harmed>>

Main == Cleanup \/ DiscoverResources \/ Listen \/ Dial \/ Register

Next ==
  \/ Main \/ KubeletConnects \/ ListAndWatch \/ Terminate
  \/ Crash \/ Restart \/ PodReplaced \/ OldStops \/ KubeletRestarts
  \/ RmdAnswers \/ RmdRestarts

Spec == Init /\ [][Next]_vars

(***************************************************************************)
(* main runs, the container restarts when it ends, the kubelet connects,   *)
(* RMD comes to answer, and the old process gets its signal.               *)
(***************************************************************************)
Fairness ==
  /\ WF_vars(Main) /\ WF_vars(Restart)
  /\ WF_vars(KubeletConnects) /\ WF_vars(ListAndWatch)
  /\ WF_vars(RmdAnswers) /\ WF_vars(OldStops)

FairSpec == Spec /\ Fairness

(***************************************************************************)
(* Properties.                                                             *)
(***************************************************************************)
\* Types; the kubelet can only be connected to a process that registered, and
\* has the devices of the process that serves it.
TypeOK ==
  /\ rmd \in Pools \cup {None}
  /\ pc \in {"start", "discover", "listen", "dial", "register", "wait", "exited"}
  /\ discovered \in Pools \cup {{}}
  /\ socket \in {"none", "ours", "old", "gone"}
  /\ stream \in {"none", "due", "open", "listed", "old"}
  /\ stream \in {"due", "open", "listed"} => pc = "wait"
  /\ stream = "listed" => list = DOMAIN devices
  /\ old \in BOOLEAN /\ harmed \in BOOLEAN /\ spent \in 0..MaxUpsets

\* main.go:193: a device that the kubelet gives out under its ID is one way of
\* one cache, and Allocate tells the container the NUMA node of that cache, by
\* which the pod was placed; as long as the nodes have one digit.
WaysApart ==
  (\A d \in discovered : d.node < 10) /\ pc \in {"listen", "dial", "register", "wait"} =>
    \A d, e \in discovered :
      /\ Id(d) \in DOMAIN devices /\ devices[Id(d)] = d.node
      /\ d # e => Id(d) # Id(e)

\* README.md:37: the cache ways of the guaranteed pool come to be advertised,
\* although RMD may answer late, the kubelet refuse, and the process die at any
\* point.  Unless the kubelet restarts after the process has reached its own
\* server, the one Send fails, or an old process removes the socket before the
\* kubelet connects: the process registers once, sends once and then only waits.
Advertised == pc = "wait" /\ stream = "listed" /\ list = {Id(d) : d \in discovered}

EventuallyAdvertised == <>[](harmed \/ Advertised)

\* Why they are: a process that waits and was not cut off is never past helping.
\* The kubelet lists its devices, or serves it, or will find it behind the socket
\* it registered; whatever older processes have done to that file in the meantime.
InReach ==
  pc = "wait" /\ ~harmed => Advertised \/ stream = "open" \/ (stream = "due" /\ socket = "ours")
=============================================================================
