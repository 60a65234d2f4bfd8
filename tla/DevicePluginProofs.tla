------------------------- MODULE DevicePluginProofs -------------------------
(***************************************************************************)
(* What holds of the device plugin for every set of pools and any number   *)
(* of upsets.                                                              *)
(***************************************************************************)
EXTENDS DevicePlugin, TLAPS

(***************************************************************************)
(* Types.                                                                  *)
(***************************************************************************)
LEMMA TypeInit == Init => TypeOK
  <1>. SUFFICES ASSUME Init PROVE TypeOK
    OBVIOUS
  <1>1. spent \in 0..MaxUpsets
    BY PluginConstants DEF Init
  <1>2. rmd \in Pools \cup {None} /\ discovered \in Pools \cup {{}}
    BY DEF Init
  <1>. QED
    BY <1>1, <1>2 DEF Init, TypeOK

LEMMA UpsetType ==
  ASSUME TypeOK, Upset PROVE spent' \in 0..MaxUpsets
  BY PluginConstants DEF TypeOK, Upset

\* A process that ends leaves the kubelet without a list, unless an older one serves it.
LEMMA GoneType ==
  ASSUME TypeOK, Gone
  PROVE  /\ pc' = "exited" /\ UNCHANGED <<devices, discovered>>
         /\ stream' \in {"none", "old"}
  BY DEF Gone, TypeOK, kubelet

LEMMA TypeMain == ASSUME TypeOK, Main PROVE TypeOK'
  <1>1. CASE Cleanup
    BY <1>1 DEF Cleanup, TypeOK, kubelet
  <1>2. CASE DiscoverResources
    <2>1. CASE Gone
      BY <1>2, <2>1, GoneType DEF DiscoverResources, TypeOK
    <2>2. CASE /\ rmd # None /\ discovered' = rmd /\ pc' = "listen" /\ UNCHANGED kubelet
      BY <1>2, <2>2 DEF DiscoverResources, TypeOK, kubelet
    <2>. QED
      BY <1>2, <2>1, <2>2 DEF DiscoverResources
  <1>3. CASE Listen
    <2>1. CASE Gone /\ spent' \in 0..MaxUpsets /\ UNCHANGED socket
      BY <1>3, <2>1, GoneType DEF Listen, TypeOK
    <2>2. CASE /\ socket' = "ours" /\ pc' = "dial"
               /\ UNCHANGED <<devices, discovered, kubelet, spent>>
      BY <1>3, <2>2 DEF Listen, TypeOK, kubelet
    <2>3. (IF socket = "none" THEN Upset ELSE UNCHANGED spent) => spent' \in 0..MaxUpsets
      BY UpsetType DEF TypeOK
    <2>. QED
      BY <1>3, <2>1, <2>2, <2>3 DEF Listen
  <1>4. CASE Dial
    <2>1. CASE Gone
      BY <1>4, <2>1, GoneType DEF Dial, TypeOK
    <2>2. CASE pc' = "register" /\ UNCHANGED <<devices, discovered, kubelet, socket>>
      BY <1>4, <2>2 DEF Dial, TypeOK, kubelet
    <2>. QED
      BY <1>4, <2>1, <2>2 DEF Dial
  <1>5. CASE Register
    <2>1. CASE Upset /\ Gone /\ socket' = (IF socket = "ours" THEN "gone" ELSE socket)
      BY <1>5, <2>1, GoneType, UpsetType DEF Register, TypeOK
    <2>2. CASE /\ pc' = "wait" /\ stream' = "due" /\ list' = {}
               /\ UNCHANGED <<devices, discovered, spent, socket>>
      BY <1>5, <2>2 DEF Register, TypeOK
    <2>. QED
      BY <1>5, <2>1, <2>2 DEF Register
  <1>. QED
    BY <1>1, <1>2, <1>3, <1>4, <1>5 DEF Main

LEMMA TypeKubelet ==
  ASSUME TypeOK, KubeletConnects \/ ListAndWatch \/ KubeletRestarts PROVE TypeOK'
  <1>1. CASE KubeletConnects
    BY <1>1 DEF KubeletConnects, TypeOK, process
  <1>2. CASE ListAndWatch
    <2>1. CASE /\ stream' = "listed" /\ list' = DOMAIN devices
               /\ UNCHANGED <<process, socket, harmed, spent>>
      BY <1>2, <2>1 DEF ListAndWatch, TypeOK, process
    <2>2. CASE /\ Upset /\ socket' = "none" /\ harmed' = TRUE /\ stream' = "none" /\ list' = {}
               /\ UNCHANGED <<pc, devices, discovered>>
      BY <1>2, <2>2, UpsetType DEF ListAndWatch, TypeOK
    <2>. QED
      BY <1>2, <2>1, <2>2 DEF ListAndWatch
  <1>3. CASE KubeletRestarts
    BY <1>3, UpsetType DEF KubeletRestarts, TypeOK, process
  <1>. QED
    BY <1>1, <1>2, <1>3

LEMMA TypeEnvironment ==
  ASSUME TypeOK, Terminate \/ Crash \/ Restart \/ PodReplaced \/ OldStops \/ RmdAnswers \/ RmdRestarts
  PROVE  TypeOK'
  <1>1. CASE Terminate
    BY <1>1, GoneType, UpsetType DEF Terminate, TypeOK
  <1>2. CASE Crash
    BY <1>2, GoneType, UpsetType DEF Crash, TypeOK
  <1>3. CASE Restart
    BY <1>3 DEF Restart, TypeOK, kubelet
  <1>4. CASE PodReplaced
    BY <1>4, UpsetType DEF PodReplaced, TypeOK
  <1>5. CASE OldStops
    BY <1>5 DEF OldStops, TypeOK, process, kubelet
  <1>6. CASE RmdAnswers
    BY <1>6 DEF RmdAnswers, TypeOK, process, kubelet
  <1>7. CASE RmdRestarts
    BY <1>7, UpsetType DEF RmdRestarts, TypeOK, process, kubelet
  <1>. QED
    BY <1>1, <1>2, <1>3, <1>4, <1>5, <1>6, <1>7

LEMMA TypeStep == TypeOK /\ [Next]_vars => TypeOK'
  <1>. SUFFICES ASSUME TypeOK, [Next]_vars PROVE TypeOK'
    OBVIOUS
  <1>1. CASE UNCHANGED vars
    BY <1>1 DEF vars, process, kubelet, TypeOK
  <1>2. CASE Next
    BY <1>2, TypeMain, TypeKubelet, TypeEnvironment DEF Next
  <1>. QED
    BY <1>1, <1>2

\* Every reachable state is well typed: the kubelet lists devices only of a
\* process that waits behind its server, and those are the devices it has.
THEOREM TypeCorrect == Spec => []TypeOK
  BY TypeInit, TypeStep, PTL DEF Spec

(***************************************************************************)
(* IDs.                                                                    *)
(***************************************************************************)
LEMMA DigitsType == \A i \in 0..99 : Digits(i) \in Seq(Nat)
  BY DEF Digits

LEMMA DigitsValue ==
  ASSUME NEW i \in 0..99
  PROVE  \/ Len(Digits(i)) = 1 /\ Digits(i)[1] = i
         \/ Len(Digits(i)) = 2 /\ i = 10 * Digits(i)[1] + Digits(i)[2]
  <1>1. CASE i < 10
    <2>1. Digits(i) = <<i>>
      BY <1>1 DEF Digits
    <2>. QED
      BY <2>1
  <1>2. CASE i >= 10
    <2>1. Digits(i) = <<i \div 10, i % 10>>
      BY <1>2 DEF Digits
    <2>2. i = 10 * (i \div 10) + (i % 10)
      OBVIOUS
    <2>. QED
      BY <2>1, <2>2
  <1>. QED
    BY <1>1, <1>2

LEMMA Behind ==
  ASSUME NEW i \in Nat, NEW s \in Seq(Nat), NEW t, t = <<i>> \o s
  PROVE  /\ Len(t) = 1 + Len(s) /\ t[1] = i
         /\ \A j \in 1..Len(s) : t[j + 1] = s[j]
  <1>1. <<i>> \in Seq(Nat) /\ Len(<<i>>) = 1 /\ <<i>>[1] = i
    OBVIOUS
  <1>. QED
    BY <1>1

LEMMA IdType ==
  ASSUME NEW d \in [node : 0..99, way : 0..99], d.node < 10
  PROVE  LET D == Digits(d.way)
         IN /\ Len(Id(d)) = 1 + Len(D) /\ Id(d)[1] = d.node
            /\ \A i \in 1..Len(D) : Id(d)[i + 1] = D[i]
  <1> DEFINE D == Digits(d.way)
  <1>1. Digits(d.node) = <<d.node>>
    BY DEF Digits
  <1>2. D \in Seq(Nat) /\ d.node \in Nat
    <2>1. d.way \in 0..99 /\ d.node \in Nat
      OBVIOUS
    <2>. QED
      BY <2>1, DigitsType, Zenon
  <1>3. Id(d) = <<d.node>> \o D
    BY <1>1 DEF Id
  <1>. HIDE DEF D
  <1>4. Len(Id(d)) = 1 + Len(D) /\ Id(d)[1] = d.node /\ \A i \in 1..Len(D) : Id(d)[i + 1] = D[i]
    BY <1>2, <1>3, Behind
  <1>. QED
    BY <1>4 DEF D

\* Behind a NUMA node of one digit the digits of the way can be told.
LEMMA IdsApart ==
  ASSUME NEW d \in [node : 0..99, way : 0..99], NEW e \in [node : 0..99, way : 0..99],
         d.node < 10, e.node < 10, Id(d) = Id(e)
  PROVE  d = e
  <1> DEFINE D == Digits(d.way)
             E == Digits(e.way)
  <1>1. d.way \in 0..99 /\ e.way \in 0..99
    OBVIOUS
  <1>2. Len(D) \in Nat /\ Len(E) \in Nat
    <2>1. D \in Seq(Nat) /\ E \in Seq(Nat)
      BY <1>1, DigitsType, Zenon
    <2>. QED
      BY <2>1
  <1>3. /\ (Len(D) = 1 /\ D[1] = d.way) \/ (Len(D) = 2 /\ d.way = 10 * D[1] + D[2])
        /\ (Len(E) = 1 /\ E[1] = e.way) \/ (Len(E) = 2 /\ e.way = 10 * E[1] + E[2])
    BY <1>1, DigitsValue
  <1>4. /\ Len(Id(d)) = 1 + Len(D) /\ Id(d)[1] = d.node /\ \A i \in 1..Len(D) : Id(d)[i + 1] = D[i]
    BY IdType
  <1>5. /\ Len(Id(d)) = 1 + Len(E) /\ Id(d)[1] = e.node /\ \A i \in 1..Len(E) : Id(d)[i + 1] = E[i]
    BY IdType
  <1>. HIDE DEF D, E
  <1>6. d.node = e.node /\ Len(D) = Len(E)
    BY <1>2, <1>4, <1>5
  <1>7. \A i \in 1..Len(D) : D[i] = E[i]
    BY <1>4, <1>5, <1>6
  <1>8. d.way = e.way
    BY <1>3, <1>6, <1>7
  <1>. QED
    BY <1>6, <1>8

\* The devices of a process are those of the pool it found: each of its ways has
\* an ID, and each ID is that of one of its ways and has that way's NUMA node.
Serving == pc \in {"listen", "dial", "register", "wait"}

OfPool ==
  Serving =>
    /\ \A d \in discovered : Id(d) \in DOMAIN devices
    /\ \A id \in DOMAIN devices : \E d \in discovered : Id(d) = id /\ d.node = devices[id]

LEMMA OfPoolStep == TypeOK /\ OfPool /\ [Next]_vars => OfPool'
  <1>. SUFFICES ASSUME TypeOK, OfPool, [Next]_vars PROVE OfPool'
    OBVIOUS
  <1>1. ASSUME UNCHANGED <<devices, discovered>>, Serving' => Serving PROVE OfPool'
    BY <1>1 DEF OfPool
  <1>2. ASSUME ~Serving' PROVE OfPool'
    BY <1>2 DEF OfPool
  <1>3. CASE UNCHANGED vars
    BY <1>1, <1>3 DEF vars, process, Serving
  <1>4. CASE Cleanup \/ Restart \/ PodReplaced \/ Terminate \/ Crash
    BY <1>2, <1>4 DEF Cleanup, Restart, PodReplaced, Terminate, Crash, Gone, Serving
  <1>5. CASE DiscoverResources
    <2>1. CASE rmd = None
      BY <1>2, <1>5, <2>1 DEF DiscoverResources, Gone, Serving
    <2>2. CASE rmd # None
      BY <1>5, <2>2 DEF DiscoverResources, OfPool
    <2>. QED
      BY <2>1, <2>2
  <1>6. CASE Listen
    BY <1>1, <1>6 DEF Listen, Gone, Serving
  <1>7. CASE Dial \/ Register
    BY <1>1, <1>7 DEF Dial, Register, Gone, Serving
  <1>8. CASE KubeletConnects \/ ListAndWatch \/ KubeletRestarts \/ OldStops \/ RmdAnswers \/ RmdRestarts
    BY <1>1, <1>8 DEF KubeletConnects, ListAndWatch, KubeletRestarts, OldStops, RmdAnswers, RmdRestarts,
                      process, Serving
  <1>. QED
    BY <1>3, <1>4, <1>5, <1>6, <1>7, <1>8 DEF Next, Main

\* main.go:193: as long as NUMA nodes have one digit, an ID names one way of one
\* cache and the plugin tells that cache's NUMA node.
THEOREM WaysKeptApart == Spec => []WaysApart
  <1>1. Init => OfPool
    BY DEF Init, OfPool, Serving
  <1>2. TypeOK /\ OfPool => WaysApart
    <2>. SUFFICES ASSUME TypeOK, OfPool, Serving, \A d \in discovered : d.node < 10,
                         NEW d \in discovered, NEW e \in discovered
                  PROVE  /\ Id(d) \in DOMAIN devices /\ devices[Id(d)] = d.node
                         /\ d # e => Id(d) # Id(e)
      BY DEF WaysApart, Serving
    <2>1. discovered \subseteq [node : 0..99, way : 0..99]
      BY PluginConstants DEF TypeOK
    <2>2. Id(d) \in DOMAIN devices
      BY DEF OfPool
    <2>3. PICK f \in discovered : Id(f) = Id(d) /\ f.node = devices[Id(d)]
      BY <2>2 DEF OfPool
    <2>4. f = d
      BY <2>1, <2>3, IdsApart
    <2>5. d # e => Id(d) # Id(e)
      BY <2>1, IdsApart
    <2>. QED
      BY <2>2, <2>3, <2>4, <2>5
  <1>. QED
    BY <1>1, <1>2, TypeInit, TypeStep, OfPoolStep, PTL DEF Spec

(***************************************************************************)
(* Reach.                                                                  *)
(***************************************************************************)
\* A process registers while its own socket is there.
AtSocket == pc = "register" /\ ~harmed => socket = "ours"

LEMMA DevicesFound ==
  ASSUME OfPool, Serving PROVE DOMAIN devices = {Id(d) : d \in discovered}
  BY DEF OfPool

LEMMA ReachMain ==
  ASSUME TypeOK, AtSocket, InReach, Main PROVE AtSocket' /\ InReach'
  <1>1. CASE Cleanup
    BY <1>1 DEF Cleanup, AtSocket, InReach, Serving
  <1>2. CASE DiscoverResources
    BY <1>2 DEF DiscoverResources, Gone, AtSocket, InReach, Serving
  <1>3. CASE Listen
    BY <1>3 DEF Listen, Gone, AtSocket, InReach, Serving
  <1>4. CASE Dial
    BY <1>4 DEF Dial, Gone, AtSocket, InReach, Serving
  <1>5. CASE Register
    BY <1>5 DEF Register, Gone, AtSocket, InReach, Serving
  <1>. QED
    BY <1>1, <1>2, <1>3, <1>4, <1>5 DEF Main

LEMMA ReachKubelet ==
  ASSUME TypeOK, OfPool, AtSocket, InReach, KubeletConnects \/ ListAndWatch \/ KubeletRestarts
  PROVE  AtSocket' /\ InReach'
  <1>1. CASE KubeletConnects
    BY <1>1 DEF KubeletConnects, AtSocket, InReach, Serving, Advertised, process, TypeOK
  <1>2. CASE ListAndWatch
    <2>1. pc = "wait" /\ Serving
      BY <1>2 DEF ListAndWatch, TypeOK, Serving
    <2>2. DOMAIN devices = {Id(d) : d \in discovered}
      BY <2>1, DevicesFound
    <2>. QED
      BY <1>2, <2>1, <2>2 DEF ListAndWatch, AtSocket, InReach, Serving, Advertised, process
  <1>3. CASE KubeletRestarts
    BY <1>3 DEF KubeletRestarts, AtSocket, InReach, Serving, process
  <1>. QED
    BY <1>1, <1>2, <1>3

LEMMA ReachEnvironment ==
  ASSUME TypeOK, AtSocket, InReach,
         Terminate \/ Crash \/ Restart \/ PodReplaced \/ OldStops \/ RmdAnswers \/ RmdRestarts
  PROVE  AtSocket' /\ InReach'
  <1>1. CASE Terminate \/ Crash \/ Restart \/ PodReplaced
    BY <1>1 DEF Terminate, Crash, Restart, PodReplaced, Gone, AtSocket, InReach, Serving
  <1>2. CASE OldStops
    BY <1>2 DEF OldStops, AtSocket, InReach, Serving, Advertised, process, kubelet
  <1>3. CASE RmdAnswers \/ RmdRestarts
    BY <1>3 DEF RmdAnswers, RmdRestarts, AtSocket, InReach, Serving, Advertised, process, kubelet
  <1>. QED
    BY <1>1, <1>2, <1>3

\* A process that waits and was not cut off is advertised, is being asked for its
\* devices, or still has the socket through which the kubelet will ask: Start has
\* reached it through that socket, and who removes it later cuts the process off.
THEOREM NeverPastHelping == Spec => []InReach
  <1>1. Init => OfPool /\ AtSocket /\ InReach
    BY DEF Init, OfPool, AtSocket, InReach, Serving
  <1>2. TypeOK /\ OfPool /\ AtSocket /\ InReach /\ [Next]_vars => AtSocket' /\ InReach'
    <2>1. CASE UNCHANGED vars
      BY <2>1 DEF vars, process, kubelet, AtSocket, InReach, Serving, Advertised
    <2>. QED
      BY <2>1, ReachMain, ReachKubelet, ReachEnvironment DEF Next
  <1>. QED
    BY <1>1, <1>2, TypeInit, TypeStep, OfPoolStep, PTL DEF Spec
=============================================================================
