---------------------------- MODULE RmdNodeData ----------------------------
(***************************************************************************)
(* RmdNodeData (pkg/state/state.go): the list of RMD nodes that the three  *)
(* controllers of the operator share without a lock.  The RmdConfig        *)
(* controller calls UpdateRmdNodeData, the RmdNodeState controller calls   *)
(* DeleteRmdNodeData, the RmdWorkload controller ranges over the list with *)
(* requests to RMD in between.  Each runs in a goroutine of its own.       *)
(*                                                                         *)
(* The list is a Go slice: a header (array, len) over a backing array that *)
(* other headers may share.  range takes the header once; append writes    *)
(* into the array while there is room and moves to one of twice the size   *)
(* when there is not.  Loads and stores of one element or one header are   *)
(* the atomic steps (torn headers are left out), and so is a copy: append  *)
(* moves the elements to the new array, or the tail of the list by one     *)
(* place, with one memmove, in the middle of which no other goroutine is   *)
(* seen to read.                                                           *)
(***************************************************************************)
EXTENDS Naturals, Sequences, FiniteSets

CONSTANTS
  Nodes,        \* node names
  Free,         \* an array slot nothing was written to
  MaxUpdates,   \* calls of UpdateRmdNodeData
  MaxDeletes,   \* calls of DeleteRmdNodeData
  MaxScans      \* loops of the RmdWorkload controller

ASSUME NodeDataConstants ==
  Free \notin Nodes /\ MaxUpdates \in Nat /\ MaxDeletes \in Nat /\ MaxScans \in Nat

Threads == {"update", "delete", "scan"}

VARIABLES
  heap,       \* the backing arrays, oldest first, each a sequence of slots
  list,       \* nd.RmdNodeList: [arr |-> index in heap, len |-> length]
  thread,     \* where each goroutine is
  visited,    \* the nodes the current or last loop has seen
  panicked,   \* an index was out of range: the operator process dies
  calls,      \* calls made so far, per thread
  \* history, for the properties
  members,    \* the set the calls made so far should leave behind
  raced,      \* has an Update ever overlapped a Delete?
  unsure,     \* nodes whose last Update and last Delete overlapped
  wanted,     \* the nodes in the list when the last loop began
  deleted     \* the nodes whose Delete overlapped that loop

history == <<members, raced, unsure, wanted, deleted>>
vars == <<heap, list, thread, visited, panicked, calls, history>>

(***************************************************************************)
(* Slices.                                                                 *)
(***************************************************************************)
Header == [arr : Nat, len : Nat]
Slot(h, i) == heap[h.arr][i]
Cap(h) == Len(heap[h.arr])
Elements(h) == {Slot(h, i) : i \in 1..h.len}

\* The slot that range looks at next.
Current(t) == Slot(thread[t].range, thread[t].i)
AtEnd(t) == thread[t].i > thread[t].range.len

\* A goroutine in a loop over the slice h, about the node n.
NoSlice == [arr |-> 1, len |-> 0]
Loop(pc, n, h) == [pc |-> pc, node |-> n, range |-> h, i |-> 1, hold |-> NoSlice]
Idle == Loop("idle", Free, NoSlice)

Goes(t, pc) == thread' = [thread EXCEPT ![t].pc = pc]
Returns(t) == thread' = [thread EXCEPT ![t] = Idle]
Next1(t) == thread' = [thread EXCEPT ![t].i = @ + 1, ![t].pc = "range"]

At(t, pc) == ~panicked /\ thread[t].pc = pc

\* NewRmdNodeData: an empty slice over an empty array.
Init ==
  /\ heap = << <<>> >>
  /\ list = NoSlice
  /\ thread = [t \in Threads |-> Idle]
  /\ visited = {} /\ panicked = FALSE
  /\ calls = [t \in Threads |-> 0]
  /\ members = {} /\ raced = FALSE /\ unsure = {} /\ wanted = {} /\ deleted = {}

\* A loop starts: range takes the header that the list has now.
Begin(t, n) ==
  /\ At(t, "idle")
  /\ calls' = [calls EXCEPT ![t] = @ + 1]
  /\ thread' = [thread EXCEPT ![t] = Loop("range", n, list)]

\* A call for n begins: does it overlap a call of the other kind?
Overlaps(other, n) ==
  /\ raced' = (raced \/ thread[other].pc # "idle")
  /\ unsure' = IF thread[other].pc # "idle" /\ thread[other].node = n
               THEN unsure \cup {n} ELSE unsure \ {n}

(***************************************************************************)
(* UpdateRmdNodeData(nodeName).                                            *)
(***************************************************************************)
CallUpdate(n) ==
  /\ calls["update"] < MaxUpdates
  /\ Begin("update", n)
  /\ members' = members \cup {n}
  /\ Overlaps("delete", n)
  /\ UNCHANGED <<heap, list, visited, panicked, wanted, deleted>>

UpdateSkipsLook ==   \* wrong: does not look for the node it appends
  /\ At("update", "range")
  /\ Goes("update", "load")
  /\ UNCHANGED <<heap, list, visited, panicked, calls, history>>

UpdateLooks ==
  /\ At("update", "range")
  /\ \/ AtEnd("update") /\ Goes("update", "load")
     \/ ~AtEnd("update") /\ Current("update") = thread["update"].node /\ Returns("update")
     \/ ~AtEnd("update") /\ Current("update") # thread["update"].node /\ Next1("update")
  /\ UNCHANGED <<heap, list, visited, panicked, calls, history>>

\* append: load the header again ...
UpdateLoads ==
  /\ At("update", "load")
  /\ thread' = [thread EXCEPT !["update"].hold = list, !["update"].pc = "write"]
  /\ UNCHANGED <<heap, list, visited, panicked, calls, history>>

\* ... write behind the last element, in place or in a copy twice as large ...
Grown(h, n) ==
  LET size == IF Cap(h) = 0 THEN 1 ELSE 2 * Cap(h)
  IN [i \in 1..size |-> IF i <= h.len THEN Slot(h, i) ELSE IF i = h.len + 1 THEN n ELSE Free]

UpdateWritesPast ==   \* wrong: takes a full array for one with room
  /\ At("update", "write")
  /\ LET h == thread["update"].hold
         n == thread["update"].node
     IN IF h.len <= Cap(h)
        THEN /\ heap' = [heap EXCEPT ![h.arr][h.len + 1] = n]
             /\ thread' = [thread EXCEPT !["update"].hold.len = @ + 1, !["update"].pc = "store"]
        ELSE FALSE
  /\ UNCHANGED <<list, visited, panicked, calls, history>>

UpdateWrites ==
  /\ At("update", "write")
  /\ LET h == thread["update"].hold
         n == thread["update"].node
     IN IF h.len < Cap(h)
        THEN /\ heap' = [heap EXCEPT ![h.arr][h.len + 1] = n]
             /\ thread' = [thread EXCEPT !["update"].hold.len = @ + 1, !["update"].pc = "store"]
        ELSE /\ heap' = Append(heap, Grown(h, n))
             /\ thread' = [thread EXCEPT
                  !["update"].hold = [arr |-> Len(heap) + 1, len |-> h.len + 1],
                  !["update"].pc = "store"]
  /\ UNCHANGED <<list, visited, panicked, calls, history>>

\* ... and store the new header.
UpdateStores ==
  /\ At("update", "store")
  /\ list' = thread["update"].hold
  /\ Returns("update")
  /\ UNCHANGED <<heap, visited, panicked, calls, history>>

(***************************************************************************)
(* DeleteRmdNodeData(nodeName): no break, the loop goes on over the header *)
(* it started with, whose array it has shifted.                            *)
(***************************************************************************)
CallDelete(n) ==
  /\ calls["delete"] < MaxDeletes
  /\ Begin("delete", n)
  /\ members' = members \ {n}
  /\ Overlaps("update", n)
  /\ deleted' = IF thread["scan"].pc = "idle" THEN deleted ELSE deleted \cup {n}
  /\ UNCHANGED <<heap, list, visited, panicked, wanted>>

DeleteLooks ==
  /\ At("delete", "range")
  /\ \/ AtEnd("delete") /\ Returns("delete")
     \/ ~AtEnd("delete") /\ Current("delete") = thread["delete"].node /\ Goes("delete", "load")
     \/ ~AtEnd("delete") /\ Current("delete") # thread["delete"].node /\ Next1("delete")
  /\ UNCHANGED <<heap, list, visited, panicked, calls, history>>

\* RmdNodeList[:index] and RmdNodeList[index+1:], with index counted from 0,
\* of the list as it is now: out of range when it has become too short.
DeleteLoads ==
  /\ At("delete", "load")
  /\ IF thread["delete"].i <= list.len
     THEN /\ thread' = [thread EXCEPT !["delete"].hold = list, !["delete"].pc = "shift"]
          /\ UNCHANGED panicked
     ELSE panicked' = TRUE /\ UNCHANGED thread
  /\ UNCHANGED <<heap, list, visited, calls, history>>

\* append copies the tail over the element, in the array all headers share.
DeleteShiftsAndClears ==   \* wrong: empties the slot behind the tail, as slices.Delete does
  /\ At("delete", "shift")
  /\ LET h == thread["delete"].hold
         i == thread["delete"].i
     IN heap' = [heap EXCEPT ![h.arr] =
                   [j \in DOMAIN @ |-> IF j \in i..(h.len - 1) THEN @[j + 1]
                                       ELSE IF j = h.len THEN Free ELSE @[j]]]
  /\ Goes("delete", "store")
  /\ UNCHANGED <<list, visited, panicked, calls, history>>

DeleteShifts ==
  /\ At("delete", "shift")
  /\ LET h == thread["delete"].hold
         i == thread["delete"].i
     IN heap' = [heap EXCEPT ![h.arr] =
                   [j \in DOMAIN @ |-> IF j \in i..(h.len - 1) THEN @[j + 1] ELSE @[j]]]
  /\ Goes("delete", "store")
  /\ UNCHANGED <<list, visited, panicked, calls, history>>

DeleteStoresUncut ==   \* wrong: the list stays as long as it was
  /\ At("delete", "store")
  /\ list' = thread["delete"].hold
  /\ Next1("delete")
  /\ UNCHANGED <<heap, visited, panicked, calls, history>>

DeleteStores ==
  /\ At("delete", "store")
  /\ list' = [thread["delete"].hold EXCEPT !.len = @ - 1]
  /\ Next1("delete")
  /\ UNCHANGED <<heap, visited, panicked, calls, history>>

(***************************************************************************)
(* The loops of the RmdWorkload controller: one request to RMD, or one     *)
(* lookup of a Node, per element.                                          *)
(***************************************************************************)
CallScan ==
  /\ calls["scan"] < MaxScans
  /\ Begin("scan", Free)
  /\ visited' = {}
  /\ wanted' = Elements(list)
  /\ deleted' = IF thread["delete"].pc = "idle" THEN {} ELSE {thread["delete"].node}
  /\ UNCHANGED <<heap, list, panicked, members, raced, unsure>>

ScanLooks ==
  /\ At("scan", "range")
  /\ \/ AtEnd("scan") /\ Returns("scan") /\ UNCHANGED visited
     \/ ~AtEnd("scan") /\ visited' = visited \cup {Current("scan")} /\ Next1("scan")
  /\ UNCHANGED <<heap, list, panicked, calls, history>>

Next ==
  \/ \E n \in Nodes : CallUpdate(n) \/ CallDelete(n)
  \/ CallScan
  \/ UpdateLooks \/ UpdateLoads \/ UpdateWrites \/ UpdateStores
  \/ DeleteLooks \/ DeleteLoads \/ DeleteShifts \/ DeleteStores
  \/ ScanLooks

Spec == Init /\ [][Next]_vars

(***************************************************************************)
(* Properties.                                                             *)
(***************************************************************************)
Settled == thread["update"].pc = "idle" /\ thread["delete"].pc = "idle"

\* Types: every header points into an array that is large enough for it.
Fits(h) == h \in Header /\ h.arr \in DOMAIN heap /\ h.len <= Cap(h)

Goroutine == [pc : {"idle", "range", "load", "write", "shift", "store"},
              node : Nodes \cup {Free}, range : Header, i : Nat \ {0}, hold : Header]

TypeOK ==
  /\ heap \in Seq(Seq(Nodes \cup {Free}))
  /\ Fits(list)
  /\ thread \in [Threads -> Goroutine]
  /\ \A t \in Threads : Fits(thread[t].range) /\ Fits(thread[t].hold)
  /\ visited \subseteq Nodes \cup {Free} /\ panicked \in BOOLEAN
  /\ members \cup unsure \subseteq Nodes /\ wanted \subseteq Nodes \cup {Free} /\ deleted \subseteq Nodes
  /\ raced \in BOOLEAN

\* What keeps it so: a deletion that has loaded the list is at one of its elements.
Deleting == thread["delete"]
Updating == thread["update"]

IndexHeld ==
  /\ Deleting.pc \in {"shift", "store"} => Deleting.i <= Deleting.hold.len
  /\ Deleting.pc # "write" /\ Updating.pc # "shift"
  /\ \A g \in {Updating, Deleting} : g.pc # "idle" => g.node \in Nodes

\* The list is the set of nodes added and not deleted, each of them once, and no
\* index was out of range.
IsMembers == Elements(list) = members /\ list.len = Cardinality(members)

\* As long as no UpdateRmdNodeData has overlapped a DeleteRmdNodeData, the list
\* is the set it stands for, whatever arrays the slices share and although
\* DeleteRmdNodeData goes on over an array that it has shifted.
SequentialIsSet == ~raced => ~panicked /\ (Settled => IsMembers)

\* What keeps it so, in the middle of a call.  h lists the set s, each node once.
Distinct(h) == \A i, j \in 1..h.len : Slot(h, i) = Slot(h, j) => i = j
Lists(h, s) == Elements(h) = s /\ Distinct(h)

\* An Update knows that its node is not in what it has seen of the list ...
Misses(h, n, from, to) == \A j \in 1..h.len : j \in from..to => Slot(h, j) # n

UpdateInv ==
  Updating.pc # "idle" =>
    /\ Distinct(list) /\ members = Elements(list) \cup {Updating.node}
    /\ Updating.pc = "range" =>
         /\ Updating.range = list
         /\ Misses(list, Updating.node, 1, Updating.i - 1)
    /\ Updating.pc \in {"load", "write"} => Updating.node \notin Elements(list)
    /\ Updating.pc = "write" => Updating.hold = list
    /\ Updating.pc = "store" => Lists(Updating.hold, members)

\* ... and a Delete either that, or that it is not in what it has still to see,
\* of an array in which the last element is there twice.
Searching ==
  /\ Deleting.range = list /\ Distinct(list)
  /\ members = Elements(list) \ {Deleting.node}

Through ==
  /\ Deleting.range = [list EXCEPT !.len = @ + 1]
  /\ Lists(list, members)
  /\ Misses(Deleting.range, Deleting.node, Deleting.i, Deleting.range.len)

DeleteInv ==
  /\ Deleting.pc = "range" =>
       \/ Searching /\ Misses(list, Deleting.node, 1, Deleting.i - 1)
       \/ Through
  /\ Deleting.pc \in {"load", "shift"} =>
       /\ Searching
       /\ Deleting.i <= list.len /\ Slot(list, Deleting.i) = Deleting.node
  /\ Deleting.pc \in {"shift", "store"} => Deleting.hold = list
  /\ Deleting.pc = "store" =>
       /\ Deleting.range = list
       /\ Lists([list EXCEPT !.len = @ - 1], members)
       /\ Misses(list, Deleting.node, Deleting.i + 1, list.len)

ListInv ==
  /\ IndexHeld
  /\ ~raced =>
       /\ ~panicked
       /\ Updating.pc = "idle" \/ Deleting.pc = "idle"
       /\ Settled => Lists(list, members)
       /\ UpdateInv /\ DeleteInv

\* The two calls as steps of a set: an Update changes the list when it returns, a
\* Delete before it returns, and every other load and store leaves the elements be.
Busy(t) == IF thread[t].pc = "idle" THEN Free ELSE thread[t].node

Set == INSTANCE NodeSet WITH
         None <- Free,
         nodes <- Elements(list),
         adding <- Busy("update"),
         removing <- Busy("delete"),
         overlapped <- raced

ImplementsSet == Set!Spec

\* A loop of the RmdWorkload controller never visits a slot nothing was written
\* to and, as long as no Update overlapped a Delete, misses little: each Delete
\* that overlaps the loop hides at most one node besides its own.  (A race may
\* leave a node twice in the list, and a Delete of it hides two others.)
Scanning == thread["scan"]

ScanMissesLittle ==
  /\ Free \notin visited
  /\ ~raced /\ Scanning.pc = "idle" =>
       Cardinality(wanted \ (visited \cup deleted)) <= Cardinality(deleted)

\* What keeps it so.  Of the nodes that stay, those that are not ahead of the loop
\* are missed; as long as the loop's array is still the list's, there are no more of
\* them than Deletes that have done their harm: whose node has none of those that
\* stay behind it, and so can shift none of them any more.
Stays == wanted \ deleted

Live == [list EXCEPT !.len = IF Deleting.pc = "store" THEN @ - 1 ELSE @]

Shared == list.arr = Scanning.range.arr

ScanEnd == IF Shared /\ Live.len < Scanning.range.len THEN Live.len ELSE Scanning.range.len

InRange(from) == {Slot(Scanning.range, j) : j \in from..ScanEnd}

Missed == Stays \ (visited \cup InRange(Scanning.i))

Before(d, e) == \E j, k \in 1..Live.len : j < k /\ Slot(list, j) = d /\ Slot(list, k) = e

Done == {d \in deleted : \A e \in Stays : ~Before(d, e)}

NoneFree ==
  /\ Free \notin visited \cup Elements(list)
  /\ \A t \in Threads : Free \notin Elements(thread[t].range) \cup Elements(thread[t].hold)

ScanInv ==
  /\ NoneFree
  /\ IsFiniteSet(deleted) /\ IsFiniteSet(wanted)
  /\ Scanning.pc \in {"idle", "range"}
  /\ ~raced =>
       IF Scanning.pc = "idle"
       THEN Cardinality(wanted \ (visited \cup deleted)) <= Cardinality(deleted)
       ELSE /\ Deleting.pc # "idle" => Deleting.node \in deleted
            /\ Updating.pc = "store" /\ Updating.hold.arr = Scanning.range.arr => Shared
            /\ Shared => Stays \subseteq InRange(1)
            /\ Cardinality(Missed) <= Cardinality(IF Shared THEN Done ELSE deleted)

\* What the comments of state.go:15 and state.go:25 promise of the two calls when
\* the controllers make them from goroutines of their own: between calls the list
\* holds every node added last and no node deleted last, once each (a node both of
\* whose calls overlapped may be in or out).
AlwaysSet ==
  /\ ~panicked
  /\ Settled => /\ Elements(list) \ unsure = members \ unsure
                /\ list.len = Cardinality(Elements(list))
=============================================================================
