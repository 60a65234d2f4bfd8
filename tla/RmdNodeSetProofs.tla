-------------------------- MODULE RmdNodeSetProofs --------------------------
(***************************************************************************)
(* The shared list of nodes implements a set, and what a loop over it that *)
(* deletions overlap may miss, for every set of nodes and any number of    *)
(* calls and loops.                                                        *)
(***************************************************************************)
EXTENDS RmdNodeDataProofs

(***************************************************************************)
(* What the writes do to the slots.                                        *)
(***************************************************************************)
\* An append writes one slot of an array that was there, or makes a new array.
LEMMA WriteSlots ==
  ASSUME Typed, UpdateWrites
  PROVE  LET h == Updating.hold
             k == Updating.hold'
             n == Updating.node
         IN /\ Fits(h) /\ h.len \in Nat /\ k.len = h.len + 1 /\ n \in Nodes
            /\ k.arr = h.arr \/ k.arr = Len(heap) + 1
            /\ \A j \in 1..h.len : heap'[k.arr][j] = Slot(h, j)
            /\ heap'[k.arr][k.len] = n
            /\ \A a \in DOMAIN heap, i \in Nat :
                 \/ heap'[a][i] = heap[a][i]
                 \/ a = h.arr /\ i = h.len + 1 /\ heap'[a][i] = n
  <1> DEFINE n == Updating.node
  <1>1. PICK h : h = Updating.hold
    OBVIOUS
  <1>2. PICK k : k = Updating.hold'
    OBVIOUS
  <1>3. Fits(h) /\ h.len \in Nat /\ n \in Nodes /\ h.arr \in DOMAIN heap
    BY <1>1, WritesTo DEF Fits
  <1>. HIDE DEF n
  <1>4. CASE /\ h.len < Cap(h) /\ k = [arr |-> h.arr, len |-> h.len + 1]
             /\ heap' = [heap EXCEPT ![h.arr][h.len + 1] = n]
    <2>1. /\ heap'[h.arr][h.len + 1] = n
          /\ \A a \in DOMAIN heap, i \in Nat : a # h.arr \/ i # h.len + 1 => heap'[a][i] = heap[a][i]
      BY <1>3, <1>4, PutType DEF Content
    <2>2. \A j \in 1..h.len : j \in Nat /\ j # h.len + 1
      BY <1>3
    <2>3. k.arr = h.arr /\ k.len = h.len + 1
      BY <1>4
    <2>. QED
      BY <1>1, <1>2, <1>3, <2>1, <2>2, <2>3 DEF Slot, n
  <1>5. CASE /\ h.len = Cap(h) /\ k = [arr |-> Len(heap) + 1, len |-> h.len + 1]
             /\ heap' = Append(heap, Grown(h, n))
    <2>1. /\ heap'[Len(heap) + 1] = Grown(h, n)
          /\ \A a \in DOMAIN heap : heap'[a] = heap[a]
      BY <1>3, <1>5, GrowType
    <2>2. /\ Grown(h, n)[h.len + 1] = n
          /\ \A j \in 1..h.len : Grown(h, n)[j] = Slot(h, j)
      BY <1>3, GrownType DEF Typed
    <2>3. k.arr = Len(heap) + 1 /\ k.len = h.len + 1
      BY <1>5
    <2>. QED
      BY <1>1, <1>2, <1>3, <2>1, <2>2, <2>3 DEF n
  <1>. QED
    BY <1>1, <1>2, <1>4, <1>5, WritesTo DEF n

\* A shift, seen from the list, which is what an undisturbed deletion has loaded.
LEMMA ShiftSlots ==
  ASSUME Typed, Sound, ~raced, DeleteShifts
  PROVE  /\ Deleting.hold = list /\ Deleting.range = list /\ Distinct(list)
         /\ members = Elements(list) \ {Deleting.node}
         /\ Fits(list) /\ list.len \in Nat /\ Deleting.i \in 1..list.len
         /\ Slot(list, Deleting.i) = Deleting.node
         /\ \A a \in DOMAIN heap : a # list.arr => heap'[a] = heap[a]
         /\ \A j \in 1..list.len :
              Slot(list, j)' = IF j \in Deleting.i..(list.len - 1) THEN Slot(list, j + 1) ELSE Slot(list, j)
  <1>1. Deleting.pc = "shift"
    BY DEF DeleteShifts, At, Deleting
  <1>2. DeleteInv
    BY <1>1, DeleteAlone
  <1>3. /\ Deleting.hold = list /\ Deleting.range = list /\ Distinct(list)
        /\ members = Elements(list) \ {Deleting.node} /\ Slot(list, Deleting.i) = Deleting.node
    BY <1>1, <1>2 DEF DeleteInv, Searching
  <1>4. list' = list
    BY DEF DeleteShifts
  <1>5. list.len \in Nat
    BY DEF Typed, TypeOK, Fits, Header
  <1>. QED
    BY <1>3, <1>4, <1>5, ShiftType DEF Slot

(***************************************************************************)
(* The set.                                                                *)
(***************************************************************************)
\* Of a Delete that nothing races, the node is no member any more, and all that it
\* may still have to take out of the list.
Leaves ==
  ~raced /\ Deleting.pc # "idle" =>
    Deleting.node \notin members /\ Elements(list) \subseteq members \cup {Deleting.node}

LEMMA LeavesInit == Init => Leaves
  BY DEF Init, Leaves, Deleting, Idle, Loop, Threads

\* What a step of the deletion makes of the list.
LEMMA StoreElements ==
  ASSUME Typed, Sound, ~raced, DeleteStores
  PROVE  Elements(list)' = members /\ Elements(list)' \subseteq Elements(list)
  <1> DEFINE k == [list EXCEPT !.len = @ - 1]
  <1>1. Deleting.pc = "store" /\ list \in Header /\ list.len \in Nat
    BY DEF DeleteStores, At, Deleting, Typed, TypeOK, Fits, Header
  <1>2. Deleting.hold = list /\ Lists(k, members)
    BY <1>1, DeleteAlone DEF DeleteInv
  <1>3. list' = k /\ heap' = heap
    BY <1>2 DEF DeleteStores, Deleting
  <1>4. k.arr = list.arr /\ k.len = list.len - 1
    BY <1>1, Resized
  <1>. HIDE DEF k
  <1>5. Elements(list)' = Elements(k)
    BY <1>3 DEF Elements, Slot
  <1>6. 1..k.len \subseteq 1..list.len
    BY <1>1, <1>4
  <1>7. Elements(k) \subseteq Elements(list)
    BY <1>4, <1>6 DEF Elements, Slot
  <1>. QED
    BY <1>2, <1>5, <1>7 DEF Lists

LEMMA ShiftElements ==
  ASSUME Typed, Sound, ~raced, DeleteShifts
  PROVE  \/ Elements(list)' = Elements(list)
         \/ Elements(list)' = Elements(list) \ {Deleting.node}
  <1> DEFINE n == Deleting.node
             i == Deleting.i
             l == list.len
  <1>1. /\ Distinct(list) /\ l \in Nat /\ i \in 1..l /\ Slot(list, i) = n
        /\ \A j \in 1..l : Slot(list, j)' = IF j \in i..(l - 1) THEN Slot(list, j + 1) ELSE Slot(list, j)
    BY ShiftSlots
  <1>2. list' = list
    BY DEF DeleteShifts
  <1>3. Elements(list)' = {Slot(list, j)' : j \in 1..l} /\ Elements(list) = {Slot(list, j) : j \in 1..l}
    BY <1>2 DEF Elements, Slot
  <1>4. \A j, k \in 1..l : Slot(list, j) = Slot(list, k) => j = k
    BY <1>1 DEF Distinct
  <1>. HIDE DEF n, i, l
  <1>5. CASE i = l
    <2>1. \A j \in 1..l : Slot(list, j)' = Slot(list, j)
      BY <1>1, <1>5
    <2>. QED
      BY <1>3, <2>1
  <1>6. CASE i # l
    <2>1. ASSUME NEW j \in 1..l
          PROVE  Slot(list, j)' \in Elements(list) \ {n}
      <3> DEFINE J == IF j \in i..(l - 1) THEN j + 1 ELSE j
      <3>1. J \in 1..l /\ J # i
        BY <1>1, <1>6
      <3>2. Slot(list, j)' = Slot(list, J)
        BY <1>1
      <3>. HIDE DEF J
      <3>. QED
        BY <1>1, <1>3, <1>4, <3>1, <3>2
    <2>2. ASSUME NEW x \in Elements(list) \ {n}
          PROVE  \E p \in 1..l : Slot(list, p)' = x
      <3>1. PICK q \in 1..l : Slot(list, q) = x
        BY <1>3
      <3>2. q # i
        BY <1>1, <3>1
      <3>3. PICK p \in 1..l : IF p \in i..(l - 1) THEN p + 1 = q ELSE p = q
        <4>1. CASE q < i
          BY <1>1, <4>1
        <4>2. CASE i < q
          <5>1. q - 1 \in 1..l /\ q - 1 \in i..(l - 1) /\ (q - 1) + 1 = q
            BY <1>1, <4>2
          <5>. QED
            BY <5>1
        <4>. QED
          BY <1>1, <3>2, <4>1, <4>2
      <3>4. Slot(list, p)' = x
        BY <1>1, <3>1, <3>3
      <3>. QED
        BY <3>4
    <2>. QED
      BY <1>3, <2>1, <2>2 DEF n
  <1>. QED
    BY <1>5, <1>6

\* An append leaves the elements of the list as they are until it is stored.
LEMMA WriteElements ==
  ASSUME Typed, Sound, ~raced, UpdateWrites
  PROVE  Elements(list)' = Elements(list)
  <1>1. Updating.pc = "write"
    BY DEF UpdateWrites, At, Updating
  <1>2. Updating.hold = list
    BY <1>1, UpdateAlone DEF UpdateInv
  <1>3. Fits(list) /\ list.len \in Nat /\ list.arr \in DOMAIN heap /\ list' = list
    BY <1>2, WriteSlots DEF Fits, UpdateWrites
  <1>4. \A j \in 1..list.len : heap'[list.arr][j] = heap[list.arr][j]
    <2>1. \A j \in 1..list.len : j \in Nat /\ j # list.len + 1
      BY <1>3
    <2>. QED
      BY <1>2, <1>3, <2>1, WriteSlots
  <1>. QED
    BY <1>3, <1>4 DEF Elements, Slot

LEMMA LeavesStep ==
  ASSUME Typed, Typed', Sound, Sound', Leaves, [Next]_vars PROVE Leaves'
  <1>. SUFFICES ASSUME ~raced', Deleting.pc' # "idle"
                PROVE  Leaves'
    BY DEF Leaves
  <1>1. DeleteInv' /\ TypeOK
    BY DeleteAlone DEF Typed, Sound
  <1>2. ~raced
    BY DEF Next, vars, history, CallUpdate, CallDelete, CallScan, Overlaps, UpdateLooks, UpdateLoads,
           UpdateWrites, UpdateStores, DeleteLooks, DeleteLoads, DeleteShifts, DeleteStores, ScanLooks
  <1>3. ASSUME NEW n \in Nodes, CallDelete(n) PROVE Leaves'
    <2>1. Deleting.pc' = "range" /\ Deleting.node' = n /\ members' = members \ {n}
      BY <1>3, BeginsTo DEF CallDelete, Threads, Deleting
    <2>2. Settled /\ Elements(list)' = Elements(list)
      BY <1>3 DEF CallDelete, Begin, At, Overlaps, Settled, Elements, Slot
    <2>3. Elements(list) = members
      BY <1>2, <2>2 DEF Sound, Lists
    <2>. QED
      BY <2>1, <2>2, <2>3 DEF Leaves
  <1>4. ASSUME Deleting.pc # "idle", Deleting.node' = Deleting.node, members' = members,
               Elements(list)' \subseteq Elements(list)
        PROVE  Leaves'
    BY <1>2, <1>4 DEF Leaves
  <1>9. ASSUME Deleting.pc # "idle", Deleting.node' = Deleting.node, UNCHANGED <<heap, list, members>>
        PROVE  Leaves'
    <2>1. Elements(list)' = Elements(list)
      BY <1>9 DEF Elements, Slot
    <2>. QED
      BY <1>4, <1>9, <2>1
  <1>5. CASE DeleteLooks
    <2>1. Deleting.node' = Deleting.node
      BY <1>1, <1>5, ReturnsTo, GoesTo, NextTo DEF DeleteLooks, Deleting, Threads, PCs, SameLoop
    <2>2. Deleting.pc # "idle" /\ UNCHANGED <<heap, list, members>>
      BY <1>5 DEF DeleteLooks, At, Deleting, history
    <2>. QED
      BY <1>9, <2>1, <2>2
  <1>6. CASE DeleteLoads
    <2>1. Deleting.node' = Deleting.node
      <3>1. CASE thread["delete"].i <= list.len
        <4>1. "delete" \in Threads /\ list \in Header /\ "shift" \in PCs
          BY <1>1 DEF Threads, PCs, TypeOK, Fits
        <4>2. thread' = [thread EXCEPT !["delete"].hold = list, !["delete"].pc = "shift"]
          BY <1>6, <3>1 DEF DeleteLoads
        <4>. QED
          BY <1>1, <4>1, <4>2, HoldsTo DEF Deleting, SameLoop
      <3>2. CASE ~(thread["delete"].i <= list.len)
        BY <1>6, <3>2 DEF DeleteLoads, Deleting
      <3>. QED
        BY <3>1, <3>2
    <2>2. Deleting.pc # "idle" /\ UNCHANGED <<heap, list, members>>
      BY <1>6 DEF DeleteLoads, At, Deleting, history
    <2>. QED
      BY <1>9, <2>1, <2>2
  <1>7. CASE DeleteShifts
    <2>1. Deleting.node' = Deleting.node
      BY <1>1, <1>7, GoesTo DEF DeleteShifts, Deleting, Threads, PCs, SameLoop
    <2>2. Elements(list)' \subseteq Elements(list)
      BY <1>2, <1>7, ShiftElements
    <2>3. Deleting.pc # "idle" /\ members' = members
      BY <1>7 DEF DeleteShifts, At, Deleting, history
    <2>. QED
      BY <1>4, <2>1, <2>2, <2>3
  <1>8. CASE DeleteStores
    <2>1. Deleting.node' = Deleting.node
      BY <1>1, <1>8, NextTo DEF DeleteStores, Deleting, Threads, SameLoop
    <2>2. Elements(list)' \subseteq Elements(list)
      BY <1>2, <1>8, StoreElements
    <2>3. Deleting.pc # "idle" /\ members' = members
      BY <1>8 DEF DeleteStores, At, Deleting, history
    <2>. QED
      BY <1>4, <2>1, <2>2, <2>3
  <1>10. CASE CallScan \/ ScanLooks
    <2>1. thread'["delete"] = thread["delete"] /\ UNCHANGED <<heap, list, members>>
      BY <1>10 DEF CallScan, ScanLooks, Begin, Returns, Next1, Threads, Typed, TypeOK, history
    <2>2. Deleting' = Deleting
      BY <2>1 DEF Deleting
    <2>. QED
      BY <1>9, <2>1, <2>2
  <1>11. CASE \/ UpdateLooks \/ UpdateLoads \/ UpdateWrites \/ UpdateStores
              \/ \E n \in Nodes : CallUpdate(n)
    <2>1. thread'["delete"] = thread["delete"]
      BY <1>11 DEF UpdateLooks, UpdateLoads, UpdateWrites, UpdateStores, CallUpdate, Begin, Goes,
                   Returns, Next1, Threads, Typed, TypeOK
    <2>2. Deleting.pc = "idle"
      BY <1>2, <1>11 DEF Sound, UpdateLooks, UpdateLoads, UpdateWrites, UpdateStores, CallUpdate,
                         Overlaps, At, Updating, Deleting
    <2>. QED
      BY <2>1, <2>2 DEF Deleting
  <1>12. CASE UNCHANGED vars
    <2>1. Deleting' = Deleting /\ UNCHANGED <<heap, list, members>>
      BY <1>12 DEF vars, history, Deleting
    <2>. QED
      BY <1>9, <2>1
  <1>. QED
    BY <1>3, <1>5, <1>6, <1>7, <1>8, <1>10, <1>11, <1>12 DEF Next

\* What the set sees of a step: the elements of the list and the nodes of the calls.
LEMMA SetInit == Init => Set!Init
  <1>. SUFFICES ASSUME Init PROVE Set!Init
    OBVIOUS
  <1>1. list.len = 0 /\ \A t \in Threads : thread[t].pc = "idle"
    BY DEF Init, NoSlice, Idle, Loop
  <1>2. Elements(list) = {}
    BY <1>1 DEF Elements
  <1>. QED
    BY <1>1, <1>2 DEF Init, Set!Init, Busy, Threads

LEMMA SetQuiet ==
  ASSUME UNCHANGED raced, Elements(list)' = Elements(list),
         Busy("update")' = Busy("update"), Busy("delete")' = Busy("delete")
  PROVE  [Set!Next]_(Set!vars)
  BY DEF Set!vars

LEMMA SetCalls ==
  ASSUME Typed, Sound, NEW n \in Nodes, CallUpdate(n) \/ CallDelete(n), ~raced'
  PROVE  [Set!Next]_(Set!vars)
  <1>1. /\ ~raced /\ thread["update"].pc = "idle" /\ thread["delete"].pc = "idle" /\ raced' = FALSE
        /\ UNCHANGED <<heap, list>>
    BY DEF CallUpdate, CallDelete, Overlaps, Begin, At
  <1>2. Elements(list)' = Elements(list) /\ Busy("update") = Free /\ Busy("delete") = Free
    BY <1>1 DEF Elements, Slot, Busy
  <1>3. CASE CallUpdate(n)
    <2>1. /\ thread'["update"].pc = "range" /\ thread'["update"].node = n
          /\ thread'["delete"] = thread["delete"]
      BY <1>3, BeginsTo DEF CallUpdate, Threads
    <2>2. Busy("update")' = n /\ Busy("delete")' = Free
      BY <1>1, <2>1 DEF Busy
    <2>3. Set!CallAdd(n)
      BY <1>2, <2>2 DEF Set!CallAdd
    <2>. QED
      BY <1>1, <2>3 DEF Set!Next
  <1>4. CASE CallDelete(n)
    <2>1. /\ thread'["delete"].pc = "range" /\ thread'["delete"].node = n
          /\ thread'["update"] = thread["update"]
      BY <1>4, BeginsTo DEF CallDelete, Threads
    <2>2. Busy("delete")' = n /\ Busy("update")' = Free
      BY <1>1, <2>1 DEF Busy
    <2>3. Set!CallRemove(n)
      BY <1>2, <2>2 DEF Set!CallRemove
    <2>. QED
      BY <1>1, <2>3 DEF Set!Next
  <1>. QED
    BY <1>3, <1>4

\* An Update adds its node when it returns, if only by finding it.
LEMMA SetUpdate ==
  ASSUME Typed, Sound, Sound', ~raced, UpdateLooks \/ UpdateLoads \/ UpdateWrites \/ UpdateStores
  PROVE  [Set!Next]_(Set!vars)
  <1> DEFINE n == Updating.node
  <1>1. /\ "update" \in Threads /\ "load" \in PCs /\ "write" \in PCs /\ TypeOK /\ list \in Header
        /\ thread["update"].pc # "idle" /\ raced' = raced /\ raced = FALSE
    BY DEF Threads, PCs, Typed, TypeOK, Fits, UpdateLooks, UpdateLoads, UpdateWrites, UpdateStores,
           At, history
  <1>2. /\ Deleting.pc = "idle" /\ UpdateInv /\ n \in Nodes /\ n # Free
        /\ members = Elements(list) \cup {n}
    BY <1>1, UpdateAlone, NodeDataConstants DEF Updating, UpdateInv, Typed, IndexHeld
  <1>3. /\ Busy("update") = n
        /\ \A s \in Threads \ {"update"} : thread'[s] = thread[s] => Busy(s)' = Busy(s)
    BY <1>1 DEF Busy, Updating
  <1>4. ASSUME Moves("update"), thread'["update"].pc # "idle", thread'["update"].node = n,
               Elements(list)' = Elements(list)
        PROVE  [Set!Next]_(Set!vars)
    <2>1. Busy("update")' = n /\ Busy("delete")' = Busy("delete")
      BY <1>3, <1>4 DEF Busy, Moves, Threads
    <2>. QED
      BY <1>1, <1>3, <1>4, <2>1, SetQuiet
  <1>5. ASSUME Moves("update"), thread'["update"].pc = "idle", Elements(list)' = Elements(list) \cup {n}
        PROVE  [Set!Next]_(Set!vars)
    <2>1. Busy("update")' = Free /\ Busy("delete")' = Busy("delete")
      BY <1>3, <1>5 DEF Busy, Moves, Threads
    <2>2. Set!Add
      BY <1>2, <1>3, <1>5, <2>1 DEF Set!Add
    <2>. QED
      BY <1>1, <2>2 DEF Set!Next
  <1>6. CASE UpdateLooks
    <2>1. Elements(list)' = Elements(list)
      BY <1>6 DEF UpdateLooks, Elements, Slot
    <2>2. CASE Goes("update", "load")
      BY <1>1, <1>4, <2>1, <2>2, GoesTo DEF SameLoop, Updating
    <2>3. CASE Next1("update")
      BY <1>1, <1>4, <2>1, <2>3, NextTo DEF SameLoop, Updating
    <2>4. CASE ~AtEnd("update") /\ Current("update") = thread["update"].node /\ Returns("update")
      <3>1. Updating.pc = "range" /\ Updating.range = list
        BY <1>2, <1>6 DEF UpdateLooks, At, Updating, UpdateInv
      <3>2. n = Slot(list, Updating.i) /\ Updating.i \in 1..list.len
        BY <1>1, <2>4, <3>1 DEF AtEnd, Current, Updating, TypeOK, Fits, Header, Goroutine
      <3>3. n \in Elements(list)
        BY <3>2 DEF Elements
      <3>. QED
        BY <1>1, <1>5, <2>1, <2>4, <3>3, ReturnsTo
    <2>. QED
      BY <1>6, <2>2, <2>3, <2>4 DEF UpdateLooks
  <1>7. CASE UpdateLoads
    <2>1. thread' = [thread EXCEPT !["update"].hold = list, !["update"].pc = "write"]
      BY <1>7 DEF UpdateLoads
    <2>2. Moves("update") /\ SameLoop("update") /\ thread'["update"].pc = "write"
      BY <1>1, <2>1, HoldsTo
    <2>3. Elements(list)' = Elements(list)
      BY <1>7 DEF UpdateLoads, Elements, Slot
    <2>. QED
      BY <1>4, <2>2, <2>3 DEF SameLoop, Updating
  <1>8. CASE UpdateWrites
    <2>1. Moves("update") /\ SameLoop("update") /\ thread'["update"].pc = "store"
      BY <1>8, WritesTo DEF Updating
    <2>2. Elements(list)' = Elements(list)
      BY <1>1, <1>8, WriteElements
    <2>. QED
      BY <1>4, <2>1, <2>2 DEF SameLoop, Updating
  <1>9. CASE UpdateStores
    <2>1. Updating.pc = "store"
      BY <1>9 DEF UpdateStores, At, Updating
    <2>2. Elements(Updating.hold) = members
      BY <1>2, <2>1 DEF UpdateInv, Lists
    <2>3. Elements(list)' = Elements(Updating.hold)
      BY <1>9 DEF UpdateStores, Updating, Elements, Slot
    <2>4. Moves("update") /\ thread'["update"].pc = "idle"
      BY <1>1, <1>9, ReturnsTo DEF UpdateStores
    <2>. QED
      BY <1>2, <1>5, <2>2, <2>3, <2>4
  <1>. QED
    BY <1>6, <1>7, <1>8, <1>9

\* A Delete removes its node when it shifts the list or when it cuts it, and has
\* removed it when it returns.
LEMMA SetDelete ==
  ASSUME Typed, Sound, Leaves, ~raced, DeleteLooks \/ DeleteLoads \/ DeleteShifts \/ DeleteStores
  PROVE  [Set!Next]_(Set!vars)
  <1> DEFINE n == Deleting.node
  <1>1. /\ "delete" \in Threads /\ "load" \in PCs /\ "shift" \in PCs /\ "store" \in PCs
        /\ TypeOK /\ list \in Header /\ thread["delete"].pc # "idle" /\ raced' = raced /\ raced = FALSE
    BY DEF Threads, PCs, Typed, TypeOK, Fits, DeleteLooks, DeleteLoads, DeleteShifts, DeleteStores,
           At, history
  <1>2. /\ Updating.pc = "idle" /\ DeleteInv /\ n \in Nodes /\ n # Free
        /\ n \notin members /\ Elements(list) \subseteq members \cup {n}
    BY <1>1, DeleteAlone, NodeDataConstants DEF Deleting, Typed, IndexHeld, Leaves
  <1>3. /\ Busy("delete") = n
        /\ \A s \in Threads \ {"delete"} : thread'[s] = thread[s] => Busy(s)' = Busy(s)
    BY <1>1 DEF Busy, Deleting
  <1>4. ASSUME Moves("delete"), thread'["delete"].pc # "idle", thread'["delete"].node = n,
               \/ Elements(list)' = Elements(list)
               \/ Elements(list)' = Elements(list) \ {n}
        PROVE  [Set!Next]_(Set!vars)
    <2>1. Busy("delete")' = n /\ Busy("update")' = Busy("update")
      BY <1>3, <1>4 DEF Busy, Moves, Threads
    <2>2. CASE Elements(list)' = Elements(list)
      BY <1>1, <1>3, <2>1, <2>2, SetQuiet
    <2>3. CASE Elements(list)' = Elements(list) \ {n}
      <3>1. Set!Remove
        BY <1>2, <1>3, <2>1, <2>3 DEF Set!Remove
      <3>. QED
        BY <1>1, <3>1 DEF Set!Next
    <2>. QED
      BY <1>4, <2>2, <2>3
  <1>5. CASE DeleteLooks
    <2>1. Elements(list)' = Elements(list)
      BY <1>5 DEF DeleteLooks, Elements, Slot
    <2>2. CASE Goes("delete", "load")
      BY <1>1, <1>4, <2>1, <2>2, GoesTo DEF SameLoop, Deleting
    <2>3. CASE Next1("delete")
      BY <1>1, <1>4, <2>1, <2>3, NextTo DEF SameLoop, Deleting
    <2>4. CASE AtEnd("delete") /\ Returns("delete")
      <3>1. Deleting.pc = "range"
        BY <1>5 DEF DeleteLooks, At, Deleting
      <3>2. n \notin Elements(list)
        <4>1. CASE Searching /\ Misses(list, n, 1, Deleting.i - 1)
          <5>1. Deleting.i > list.len /\ list.len \in Nat /\ Deleting.i \in Nat
            BY <1>1, <2>4, <4>1 DEF AtEnd, Searching, Deleting, TypeOK, Fits, Header, Goroutine
          <5>2. \A j \in 1..list.len : j \in 1..(Deleting.i - 1)
            BY <5>1
          <5>. QED
            BY <4>1, <5>2 DEF Misses, Elements
        <4>2. CASE Through
          BY <1>2, <4>2 DEF Through, Lists
        <4>. QED
          BY <1>2, <3>1, <4>1, <4>2 DEF DeleteInv
      <3>3. Moves("delete") /\ thread'["delete"].pc = "idle"
        BY <1>1, <2>4, ReturnsTo
      <3>4. Busy("delete")' = Free /\ Busy("update")' = Busy("update")
        BY <1>3, <3>3 DEF Busy, Moves, Threads
      <3>5. Set!Removed
        BY <1>2, <1>3, <2>1, <3>2, <3>4 DEF Set!Removed
      <3>. QED
        BY <1>1, <3>5 DEF Set!Next
    <2>. QED
      BY <1>5, <2>2, <2>3, <2>4 DEF DeleteLooks
  <1>6. CASE DeleteLoads
    <2>1. Deleting.i <= list.len
      BY <1>2, <1>6 DEF DeleteLoads, At, Deleting, DeleteInv
    <2>2. thread' = [thread EXCEPT !["delete"].hold = list, !["delete"].pc = "shift"]
      BY <1>6, <2>1 DEF DeleteLoads, Deleting
    <2>3. Moves("delete") /\ SameLoop("delete") /\ thread'["delete"].pc = "shift"
      BY <1>1, <2>2, HoldsTo
    <2>4. Elements(list)' = Elements(list)
      BY <1>6 DEF DeleteLoads, Elements, Slot
    <2>. QED
      BY <1>4, <2>3, <2>4 DEF SameLoop, Deleting
  <1>7. CASE DeleteShifts
    <2>1. Moves("delete") /\ SameLoop("delete") /\ thread'["delete"].pc = "store"
      BY <1>1, <1>7, GoesTo DEF DeleteShifts
    <2>2. Elements(list)' = Elements(list) \/ Elements(list)' = Elements(list) \ {n}
      BY <1>7, ShiftElements
    <2>. QED
      BY <1>4, <2>1, <2>2 DEF SameLoop, Deleting
  <1>8. CASE DeleteStores
    <2>1. Moves("delete") /\ SameLoop("delete") /\ thread'["delete"].pc = "range"
      BY <1>1, <1>8, NextTo DEF DeleteStores
    <2>2. Elements(list)' = members /\ Elements(list)' \subseteq Elements(list)
      BY <1>8, StoreElements
    <2>3. Elements(list)' = Elements(list) \ {n}
      BY <1>2, <2>2
    <2>. QED
      BY <1>4, <2>1, <2>3 DEF SameLoop, Deleting
  <1>. QED
    BY <1>5, <1>6, <1>7, <1>8

LEMMA SetStep ==
  ASSUME Typed, Typed', Sound, Sound', Leaves, [Next]_vars
  PROVE  [Set!Next]_(Set!vars)
  <1>1. CASE raced'
    <2>1. Set!Overlap
      BY <1>1 DEF Set!Overlap, Typed, TypeOK
    <2>. QED
      BY <2>1 DEF Set!Next
  <1>2. CASE ~raced'
    <2>1. ~raced
      BY <1>2 DEF Next, vars, history, CallUpdate, CallDelete, CallScan, Overlaps, UpdateLooks,
             UpdateLoads, UpdateWrites, UpdateStores, DeleteLooks, DeleteLoads, DeleteShifts,
             DeleteStores, ScanLooks
    <2>2. CASE CallScan \/ ScanLooks
      <3>1. /\ thread'["update"] = thread["update"] /\ thread'["delete"] = thread["delete"]
            /\ UNCHANGED <<heap, list, raced>>
        BY <2>2 DEF CallScan, ScanLooks, Begin, Returns, Next1, Threads, Typed, TypeOK, history
      <3>. QED
        BY <3>1, SetQuiet DEF Busy, Elements, Slot
    <2>3. CASE UNCHANGED vars
      BY <2>3, SetQuiet DEF vars, history, Busy, Elements, Slot
    <2>. QED
      BY <1>2, <2>1, <2>2, <2>3, SetCalls, SetUpdate, SetDelete DEF Next
  <1>. QED
    BY <1>1, <1>2

\* state.go:15 and state.go:25: until an addition overlaps a deletion, every load and
\* store of the slices is a step of a set that an addition changes once, when it
\* returns, and a deletion once, before it returns.
THEOREM ListImplementsSet == Spec => ImplementsSet
  <1>1. Init => Typed /\ Sound /\ Leaves
    BY TypeInit, SoundInit, LeavesInit
  <1>2. Typed /\ Sound /\ Leaves /\ [Next]_vars => (Typed /\ Sound /\ Leaves)'
    BY TypeStep, SoundStep, LeavesStep
  <1>3. Typed /\ Typed' /\ Sound /\ Sound' /\ Leaves /\ [Next]_vars => [Set!Next]_(Set!vars)
    BY SetStep
  <1>. QED
    BY <1>1, <1>2, <1>3, SetInit, PTL DEF Spec, ImplementsSet, Set!Spec

(***************************************************************************)
(* A loop that deletions overlap: what it may see.                         *)
(***************************************************************************)
\* A shift moves the slots behind its index by one, within what it has loaded.
LEMMA ShiftAll ==
  ASSUME Typed, DeleteShifts, NEW a \in DOMAIN heap, NEW j \in 1..Len(heap[a])
  PROVE  \/ heap'[a][j] = heap[a][j]
         \/ /\ a = Deleting.hold.arr /\ j + 1 \in 1..Deleting.hold.len
            /\ heap'[a][j] = heap[a][j + 1]
  <1> DEFINE h == thread["delete"].hold
             k == thread["delete"].i
             s == heap[h.arr]
             b == [x \in DOMAIN s |-> IF x \in k..(h.len - 1) THEN s[x + 1] ELSE s[x]]
  <1>1. h.len \in Nat /\ k \in Nat /\ h.arr \in DOMAIN heap /\ heap \in Seq(Seq(Content)) /\ k # 0
    BY DEF Typed, TypeOK, Fits, Header, Goroutine, Threads, Content
  <1>2. heap' = [heap EXCEPT ![h.arr] = b]
    BY DEF DeleteShifts
  <1>3. CASE a = h.arr
    <2>1. heap'[a] = b /\ j \in DOMAIN s
      BY <1>1, <1>2, <1>3
    <2>2. b[j] = IF j \in k..(h.len - 1) THEN s[j + 1] ELSE s[j]
      BY <2>1
    <2>3. j \in k..(h.len - 1) => j + 1 \in 1..h.len
      BY <1>1
    <2>. HIDE DEF b
    <2>. QED
      BY <1>3, <2>1, <2>2, <2>3 DEF Deleting
  <1>4. CASE a # h.arr
    BY <1>1, <1>2, <1>4
  <1>. QED
    BY <1>3, <1>4

\* Every slot of h was written to.
CleanIn(H, h) == \A j \in 1..h.len : H[h.arr][j] # Free

AllClean(H, l, T) == CleanIn(H, l) /\ \A t \in Threads : CleanIn(H, T[t].range) /\ CleanIn(H, T[t].hold)

LEMMA FreeClean == NoneFree <=> Free \notin visited /\ AllClean(heap, list, thread)
  BY DEF NoneFree, AllClean, CleanIn, Elements, Slot

LEMMA FreeCleanNext == NoneFree' <=> Free \notin visited' /\ AllClean(heap', list', thread')
  BY DEF NoneFree, AllClean, CleanIn, Elements, Slot

CleanKept == \A h : Fits(h) /\ CleanIn(heap, h) => CleanIn(heap', h)

\* One goroutine moves on.
LEMMA FreeMoves ==
  ASSUME Typed, NoneFree, CleanKept, NEW t \in Threads, \A s \in Threads \ {t} : thread'[s] = thread[s],
         CleanIn(heap', list'), CleanIn(heap', thread'[t].range), CleanIn(heap', thread'[t].hold),
         Free \notin visited'
  PROVE  NoneFree'
  <1>1. ASSUME NEW s \in Threads
        PROVE  CleanIn(heap', thread'[s].range) /\ CleanIn(heap', thread'[s].hold)
    <2>1. CASE s = t
      BY <2>1
    <2>2. CASE s # t
      <3>1. /\ Fits(thread[s].range) /\ Fits(thread[s].hold)
            /\ CleanIn(heap, thread[s].range) /\ CleanIn(heap, thread[s].hold)
        BY FreeClean DEF Typed, TypeOK, AllClean
      <3>. QED
        BY <2>2, <3>1 DEF CleanKept
    <2>. QED
      BY <2>1, <2>2
  <1>. QED
    BY <1>1, FreeCleanNext DEF AllClean

\* It keeps what it had, or takes the list, and writes nothing.
LEMMA FreeKept ==
  ASSUME Typed, NoneFree, NEW t \in Threads, \A s \in Threads \ {t} : thread'[s] = thread[s],
         UNCHANGED heap, list' \in {list, thread[t].hold},
         thread'[t].range \in {thread[t].range, NoSlice, list},
         thread'[t].hold \in {thread[t].hold, NoSlice, list},
         Free \notin visited'
  PROVE  NoneFree'
  <1>1. CleanIn(heap, NoSlice)
    BY DEF CleanIn, NoSlice
  <1>2. CleanIn(heap, list) /\ CleanIn(heap, thread[t].range) /\ CleanIn(heap, thread[t].hold)
    BY FreeClean DEF AllClean
  <1>3. CleanKept
    BY DEF CleanKept
  <1>4. CleanIn(heap', list') /\ CleanIn(heap', thread'[t].range) /\ CleanIn(heap', thread'[t].hold)
    BY <1>1, <1>2
  <1>. QED
    BY <1>3, <1>4, FreeMoves

LEMMA FreeInit == Init => NoneFree
  <1>. SUFFICES ASSUME Init PROVE NoneFree
    OBVIOUS
  <1>1. list = NoSlice /\ \A t \in Threads : thread[t].range = NoSlice /\ thread[t].hold = NoSlice
    BY DEF Init, Idle, Loop
  <1>2. CleanIn(heap, NoSlice)
    BY DEF CleanIn, NoSlice
  <1>. QED
    BY <1>1, <1>2, FreeClean DEF AllClean, Init

LEMMA FreeBegin ==
  ASSUME Typed, NoneFree, NEW t \in Threads, NEW n, Begin(t, n), UNCHANGED <<heap, list>>,
         visited' \in {visited, {}}
  PROVE  NoneFree'
  <1>1. thread'[t] = Loop("range", n, list) /\ \A s \in Threads \ {t} : thread'[s] = thread[s]
    BY DEF Begin, Typed, TypeOK
  <1>2. thread'[t].range = list /\ thread'[t].hold = NoSlice
    BY <1>1 DEF Loop
  <1>. QED
    BY <1>1, <1>2, FreeKept DEF NoneFree

LEMMA FreeWrites ==
  ASSUME Typed, NoneFree, UpdateWrites PROVE NoneFree'
  <1> DEFINE h == Updating.hold
             n == Updating.node
  <1>1. PICK k : k = thread'["update"].hold
    OBVIOUS
  <1>2. /\ Fits(h) /\ h.len \in Nat /\ k.len = h.len + 1 /\ n # Free
        /\ \A j \in 1..h.len : heap'[k.arr][j] = Slot(h, j)
        /\ heap'[k.arr][k.len] = n
        /\ \A a \in DOMAIN heap, i \in Nat : heap'[a][i] = heap[a][i] \/ heap'[a][i] = n
    BY <1>1, WriteSlots, NodeDataConstants DEF Updating
  <1>3. CleanKept
    <2>. SUFFICES ASSUME NEW f, Fits(f), CleanIn(heap, f), NEW j \in 1..f.len
                  PROVE  heap'[f.arr][j] # Free
      BY DEF CleanKept, CleanIn
    <2>1. f.arr \in DOMAIN heap /\ j \in Nat /\ heap[f.arr][j] # Free
      BY DEF Fits, Header, CleanIn
    <2>. QED
      BY <1>2, <2>1
  <1>4. Moves("update") /\ SameLoop("update") /\ "update" \in Threads
    BY WritesTo DEF Threads
  <1>5. CleanIn(heap, h) /\ CleanIn(heap, list) /\ CleanIn(heap, thread["update"].range)
    BY <1>4, FreeClean DEF AllClean, Updating
  <1>6. CleanIn(heap', k)
    <2>. SUFFICES ASSUME NEW j \in 1..k.len PROVE heap'[k.arr][j] # Free
      BY DEF CleanIn
    <2>1. j \in 1..h.len \/ j = k.len
      BY <1>2
    <2>. QED
      BY <1>2, <1>5, <2>1 DEF CleanIn, Slot
  <1>7. CleanIn(heap', list) /\ CleanIn(heap', thread["update"].range)
    BY <1>3, <1>4, <1>5 DEF CleanKept, Typed, TypeOK
  <1>8. list' = list /\ visited' = visited /\ Free \notin visited
    BY DEF UpdateWrites, NoneFree
  <1>. QED
    BY <1>1, <1>3, <1>4, <1>6, <1>7, <1>8, FreeMoves DEF Moves, SameLoop

LEMMA FreeShifts ==
  ASSUME Typed, NoneFree, DeleteShifts PROVE NoneFree'
  <1> DEFINE h == Deleting.hold
  <1>1. "delete" \in Threads /\ "store" \in PCs /\ TypeOK
    BY DEF Threads, PCs, Typed
  <1>2. Moves("delete") /\ SameLoop("delete") /\ thread'["delete"].hold = thread["delete"].hold
    BY <1>1, GoesTo DEF DeleteShifts
  <1>3. CleanIn(heap, h) /\ CleanIn(heap, list) /\ CleanIn(heap, thread["delete"].range)
    BY <1>1, FreeClean DEF AllClean, Deleting
  <1>4. CleanKept
    <2>. SUFFICES ASSUME NEW f, Fits(f), CleanIn(heap, f), NEW j \in 1..f.len
                  PROVE  heap'[f.arr][j] # Free
      BY DEF CleanKept, CleanIn
    <2>1. f.arr \in DOMAIN heap /\ j \in 1..Len(heap[f.arr]) /\ heap[f.arr][j] # Free
      BY <1>1 DEF Fits, Header, CleanIn, Cap, TypeOK
    <2>2. heap'[f.arr][j] = heap[f.arr][j] \/ heap'[f.arr][j] # Free
      BY <1>3, <2>1, ShiftAll DEF CleanIn
    <2>. QED
      BY <2>1, <2>2
  <1>5. CleanIn(heap', h) /\ CleanIn(heap', list) /\ CleanIn(heap', thread["delete"].range)
    BY <1>1, <1>3, <1>4 DEF CleanKept, TypeOK, Deleting
  <1>6. list' = list /\ visited' = visited /\ Free \notin visited
    BY DEF DeleteShifts, NoneFree
  <1>. QED
    BY <1>1, <1>2, <1>4, <1>5, <1>6, FreeMoves DEF Moves, SameLoop, Deleting

LEMMA FreeDeleteStores ==
  ASSUME Typed, NoneFree, DeleteStores PROVE NoneFree'
  <1> DEFINE h == thread["delete"].hold
             k == [h EXCEPT !.len = @ - 1]
  <1>1. "delete" \in Threads /\ TypeOK
    BY DEF Threads, Typed
  <1>2. Moves("delete") /\ SameLoop("delete") /\ thread'["delete"].hold = h
    BY <1>1, NextTo DEF DeleteStores
  <1>3. h \in Header /\ h.len \in Nat
    BY <1>1 DEF TypeOK, Fits, Header
  <1>4. k.arr = h.arr /\ k.len = h.len - 1
    BY <1>3, Resized
  <1>5. list' = k /\ heap' = heap /\ visited' = visited
    BY DEF DeleteStores
  <1>. HIDE DEF h, k
  <1>6. CleanIn(heap, h) /\ CleanIn(heap, thread["delete"].range) /\ Free \notin visited
    BY <1>1, FreeClean DEF AllClean, h
  <1>7. 1..k.len \subseteq 1..h.len
    BY <1>3, <1>4
  <1>8. CleanIn(heap, k)
    BY <1>4, <1>6, <1>7 DEF CleanIn
  <1>9. CleanKept
    BY <1>5 DEF CleanKept
  <1>. QED
    BY <1>1, <1>2, <1>5, <1>6, <1>8, <1>9, FreeMoves DEF Moves, SameLoop

LEMMA FreeScanLooks ==
  ASSUME Typed, NoneFree, ScanLooks PROVE NoneFree'
  <1>1. "scan" \in Threads /\ TypeOK
    BY DEF Threads, Typed
  <1>2. Moves("scan") /\ thread'["scan"].range \in {thread["scan"].range, NoSlice}
        /\ thread'["scan"].hold \in {thread["scan"].hold, NoSlice}
    BY <1>1, ReturnsTo, NextTo, IdleFields DEF ScanLooks, SameLoop
  <1>3. Free \notin visited'
    <2>1. CASE AtEnd("scan")
      BY <2>1 DEF ScanLooks, NoneFree
    <2>2. CASE ~AtEnd("scan")
      <3>1. thread["scan"].i \in 1..thread["scan"].range.len
        BY <1>1, <2>2 DEF AtEnd, TypeOK, Goroutine, Header
      <3>2. Current("scan") # Free
        BY <1>1, <3>1, FreeClean DEF AllClean, CleanIn, Current, Slot
      <3>. QED
        BY <2>2, <3>2 DEF ScanLooks, NoneFree
    <2>. QED
      BY <2>1, <2>2
  <1>4. heap' = heap /\ list' = list
    BY DEF ScanLooks
  <1>. QED
    BY <1>1, <1>2, <1>3, <1>4, FreeKept DEF Moves

LEMMA FreeStep == Typed /\ NoneFree /\ [Next]_vars => NoneFree'
  <1>. SUFFICES ASSUME Typed, NoneFree, [Next]_vars PROVE NoneFree'
    OBVIOUS
  <1>0. /\ "update" \in Threads /\ "delete" \in Threads /\ "scan" \in Threads /\ TypeOK
        /\ "load" \in PCs /\ "write" \in PCs /\ "shift" \in PCs /\ list \in Header
        /\ Free \notin visited
    BY DEF Threads, Typed, TypeOK, PCs, NoneFree, Fits
  <1>1. CASE UNCHANGED vars
    BY <1>1 DEF vars, NoneFree, Elements, Slot
  <1>2. ASSUME NEW n \in Nodes, CallUpdate(n) \/ CallDelete(n) PROVE NoneFree'
    BY <1>0, <1>2, FreeBegin DEF CallUpdate, CallDelete
  <1>3. CASE CallScan
    BY <1>0, <1>3, FreeBegin DEF CallScan
  <1>4. CASE UpdateLooks
    <2>1. \/ Goes("update", "load") \/ Returns("update") \/ Next1("update")
      BY <1>4 DEF UpdateLooks
    <2>2. Moves("update") /\ thread'["update"].range \in {thread["update"].range, NoSlice}
          /\ thread'["update"].hold \in {thread["update"].hold, NoSlice}
      BY <1>0, <2>1, GoesTo, ReturnsTo, NextTo, IdleFields DEF SameLoop
    <2>. QED
      BY <1>0, <1>4, <2>2, FreeKept DEF Moves, UpdateLooks
  <1>5. CASE UpdateLoads
    <2>1. thread' = [thread EXCEPT !["update"].hold = list, !["update"].pc = "write"]
      BY <1>5 DEF UpdateLoads
    <2>2. Moves("update") /\ SameLoop("update") /\ thread'["update"].hold = list
      BY <1>0, <2>1, HoldsTo
    <2>. QED
      BY <1>0, <1>5, <2>2, FreeKept DEF Moves, SameLoop, UpdateLoads
  <1>6. CASE UpdateStores
    <2>1. Moves("update") /\ thread'["update"].range = NoSlice /\ thread'["update"].hold = NoSlice
      BY <1>0, <1>6, ReturnsTo, IdleFields DEF UpdateStores
    <2>. QED
      BY <1>0, <1>6, <2>1, FreeKept DEF Moves, UpdateStores
  <1>7. CASE DeleteLooks
    <2>1. \/ Goes("delete", "load") \/ Returns("delete") \/ Next1("delete")
      BY <1>7 DEF DeleteLooks
    <2>2. Moves("delete") /\ thread'["delete"].range \in {thread["delete"].range, NoSlice}
          /\ thread'["delete"].hold \in {thread["delete"].hold, NoSlice}
      BY <1>0, <2>1, GoesTo, ReturnsTo, NextTo, IdleFields DEF SameLoop
    <2>. QED
      BY <1>0, <1>7, <2>2, FreeKept DEF Moves, DeleteLooks
  <1>8. CASE DeleteLoads
    <2>1. CASE thread["delete"].i <= list.len
      <3>1. thread' = [thread EXCEPT !["delete"].hold = list, !["delete"].pc = "shift"]
        BY <1>8, <2>1 DEF DeleteLoads
      <3>2. Moves("delete") /\ SameLoop("delete") /\ thread'["delete"].hold = list
        BY <1>0, <3>1, HoldsTo
      <3>. QED
        BY <1>0, <1>8, <3>2, FreeKept DEF Moves, SameLoop, DeleteLoads
    <2>2. CASE ~(thread["delete"].i <= list.len)
      BY <1>8, <2>2 DEF DeleteLoads, NoneFree, Elements, Slot
    <2>. QED
      BY <2>1, <2>2
  <1>. QED
    BY <1>1, <1>2, <1>3, <1>4, <1>5, <1>6, <1>7, <1>8, FreeWrites, FreeShifts, FreeDeleteStores,
       FreeScanLooks DEF Next

(***************************************************************************)
(* A loop that deletions overlap: what it may miss.                        *)
(***************************************************************************)
Finite ==
  /\ IsFiniteSet(deleted) /\ IsFiniteSet(wanted)
  /\ Scanning.pc \in {"idle", "range"}

\* What ScanInv says of a loop that is under way.
Hidden ==
  /\ Deleting.pc # "idle" => Deleting.node \in deleted
  /\ Updating.pc = "store" /\ Updating.hold.arr = Scanning.range.arr => Shared
  /\ Shared => Stays \subseteq InRange(1)
  /\ Cardinality(Missed) <= Cardinality(IF Shared THEN Done ELSE deleted)

Hides ==
  ~raced =>
    IF Scanning.pc = "idle"
    THEN Cardinality(wanted \ (visited \cup deleted)) <= Cardinality(deleted)
    ELSE Hidden

LEMMA ScanParts == ScanInv <=> NoneFree /\ Finite /\ Hides
  BY DEF ScanInv, Finite, Hides, Hidden

LEMMA Fewer ==
  ASSUME NEW S, NEW T, IsFiniteSet(T), S \subseteq T
  PROVE  /\ IsFiniteSet(S) /\ Cardinality(S) \in Nat /\ Cardinality(T) \in Nat
         /\ Cardinality(S) <= Cardinality(T)
  <1>1. S \in SUBSET T
    OBVIOUS
  <1>. QED
    BY <1>1, FS_Subset, FS_CardinalityType

LEMMA ElementsFinite ==
  ASSUME TypeOK, NEW h, Fits(h) PROVE IsFiniteSet(Elements(h))
  <1> DEFINE f == [j \in 1..h.len |-> Slot(h, j)]
  <1>1. h.len \in Nat
    BY DEF Fits, Header
  <1>2. IsFiniteSet(1..h.len)
    BY <1>1, FS_Interval
  <1>3. f \in [1..h.len -> Elements(h)] /\ \A x \in Elements(h) : \E j \in 1..h.len : f[j] = x
    BY DEF Elements
  <1>. HIDE DEF f
  <1>4. f \in Surjection(1..h.len, Elements(h))
    BY <1>3 DEF Surjection
  <1>. QED
    BY <1>2, <1>4, FS_Surjection

LEMMA FiniteInit == Init => Finite
  BY FS_EmptySet DEF Init, Finite, Scanning, Idle, Loop, Threads

LEMMA FiniteStep == Typed /\ Finite /\ [Next]_vars => Finite'
  <1>. SUFFICES ASSUME Typed, Finite, [Next]_vars PROVE Finite'
    OBVIOUS
  <1>1. ASSUME UNCHANGED <<deleted, wanted>>, thread'["scan"] = thread["scan"] PROVE Finite'
    BY <1>1 DEF Finite, Scanning
  <1>2. CASE UNCHANGED vars
    BY <1>1, <1>2 DEF vars, history
  <1>3. ASSUME NEW n \in Nodes, CallUpdate(n) PROVE Finite'
    <2>1. thread'["scan"] = thread["scan"]
      BY <1>3, BeginsTo DEF CallUpdate, Threads
    <2>. QED
      BY <1>1, <1>3, <2>1 DEF CallUpdate
  <1>4. ASSUME NEW n \in Nodes, CallDelete(n) PROVE Finite'
    <2>1. thread'["scan"] = thread["scan"]
      BY <1>4, BeginsTo DEF CallDelete, Threads
    <2>2. IsFiniteSet(deleted \cup {n})
      BY FS_AddElement DEF Finite
    <2>. QED
      BY <1>4, <2>1, <2>2 DEF CallDelete, Finite, Scanning
  <1>5. CASE CallScan
    <2>1. Scanning.pc' = "range"
      BY <1>5, BeginsTo DEF CallScan, Threads, Scanning
    <2>2. IsFiniteSet(Elements(list))
      BY ElementsFinite DEF Typed, TypeOK
    <2>3. IsFiniteSet(deleted')
      BY <1>5, FS_EmptySet, FS_Singleton DEF CallScan
    <2>. QED
      BY <1>5, <2>1, <2>2, <2>3 DEF CallScan, Finite
  <1>6. CASE ScanLooks
    <2>1. Scanning.pc' \in {"idle", "range"}
      BY <1>6, ReturnsTo, NextTo DEF ScanLooks, Threads, Scanning, Typed
    <2>. QED
      BY <1>6, <2>1 DEF ScanLooks, Finite, history
  <1>7. CASE \/ UpdateLooks \/ UpdateLoads \/ UpdateWrites \/ UpdateStores
             \/ DeleteLooks \/ DeleteLoads \/ DeleteShifts \/ DeleteStores
    <2>1. thread'["scan"] = thread["scan"]
      BY <1>7 DEF UpdateLooks, UpdateLoads, UpdateWrites, UpdateStores, DeleteLooks, DeleteLoads,
             DeleteShifts, DeleteStores, Goes, Returns, Next1, Threads, Typed, TypeOK
    <2>2. UNCHANGED <<deleted, wanted>>
      BY <1>7 DEF UpdateLooks, UpdateLoads, UpdateWrites, UpdateStores, DeleteLooks, DeleteLoads,
             DeleteShifts, DeleteStores, history
    <2>. QED
      BY <1>1, <2>1, <2>2
  <1>. QED
    BY <1>2, <1>3, <1>4, <1>5, <1>6, <1>7 DEF Next

LEMMA HidesInit == Init => Hides
  <1>. SUFFICES ASSUME Init PROVE Hides
    OBVIOUS
  <1>1. Scanning.pc = "idle" /\ wanted = {} /\ visited = {} /\ deleted = {}
    BY DEF Init, Scanning, Idle, Loop, Threads
  <1>2. wanted \ (visited \cup deleted) = {} /\ Cardinality({}) = 0
    BY <1>1, FS_EmptySet
  <1>. QED
    BY <1>1, <1>2 DEF Hides

\* A step of another goroutine while the loop is under way: it hides no more, or
\* the list has left the loop's array.
LEMMA HiddenKept ==
  ASSUME Finite, Finite', Hidden, Scanning' = Scanning, UNCHANGED <<visited, wanted>>,
         deleted \subseteq deleted', Missed' \subseteq Missed,
         Shared' => Shared /\ Done \subseteq Done' /\ Stays' \subseteq InRange(1)',
         Deleting.pc' # "idle" => Deleting.node' \in deleted',
         Updating.pc' = "store" /\ Updating.hold.arr' = Scanning.range.arr' => Shared'
  PROVE  Hidden'
  <1>1. Missed \subseteq wanted /\ Done \subseteq deleted /\ Done' \subseteq deleted'
    BY DEF Missed, Stays, Done
  <1>2. IsFiniteSet(Missed) /\ IsFiniteSet(Done) /\ IsFiniteSet(Done')
    BY <1>1, Fewer DEF Finite
  <1>3. /\ Cardinality(Missed) \in Nat /\ Cardinality(Missed') \in Nat
        /\ Cardinality(Missed') <= Cardinality(Missed)
    BY <1>2, Fewer
  <1>4. CASE Shared'
    <2>1. Cardinality(Done) <= Cardinality(Done') /\ Cardinality(Done) \in Nat /\ Cardinality(Done') \in Nat
      BY <1>2, <1>4, Fewer
    <2>2. Cardinality(Missed') <= Cardinality(Done')
      BY <1>3, <1>4, <2>1 DEF Hidden
    <2>. QED
      BY <1>4, <2>2 DEF Hidden
  <1>5. CASE ~Shared'
    <2>1. /\ Cardinality(Done) <= Cardinality(deleted) /\ Cardinality(deleted) <= Cardinality(deleted')
          /\ Cardinality(Done) \in Nat /\ Cardinality(deleted) \in Nat /\ Cardinality(deleted') \in Nat
      BY <1>1, Fewer DEF Finite
    <2>2. Cardinality(Missed') <= Cardinality(deleted')
      BY <1>3, <2>1 DEF Hidden
    <2>. QED
      BY <1>5, <2>2 DEF Hidden
  <1>. QED
    BY <1>4, <1>5

\* It neither writes nor stores, and is in no store.
LEMMA HiddenSame ==
  ASSUME Finite, Finite', Hidden, Scanning' = Scanning, UNCHANGED <<heap, list, visited, wanted, deleted>>,
         Deleting.pc # "store", Deleting.pc' # "store",
         Deleting.pc' # "idle" => Deleting.node' \in deleted,
         Updating.pc' # "store"
  PROVE  Hidden'
  <1>1. Live' = Live /\ Shared' = Shared /\ Stays' = Stays
    BY DEF Live, Shared, Stays
  <1>2. ScanEnd' = ScanEnd
    BY <1>1 DEF ScanEnd
  <1>3. InRange(1)' = InRange(1) /\ InRange(Scanning.i)' = InRange(Scanning.i)
    BY <1>2 DEF InRange, Slot
  <1>4. \A d, e : Before(d, e)' <=> Before(d, e)
    BY <1>1 DEF Before, Slot
  <1>5. Done' = Done /\ Missed' = Missed
    BY <1>1, <1>3, <1>4 DEF Done, Missed
  <1>. QED
    BY <1>1, <1>3, <1>5, HiddenKept DEF Hidden

\* A loop begins: it has the whole list ahead, but for what a deletion under way
\* has still to cut.
LEMMA HidesCallScan ==
  ASSUME Typed, Sound, Leaves, Finite, CallScan, ~raced PROVE Hidden'
  <1>1. /\ Scanning.range' = list /\ Scanning.i' = 1 /\ visited' = {} /\ wanted' = Elements(list)
        /\ Deleting' = Deleting /\ Updating' = Updating /\ UNCHANGED <<heap, list, members>>
        /\ deleted' = IF thread["delete"].pc = "idle" THEN {} ELSE {thread["delete"].node}
    BY BeginsTo DEF CallScan, Threads, Scanning, Deleting, Updating
  <1>2. Shared' /\ (Deleting.pc' # "idle" => Deleting.node' \in deleted')
    BY <1>1 DEF Shared, Deleting
  <1>3. TypeOK /\ list \in Header /\ list.len \in Nat
    BY DEF Typed, TypeOK, Fits, Header
  <1>4. Live' = Live /\ (Deleting.pc # "store" => Live = list)
    <2>1. [list EXCEPT !.len = list.len] = list
      BY <1>3 DEF Header
    <2>. QED
      BY <1>1, <2>1 DEF Live
  <1>5. Live.arr = list.arr /\ (Deleting.pc = "store" => Live.len = list.len - 1)
    BY <1>3, <1>4, Resized DEF Live
  <1>6. ScanEnd' = Live.len
    BY <1>1, <1>2, <1>3, <1>4, <1>5 DEF ScanEnd
  <1>7. InRange(1)' = Elements(Live)
    BY <1>1, <1>5, <1>6 DEF InRange, Elements, Slot
  <1>8. Stays' \subseteq Elements(Live)
    <2>1. CASE Deleting.pc = "store"
      <3>1. Live = [list EXCEPT !.len = @ - 1]
        BY <2>1 DEF Live
      <3>2. members = Elements(Live)
        BY <2>1, <3>1, DeleteAlone DEF DeleteInv, Lists
      <3>3. Elements(list) \subseteq members \cup {Deleting.node} /\ deleted' = {Deleting.node}
        BY <1>1, <2>1 DEF Leaves, Deleting
      <3>. QED
        BY <1>1, <3>2, <3>3 DEF Stays
    <2>2. CASE Deleting.pc # "store"
      BY <1>1, <1>4, <2>2 DEF Stays
    <2>. QED
      BY <2>1, <2>2
  <1>9. Missed' = {} /\ Cardinality({}) = 0
    BY <1>1, <1>7, <1>8, FS_EmptySet DEF Missed
  <1>10. IsFiniteSet(deleted') /\ Done' \subseteq deleted'
    BY <1>1, FS_EmptySet, FS_Singleton DEF Done
  <1>11. IsFiniteSet(Done')
    BY <1>10, Fewer
  <1>12. 0 <= Cardinality(IF Shared' THEN Done' ELSE deleted')
    BY <1>2, <1>11, FS_CardinalityType
  <1>. QED
    BY <1>2, <1>7, <1>8, <1>9, <1>12 DEF Hidden

\* It looks at a slot, or is through.
LEMMA HidesScanLooks ==
  ASSUME Typed, Finite, Finite', Hides, ScanLooks, ~raced PROVE Hides'
  <1>1. /\ Scanning.pc = "range" /\ "scan" \in Threads /\ TypeOK
        /\ Scanning.i \in Nat \ {0} /\ Scanning.range.len \in Nat /\ list.len \in Nat
    BY DEF ScanLooks, At, Scanning, Threads, Typed, TypeOK, Goroutine, Header, Fits
  <1>2. Hidden /\ UNCHANGED <<heap, list, deleted, wanted>>
    BY <1>1 DEF Hides, ScanLooks, history
  <1>3. Live.len \in Int
    <2>1. Live.len = list.len \/ Live.len = list.len - 1
      BY <1>1, Resized DEF Live, Typed, TypeOK, Fits, Header
    <2>. QED
      BY <1>1, <2>1
  <1>4. ScanEnd <= Scanning.range.len /\ ScanEnd \in Int
    BY <1>1, <1>3 DEF ScanEnd
  <1>5. CASE AtEnd("scan") /\ Returns("scan") /\ UNCHANGED visited
    <2>1. Scanning.pc' = "idle"
      BY <1>1, <1>5, ReturnsTo DEF Scanning
    <2>2. Scanning.i..ScanEnd = {}
      BY <1>1, <1>4, <1>5 DEF AtEnd, Scanning
    <2>3. Missed = wanted \ (visited \cup deleted)
      BY <2>2 DEF Missed, InRange, Stays
    <2>4. /\ Cardinality(Done) <= Cardinality(deleted) /\ Cardinality(Done) \in Nat
          /\ Cardinality(deleted) \in Nat
      <3>1. Done \subseteq deleted
        BY DEF Done
      <3>. QED
        BY <3>1, Fewer DEF Finite
    <2>5. Cardinality(Missed) \in Nat
      <3>1. Missed \subseteq wanted
        BY DEF Missed, Stays
      <3>. QED
        BY <3>1, Fewer DEF Finite
    <2>6. Cardinality(Missed) <= Cardinality(deleted)
      BY <1>2, <2>4, <2>5 DEF Hidden
    <2>. QED
      BY <1>2, <1>5, <2>1, <2>3, <2>6 DEF Hides
  <1>6. CASE ~AtEnd("scan") /\ visited' = visited \cup {Current("scan")} /\ Next1("scan")
    <2>1. /\ Scanning.pc' = "range" /\ Scanning.i' = Scanning.i + 1 /\ Scanning.range' = Scanning.range
          /\ Deleting' = Deleting /\ Updating' = Updating
      BY <1>1, <1>6, NextTo DEF Scanning, SameLoop, Moves, Threads, Deleting, Updating
    <2>2. Live' = Live /\ Shared' = Shared /\ Stays' = Stays
      BY <1>2, <2>1 DEF Live, Shared, Stays
    <2>3. ScanEnd' = ScanEnd
      BY <2>1, <2>2 DEF ScanEnd
    <2>4. Current("scan") = Slot(Scanning.range, Scanning.i)
      BY DEF Current, Scanning
    <2>5. \A j \in Scanning.i..ScanEnd : j = Scanning.i \/ j \in (Scanning.i + 1)..ScanEnd
      BY <1>1
    <2>6. /\ InRange(1)' = InRange(1)
          /\ InRange(Scanning.i)' = {Slot(Scanning.range, j) : j \in (Scanning.i + 1)..ScanEnd}
      BY <1>2, <2>1, <2>3 DEF InRange, Slot
    <2>7. InRange(Scanning.i) \subseteq {Current("scan")} \cup InRange(Scanning.i)'
      BY <2>4, <2>5, <2>6 DEF InRange
    <2>8. Missed' \subseteq Missed
      BY <1>6, <2>2, <2>7 DEF Missed
    <2>9. \A d, e : Before(d, e)' <=> Before(d, e)
      BY <1>2, <2>2 DEF Before, Slot
    <2>10. Done' = Done
      BY <1>2, <2>2, <2>9 DEF Done
    <2>11. Cardinality(Missed') \in Nat /\ Cardinality(Missed) \in Nat
           /\ Cardinality(Missed') <= Cardinality(Missed)
      <3>1. Missed \subseteq wanted
        BY DEF Missed, Stays
      <3>2. IsFiniteSet(Missed)
        BY <3>1, Fewer DEF Finite
      <3>. QED
        BY <2>8, <3>2, Fewer
    <2>12. /\ Cardinality(IF Shared THEN Done ELSE deleted) \in Nat
           /\ (IF Shared THEN Done ELSE deleted)' = IF Shared THEN Done ELSE deleted
      <3>1. (IF Shared THEN Done ELSE deleted) \subseteq deleted
        BY DEF Done
      <3>2. Cardinality(IF Shared THEN Done ELSE deleted) \in Nat
        BY <3>1, Fewer DEF Finite
      <3>. QED
        BY <1>2, <2>2, <2>10, <3>2
    <2>13. Cardinality(Missed') <= Cardinality(IF Shared' THEN Done' ELSE deleted')
      BY <1>2, <2>11, <2>12 DEF Hidden
    <2>14. Hidden'
      BY <1>2, <2>1, <2>2, <2>6, <2>13 DEF Hidden
    <2>. QED
      BY <2>1, <2>14 DEF Hides
  <1>. QED
    BY <1>5, <1>6 DEF ScanLooks

\* Steps that touch neither the list nor its array.
LEMMA HidesQuiet ==
  ASSUME Typed, Sound, Finite, Finite', Hidden, ~raced, ~raced',
         \/ UpdateLooks \/ UpdateLoads \/ DeleteLooks \/ DeleteLoads
         \/ \E n \in Nodes : CallUpdate(n)
  PROVE  Hidden'
  <1>0. /\ "update" \in Threads /\ "delete" \in Threads /\ "scan" \in Threads /\ TypeOK
        /\ "load" \in PCs /\ "write" \in PCs /\ "shift" \in PCs /\ list \in Header
    BY DEF Threads, Typed, TypeOK, PCs, Fits
  <1>1. ASSUME NEW n \in Nodes, CallUpdate(n) PROVE Hidden'
    <2>1. Updating.pc' = "range" /\ Deleting' = Deleting /\ Scanning' = Scanning
      BY <1>1, BeginsTo DEF CallUpdate, Threads, Updating, Deleting, Scanning
    <2>2. Deleting.pc = "idle"
      BY <1>1 DEF CallUpdate, Overlaps, Deleting
    <2>. QED
      BY <1>1, <2>1, <2>2, HiddenSame DEF CallUpdate
  <1>2. CASE UpdateLooks \/ UpdateLoads
    <2>1. Moves("update") /\ Updating.pc' # "store"
      <3>1. CASE UpdateLooks
        BY <1>0, <3>1, GoesTo, ReturnsTo, NextTo DEF UpdateLooks, Updating
      <3>2. CASE UpdateLoads
        BY <1>0, <3>2, HoldsTo DEF UpdateLoads, Updating
      <3>. QED
        BY <1>2, <3>1, <3>2
    <2>2. Deleting.pc = "idle"
      BY <1>2 DEF Sound, UpdateLooks, UpdateLoads, At, Updating
    <2>3. Deleting' = Deleting /\ Scanning' = Scanning
      BY <1>0, <2>1 DEF Moves, Deleting, Scanning, Threads
    <2>. QED
      BY <1>2, <2>1, <2>2, <2>3, HiddenSame DEF UpdateLooks, UpdateLoads, history
  <1>3. CASE DeleteLooks \/ DeleteLoads
    <2>1. Deleting.pc # "store" /\ Deleting.pc # "idle" /\ Updating.pc = "idle"
      BY <1>3 DEF Sound, DeleteLooks, DeleteLoads, At, Deleting
    <2>2. /\ Moves("delete") /\ Deleting.pc' # "store"
          /\ Deleting.pc' = "idle" \/ Deleting.node' = Deleting.node
      <3>1. CASE DeleteLooks
        BY <1>0, <3>1, GoesTo, ReturnsTo, NextTo DEF DeleteLooks, Deleting, SameLoop
      <3>2. CASE DeleteLoads
        <4>1. Deleting.i <= list.len
          BY <3>2, DeleteAlone DEF DeleteLoads, At, Deleting, DeleteInv
        <4>2. thread' = [thread EXCEPT !["delete"].hold = list, !["delete"].pc = "shift"]
          BY <3>2, <4>1 DEF DeleteLoads, Deleting
        <4>. QED
          BY <1>0, <4>2, HoldsTo DEF Deleting, SameLoop
      <3>. QED
        BY <1>3, <3>1, <3>2
    <2>3. Updating' = Updating /\ Scanning' = Scanning
      BY <1>0, <2>2 DEF Moves, Updating, Scanning, Threads
    <2>4. Deleting.node \in deleted
      BY <2>1 DEF Hidden
    <2>. QED
      BY <1>3, <2>1, <2>2, <2>3, <2>4, HiddenSame DEF DeleteLooks, DeleteLoads, history
  <1>. QED
    BY <1>1, <1>2, <1>3

LEMMA HidesCallDelete ==
  ASSUME Typed, Sound, Finite, Finite', Hidden, ~raced, ~raced', Scanning.pc # "idle",
         NEW n \in Nodes, CallDelete(n)
  PROVE  Hidden'
  <1>1. /\ Deleting.pc' = "range" /\ Deleting.node' = n
        /\ Updating' = Updating /\ Scanning' = Scanning
    BY BeginsTo DEF CallDelete, Threads, Updating, Deleting, Scanning
  <1>2. /\ Deleting.pc = "idle" /\ Updating.pc = "idle" /\ UNCHANGED <<heap, list, visited, wanted>>
        /\ deleted' = deleted \cup {n}
    BY DEF CallDelete, Begin, At, Overlaps, Deleting, Updating, Scanning
  <1>3. Live' = Live /\ Shared' = Shared /\ Stays' \subseteq Stays
    BY <1>1, <1>2 DEF Live, Shared, Stays
  <1>4. ScanEnd' = ScanEnd
    BY <1>1, <1>3 DEF ScanEnd
  <1>5. InRange(1)' = InRange(1) /\ InRange(Scanning.i)' = InRange(Scanning.i)
    BY <1>1, <1>2, <1>4 DEF InRange, Slot
  <1>6. \A d, e : Before(d, e)' <=> Before(d, e)
    BY <1>2, <1>3 DEF Before, Slot
  <1>7. Done \subseteq Done' /\ Missed' \subseteq Missed
    BY <1>2, <1>3, <1>5, <1>6 DEF Done, Missed
  <1>8. Shared => Stays \subseteq InRange(1)
    BY DEF Hidden
  <1>. QED
    BY <1>1, <1>2, <1>3, <1>5, <1>7, <1>8, HiddenKept

LEMMA HidesUpdateWrites ==
  ASSUME Typed, Sound, Finite, Finite', Hidden, ~raced, UpdateWrites
  PROVE  Hidden'
  <1>1. /\ Moves("update") /\ Updating.pc = "write"
        /\ UNCHANGED <<list, visited, wanted, deleted>>
    BY WritesTo DEF UpdateWrites, history, At, Updating
  <1>2. Deleting.pc = "idle" /\ Updating.hold = list /\ Deleting' = Deleting /\ Scanning' = Scanning
    BY <1>1, UpdateAlone DEF UpdateInv, Moves, Threads, Deleting, Scanning
  <1>3. /\ TypeOK /\ list \in Header /\ list.len \in Nat /\ list.arr \in DOMAIN heap
        /\ Scanning.range.arr \in DOMAIN heap /\ Scanning.i \in Nat \ {0}
        /\ Scanning.range.len \in Nat /\ Len(heap) + 1 \notin DOMAIN heap
    <2>1. Fits(Scanning.range) /\ Fits(list) /\ Scanning.i \in Nat \ {0}
      BY DEF Typed, TypeOK, Threads, Scanning, Goroutine
    <2>2. Len(heap) \in Nat /\ DOMAIN heap = 1..Len(heap)
      BY DEF Typed, TypeOK
    <2>3. Len(heap) + 1 \notin DOMAIN heap
      BY <2>2
    <2>. QED
      BY <2>1, <2>3 DEF Typed, Fits, Header
  <1>4. Live = list /\ Live' = Live /\ Shared' = Shared /\ Stays' = Stays
    <2>1. [list EXCEPT !.len = list.len] = list
      BY <1>3 DEF Header
    <2>. QED
      BY <1>1, <1>2, <2>1 DEF Live, Shared, Stays
  <1>5. ScanEnd' = ScanEnd /\ ScanEnd \in Nat /\ (Shared => ScanEnd <= list.len)
    BY <1>2, <1>3, <1>4 DEF ScanEnd
  <1>6. \A j \in 1..list.len : heap'[list.arr][j] = heap[list.arr][j]
    <2>1. \A j \in 1..list.len : j \in Nat /\ j # list.len + 1
      BY <1>3
    <2>. QED
      BY <1>2, <1>3, <2>1, WriteSlots
  <1>7. \A j \in 1..ScanEnd : heap'[Scanning.range.arr][j] = heap[Scanning.range.arr][j]
    <2>1. CASE Shared
      <3>1. \A j \in 1..ScanEnd : j \in 1..list.len
        BY <1>3, <1>5, <2>1
      <3>. QED
        BY <1>6, <2>1, <3>1 DEF Shared
    <2>2. CASE ~Shared
      <3>1. \A j \in 1..ScanEnd : j \in Nat
        BY <1>5
      <3>. QED
        BY <1>2, <1>3, <2>2, <3>1, WriteSlots DEF Shared
    <2>. QED
      BY <2>1, <2>2
  <1>8. InRange(1)' = InRange(1) /\ InRange(Scanning.i)' = InRange(Scanning.i)
    <2>1. \A j \in Scanning.i..ScanEnd : j \in 1..ScanEnd
      BY <1>3, <1>5
    <2>. QED
      BY <1>2, <1>5, <1>7, <2>1 DEF InRange, Slot
  <1>9. \A d, e : Before(d, e)' <=> Before(d, e)
    BY <1>1, <1>4, <1>6 DEF Before, Slot
  <1>10. Done' = Done /\ Missed' = Missed
    BY <1>1, <1>2, <1>4, <1>8, <1>9 DEF Done, Missed
  <1>11. Updating.hold.arr' = Scanning.range.arr' => Shared'
    <2>1. Updating.hold.arr' = list.arr \/ Updating.hold.arr' = Len(heap) + 1
      BY <1>2, WriteSlots
    <2>. QED
      BY <1>2, <1>3, <1>4, <2>1 DEF Shared
  <1>12. Deleting.pc' = "idle" /\ (Shared => Stays \subseteq InRange(1))
    BY <1>2 DEF Hidden
  <1>. QED
    BY <1>1, <1>2, <1>4, <1>8, <1>10, <1>11, <1>12, HiddenKept

\* The list gets the new element behind those it has, or moves to a new array.
LEMMA HidesUpdateStores ==
  ASSUME Typed, Sound, Finite, Finite', Hidden, ~raced, UpdateStores
  PROVE  Hidden'
  <1> DEFINE k == Updating.hold
  <1>1. /\ Moves("update") /\ Updating.pc = "store" /\ Updating.pc' = "idle" /\ list' = k
        /\ UNCHANGED <<heap, visited, wanted, deleted>>
    BY ReturnsTo DEF UpdateStores, history, At, Updating, Typed, Threads
  <1>2. /\ Deleting.pc = "idle" /\ Deleting' = Deleting /\ Scanning' = Scanning
        /\ members = Elements(list) \cup {Updating.node} /\ Lists(k, members) /\ Distinct(list)
    BY <1>1, UpdateAlone DEF UpdateInv, Moves, Threads, Deleting, Scanning
  <1>3. /\ list \in Header /\ list.len \in Nat /\ k \in Header /\ k.len \in Nat
        /\ Scanning.i \in Nat \ {0} /\ Scanning.range.len \in Nat
    BY DEF Typed, TypeOK, Fits, Header, Threads, Scanning, Updating, Goroutine
  <1>4. Live = list /\ Live' = k /\ Stays' = Stays
    <2>1. [list EXCEPT !.len = list.len] = list /\ [k EXCEPT !.len = k.len] = k
      BY <1>3 DEF Header
    <2>. QED
      BY <1>1, <1>2, <2>1 DEF Live, Stays
  <1>. HIDE DEF k
  <1>5. CASE k.arr = list.arr
    <2>1. list.len <= k.len
      <3>. SUFFICES ASSUME k.len < list.len PROVE FALSE
        BY <1>3
      <3>1. k.len + 1 \in 1..list.len
        BY <1>3
      <3>2. Slot(list, k.len + 1) \in Elements(k)
        BY <1>2, <3>1 DEF Elements, Lists
      <3>3. PICK j \in 1..k.len : Slot(k, j) = Slot(list, k.len + 1)
        BY <3>2 DEF Elements
      <3>4. j \in 1..list.len /\ j # k.len + 1
        BY <1>3
      <3>. QED
        BY <1>2, <1>5, <3>1, <3>3, <3>4 DEF Slot, Distinct
    <2>2. Shared' = Shared
      BY <1>1, <1>2, <1>5 DEF Shared
    <2>3. ScanEnd \in Nat /\ ScanEnd' \in Nat /\ ScanEnd <= ScanEnd' /\ (Shared => ScanEnd <= list.len)
      BY <1>2, <1>3, <1>4, <2>1, <2>2 DEF ScanEnd
    <2>4. InRange(1) \subseteq InRange(1)' /\ InRange(Scanning.i) \subseteq InRange(Scanning.i)'
      <3>1. /\ \A j \in 1..ScanEnd : j \in 1..ScanEnd'
            /\ \A j \in Scanning.i..ScanEnd : j \in Scanning.i..ScanEnd'
        BY <1>3, <2>3
      <3>. QED
        BY <1>1, <1>2, <3>1 DEF InRange, Slot
    <2>5. Missed' \subseteq Missed
      BY <1>1, <1>2, <1>4, <2>4 DEF Missed
    <2>6. ASSUME Shared, NEW d, NEW e \in Stays, Before(d, e)' PROVE Before(d, e)
      <3>1. PICK p, q \in 1..k.len : p < q /\ Slot(k, p) = d /\ Slot(k, q) = e
        BY <1>1, <1>4, <2>6 DEF Before, Slot
      <3>2. PICK r \in 1..ScanEnd : Slot(Scanning.range, r) = e
        BY <2>6 DEF Hidden, InRange
      <3>3. r \in 1..k.len /\ r \in 1..list.len
        BY <1>3, <2>1, <2>3, <2>6
      <3>4. Slot(k, r) = e
        BY <1>5, <2>6, <3>2 DEF Shared, Slot
      <3>5. q = r
        BY <1>2, <3>1, <3>3, <3>4 DEF Lists, Distinct
      <3>6. p \in 1..list.len /\ q \in 1..list.len
        BY <1>3, <3>1, <3>3, <3>5
      <3>. QED
        BY <1>4, <1>5, <3>1, <3>6 DEF Before, Slot
    <2>7. Shared => Done \subseteq Done'
      BY <1>1, <1>4, <2>6 DEF Done
    <2>8. Shared => Stays \subseteq InRange(1)
      BY DEF Hidden
    <2>. QED
      BY <1>1, <1>2, <1>4, <2>2, <2>4, <2>5, <2>7, <2>8, HiddenKept
  <1>6. CASE k.arr # list.arr
    <2>1. ~Shared'
      BY <1>1, <1>2, <1>6 DEF Shared, Hidden, k
    <2>2. ScanEnd' = Scanning.range.len /\ ScanEnd <= Scanning.range.len /\ ScanEnd \in Nat
      BY <1>2, <1>3, <1>4, <2>1 DEF ScanEnd
    <2>3. InRange(Scanning.i) \subseteq InRange(Scanning.i)'
      <3>1. \A j \in Scanning.i..ScanEnd : j \in Scanning.i..ScanEnd'
        BY <1>3, <2>2
      <3>. QED
        BY <1>1, <1>2, <3>1 DEF InRange, Slot
    <2>4. Missed' \subseteq Missed
      BY <1>1, <1>2, <1>4, <2>3 DEF Missed
    <2>. QED
      BY <1>1, <1>2, <2>1, <2>4, HiddenKept
  <1>. QED
    BY <1>5, <1>6

\* The cut only makes explicit what the loop knew.
LEMMA HidesDeleteStores ==
  ASSUME Typed, Sound, Finite, Finite', Hidden, ~raced, DeleteStores
  PROVE  Hidden'
  <1> DEFINE k == [list EXCEPT !.len = @ - 1]
  <1>1. /\ Moves("delete") /\ SameLoop("delete") /\ Deleting.pc = "store" /\ Deleting.pc' = "range"
        /\ UNCHANGED <<heap, visited, wanted, deleted>>
    BY NextTo DEF DeleteStores, history, At, Deleting, Typed, Threads
  <1>2. /\ Updating.pc = "idle" /\ Deleting.hold = list /\ Updating' = Updating /\ Scanning' = Scanning
        /\ Deleting.node' = Deleting.node
    BY <1>1, DeleteAlone DEF DeleteInv, Moves, Threads, Updating, Deleting, Scanning, SameLoop
  <1>3. list \in Header /\ list' = k
    BY <1>2 DEF Typed, TypeOK, Fits, DeleteStores, Deleting
  <1>4. Live = k /\ Live' = [k EXCEPT !.len = k.len] /\ k.arr = list.arr
    BY <1>1, <1>3, Resized DEF Live
  <1>5. Live'.len = Live.len /\ k.len = Live.len
    <2>1. k = [arr |-> k.arr, len |-> k.len]
      BY <1>3 DEF Header
    <2>. HIDE DEF k
    <2>2. [k EXCEPT !.len = k.len] = [arr |-> k.arr, len |-> k.len]
      BY <2>1
    <2>. QED
      BY <1>4, <2>1, <2>2
  <1>. HIDE DEF k
  <1>6. Shared' = Shared /\ Stays' = Stays
    BY <1>1, <1>2, <1>3, <1>4 DEF Shared, Stays
  <1>7. ScanEnd' = ScanEnd
    BY <1>2, <1>5, <1>6 DEF ScanEnd
  <1>8. InRange(1)' = InRange(1) /\ InRange(Scanning.i)' = InRange(Scanning.i)
    BY <1>1, <1>2, <1>7 DEF InRange, Slot
  <1>9. \A d, e : Before(d, e)' <=> Before(d, e)
    BY <1>1, <1>3, <1>4, <1>5 DEF Before, Slot
  <1>10. Done' = Done /\ Missed' = Missed
    BY <1>1, <1>2, <1>6, <1>8, <1>9 DEF Done, Missed
  <1>11. /\ Deleting.node' \in deleted' /\ Updating.pc' # "store"
         /\ (Shared => Stays \subseteq InRange(1))
    BY <1>1, <1>2 DEF Hidden
  <1>. QED
    BY <1>1, <1>2, <1>6, <1>8, <1>10, <1>11, HiddenKept

\* Where the elements of the list are after a shift.
LEMMA ShiftPlaces ==
  ASSUME Typed, Sound, ~raced, DeleteShifts
  PROVE  LET i == Deleting.i
             l == list.len
         IN /\ \A q \in 1..l : q < i => heap'[list.arr][q] = Slot(list, q)
            /\ \A q \in 1..l : q > i => heap'[list.arr][q - 1] = Slot(list, q)
            /\ \A p \in 1..(l - 1) :
                 heap'[list.arr][p] = Slot(list, IF p < i THEN p ELSE p + 1)
  <1> DEFINE i == Deleting.i
             l == list.len
  <1>1. /\ l \in Nat /\ i \in 1..l /\ list' = list
        /\ \A j \in 1..l : Slot(list, j)' = IF j \in i..(l - 1) THEN Slot(list, j + 1) ELSE Slot(list, j)
    BY ShiftSlots DEF DeleteShifts
  <1>2. \A j \in 1..l : heap'[list.arr][j] = IF j \in i..(l - 1) THEN Slot(list, j + 1) ELSE Slot(list, j)
    BY <1>1 DEF Slot
  <1>. HIDE DEF i, l
  <1>3. ASSUME NEW q \in 1..l, q < i PROVE heap'[list.arr][q] = Slot(list, q)
    BY <1>1, <1>2, <1>3
  <1>4. ASSUME NEW q \in 1..l, q > i PROVE heap'[list.arr][q - 1] = Slot(list, q)
    <2>1. q - 1 \in 1..l /\ q - 1 \in i..(l - 1) /\ (q - 1) + 1 = q
      BY <1>1, <1>4
    <2>. QED
      BY <1>2, <2>1
  <1>5. ASSUME NEW p \in 1..(l - 1)
        PROVE  heap'[list.arr][p] = Slot(list, IF p < i THEN p ELSE p + 1)
    BY <1>1, <1>2
  <1>. QED
    BY <1>3, <1>4, <1>5 DEF i, l

\* Behind its index the shift moves a node past the loop, if the loop is about to
\* look at it: but then the deletion has none that stay behind its own node any more.
LEMMA HidesDeleteShifts ==
  ASSUME Typed, Sound, Finite, Finite', Hidden, ~raced, DeleteShifts
  PROVE  Hidden'
  <1>a. PICK d : d = Deleting.node
    OBVIOUS
  <1>b. PICK x, l, i, A : x = Deleting.i /\ l = list.len /\ i = Scanning.i /\ A = list.arr
    OBVIOUS
  <1>1. /\ Moves("delete") /\ SameLoop("delete") /\ Deleting.pc = "shift" /\ Deleting.pc' = "store"
        /\ UNCHANGED <<list, visited, wanted, deleted>>
    BY GoesTo DEF DeleteShifts, history, At, Deleting, Typed, Threads, PCs
  <1>2. /\ Updating.pc = "idle" /\ Updating' = Updating /\ Scanning' = Scanning
        /\ Deleting.node' = d /\ d \in deleted
    BY <1>a, <1>1, DeleteAlone DEF Moves, Threads, Updating, Deleting, Scanning, SameLoop, Hidden
  <1>3. /\ Distinct(list) /\ l \in Nat /\ x \in 1..l /\ Slot(list, x) = d /\ list \in Header
        /\ i \in Nat \ {0} /\ Scanning.range.len \in Nat /\ Scanning.range.arr \in DOMAIN heap
        /\ \A a \in DOMAIN heap : a # A => heap'[a] = heap[a]
    <2>1. Fits(Scanning.range) /\ Scanning.i \in Nat \ {0}
      BY DEF Typed, TypeOK, Threads, Scanning, Goroutine
    <2>. QED
      BY <1>a, <1>b, <2>1, ShiftSlots DEF Fits, Header
  <1>4. Live.len = l /\ Live'.len = l - 1
    BY <1>b, <1>1, <1>3, Resized DEF Live
  <1>5. Shared' = Shared /\ Stays' = Stays
    BY <1>1, <1>2 DEF Shared, Stays
  <1>6. CASE ~Shared
    <2>1. ScanEnd = Scanning.range.len /\ ScanEnd' = ScanEnd
      BY <1>2, <1>5, <1>6 DEF ScanEnd
    <2>2. InRange(Scanning.i)' = InRange(Scanning.i)
      BY <1>b, <1>2, <1>3, <1>6, <2>1 DEF InRange, Slot, Shared
    <2>3. Missed' = Missed
      BY <1>1, <1>2, <1>5, <2>2 DEF Missed
    <2>. QED
      BY <1>1, <1>2, <1>5, <1>6, <2>3, HiddenKept
  <1>7. CASE Shared
    <2>0. PICK n, m : n = ScanEnd /\ m = ScanEnd'
      OBVIOUS
    <2>1. n = (IF l < Scanning.range.len THEN l ELSE Scanning.range.len)
          /\ m = IF l - 1 < Scanning.range.len THEN l - 1 ELSE Scanning.range.len
      BY <1>2, <1>4, <1>5, <1>7, <2>0 DEF ScanEnd
    <2>2. n \in Nat /\ m \in Nat /\ n <= l /\ m <= l - 1 /\ (n = m \/ (n = l /\ m = l - 1))
      BY <1>3, <2>1
    <2>3. Stays \subseteq InRange(1) /\ d \notin Stays
      BY <1>2, <1>7 DEF Hidden, Stays
    <2>4. Scanning.range.arr = A /\ Scanning.range'.arr = A
      BY <1>b, <1>2, <1>7 DEF Shared
    <2>5. /\ \A q \in 1..l : q < x => heap'[A][q] = Slot(list, q)
          /\ \A q \in 1..l : q > x => heap'[A][q - 1] = Slot(list, q)
          /\ \A p \in 1..(l - 1) : heap'[A][p] = Slot(list, IF p < x THEN p ELSE p + 1)
      BY <1>b, ShiftPlaces
    <2>6. \A from : /\ InRange(from) = {Slot(list, j) : j \in from..n}
                    /\ InRange(from)' = {heap'[A][j] : j \in from..m}
      BY <2>0, <2>4, <1>b DEF InRange, Slot
    <2>7. \A p, q \in 1..l : Slot(list, p) = Slot(list, q) => p = q
      BY <1>b, <1>3 DEF Distinct
    <2>8. \A c, e : Before(c, e) <=> \E p, q \in 1..l : p < q /\ Slot(list, p) = c /\ Slot(list, q) = e
      BY <1>4 DEF Before
    <2>9. \A c, e : Before(c, e)' <=> \E p, q \in 1..(l - 1) : p < q /\ heap'[A][p] = c /\ heap'[A][q] = e
      BY <1>b, <1>1, <1>4 DEF Before, Slot
    \* Where a node that stays is now.
    <2>10. ASSUME NEW e \in Stays, NEW q \in 1..n, Slot(list, q) = e
           PROVE  /\ q # x /\ q \in 1..l
                  /\ q < x => q \in 1..m /\ heap'[A][q] = e
                  /\ q > x => q - 1 \in 1..m /\ heap'[A][q - 1] = e
      <3>1. q # x
        BY <1>3, <2>3, <2>10
      <3>2. q \in 1..l
        BY <1>3, <2>2
      <3>3. q < x => q \in 1..m
        BY <1>3, <2>2
      <3>4. q > x => q - 1 \in 1..m
        BY <1>3, <2>2
      <3>. QED
        BY <2>5, <2>10, <3>1, <3>2, <3>3, <3>4
    <2>11. Stays' \subseteq InRange(1)'
      <3>. SUFFICES ASSUME NEW e \in Stays PROVE e \in InRange(1)'
        BY <1>5
      <3>1. PICK q \in 1..n : Slot(list, q) = e
        BY <2>3, <2>6
      <3>2. q < x \/ q > x
        BY <1>3, <2>2, <2>10, <3>1
      <3>3. \E p \in 1..m : heap'[A][p] = e
        BY <2>10, <3>1, <3>2
      <3>. QED
        BY <2>6, <3>3
    \* The order of the others stays ...
    <2>12. \A c, e : Before(c, e)' => Before(c, e)
      <3>. SUFFICES ASSUME NEW c, NEW e, NEW p \in 1..(l - 1), NEW q \in 1..(l - 1), p < q,
                           heap'[A][p] = c, heap'[A][q] = e
                    PROVE  Before(c, e)
        BY <2>9
      <3>1. PICK P : P = IF p < x THEN p ELSE p + 1
        OBVIOUS
      <3>2. PICK Q : Q = IF q < x THEN q ELSE q + 1
        OBVIOUS
      <3>3. P \in 1..l /\ Q \in 1..l /\ P < Q
        BY <1>3, <3>1, <3>2
      <3>4. Slot(list, P) = c /\ Slot(list, Q) = e
        BY <2>5, <3>1, <3>2
      <3>. QED
        BY <2>8, <3>3, <3>4
    <2>13. Done \subseteq Done'
      BY <1>1, <1>5, <2>12 DEF Done
    \* ... and the deleted node is out of it.
    <2>14. d \in Done'
      <3>1. \A e : ~Before(d, e)'
        <4>. SUFFICES ASSUME NEW p \in 1..(l - 1), heap'[A][p] = d PROVE FALSE
          BY <2>9
        <4>1. PICK P : P = IF p < x THEN p ELSE p + 1
          OBVIOUS
        <4>2. P \in 1..l /\ P # x
          BY <1>3, <4>1
        <4>3. Slot(list, P) = d
          BY <2>5, <4>1
        <4>. QED
          BY <1>3, <2>7, <4>2, <4>3
      <3>. QED
        BY <1>1, <1>2, <3>1 DEF Done
    <2>15. PICK e0 : e0 = Slot(list, i)
      OBVIOUS
    <2>16. ASSUME NEW e \in Missed', e \notin Missed
           PROVE  e = e0 /\ Before(d, e0) /\ e0 \in Stays
      <3>1. e \in Stays /\ e \notin visited /\ e \in InRange(i) /\ e \notin InRange(i)'
        BY <1>b, <1>1, <1>2, <1>5, <2>16 DEF Missed
      <3>2. PICK q \in i..n : Slot(list, q) = e
        BY <2>6, <3>1
      <3>3. q \in 1..n
        BY <1>3, <2>2
      <3>4. ~(q < x)
        <4>1. q < x => q \in i..m
          BY <1>3, <2>2, <2>10, <3>2, <3>3
        <4>. QED
          BY <2>6, <2>10, <3>1, <3>2, <3>3, <4>1
      <3>5. q > x /\ q \in 1..l
        BY <1>3, <2>2, <2>10, <3>1, <3>2, <3>3, <3>4
      <3>6. q - 1 \notin i..m
        BY <2>6, <2>10, <3>1, <3>2, <3>3, <3>5
      <3>7. q = i
        <4>1. q - 1 \in 1..m
          BY <2>10, <3>1, <3>2, <3>3, <3>5
        <4>. QED
          BY <1>3, <2>2, <3>6, <4>1
      <3>. QED
        BY <1>3, <2>8, <2>15, <3>1, <3>2, <3>5, <3>7
    <2>17. Done \subseteq deleted /\ Done' \subseteq deleted' /\ Missed \subseteq wanted /\ Missed' \subseteq wanted'
      BY DEF Done, Missed, Stays
    <2>18. IsFiniteSet(Done) /\ IsFiniteSet(Done') /\ IsFiniteSet(Missed) /\ IsFiniteSet(Missed')
      BY <2>17, Fewer DEF Finite
    <2>19. Cardinality(Missed) <= Cardinality(Done) /\ Cardinality(Missed) \in Nat /\ Cardinality(Done) \in Nat
      BY <1>7, <2>18, FS_CardinalityType DEF Hidden
    <2>20. Cardinality(Missed') <= Cardinality(Done')
      <3>1. CASE Missed' \subseteq Missed
        <4>1. /\ Cardinality(Missed') <= Cardinality(Missed) /\ Cardinality(Done) <= Cardinality(Done')
              /\ Cardinality(Missed') \in Nat /\ Cardinality(Done') \in Nat
          BY <2>13, <2>18, <3>1, Fewer
        <4>. QED
          BY <2>19, <4>1
      <3>2. CASE ~(Missed' \subseteq Missed)
        <4>1. Missed' \subseteq Missed \cup {e0} /\ Before(d, e0) /\ e0 \in Stays
          BY <2>16, <3>2
        <4>2. d \notin Done
          BY <4>1 DEF Done
        <4>3. Done \cup {d} \subseteq Done'
          BY <2>13, <2>14
        <4>4. IsFiniteSet(Done \cup {d}) /\ Cardinality(Done \cup {d}) = Cardinality(Done) + 1
          BY <2>18, <4>2, FS_AddElement
        <4>5. IsFiniteSet(Missed \cup {e0}) /\ Cardinality(Missed \cup {e0}) <= Cardinality(Missed) + 1
          BY <2>18, <2>19, FS_AddElement
        <4>6. Cardinality(Missed') <= Cardinality(Missed \cup {e0}) /\ Cardinality(Missed') \in Nat
              /\ Cardinality(Missed \cup {e0}) \in Nat
          BY <4>1, <4>5, Fewer
        <4>7. Cardinality(Done \cup {d}) <= Cardinality(Done') /\ Cardinality(Done') \in Nat
          BY <2>18, <4>3, Fewer
        <4>. QED
          BY <2>19, <4>4, <4>5, <4>6, <4>7
      <3>. QED
        BY <3>1, <3>2
    <2>21. Deleting.node' \in deleted' /\ Updating.pc' # "store"
      BY <1>1, <1>2
    <2>. QED
      BY <1>5, <1>7, <2>11, <2>20, <2>21 DEF Hidden
  <1>. QED
    BY <1>6, <1>7

LEMMA HidesStep ==
  ASSUME Typed, Sound, Leaves, Finite, Finite', Hides, [Next]_vars PROVE Hides'
  <1>. SUFFICES ASSUME ~raced' PROVE Hides'
    BY DEF Hides
  <1>1. ~raced
    BY DEF Next, vars, history, CallUpdate, CallDelete, CallScan, Overlaps, UpdateLooks, UpdateLoads,
           UpdateWrites, UpdateStores, DeleteLooks, DeleteLoads, DeleteShifts, DeleteStores, ScanLooks
  <1>2. CASE CallScan
    <2>1. Scanning.pc' = "range"
      BY <1>2, BeginsTo DEF CallScan, Threads, Scanning
    <2>. QED
      BY <1>1, <1>2, <2>1, HidesCallScan DEF Hides
  <1>3. CASE ScanLooks
    BY <1>1, <1>3, HidesScanLooks
  <1>4. CASE UNCHANGED vars
    BY <1>4 DEF vars, history, Hides, Hidden, Scanning, Deleting, Updating, Shared, Stays, InRange,
                Missed, Done, Before, Live, ScanEnd, Slot
  <1>5. CASE \/ UpdateLooks \/ UpdateLoads \/ UpdateWrites \/ UpdateStores
             \/ DeleteLooks \/ DeleteLoads \/ DeleteShifts \/ DeleteStores
             \/ \E n \in Nodes : CallUpdate(n) \/ CallDelete(n)
    <2>1. Scanning' = Scanning /\ UNCHANGED <<visited, wanted>>
      BY <1>5 DEF UpdateLooks, UpdateLoads, UpdateWrites, UpdateStores, DeleteLooks, DeleteLoads,
             DeleteShifts, DeleteStores, CallUpdate, CallDelete, Begin, Goes, Returns, Next1, Threads,
             Typed, TypeOK, Scanning, history
    <2>2. CASE Scanning.pc = "idle"
      <3>1. deleted' = deleted
        BY <1>5, <2>2 DEF UpdateLooks, UpdateLoads, UpdateWrites, UpdateStores, DeleteLooks, DeleteLoads,
               DeleteShifts, DeleteStores, CallUpdate, CallDelete, Scanning, history
      <3>. QED
        BY <1>1, <2>1, <2>2, <3>1 DEF Hides
    <2>3. CASE Scanning.pc # "idle"
      <3>1. Hidden
        BY <1>1, <2>3 DEF Hides
      <3>2. Hidden'
        BY <1>1, <1>5, <2>3, <3>1, HidesQuiet, HidesCallDelete, HidesUpdateWrites, HidesUpdateStores,
           HidesDeleteShifts, HidesDeleteStores
      <3>. QED
        BY <2>1, <2>3, <3>2 DEF Hides
    <2>. QED
      BY <2>2, <2>3
  <1>. QED
    BY <1>2, <1>3, <1>4, <1>5 DEF Next

\* rmdworkload_controller.go:188-192 and 295-299: a loop over the list while calls
\* change it knows, of the nodes it was to see, at every step which it still has
\* ahead, and that it has missed no more of them than deletions have passed them.
THEOREM ScanCorrect == Spec => []ScanInv
  <1>1. Init => Typed /\ Sound /\ Leaves /\ NoneFree /\ Finite /\ Hides
    BY TypeInit, SoundInit, LeavesInit, FreeInit, FiniteInit, HidesInit
  <1>2. Typed /\ Sound /\ Leaves /\ NoneFree /\ Finite /\ Hides /\ [Next]_vars
        => (Typed /\ Sound /\ Leaves /\ NoneFree /\ Finite /\ Hides)'
    BY TypeStep, SoundStep, LeavesStep, FreeStep, FiniteStep, HidesStep
  <1>. QED
    BY <1>1, <1>2, ScanParts, PTL DEF Spec

\* rmdworkload_controller.go:188-192 and 295-299: without an overlap of an addition and
\* a deletion, of the nodes in the list when the loop began it misses at most one for
\* each deletion that overlapped it, and it never sees a slot nothing was written to.
THEOREM ScanMissesFew == Spec => []ScanMissesLittle
  <1>1. ScanInv => ScanMissesLittle
    BY DEF ScanInv, ScanMissesLittle, NoneFree
  <1>. QED
    BY <1>1, ScanCorrect, PTL
=============================================================================
