-------------------------- MODULE RmdNodeDataProofs --------------------------
(***************************************************************************)
(* What holds of the shared list of nodes for every set of nodes and any   *)
(* number of calls and loops.                                              *)
(***************************************************************************)
EXTENDS RmdNodeData, FiniteSetTheorems, TLAPS

Content == Nodes \cup {Free}

(***************************************************************************)
(* Types.                                                                  *)
(***************************************************************************)
\* A write into an array keeps all arrays and their sizes.
LEMMA WriteType ==
  ASSUME NEW H \in Seq(Seq(Content)), NEW a \in DOMAIN H, NEW b \in Seq(Content), Len(b) = Len(H[a]),
         NEW K, K = [H EXCEPT ![a] = b]
  PROVE  /\ K \in Seq(Seq(Content)) /\ Len(K) = Len(H) /\ DOMAIN K = DOMAIN H
         /\ \A c \in DOMAIN H : Len(K[c]) = Len(H[c])
  OBVIOUS

\* The elements of a header that fits are contents.
LEMMA SlotType ==
  ASSUME TypeOK, NEW h, Fits(h), NEW i \in 1..h.len
  PROVE  Slot(h, i) \in Content
  BY DEF TypeOK, Fits, Slot, Cap, Header, Content

LEMMA GrownType ==
  ASSUME TypeOK, NEW h, Fits(h), NEW n \in Nodes
  PROVE  /\ Grown(h, n) \in Seq(Content)
         /\ Len(Grown(h, n)) >= h.len + 1
         /\ Grown(h, n)[h.len + 1] = n
         /\ \A i \in 1..h.len : Grown(h, n)[i] = Slot(h, i)
  <1> DEFINE size == IF Cap(h) = 0 THEN 1 ELSE 2 * Cap(h)
  <1>1. Cap(h) \in Nat /\ h.len \in Nat /\ h.len <= Cap(h)
    BY DEF TypeOK, Fits, Cap, Header, Content
  <1>3. size \in Nat /\ size >= h.len + 1
    BY <1>1
  <1>4. \A i \in 1..size :
          (IF i <= h.len THEN Slot(h, i) ELSE IF i = h.len + 1 THEN n ELSE Free) \in Content
    BY <1>1, <1>3, SlotType DEF Content
  <1>. HIDE DEF size
  <1>5. Grown(h, n) = [i \in 1..size |-> IF i <= h.len THEN Slot(h, i)
                                          ELSE IF i = h.len + 1 THEN n ELSE Free]
    BY DEF Grown, size
  <1>. QED
    BY <1>1, <1>3, <1>4, <1>5

Typed == TypeOK /\ IndexHeld

ThreadsTyped ==
  /\ thread \in [Threads -> Goroutine]
  /\ \A t \in Threads : Fits(thread[t].range) /\ Fits(thread[t].hold)

\* FitsIn(heap, h) is Fits(h), for a heap that changes.
FitsIn(H, h) == h \in Header /\ h.arr \in DOMAIN H /\ h.len <= Len(H[h.arr])

HeapKept == \A h \in Header : FitsIn(heap, h) => FitsIn(heap', h)

LEMMA FitsFitsIn == TypeOK => \A h : Fits(h) <=> FitsIn(heap, h)
  BY DEF Fits, FitsIn, Cap

\* One goroutine moves on; the headers of the others still fit.
LEMMA ThreadType ==
  ASSUME TypeOK, HeapKept, NEW t \in Threads,
         thread' = [thread EXCEPT ![t] = thread'[t]],
         thread'[t] \in Goroutine,
         FitsIn(heap', thread'[t].range), FitsIn(heap', thread'[t].hold)
  PROVE  ThreadsTyped'
  <1>1. \A s \in Threads : thread'[s] \in Goroutine
    BY DEF TypeOK
  <1>2. thread' \in [Threads -> Goroutine]
    BY <1>1 DEF TypeOK
  <1>3. ASSUME NEW s \in Threads
        PROVE  FitsIn(heap', thread'[s].range) /\ FitsIn(heap', thread'[s].hold)
    <2>1. CASE s = t
      BY <2>1
    <2>2. CASE s # t
      <3>1. thread'[s] = thread[s]
        BY <2>2 DEF TypeOK
      <3>2. FitsIn(heap, thread[s].range) /\ FitsIn(heap, thread[s].hold)
        BY FitsFitsIn DEF TypeOK
      <3>. QED
        BY <3>1, <3>2 DEF HeapKept, FitsIn
    <2>. QED
      BY <2>1, <2>2
  <1>. QED
    BY <1>2, <1>3 DEF ThreadsTyped, Fits, FitsIn, Cap

\* The header a new operator and an idle goroutine hold.
LEMMA EmptyFits ==
  TypeOK => FitsIn(heap, NoSlice)
  <1>. SUFFICES ASSUME TypeOK PROVE FitsIn(heap, NoSlice)
    OBVIOUS
  <1>1. Len(heap) \in Nat /\ DOMAIN heap = 1..Len(heap) /\ \A a \in DOMAIN heap : Len(heap[a]) \in Nat
    BY DEF TypeOK
  <1>2. list.arr \in DOMAIN heap
    BY DEF TypeOK, Fits
  <1>3. 1 \in DOMAIN heap
    BY <1>1, <1>2
  <1>. QED
    BY <1>1, <1>3 DEF FitsIn, Header, NoSlice

LEMMA TypeInit == Init => Typed
  <1>. SUFFICES ASSUME Init PROVE Typed
    OBVIOUS
  <1>1. heap = << <<>> >> /\ heap \in Seq(Seq(Nodes \cup {Free})) /\ Len(heap) = 1 /\ Len(heap[1]) = 0
    BY DEF Init
  <1>2. Idle \in Goroutine
    BY DEF Idle, Loop, NoSlice, Goroutine, Header
  <1>3. Fits(NoSlice)
    BY <1>1 DEF Fits, Cap, Header, NoSlice
  <1>4. ThreadsTyped
    BY <1>2, <1>3 DEF Init, ThreadsTyped, Idle, Loop
  <1>5. \A t \in Threads : thread[t].pc = "idle"
    BY DEF Init, Idle, Loop
  <1>6. IndexHeld
    BY <1>5 DEF IndexHeld, Updating, Deleting, Threads
  <1>. QED
    BY <1>1, <1>3, <1>4, <1>6 DEF Init, ThreadsTyped, Typed, TypeOK

\* All that stays when only the goroutines move.
LEMMA TypeBegin ==
  ASSUME Typed, NEW t \in Threads, NEW n \in Nodes \cup {Free}, t # "scan" => n \in Nodes, Begin(t, n), UNCHANGED <<heap, list>>
  PROVE  ThreadsTyped' /\ IndexHeld'
  <1> DEFINE g == Loop("range", n, list)
  <1>0. list \in Header /\ NoSlice \in Header
    BY DEF Header, Typed, TypeOK, Fits, NoSlice
  <1>1. g \in Goroutine /\ g.range = list /\ g.hold = NoSlice /\ g.pc = "range" /\ g.node = n
    BY <1>0 DEF Goroutine, Loop
  <1>2. thread' = [thread EXCEPT ![t] = g] /\ thread'[t] = g
    BY DEF Begin, Typed, TypeOK
  <1>. HIDE DEF g
  <1>3. HeapKept
    BY DEF HeapKept, FitsIn
  <1>4. FitsIn(heap', g.range) /\ FitsIn(heap', g.hold)
    BY <1>1, FitsFitsIn, EmptyFits DEF Typed, TypeOK
  <1>5. ThreadsTyped'
    BY <1>1, <1>2, <1>3, <1>4, ThreadType DEF Typed
  <1>. QED
    BY <1>1, <1>2, <1>5 DEF IndexHeld, Typed, TypeOK, Updating, Deleting, Threads

(***************************************************************************)
(* What a goroutine is after each kind of move.                            *)
(***************************************************************************)
Moves(t) ==
  /\ thread' = [thread EXCEPT ![t] = thread'[t]]
  /\ thread'[t] \in Goroutine
  /\ \A s \in Threads \ {t} : thread'[s] = thread[s]

SameLoop(t) == thread'[t].node = thread[t].node /\ thread'[t].range = thread[t].range

PCs == {"idle", "range", "load", "write", "shift", "store"}

LEMMA GoesTo ==
  ASSUME TypeOK, NEW t \in Threads, NEW pc \in PCs, Goes(t, pc)
  PROVE  /\ Moves(t) /\ SameLoop(t)
         /\ thread'[t].pc = pc /\ thread'[t].i = thread[t].i /\ thread'[t].hold = thread[t].hold
  <1>1. thread[t] \in Goroutine
    BY DEF TypeOK
  <1>2. thread' = [thread EXCEPT ![t] = [thread[t] EXCEPT !.pc = pc]]
    BY DEF Goes, TypeOK
  <1>3. thread'[t] = [thread[t] EXCEPT !.pc = pc]
    BY <1>2 DEF TypeOK
  <1>. QED
    BY <1>1, <1>2, <1>3 DEF Moves, SameLoop, Goroutine, PCs, TypeOK

LEMMA ReturnsTo ==
  ASSUME TypeOK, NEW t \in Threads, Returns(t)
  PROVE  Moves(t) /\ thread'[t] = Idle /\ thread'[t].pc = "idle"
  <1>1. Idle \in Goroutine
    BY DEF Idle, Loop, NoSlice, Goroutine, Header
  <1>. QED
    BY <1>1 DEF Returns, Moves, TypeOK, Idle, Loop

LEMMA NextTo ==
  ASSUME TypeOK, NEW t \in Threads, Next1(t)
  PROVE  /\ Moves(t) /\ SameLoop(t)
         /\ thread'[t].pc = "range" /\ thread'[t].i = thread[t].i + 1
         /\ thread'[t].hold = thread[t].hold
  <1> DEFINE g == [thread[t] EXCEPT !.i = @ + 1, !.pc = "range"]
  <1>1. thread[t] \in Goroutine
    BY DEF TypeOK
  <1>2. thread' = [thread EXCEPT ![t] = g] /\ thread'[t] = g
    BY DEF Next1, TypeOK
  <1>3. /\ g.pc = "range" /\ g.i = thread[t].i + 1 /\ g.hold = thread[t].hold
        /\ g.node = thread[t].node /\ g.range = thread[t].range /\ g \in Goroutine
    <2> DEFINE j == thread[t].i + 1
    <2>1. j \in Nat \ {0}
      BY <1>1 DEF Goroutine
    <2>2. g = [thread[t] EXCEPT !.i = j, !.pc = "range"]
      OBVIOUS
    <2>. HIDE DEF j, g
    <2>3. /\ g.pc = "range" /\ g.i = j /\ g.hold = thread[t].hold
          /\ g.node = thread[t].node /\ g.range = thread[t].range /\ g \in Goroutine
      BY <1>1, <2>1, <2>2 DEF Goroutine
    <2>. QED
      BY <2>3 DEF j
  <1>. HIDE DEF g
  <1>. QED
    BY <1>2, <1>3 DEF Moves, SameLoop, TypeOK

LEMMA HoldsTo ==
  ASSUME TypeOK, NEW t \in Threads, NEW pc \in PCs, NEW h \in Header,
         thread' = [thread EXCEPT ![t].hold = h, ![t].pc = pc]
  PROVE  /\ Moves(t) /\ SameLoop(t)
         /\ thread'[t].pc = pc /\ thread'[t].i = thread[t].i /\ thread'[t].hold = h
  <1> DEFINE g == [thread[t] EXCEPT !.hold = h, !.pc = pc]
  <1>1. thread[t] \in Goroutine
    BY DEF TypeOK
  <1>2. thread' = [thread EXCEPT ![t] = g] /\ thread'[t] = g
    BY DEF TypeOK
  <1>3. /\ g.pc = pc /\ g.i = thread[t].i /\ g.hold = h
        /\ g.node = thread[t].node /\ g.range = thread[t].range /\ g \in Goroutine
    BY <1>1 DEF Goroutine, PCs
  <1>. HIDE DEF g
  <1>. QED
    BY <1>2, <1>3 DEF Moves, SameLoop, TypeOK

(***************************************************************************)
(* Each step keeps the types.                                              *)
(***************************************************************************)
LEMMA KeptType ==
  ASSUME Typed, NEW t \in Threads, Moves(t), UNCHANGED heap,
         thread'[t].range \in {thread[t].range, NoSlice, list},
         thread'[t].hold \in {thread[t].hold, NoSlice, list}
  PROVE  ThreadsTyped'
  <1>1. FitsIn(heap, NoSlice) /\ FitsIn(heap, list)
        /\ FitsIn(heap, thread[t].range) /\ FitsIn(heap, thread[t].hold)
    BY EmptyFits, FitsFitsIn DEF Typed, TypeOK
  <1>2. FitsIn(heap', thread'[t].range) /\ FitsIn(heap', thread'[t].hold)
    BY <1>1
  <1>3. HeapKept
    BY DEF HeapKept
  <1>. QED
    BY <1>2, <1>3, ThreadType DEF Moves, Typed

\* What TypeOK says besides the goroutines.
RestTyped ==
  /\ heap \in Seq(Seq(Nodes \cup {Free}))
  /\ Fits(list)
  /\ visited \subseteq Nodes \cup {Free} /\ panicked \in BOOLEAN
  /\ members \cup unsure \subseteq Nodes /\ wanted \subseteq Nodes \cup {Free} /\ deleted \subseteq Nodes
  /\ raced \in BOOLEAN

LEMMA RestKept ==
  ASSUME RestTyped, UNCHANGED <<heap, list, visited, panicked, history>>
  PROVE  RestTyped'
  BY DEF RestTyped, history, Fits, Cap

LEMMA IdleFields == Idle.pc = "idle" /\ Idle.range = NoSlice /\ Idle.hold = NoSlice /\ Idle.node = Free
  BY DEF Idle, Loop

LEMMA TypeCalls ==
  ASSUME Typed, NEW n \in Nodes, CallUpdate(n) \/ CallDelete(n)
  PROVE  Typed'
  <1>1. ThreadsTyped' /\ IndexHeld'
    BY TypeBegin DEF CallUpdate, CallDelete, Threads
  <1>2. members' \cup unsure' \subseteq Nodes /\ deleted' \subseteq Nodes /\ raced' \in BOOLEAN
    BY DEF Typed, TypeOK, CallUpdate, CallDelete, Overlaps
  <1>3. RestTyped'
    BY <1>2 DEF Typed, TypeOK, RestTyped, CallUpdate, CallDelete, Fits, Cap
  <1>. QED
    BY <1>1, <1>3 DEF Typed, TypeOK, RestTyped, ThreadsTyped

LEMMA ElementsType ==
  ASSUME TypeOK, NEW h, Fits(h) PROVE Elements(h) \subseteq Nodes \cup {Free}
  BY SlotType DEF Elements, Content

LEMMA TypeCallScan ==
  ASSUME Typed, CallScan
  PROVE  Typed'
  <1>1. ThreadsTyped' /\ IndexHeld'
    BY TypeBegin DEF CallScan, Threads
  <1>2. Elements(list) \subseteq Nodes \cup {Free}
    BY ElementsType DEF Typed, TypeOK
  <1>3. deleted' \subseteq Nodes /\ wanted' = Elements(list) /\ visited' = {}
    BY DEF CallScan, Typed, IndexHeld, Deleting
  <1>4. Fits(list)'
    BY DEF Typed, TypeOK, CallScan, Fits, Cap
  <1>5. RestTyped'
    BY <1>2, <1>3, <1>4 DEF Typed, TypeOK, RestTyped, CallScan
  <1>. QED
    BY <1>1, <1>5 DEF Typed, TypeOK, RestTyped, ThreadsTyped

\* From here on a step is that of one goroutine, which stays on its node.
LEMMA IndexKept ==
  ASSUME Typed, NEW t \in Threads, Moves(t),
         thread'[t].pc # "idle" => thread[t].pc # "idle" /\ thread'[t].node = thread[t].node,
         t = "update" => thread'[t].pc # "shift",
         t = "delete" => thread'[t].pc # "write",
         t = "delete" /\ thread'[t].pc \in {"shift", "store"} => thread'[t].i <= thread'[t].hold.len
  PROVE  IndexHeld'
  BY DEF Typed, IndexHeld, Updating, Deleting, Moves, Threads

LEMMA TypeUpdateLooks ==
  ASSUME Typed, UpdateLooks PROVE Typed'
  <1>1. "update" \in Threads /\ TypeOK
    BY DEF Threads, Typed
  <1>2. ThreadsTyped' /\ IndexHeld'
    <2>1. CASE Goes("update", "load")
      BY <1>1, <2>1, GoesTo, KeptType, IndexKept DEF UpdateLooks, At, SameLoop, PCs
    <2>2. CASE Returns("update")
      BY <1>1, <2>2, ReturnsTo, KeptType, IndexKept, IdleFields DEF UpdateLooks, At
    <2>3. CASE Next1("update")
      BY <1>1, <2>3, NextTo, KeptType, IndexKept DEF UpdateLooks, At, SameLoop
    <2>. QED
      BY <2>1, <2>2, <2>3 DEF UpdateLooks
  <1>3. RestTyped'
    BY RestKept DEF UpdateLooks, Typed, TypeOK, RestTyped
  <1>. QED
    BY <1>2, <1>3 DEF Typed, TypeOK, RestTyped, ThreadsTyped

LEMMA TypeUpdateLoads ==
  ASSUME Typed, UpdateLoads PROVE Typed'
  <1>1. "update" \in Threads /\ TypeOK /\ list \in Header /\ "write" \in PCs
    BY DEF Threads, Typed, TypeOK, Fits, PCs
  <1>2. /\ Moves("update") /\ SameLoop("update")
        /\ thread'["update"].pc = "write" /\ thread'["update"].hold = list
    BY <1>1, HoldsTo DEF UpdateLoads
  <1>3. ThreadsTyped' /\ IndexHeld'
    BY <1>1, <1>2, KeptType, IndexKept DEF UpdateLoads, At, SameLoop
  <1>4. RestTyped'
    BY RestKept DEF UpdateLoads, Typed, TypeOK, RestTyped
  <1>. QED
    BY <1>3, <1>4 DEF Typed, TypeOK, RestTyped, ThreadsTyped

LEMMA TypeUpdateStores ==
  ASSUME Typed, UpdateStores PROVE Typed'
  <1>1. "update" \in Threads /\ TypeOK
    BY DEF Threads, Typed
  <1>2. ThreadsTyped' /\ IndexHeld'
    BY <1>1, ReturnsTo, KeptType, IndexKept, IdleFields DEF UpdateStores, At
  <1>3. Fits(list)'
    BY <1>1 DEF UpdateStores, TypeOK, Fits, Cap
  <1>4. RestTyped'
    BY <1>3 DEF UpdateStores, Typed, TypeOK, RestTyped, history
  <1>. QED
    BY <1>2, <1>4 DEF Typed, TypeOK, RestTyped, ThreadsTyped

LEMMA TypeDeleteLooks ==
  ASSUME Typed, DeleteLooks PROVE Typed'
  <1>1. "delete" \in Threads /\ TypeOK
    BY DEF Threads, Typed
  <1>2. ThreadsTyped' /\ IndexHeld'
    <2>1. CASE Goes("delete", "load")
      BY <1>1, <2>1, GoesTo, KeptType, IndexKept DEF DeleteLooks, At, SameLoop, PCs
    <2>2. CASE Returns("delete")
      BY <1>1, <2>2, ReturnsTo, KeptType, IndexKept, IdleFields DEF DeleteLooks, At
    <2>3. CASE Next1("delete")
      BY <1>1, <2>3, NextTo, KeptType, IndexKept DEF DeleteLooks, At, SameLoop
    <2>. QED
      BY <2>1, <2>2, <2>3 DEF DeleteLooks
  <1>3. RestTyped'
    BY RestKept DEF DeleteLooks, Typed, TypeOK, RestTyped
  <1>. QED
    BY <1>2, <1>3 DEF Typed, TypeOK, RestTyped, ThreadsTyped

LEMMA TypeDeleteLoads ==
  ASSUME Typed, DeleteLoads PROVE Typed'
  <1>1. "delete" \in Threads /\ TypeOK /\ list \in Header /\ "shift" \in PCs
    BY DEF Threads, Typed, TypeOK, Fits, PCs
  <1>2. CASE thread["delete"].i <= list.len
    <2>1. /\ Moves("delete") /\ SameLoop("delete")
          /\ thread'["delete"].pc = "shift" /\ thread'["delete"].hold = list
          /\ thread'["delete"].i = thread["delete"].i
      BY <1>1, <1>2, HoldsTo DEF DeleteLoads
    <2>2. ThreadsTyped' /\ IndexHeld'
      BY <1>1, <1>2, <2>1, KeptType, IndexKept DEF DeleteLoads, At, SameLoop
    <2>3. RestTyped'
      BY <1>2, RestKept DEF DeleteLoads, Typed, TypeOK, RestTyped
    <2>. QED
      BY <2>2, <2>3 DEF Typed, TypeOK, RestTyped, ThreadsTyped
  <1>3. CASE ~(thread["delete"].i <= list.len)
    <2>1. panicked' = TRUE /\ UNCHANGED <<thread, heap, list, visited, history>>
      BY <1>3 DEF DeleteLoads
    <2>. QED
      BY <2>1 DEF Typed, TypeOK, IndexHeld, Updating, Deleting, history, Fits, Cap
  <1>. QED
    BY <1>2, <1>3

LEMMA TypeDeleteStores ==
  ASSUME Typed, DeleteStores PROVE Typed'
  <1>1. "delete" \in Threads /\ TypeOK
    BY DEF Threads, Typed
  <1>2. ThreadsTyped' /\ IndexHeld'
    BY <1>1, NextTo, KeptType, IndexKept DEF DeleteStores, At, SameLoop
  <1>3. Fits(list)'
    <2> DEFINE h == thread["delete"].hold
    <2>1. Fits(h) /\ h \in Header /\ 1 <= h.len
      BY <1>1 DEF TypeOK, Fits, Typed, IndexHeld, Deleting, DeleteStores, At, Goroutine, Header
    <2>2. [h EXCEPT !.len = @ - 1] \in Header
          /\ [h EXCEPT !.len = @ - 1].arr = h.arr /\ [h EXCEPT !.len = @ - 1].len = h.len - 1
      BY <2>1 DEF Header
    <2>3. list' = [h EXCEPT !.len = @ - 1] /\ heap' = heap
      BY DEF DeleteStores
    <2>4. Len(heap[h.arr]) \in Nat
      BY <1>1, <2>1 DEF TypeOK, Fits
    <2>. HIDE DEF h
    <2>. QED
      BY <2>1, <2>2, <2>3, <2>4 DEF Fits, Cap, Header
  <1>4. RestTyped'
    BY <1>3 DEF DeleteStores, Typed, TypeOK, RestTyped, history
  <1>. QED
    BY <1>2, <1>4 DEF Typed, TypeOK, RestTyped, ThreadsTyped

LEMMA TypeScanLooks ==
  ASSUME Typed, ScanLooks PROVE Typed'
  <1>1. "scan" \in Threads /\ TypeOK
    BY DEF Threads, Typed
  <1>2. ThreadsTyped' /\ IndexHeld'
    <2>1. CASE Returns("scan")
      BY <1>1, <2>1, ReturnsTo, KeptType, IndexKept, IdleFields DEF ScanLooks, At
    <2>2. CASE Next1("scan")
      BY <1>1, <2>2, NextTo, KeptType, IndexKept DEF ScanLooks, At, SameLoop
    <2>. QED
      BY <2>1, <2>2 DEF ScanLooks
  <1>3. visited' \subseteq Nodes \cup {Free}
    <2>1. CASE AtEnd("scan")
      BY <2>1 DEF ScanLooks, Typed, TypeOK
    <2>2. CASE ~AtEnd("scan")
      <3>1. Fits(thread["scan"].range) /\ thread["scan"].i \in 1..thread["scan"].range.len
        BY <1>1, <2>2 DEF AtEnd, TypeOK, Goroutine, Header
      <3>2. Current("scan") \in Content
        BY <1>1, <3>1, SlotType DEF Current
      <3>. QED
        BY <2>2, <3>2 DEF ScanLooks, Typed, TypeOK, Content
    <2>. QED
      BY <2>1, <2>2
  <1>4. RestTyped'
    BY <1>3 DEF ScanLooks, Typed, TypeOK, RestTyped, history, Fits, Cap
  <1>. QED
    BY <1>2, <1>4 DEF Typed, TypeOK, RestTyped, ThreadsTyped

\* A heap in which no array has become shorter.
LEMMA HeapType ==
  ASSUME Typed, HeapKept, heap' \in Seq(Seq(Content)), NEW t \in Threads, Moves(t), SameLoop(t),
         FitsIn(heap', thread'[t].hold), UNCHANGED <<list, visited, panicked, history>>
  PROVE  ThreadsTyped' /\ RestTyped'
  <1>1. FitsIn(heap, list) /\ FitsIn(heap, thread[t].range) /\ list \in Header /\ thread[t].range \in Header
    BY FitsFitsIn DEF Typed, TypeOK, Fits
  <1>2. FitsIn(heap', list) /\ FitsIn(heap', thread[t].range)
    BY <1>1 DEF HeapKept
  <1>3. ThreadsTyped'
    BY <1>2, ThreadType DEF Moves, SameLoop, Typed
  <1>4. Fits(list)'
    BY <1>2 DEF Fits, FitsIn, Cap
  <1>. QED
    BY <1>3, <1>4 DEF Typed, TypeOK, RestTyped, history, Content

\* What a write in place does.
LEMMA PutType ==
  ASSUME Typed, NEW h, Fits(h), h.len < Cap(h), NEW n \in Content,
         heap' = [heap EXCEPT ![h.arr][h.len + 1] = n]
  PROVE  /\ heap' \in Seq(Seq(Content)) /\ HeapKept
         /\ h.arr \in DOMAIN heap' /\ Len(heap'[h.arr]) = Cap(h)
         /\ heap'[h.arr][h.len + 1] = n
         /\ \A a \in DOMAIN heap, i \in Nat : a # h.arr \/ i # h.len + 1 => heap'[a][i] = heap[a][i]
  <1> DEFINE a == h.arr
             b == [heap[a] EXCEPT ![h.len + 1] = n]
  <1>1. heap \in Seq(Seq(Content)) /\ a \in DOMAIN heap /\ heap[a] \in Seq(Content)
        /\ h.len \in Nat /\ Len(heap[a]) \in Nat /\ h.len < Len(heap[a])
    BY DEF Typed, TypeOK, Fits, Header, Cap, Content
  <1>2. b \in Seq(Content) /\ Len(b) = Len(heap[a]) /\ b[h.len + 1] = n
        /\ \A i \in Nat : i # h.len + 1 => b[i] = heap[a][i]
    BY <1>1
  <1>3. heap' = [heap EXCEPT ![a] = b]
    OBVIOUS
  <1>. HIDE DEF b, a
  <1>4. /\ heap' \in Seq(Seq(Content)) /\ DOMAIN heap' = DOMAIN heap
        /\ \A c \in DOMAIN heap : Len(heap'[c]) = Len(heap[c])
    <2>1. b \in Seq(Content) /\ Len(b) = Len(heap[a])
      BY <1>2
    <2>. QED
      BY <1>1, <1>3, <2>1, WriteType
  <1>5. heap'[a] = b /\ \A c \in DOMAIN heap : c # a => heap'[c] = heap[c]
    BY <1>1, <1>3
  <1>. QED
    BY <1>1, <1>2, <1>4, <1>5 DEF HeapKept, FitsIn, a, Cap

\* What a move to a larger array does.
LEMMA GrowType ==
  ASSUME Typed, NEW h, Fits(h), NEW n \in Nodes, heap' = Append(heap, Grown(h, n))
  PROVE  /\ heap' \in Seq(Seq(Content)) /\ HeapKept
         /\ Len(heap) \in Nat /\ Len(heap) + 1 \in DOMAIN heap' /\ heap'[Len(heap) + 1] = Grown(h, n)
         /\ \A a \in DOMAIN heap : heap'[a] = heap[a]
  <1>1. heap \in Seq(Seq(Content)) /\ Grown(h, n) \in Seq(Content)
    BY GrownType DEF Typed, TypeOK, Content
  <1> DEFINE g == Grown(h, n)
  <1>. HIDE DEF g
  <1>2. heap' = Append(heap, g) /\ g \in Seq(Content)
    BY <1>1 DEF g
  <1>3. /\ heap' \in Seq(Seq(Content)) /\ Len(heap) \in Nat /\ DOMAIN heap = 1..Len(heap)
        /\ Len(heap') = Len(heap) + 1 /\ heap'[Len(heap) + 1] = g
        /\ \A a \in DOMAIN heap : heap'[a] = heap[a]
    BY <1>1, <1>2
  <1>4. DOMAIN heap' = 1..(Len(heap) + 1)
    BY <1>3
  <1>5. HeapKept
    BY <1>3, <1>4 DEF HeapKept, FitsIn
  <1>. QED
    BY <1>3, <1>4, <1>5 DEF g

\* UpdateWrites, either way: what it makes of the goroutine.
LEMMA WritesTo ==
  ASSUME Typed, UpdateWrites
  PROVE  LET h == Updating.hold
         IN /\ Moves("update") /\ SameLoop("update") /\ Updating.pc' = "store" /\ Updating.i' = Updating.i
            /\ Fits(h) /\ h.len \in Nat /\ Updating.node \in Nodes
            /\ \/ /\ h.len < Cap(h) /\ Updating.hold' = [arr |-> h.arr, len |-> h.len + 1]
                  /\ heap' = [heap EXCEPT ![h.arr][h.len + 1] = Updating.node]
               \/ /\ h.len = Cap(h) /\ Updating.hold' = [arr |-> Len(heap) + 1, len |-> h.len + 1]
                  /\ heap' = Append(heap, Grown(h, Updating.node))
  <1> DEFINE h == thread["update"].hold
  <1>1. "update" \in Threads /\ TypeOK /\ "store" \in PCs /\ Fits(h) /\ thread["update"].node \in Nodes
    BY DEF Typed, TypeOK, Threads, PCs, IndexHeld, Updating, UpdateWrites, At
  <1>2. h \in Header /\ h.arr \in Nat /\ h.len \in Nat /\ Cap(h) \in Nat /\ h.len <= Cap(h) /\ Len(heap) \in Nat
    BY <1>1 DEF TypeOK, Fits, Header, Cap
  <1>3. CASE h.len < Cap(h)
    <2> DEFINE k == [arr |-> h.arr, len |-> h.len + 1]
    <2>1. k \in Header
      BY <1>2 DEF Header
    <2>2. thread' = [thread EXCEPT !["update"].hold = k, !["update"].pc = "store"]
      <3>1. thread' = [thread EXCEPT !["update"].hold.len = @ + 1, !["update"].pc = "store"]
        BY <1>3 DEF UpdateWrites
      <3>2. [h EXCEPT !.len = @ + 1] = k
        BY <1>2 DEF Header
      <3>. QED
        BY <3>1, <3>2
    <2>. HIDE DEF k
    <2>3. Moves("update") /\ SameLoop("update") /\ thread'["update"].pc = "store"
          /\ thread'["update"].i = thread["update"].i /\ thread'["update"].hold = k
      BY <1>1, <2>1, <2>2, HoldsTo
    <2>4. heap' = [heap EXCEPT ![h.arr][h.len + 1] = thread["update"].node]
      BY <1>3 DEF UpdateWrites
    <2>. QED
      BY <1>1, <1>2, <1>3, <2>3, <2>4 DEF Updating, k
  <1>4. CASE ~(h.len < Cap(h))
    <2> DEFINE k == [arr |-> Len(heap) + 1, len |-> h.len + 1]
    <2>1. k \in Header
      BY <1>2 DEF Header
    <2>2. thread' = [thread EXCEPT !["update"].hold = k, !["update"].pc = "store"]
          /\ heap' = Append(heap, Grown(h, thread["update"].node))
      BY <1>4 DEF UpdateWrites
    <2>. HIDE DEF k
    <2>3. Moves("update") /\ SameLoop("update") /\ thread'["update"].pc = "store"
          /\ thread'["update"].i = thread["update"].i /\ thread'["update"].hold = k
      BY <1>1, <2>1, <2>2, HoldsTo
    <2>. QED
      BY <1>1, <1>2, <1>4, <2>2, <2>3 DEF Updating, k
  <1>. QED
    BY <1>3, <1>4

LEMMA TypeUpdateWrites ==
  ASSUME Typed, UpdateWrites PROVE Typed'
  <1> DEFINE h == Updating.hold
  <1>1. /\ "update" \in Threads /\ Moves("update") /\ SameLoop("update") /\ Updating.pc' = "store"
        /\ Fits(h) /\ h.len \in Nat /\ Updating.node \in Nodes
        /\ UNCHANGED <<list, visited, panicked, history>>
    BY WritesTo DEF Threads, UpdateWrites
  <1>2. /\ heap' \in Seq(Seq(Content)) /\ HeapKept
        /\ FitsIn(heap', thread'["update"].hold)
    <2>1. CASE /\ h.len < Cap(h) /\ Updating.hold' = [arr |-> h.arr, len |-> h.len + 1]
               /\ heap' = [heap EXCEPT ![h.arr][h.len + 1] = Updating.node]
      <3>1. /\ heap' \in Seq(Seq(Content)) /\ HeapKept
            /\ h.arr \in DOMAIN heap' /\ Len(heap'[h.arr]) = Cap(h)
        BY <1>1, <2>1, PutType DEF Content
      <3>2. h.arr \in Nat /\ Cap(h) \in Nat
        BY <1>1 DEF Fits, Header, Typed, TypeOK, Cap
      <3>. QED
        BY <1>1, <2>1, <3>1, <3>2 DEF FitsIn, Header, Updating
    <2>2. CASE /\ h.len = Cap(h) /\ Updating.hold' = [arr |-> Len(heap) + 1, len |-> h.len + 1]
               /\ heap' = Append(heap, Grown(h, Updating.node))
      <3>1. /\ heap' \in Seq(Seq(Content)) /\ HeapKept /\ Len(heap) \in Nat
            /\ Len(heap) + 1 \in DOMAIN heap' /\ heap'[Len(heap) + 1] = Grown(h, Updating.node)
        BY <1>1, <2>2, GrowType
      <3>2. Len(Grown(h, Updating.node)) >= h.len + 1
        BY <1>1, GrownType DEF Typed
      <3>. QED
        BY <1>1, <2>2, <3>1, <3>2 DEF FitsIn, Header, Updating
    <2>. QED
      BY <2>1, <2>2, WritesTo
  <1>3. ThreadsTyped' /\ RestTyped'
    BY <1>1, <1>2, HeapType
  <1>4. IndexHeld'
    BY <1>1, IndexKept DEF UpdateWrites, At, Updating, SameLoop
  <1>. QED
    BY <1>3, <1>4 DEF Typed, TypeOK, RestTyped, ThreadsTyped

\* What a shift does.
LEMMA ShiftType ==
  ASSUME Typed, DeleteShifts
  PROVE  LET h == Deleting.hold
             k == Deleting.i
         IN /\ Fits(h) /\ k \in 1..h.len
            /\ heap' \in Seq(Seq(Content)) /\ HeapKept
            /\ \A a \in DOMAIN heap : a # h.arr => heap'[a] = heap[a]
            /\ \A j \in 1..h.len :
                 heap'[h.arr][j] = IF j \in k..(h.len - 1) THEN heap[h.arr][j + 1] ELSE heap[h.arr][j]
  <1> DEFINE h == thread["delete"].hold
             k == thread["delete"].i
             a == h.arr
             s == heap[a]
             b == [j \in DOMAIN s |-> IF j \in k..(h.len - 1) THEN s[j + 1] ELSE s[j]]
  <1>1. "delete" \in Threads
    BY DEF Threads
  <1>2. Fits(h) /\ k \in Nat \ {0} /\ k <= h.len /\ h.len \in Nat
    BY <1>1 DEF Typed, TypeOK, IndexHeld, Deleting, DeleteShifts, At, Goroutine, Header
  <1>3. heap \in Seq(Seq(Content)) /\ a \in DOMAIN heap /\ s \in Seq(Content) /\ Len(s) \in Nat /\ h.len <= Len(s)
    BY <1>2 DEF Typed, TypeOK, Fits, Cap, Content
  <1>4. heap' = [heap EXCEPT ![a] = b]
    BY DEF DeleteShifts
  <1>5. b \in Seq(Content) /\ Len(b) = Len(s)
        /\ \A j \in 1..h.len : b[j] = IF j \in k..(h.len - 1) THEN s[j + 1] ELSE s[j]
    <2>. HIDE DEF h, k, s
    <2>1. DOMAIN s = 1..Len(s)
      BY <1>3
    <2>2. \A j \in 1..Len(s) : (IF j \in k..(h.len - 1) THEN s[j + 1] ELSE s[j]) \in Content
      BY <1>2, <1>3
    <2>. QED
      BY <1>2, <1>3, <2>1, <2>2
  <1>. HIDE DEF b, s
  <1>6. /\ heap' \in Seq(Seq(Content)) /\ DOMAIN heap' = DOMAIN heap
        /\ \A c \in DOMAIN heap : Len(heap'[c]) = Len(heap[c])
    BY <1>3, <1>4, <1>5, WriteType DEF s
  <1>7. heap'[a] = b /\ \A c \in DOMAIN heap : c # a => heap'[c] = heap[c]
    BY <1>3, <1>4
  <1>8. HeapKept
    BY <1>6 DEF HeapKept, FitsIn
  <1>. QED
    BY <1>2, <1>5, <1>6, <1>7, <1>8 DEF Deleting, s

LEMMA TypeDeleteShifts ==
  ASSUME Typed, DeleteShifts PROVE Typed'
  <1>1. "delete" \in Threads /\ "store" \in PCs /\ TypeOK
    BY DEF Threads, PCs, Typed
  <1>2. /\ Moves("delete") /\ SameLoop("delete") /\ thread'["delete"].pc = "store"
        /\ thread'["delete"].i = thread["delete"].i /\ thread'["delete"].hold = thread["delete"].hold
    BY <1>1, GoesTo DEF DeleteShifts
  <1>3. heap' \in Seq(Seq(Content)) /\ HeapKept
    BY ShiftType
  <1>4. FitsIn(heap', thread'["delete"].hold)
    BY <1>1, <1>2, <1>3, FitsFitsIn DEF TypeOK, HeapKept, Fits
  <1>5. ThreadsTyped' /\ RestTyped'
    BY <1>1, <1>2, <1>3, <1>4, HeapType DEF DeleteShifts
  <1>6. IndexHeld'
    BY <1>1, <1>2, IndexKept DEF Typed, IndexHeld, Deleting, DeleteShifts, At, SameLoop
  <1>. QED
    BY <1>5, <1>6 DEF Typed, TypeOK, RestTyped, ThreadsTyped

LEMMA TypeStep == Typed /\ [Next]_vars => Typed'
  <1>. SUFFICES ASSUME Typed, [Next]_vars PROVE Typed'
    OBVIOUS
  <1>1. CASE UNCHANGED vars
    BY <1>1 DEF vars, history, Typed, TypeOK, IndexHeld, Updating, Deleting, Fits, Cap
  <1>2. CASE \E n \in Nodes : CallUpdate(n) \/ CallDelete(n)
    BY <1>2, TypeCalls
  <1>3. CASE CallScan
    BY <1>3, TypeCallScan
  <1>4. CASE UpdateLooks \/ UpdateLoads \/ UpdateWrites \/ UpdateStores
    BY <1>4, TypeUpdateLooks, TypeUpdateLoads, TypeUpdateWrites, TypeUpdateStores
  <1>5. CASE DeleteLooks \/ DeleteLoads \/ DeleteShifts \/ DeleteStores
    BY <1>5, TypeDeleteLooks, TypeDeleteLoads, TypeDeleteShifts, TypeDeleteStores
  <1>6. CASE ScanLooks
    BY <1>6, TypeScanLooks
  <1>. QED
    BY <1>1, <1>2, <1>3, <1>4, <1>5, <1>6 DEF Next

\* state.go: whatever calls overlap, every header the goroutines hold stays within
\* an array that is large enough for it, so that only DeleteRmdNodeData's own index
\* can be out of range.
THEOREM TypeCorrect == Spec => []TypeOK
  <1>1. Typed => TypeOK
    BY DEF Typed
  <1>. QED
    BY <1>1, TypeInit, TypeStep, PTL DEF Spec

(***************************************************************************)
(* The list is the set.                                                    *)
(***************************************************************************)
\* ListInv without the indices, which Typed has.
Sound ==
  ~raced =>
    /\ ~panicked
    /\ Updating.pc = "idle" \/ Deleting.pc = "idle"
    /\ Settled => Lists(list, members)
    /\ UpdateInv /\ DeleteInv

LEMMA SoundInit == Init => Sound
  <1>. SUFFICES ASSUME Init PROVE Sound
    OBVIOUS
  <1>1. \A t \in Threads : thread[t].pc = "idle"
    BY DEF Init, Idle, Loop
  <1>2. Updating.pc = "idle" /\ Deleting.pc = "idle"
    BY <1>1 DEF Updating, Deleting, Threads
  <1>3. list.len = 0 /\ members = {} /\ panicked = FALSE
    BY DEF Init, NoSlice
  <1>4. Lists(list, members)
    BY <1>3 DEF Lists, Elements, Distinct
  <1>. QED
    BY <1>2, <1>3, <1>4 DEF Sound, UpdateInv, DeleteInv

\* Nothing that it mentions changes.
LEMMA SoundKept ==
  ASSUME Sound, UNCHANGED <<heap, list, members, raced, panicked>>,
         thread'["update"] = thread["update"], thread'["delete"] = thread["delete"]
  PROVE  Sound'
  BY DEF Sound, Updating, Deleting, Settled, UpdateInv, DeleteInv, Searching, Through,
         Lists, Elements, Distinct, Misses, Slot

LEMMA SoundScan ==
  ASSUME Typed, Sound, CallScan \/ ScanLooks PROVE Sound'
  <1>1. thread'["update"] = thread["update"] /\ thread'["delete"] = thread["delete"]
    BY DEF CallScan, ScanLooks, Begin, Returns, Next1, Threads, Typed, TypeOK
  <1>. QED
    BY <1>1, SoundKept DEF CallScan, ScanLooks, history

\* A goroutine that begins.
LEMMA BeginsTo ==
  ASSUME Typed, NEW t \in Threads, NEW n, Begin(t, n)
  PROVE  /\ thread'[t].pc = "range" /\ thread'[t].node = n /\ thread'[t].range = list /\ thread'[t].i = 1
         /\ \A s \in Threads \ {t} : thread'[s] = thread[s]
  <1>1. thread'[t] = Loop("range", n, list)
    BY DEF Begin, Typed, TypeOK
  <1>. QED
    BY <1>1 DEF Begin, Typed, TypeOK, Loop

LEMMA SoundCallUpdate ==
  ASSUME Typed, Sound, NEW n \in Nodes, CallUpdate(n) PROVE Sound'
  <1>. SUFFICES ASSUME ~raced' PROVE Sound'
    BY DEF Sound
  <1>1. ~raced /\ Deleting.pc = "idle" /\ Updating.pc = "idle" /\ ~panicked
    BY DEF CallUpdate, Overlaps, Begin, At, Updating, Deleting
  <1>2. Lists(list, members)
    BY <1>1 DEF Sound, Settled, Updating, Deleting
  <1>3. /\ Updating.pc' = "range" /\ Updating.node' = n /\ Updating.range' = list /\ Updating.i' = 1
        /\ Deleting.pc' = "idle"
    BY <1>1, BeginsTo DEF CallUpdate, Threads, Updating, Deleting
  <1>4. heap' = heap /\ list' = list /\ members' = members \cup {n} /\ ~panicked'
    BY <1>1 DEF CallUpdate
  <1>5. Distinct(list)' /\ members' = Elements(list)' \cup {n}
    BY <1>2, <1>4 DEF Lists, Distinct, Elements, Slot
  <1>6. Misses(list, n, 1, 0)'
    BY DEF Misses
  <1>7. UpdateInv'
    BY <1>3, <1>4, <1>5, <1>6 DEF UpdateInv
  <1>. QED
    BY <1>3, <1>4, <1>7 DEF Sound, DeleteInv, Settled, Updating, Deleting

LEMMA SoundCallDelete ==
  ASSUME Typed, Sound, NEW n \in Nodes, CallDelete(n) PROVE Sound'
  <1>. SUFFICES ASSUME ~raced' PROVE Sound'
    BY DEF Sound
  <1>1. ~raced /\ Deleting.pc = "idle" /\ Updating.pc = "idle" /\ ~panicked
    BY DEF CallDelete, Overlaps, Begin, At, Updating, Deleting
  <1>2. Lists(list, members)
    BY <1>1 DEF Sound, Settled, Updating, Deleting
  <1>3. /\ Deleting.pc' = "range" /\ Deleting.node' = n /\ Deleting.range' = list /\ Deleting.i' = 1
        /\ Updating.pc' = "idle"
    BY <1>1, BeginsTo DEF CallDelete, Threads, Updating, Deleting
  <1>4. heap' = heap /\ list' = list /\ members' = members \ {n} /\ ~panicked'
    BY <1>1 DEF CallDelete
  <1>5. Distinct(list)' /\ members' = Elements(list)' \ {n}
    BY <1>2, <1>4 DEF Lists, Distinct, Elements, Slot
  <1>6. Misses(list, n, 1, 0)'
    BY DEF Misses
  <1>7. DeleteInv'
    BY <1>3, <1>4, <1>5, <1>6 DEF DeleteInv, Searching
  <1>. QED
    BY <1>3, <1>4, <1>7 DEF Sound, UpdateInv, Settled, Updating, Deleting

\* What an Update that nothing has raced may assume, and what it owes.
LEMMA UpdateAlone ==
  ASSUME Typed, Sound, ~raced, Updating.pc # "idle"
  PROVE  Deleting.pc = "idle" /\ ~panicked /\ UpdateInv
  BY DEF Sound

LEMMA UpdateOwes ==
  ASSUME Typed, ~panicked, panicked' = panicked, Moves("update"), Deleting.pc = "idle",
         Updating.pc' = "idle" => Lists(list, members)', UpdateInv'
  PROVE  Sound'
  <1>1. Deleting.pc' = "idle"
    BY DEF Moves, Deleting, Threads
  <1>. QED
    BY <1>1 DEF Sound, DeleteInv, Settled, Updating, Deleting

LEMMA SoundUpdateLooks ==
  ASSUME Typed, Sound, UpdateLooks PROVE Sound'
  <1>. SUFFICES ASSUME ~raced PROVE Sound'
    BY DEF Sound, UpdateLooks, history
  <1> DEFINE n == Updating.node
             i == Updating.i
  <1>1. "update" \in Threads /\ TypeOK /\ "load" \in PCs /\ Updating.pc = "range"
    BY DEF Threads, Typed, PCs, UpdateLooks, At, Updating
  <1>2. Deleting.pc = "idle" /\ ~panicked /\ UpdateInv
    BY <1>1, UpdateAlone
  <1>3. /\ Distinct(list) /\ members = Elements(list) \cup {n}
        /\ Updating.range = list /\ Misses(list, n, 1, i - 1)
    BY <1>1, <1>2 DEF UpdateInv
  <1>4. list.len \in Nat /\ i \in Nat \ {0}
    BY <1>1 DEF TypeOK, Fits, Header, Goroutine, Updating
  <1>5. UNCHANGED <<heap, list, members, panicked>>
    BY DEF UpdateLooks, history
  <1>6. Distinct(list)' /\ members' = Elements(list)' \cup {n}
    BY <1>3, <1>5 DEF Distinct, Elements, Slot
  <1>7. CASE AtEnd("update") /\ Goes("update", "load")
    <2>1. Moves("update") /\ SameLoop("update") /\ Updating.pc' = "load"
      BY <1>1, <1>7, GoesTo DEF Updating
    <2>2. \A j \in 1..list.len : Slot(list, j) # n
      BY <1>3, <1>4, <1>7 DEF AtEnd, Misses, Updating
    <2>3. n \notin Elements(list)'
      BY <1>5, <2>2 DEF Elements, Slot
    <2>4. UpdateInv'
      BY <1>6, <2>1, <2>3 DEF UpdateInv, SameLoop, Updating
    <2>. QED
      BY <1>2, <1>5, <2>1, <2>4, UpdateOwes
  <1>8. CASE ~AtEnd("update") /\ Current("update") = thread["update"].node /\ Returns("update")
    <2>1. Moves("update") /\ Updating.pc' = "idle"
      BY <1>1, <1>8, ReturnsTo DEF Updating
    <2>2. n = Slot(list, i) /\ i \in 1..list.len
      BY <1>3, <1>4, <1>8 DEF AtEnd, Current, Updating
    <2>3. n \in Elements(list)
      BY <2>2 DEF Elements
    <2>4. Lists(list, members)'
      BY <1>3, <1>5, <2>3 DEF Lists, Distinct, Elements, Slot
    <2>. QED
      BY <1>2, <1>5, <2>1, <2>4, UpdateOwes DEF UpdateInv
  <1>9. CASE ~AtEnd("update") /\ Current("update") # thread["update"].node /\ Next1("update")
    <2>1. Moves("update") /\ SameLoop("update") /\ Updating.pc' = "range" /\ Updating.i' = i + 1
      BY <1>1, <1>9, NextTo DEF Updating
    <2>2. n # Slot(list, i)
      BY <1>3, <1>9 DEF Current, Updating
    <2>3. \A j \in 1..list.len : j \in 1..i => Slot(list, j) # n
      <3>1. \A j \in 1..list.len : j \in 1..i => j = i \/ j \in 1..(i - 1)
        BY <1>4
      <3>. QED
        BY <1>3, <2>2, <3>1 DEF Misses
    <2>4. Misses(list, Updating.node, 1, Updating.i - 1)'
      <3>1. Updating.i' - 1 = i /\ Updating.node' = n
        BY <1>4, <2>1 DEF SameLoop, Updating
      <3>2. \A j \in 1..list'.len : j \in 1..i => Slot(list, j)' # n
        BY <1>5, <2>3 DEF Slot
      <3>. QED
        BY <3>1, <3>2 DEF Misses
    <2>5. UpdateInv'
      BY <1>3, <1>5, <1>6, <2>1, <2>4 DEF UpdateInv, SameLoop, Updating
    <2>. QED
      BY <1>2, <1>5, <2>1, <2>5, UpdateOwes
  <1>. QED
    BY <1>7, <1>8, <1>9 DEF UpdateLooks

LEMMA SoundUpdateLoads ==
  ASSUME Typed, Sound, UpdateLoads PROVE Sound'
  <1>. SUFFICES ASSUME ~raced PROVE Sound'
    BY DEF Sound, UpdateLoads, history
  <1>1. "update" \in Threads /\ TypeOK /\ list \in Header /\ "write" \in PCs /\ Updating.pc = "load"
    BY DEF Threads, Typed, TypeOK, Fits, PCs, UpdateLoads, At, Updating
  <1>2. Deleting.pc = "idle" /\ ~panicked /\ UpdateInv
    BY <1>1, UpdateAlone
  <1>3. Moves("update") /\ SameLoop("update") /\ Updating.pc' = "write" /\ Updating.hold' = list
    <2>1. "update" \in Threads /\ TypeOK /\ list \in Header /\ "write" \in PCs
      BY <1>1
    <2>2. thread' = [thread EXCEPT !["update"].hold = list, !["update"].pc = "write"]
      BY DEF UpdateLoads
    <2>. QED
      BY <2>1, <2>2, HoldsTo DEF Updating
  <1>4. UNCHANGED <<heap, list, members, panicked>>
    BY DEF UpdateLoads, history
  <1>5. UpdateInv'
    BY <1>1, <1>2, <1>3, <1>4 DEF UpdateInv, SameLoop, Updating, Distinct, Elements, Slot
  <1>. QED
    BY <1>2, <1>3, <1>4, <1>5, UpdateOwes

LEMMA SoundUpdateWrites ==
  ASSUME Typed, Sound, UpdateWrites PROVE Sound'
  <1>. SUFFICES ASSUME ~raced PROVE Sound'
    BY DEF Sound, UpdateWrites, history
  <1> DEFINE n == Updating.node
  <1>0. PICK k : k = Updating.hold'
    OBVIOUS
  <1>1. "update" \in Threads /\ Updating.pc = "write"
    BY DEF Threads, UpdateWrites, At, Updating
  <1>2. Deleting.pc = "idle" /\ ~panicked /\ UpdateInv
    BY <1>1, UpdateAlone
  <1>3. /\ Updating.hold = list /\ n \notin Elements(list)
        /\ Distinct(list) /\ members = Elements(list) \cup {n}
    BY <1>1, <1>2 DEF UpdateInv
  <1>4. UNCHANGED <<list, members, panicked>>
    BY DEF UpdateWrites, history
  <1>5. /\ Moves("update") /\ SameLoop("update") /\ Updating.pc' = "store"
        /\ Fits(list) /\ list.len \in Nat /\ n \in Nodes /\ list.arr \in DOMAIN heap
    BY <1>3, WritesTo DEF Fits
  <1>6. /\ \A j \in 1..list.len : heap'[list.arr][j] = Slot(list, j) /\ heap'[k.arr][j] = Slot(list, j)
        /\ k.len = list.len + 1 /\ heap'[k.arr][k.len] = n
    <2>1. CASE /\ list.len < Cap(list) /\ k = [arr |-> list.arr, len |-> list.len + 1]
               /\ heap' = [heap EXCEPT ![list.arr][list.len + 1] = n]
      <3>1. /\ heap'[list.arr][list.len + 1] = n
            /\ \A a \in DOMAIN heap, i \in Nat : a # list.arr \/ i # list.len + 1 => heap'[a][i] = heap[a][i]
        BY <1>5, <2>1, PutType DEF Content
      <3>2. \A j \in 1..list.len : j \in Nat /\ j # list.len + 1
        BY <1>5
      <3>3. k.arr = list.arr /\ k.len = list.len + 1
        BY <2>1
      <3>. QED
        BY <1>5, <3>1, <3>2, <3>3 DEF Slot
    <2>2. CASE /\ list.len = Cap(list) /\ k = [arr |-> Len(heap) + 1, len |-> list.len + 1]
               /\ heap' = Append(heap, Grown(list, n))
      <3>1. /\ heap'[Len(heap) + 1] = Grown(list, n)
            /\ \A a \in DOMAIN heap : heap'[a] = heap[a]
        BY <1>5, <2>2, GrowType
      <3>2. /\ Grown(list, n)[list.len + 1] = n
            /\ \A j \in 1..list.len : Grown(list, n)[j] = Slot(list, j)
        BY <1>5, GrownType DEF Typed
      <3>3. k.arr = Len(heap) + 1 /\ k.len = list.len + 1
        BY <2>2
      <3>. QED
        BY <1>5, <3>1, <3>2, <3>3 DEF Slot
    <2>. QED
      BY <1>0, <1>3, <2>1, <2>2, WritesTo
  <1>7. Elements(list)' = Elements(list) /\ Distinct(list)'
    BY <1>3, <1>4, <1>6 DEF Elements, Distinct, Slot
  <1>8. Elements(k)' = Elements(list) \cup {n}
    <2>1. 1..k.len = (1..list.len) \cup {k.len}
      BY <1>5, <1>6
    <2>. QED
      BY <1>6, <2>1 DEF Elements, Slot
  <1>9. Distinct(k)'
    <2>1. \A j \in 1..list.len : Slot(list, j) # n
      BY <1>3 DEF Elements
    <2>2. \A j \in 1..k.len : j \in 1..list.len \/ j = k.len
      BY <1>5, <1>6
    <2>3. \A i, j \in 1..k.len : heap'[k.arr][i] = heap'[k.arr][j] => i = j
      BY <1>3, <1>6, <2>1, <2>2 DEF Distinct
    <2>. QED
      BY <2>3 DEF Distinct, Slot
  <1>10. UpdateInv'
    BY <1>0, <1>3, <1>4, <1>5, <1>7, <1>8, <1>9 DEF UpdateInv, Lists, SameLoop, Updating
  <1>. QED
    BY <1>2, <1>4, <1>5, <1>10, UpdateOwes

LEMMA SoundUpdateStores ==
  ASSUME Typed, Sound, UpdateStores PROVE Sound'
  <1>. SUFFICES ASSUME ~raced PROVE Sound'
    BY DEF Sound, UpdateStores, history
  <1>1. "update" \in Threads /\ TypeOK /\ Updating.pc = "store"
    BY DEF Threads, Typed, UpdateStores, At, Updating
  <1>2. Deleting.pc = "idle" /\ ~panicked /\ UpdateInv
    BY <1>1, UpdateAlone
  <1>3. Moves("update") /\ Updating.pc' = "idle"
    BY <1>1, ReturnsTo DEF UpdateStores, Updating
  <1>4. list' = Updating.hold /\ UNCHANGED <<heap, members, panicked>>
    BY DEF UpdateStores, history, Updating
  <1>5. Lists(list, members)'
    BY <1>1, <1>2, <1>4 DEF UpdateInv, Lists, Elements, Distinct, Slot
  <1>. QED
    BY <1>2, <1>3, <1>4, <1>5, UpdateOwes DEF UpdateInv

\* The same for a Delete.
LEMMA DeleteAlone ==
  ASSUME Typed, Sound, ~raced, Deleting.pc # "idle"
  PROVE  Updating.pc = "idle" /\ ~panicked /\ DeleteInv
  BY DEF Sound

LEMMA DeleteOwes ==
  ASSUME Typed, ~panicked, panicked' = panicked, Moves("delete"), Updating.pc = "idle",
         Deleting.pc' = "idle" => Lists(list, members)', DeleteInv'
  PROVE  Sound'
  <1>1. Updating.pc' = "idle"
    BY DEF Moves, Updating, Threads
  <1>. QED
    BY <1>1 DEF Sound, UpdateInv, Settled, Updating, Deleting

\* The header of a list with an element less, or more.
LEMMA Resized ==
  ASSUME NEW h \in Header
  PROVE  /\ [h EXCEPT !.len = @ - 1].arr = h.arr /\ [h EXCEPT !.len = @ - 1].len = h.len - 1
         /\ [h EXCEPT !.len = @ + 1].arr = h.arr /\ [h EXCEPT !.len = @ + 1].len = h.len + 1
         /\ h.len > 0 => \A k : k = [h EXCEPT !.len = @ - 1] => h = [k EXCEPT !.len = @ + 1]
  <1>1. h.len \in Nat /\ h.arr \in Nat /\ h = [arr |-> h.arr, len |-> h.len]
    BY DEF Header
  <1>2. /\ [h EXCEPT !.len = @ - 1] = [arr |-> h.arr, len |-> h.len - 1]
        /\ [h EXCEPT !.len = @ + 1] = [arr |-> h.arr, len |-> h.len + 1]
    BY DEF Header
  <1>3. ASSUME NEW k, k = [arr |-> h.arr, len |-> h.len - 1]
        PROVE  h = [k EXCEPT !.len = @ + 1]
    <2>1. k.len + 1 = h.len
      BY <1>1, <1>3
    <2>2. [k EXCEPT !.len = h.len] = [arr |-> h.arr, len |-> h.len]
      BY <1>3
    <2>. QED
      BY <1>1, <2>1, <2>2
  <1>. QED
    BY <1>1, <1>2, <1>3

LEMMA SoundDeleteLooks ==
  ASSUME Typed, Sound, DeleteLooks PROVE Sound'
  <1>. SUFFICES ASSUME ~raced PROVE Sound'
    BY DEF Sound, DeleteLooks, history
  <1> DEFINE n == Deleting.node
             i == Deleting.i
             r == Deleting.range
  <1>1. "delete" \in Threads /\ TypeOK /\ "load" \in PCs /\ Deleting.pc = "range"
    BY DEF Threads, Typed, PCs, DeleteLooks, At, Deleting
  <1>2. Updating.pc = "idle" /\ ~panicked /\ DeleteInv
    BY <1>1, DeleteAlone
  <1>3. (Searching /\ Misses(list, n, 1, i - 1)) \/ Through
    BY <1>1, <1>2 DEF DeleteInv
  <1>4. list.len \in Nat /\ i \in Nat \ {0} /\ r.len \in Nat
    BY <1>1 DEF TypeOK, Fits, Header, Goroutine, Deleting
  <1>5. UNCHANGED <<heap, list, members, panicked>>
    BY DEF DeleteLooks, history
  <1>7. CASE AtEnd("delete") /\ Returns("delete")
    <2>1. Moves("delete") /\ Deleting.pc' = "idle"
      BY <1>1, <1>7, ReturnsTo DEF Deleting
    <2>2. Lists(list, members)
      <3>1. CASE Searching /\ Misses(list, n, 1, i - 1)
        <4>1. \A j \in 1..list.len : Slot(list, j) # n
          BY <1>4, <1>7, <3>1 DEF AtEnd, Misses, Deleting, Searching
        <4>2. n \notin Elements(list)
          BY <4>1 DEF Elements
        <4>. QED
          BY <3>1, <4>2 DEF Searching, Lists
      <3>2. CASE Through
        BY <3>2 DEF Through
      <3>. QED
        BY <1>3, <3>1, <3>2
    <2>3. Lists(list, members)'
      BY <1>5, <2>2 DEF Lists, Distinct, Elements, Slot
    <2>. QED
      BY <1>2, <1>5, <2>1, <2>3, DeleteOwes DEF DeleteInv
  <1>8. CASE ~AtEnd("delete") /\ Current("delete") = thread["delete"].node /\ Goes("delete", "load")
    <2>1. /\ Moves("delete") /\ SameLoop("delete") /\ Deleting.pc' = "load" /\ Deleting.i' = i
      BY <1>1, <1>8, GoesTo DEF Deleting
    <2>2. Slot(r, i) = n /\ i \in 1..r.len
      BY <1>4, <1>8 DEF AtEnd, Current, Deleting
    <2>3. ~Through
      BY <1>4, <2>2 DEF Through, Misses
    <2>4. Searching /\ i <= list.len /\ Slot(list, i) = n
      BY <1>3, <2>2, <2>3 DEF Searching
    <2>5. Searching' /\ Deleting.i' <= list'.len /\ Slot(list, Deleting.i)' = Deleting.node'
      BY <1>5, <2>1, <2>4 DEF Searching, SameLoop, Deleting, Distinct, Elements, Slot
    <2>6. DeleteInv'
      BY <2>1, <2>5 DEF DeleteInv
    <2>. QED
      BY <1>2, <1>5, <2>1, <2>6, DeleteOwes
  <1>9. CASE ~AtEnd("delete") /\ Current("delete") # thread["delete"].node /\ Next1("delete")
    <2>1. Moves("delete") /\ SameLoop("delete") /\ Deleting.pc' = "range" /\ Deleting.i' = i + 1
      BY <1>1, <1>9, NextTo DEF Deleting
    <2>2. n # Slot(r, i) /\ i <= r.len
      BY <1>4, <1>9 DEF Current, AtEnd, Deleting
    <2>3. Deleting.node' = n /\ Deleting.range' = r
      BY <2>1 DEF SameLoop, Deleting
    <2>4. CASE Searching /\ Misses(list, n, 1, i - 1)
      <3>1. \A j \in 1..list.len : j \in 1..i => Slot(list, j) # n
        <4>1. \A j \in 1..list.len : j \in 1..i => j = i \/ j \in 1..(i - 1)
          BY <1>4
        <4>. QED
          BY <2>2, <2>4, <4>1 DEF Misses, Searching
      <3>2. Misses(list, Deleting.node, 1, Deleting.i - 1)'
        <4>1. Deleting.i' - 1 = i
          BY <1>4, <2>1
        <4>2. \A j \in 1..list'.len : j \in 1..i => Slot(list, j)' # n
          BY <1>5, <3>1 DEF Slot
        <4>. QED
          BY <2>3, <4>1, <4>2 DEF Misses
      <3>3. Searching'
        BY <1>5, <2>3, <2>4 DEF Searching, Distinct, Elements, Slot
      <3>. QED
        BY <1>2, <1>5, <2>1, <3>2, <3>3, DeleteOwes DEF DeleteInv
    <2>5. CASE Through
      <3>1. \A j \in 1..r.len : j \in (i + 1)..r.len => Slot(r, j) # n
        <4>1. \A j \in 1..r.len : j \in (i + 1)..r.len => j \in i..r.len
          BY <1>4
        <4>. QED
          BY <2>5, <4>1 DEF Misses, Through
      <3>2. Misses(Deleting.range, Deleting.node, Deleting.i, Deleting.range.len)'
        <4>2. \A j \in 1..r.len : j \in (i + 1)..r.len => heap'[r.arr][j] # n
          BY <1>5, <3>1 DEF Slot
        <4>. QED
          BY <2>1, <2>3, <4>2 DEF Misses, Slot
      <3>3. Lists(list, members)' /\ Deleting.range' = [list' EXCEPT !.len = @ + 1]
        BY <1>5, <2>3, <2>5 DEF Through, Lists, Distinct, Elements, Slot
      <3>. QED
        BY <1>2, <1>5, <2>1, <3>2, <3>3, DeleteOwes DEF DeleteInv, Through
    <2>. QED
      BY <1>3, <2>4, <2>5
  <1>. QED
    BY <1>7, <1>8, <1>9 DEF DeleteLooks

LEMMA SoundDeleteLoads ==
  ASSUME Typed, Sound, DeleteLoads PROVE Sound'
  <1>. SUFFICES ASSUME ~raced PROVE Sound'
    BY DEF Sound, DeleteLoads, history
  <1>1. "delete" \in Threads /\ TypeOK /\ list \in Header /\ "shift" \in PCs /\ Deleting.pc = "load"
    BY DEF Threads, Typed, TypeOK, Fits, PCs, DeleteLoads, At, Deleting
  <1>2. Updating.pc = "idle" /\ ~panicked /\ DeleteInv
    BY <1>1, DeleteAlone
  <1>3. Searching /\ Deleting.i <= list.len /\ Slot(list, Deleting.i) = Deleting.node
    BY <1>1, <1>2 DEF DeleteInv
  <1>4. /\ Moves("delete") /\ SameLoop("delete") /\ Deleting.pc' = "shift" /\ Deleting.hold' = list
        /\ Deleting.i' = Deleting.i
    <2>1. "delete" \in Threads /\ TypeOK /\ list \in Header /\ "shift" \in PCs
      BY <1>1
    <2>2. thread' = [thread EXCEPT !["delete"].hold = list, !["delete"].pc = "shift"]
      BY <1>3 DEF DeleteLoads, Deleting
    <2>. QED
      BY <2>1, <2>2, HoldsTo DEF Deleting
  <1>5. UNCHANGED <<heap, list, members, panicked>>
    BY <1>3 DEF DeleteLoads, history, Deleting
  <1>6. Searching' /\ Deleting.i' <= list'.len /\ Slot(list, Deleting.i)' = Deleting.node'
    BY <1>3, <1>4, <1>5 DEF Searching, SameLoop, Deleting, Distinct, Elements, Slot
  <1>7. DeleteInv'
    BY <1>4, <1>5, <1>6 DEF DeleteInv
  <1>. QED
    BY <1>2, <1>4, <1>5, <1>7, DeleteOwes

LEMMA SoundDeleteShifts ==
  ASSUME Typed, Sound, DeleteShifts PROVE Sound'
  <1>. SUFFICES ASSUME ~raced PROVE Sound'
    BY DEF Sound, DeleteShifts, history
  <1> DEFINE n == Deleting.node
             i == Deleting.i
             l == list.len
             k == [list EXCEPT !.len = @ - 1]
  <1>1. /\ "delete" \in Threads /\ TypeOK /\ "store" \in PCs /\ Deleting.pc = "shift"
        /\ list \in Header /\ l \in Nat
    BY DEF Threads, Typed, TypeOK, PCs, DeleteShifts, At, Deleting, Fits, Header
  <1>2. Updating.pc = "idle" /\ ~panicked /\ DeleteInv
    BY <1>1, DeleteAlone
  <1>3. /\ Deleting.range = list /\ Distinct(list) /\ members = Elements(list) \ {n}
        /\ Slot(list, i) = n /\ Deleting.hold = list
    BY <1>1, <1>2 DEF DeleteInv, Searching
  <1>4. /\ Moves("delete") /\ SameLoop("delete") /\ Deleting.pc' = "store"
        /\ Deleting.i' = i /\ Deleting.hold' = list
    BY <1>1, <1>3, GoesTo DEF DeleteShifts, Deleting
  <1>5. UNCHANGED <<list, members, panicked>>
    BY DEF DeleteShifts, history
  <1>6. /\ i \in 1..l
        /\ \A j \in 1..l : heap'[list.arr][j] = IF j \in i..(l - 1) THEN Slot(list, j + 1) ELSE Slot(list, j)
    BY <1>3, ShiftType DEF Slot
  <1>0. k.arr = list.arr /\ k.len = l - 1
    BY <1>1, Resized
  <1>. HIDE DEF k, l, i, n
  <1>7. /\ k.arr = list.arr /\ k.len = l - 1 /\ i \in Nat /\ l - 1 \in Nat /\ l \in Nat
        /\ \A j \in 1..(l - 1) : heap'[list.arr][j] = IF j < i THEN Slot(list, j) ELSE Slot(list, j + 1)
    BY <1>1, <1>0, <1>6 DEF l
  <1>8. \A p, q \in 1..l : Slot(list, p) = Slot(list, q) => p = q
    BY <1>3 DEF Distinct, l
  <1>9. Distinct(k)'
    <2>1. \A p, q \in 1..(l - 1) : heap'[list.arr][p] = heap'[list.arr][q] => p = q
      <3>. SUFFICES ASSUME NEW p \in 1..(l - 1), NEW q \in 1..(l - 1),
                           heap'[list.arr][p] = heap'[list.arr][q]
                    PROVE  p = q
        OBVIOUS
      <3> DEFINE P == IF p < i THEN p ELSE p + 1
                 Q == IF q < i THEN q ELSE q + 1
      <3>1. P \in 1..l /\ Q \in 1..l /\ (P = Q => p = q)
        <4>1. l \in Nat /\ i \in Nat
          BY <1>7
        <4>. QED
          BY <4>1
      <3>2. heap'[list.arr][p] = Slot(list, P) /\ heap'[list.arr][q] = Slot(list, Q)
        BY <1>7
      <3>. QED
        BY <1>8, <3>1, <3>2
    <2>2. k' = k
      BY <1>5 DEF k
    <2>. QED
      BY <1>7, <2>1, <2>2 DEF Distinct, Slot
  <1>10. Elements(k)' = Elements(list) \ {n}
    <2>1. k' = k
      BY <1>5 DEF k
    <2>2. ASSUME NEW p \in 1..(l - 1) PROVE heap'[list.arr][p] \in Elements(list) \ {n}
      <3> DEFINE P == IF p < i THEN p ELSE p + 1
      <3>1. P \in 1..l /\ P # i
        <4>1. l \in Nat /\ i \in Nat
          BY <1>7
        <4>. QED
          BY <4>1
      <3>2. heap'[list.arr][p] = Slot(list, P)
        BY <1>7
      <3>3. Slot(list, P) # n
        BY <1>3, <1>6, <1>8, <3>1 DEF n, i
      <3>. HIDE DEF P
      <3>. QED
        BY <3>1, <3>2, <3>3 DEF Elements, l
    <2>3. ASSUME NEW x \in Elements(list) \ {n} PROVE \E p \in 1..(l - 1) : heap'[list.arr][p] = x
      <3>1. PICK q \in 1..l : Slot(list, q) = x
        BY DEF Elements, l
      <3>2. q # i
        BY <1>3, <3>1 DEF n, i
      <3> DEFINE p == IF q < i THEN q ELSE q - 1
      <3>3. p \in 1..(l - 1) /\ (IF p < i THEN p = q ELSE p + 1 = q)
        BY <1>1, <1>6, <1>7, <3>2
      <3>. HIDE DEF p
      <3>4. heap'[list.arr][p] = x
        BY <1>7, <3>1, <3>3
      <3>. QED
        BY <3>3, <3>4
    <2>4. Elements(k)' = {heap'[list.arr][p] : p \in 1..(l - 1)}
      BY <1>7, <2>1 DEF Elements, Slot
    <2>. QED
      BY <2>2, <2>3, <2>4
  <1>11. Misses(list, Deleting.node, Deleting.i + 1, list.len)'
    <2>. SUFFICES ASSUME NEW j \in 1..l, j \in (i + 1)..l PROVE heap'[list.arr][j] # n
      BY <1>4, <1>5 DEF Misses, Slot, SameLoop, Deleting, l, i, n
    <2> DEFINE J == IF j \in i..(l - 1) THEN j + 1 ELSE j
    <2>1. J \in 1..l /\ J # i
      BY <1>1, <1>7
    <2>2. heap'[list.arr][j] = Slot(list, J)
      BY <1>6
    <2>. HIDE DEF J
    <2>. QED
      BY <1>3, <1>6, <1>8, <2>1, <2>2 DEF n, i
  <1>12. Lists(k, members)'
    BY <1>3, <1>5, <1>9, <1>10 DEF Lists, n
  <1>13. Deleting.range' = list' /\ Deleting.hold' = list'
    BY <1>3, <1>4, <1>5 DEF SameLoop, Deleting
  <1>14. DeleteInv'
    BY <1>4, <1>11, <1>12, <1>13 DEF DeleteInv, k
  <1>. QED
    BY <1>2, <1>4, <1>5, <1>14, DeleteOwes

LEMMA SoundDeleteStores ==
  ASSUME Typed, Sound, DeleteStores PROVE Sound'
  <1>. SUFFICES ASSUME ~raced PROVE Sound'
    BY DEF Sound, DeleteStores, history
  <1> DEFINE k == [list EXCEPT !.len = @ - 1]
  <1>1. /\ "delete" \in Threads /\ TypeOK /\ Deleting.pc = "store" /\ list \in Header
        /\ list.len \in Nat /\ Deleting.i \in Nat \ {0}
    BY DEF Threads, Typed, TypeOK, DeleteStores, At, Deleting, Fits, Header, Goroutine
  <1>2. Updating.pc = "idle" /\ ~panicked /\ DeleteInv
    BY <1>1, DeleteAlone
  <1>3. /\ Deleting.hold = list /\ Deleting.range = list /\ Lists(k, members)
        /\ Misses(list, Deleting.node, Deleting.i + 1, list.len) /\ Deleting.i <= list.len
    BY <1>1, <1>2 DEF DeleteInv, Typed, IndexHeld
  <1>4. /\ Moves("delete") /\ SameLoop("delete") /\ Deleting.pc' = "range" /\ Deleting.i' = Deleting.i + 1
    BY <1>1, NextTo DEF DeleteStores, Deleting
  <1>5. list' = k /\ UNCHANGED <<heap, members, panicked>>
    BY <1>3 DEF DeleteStores, history, Deleting
  <1>a. list.len > 0
    BY <1>1, <1>3
  <1>b. k = [list EXCEPT !.len = @ - 1]
    OBVIOUS
  <1>. HIDE DEF k
  <1>6. list = [k EXCEPT !.len = @ + 1]
    BY <1>1, <1>a, <1>b, Resized
  <1>7. Lists(list, members)'
    BY <1>3, <1>5 DEF Lists, Distinct, Elements, Slot
  <1>8. Deleting.range' = list /\ Deleting.node' = Deleting.node
    BY <1>3, <1>4 DEF SameLoop, Deleting
  <1>9. Misses(Deleting.range, Deleting.node, Deleting.i, Deleting.range.len)'
    BY <1>3, <1>4, <1>5, <1>8 DEF Misses, Slot
  <1>10. Through'
    BY <1>5, <1>6, <1>7, <1>8, <1>9 DEF Through
  <1>11. DeleteInv'
    BY <1>4, <1>10 DEF DeleteInv
  <1>. QED
    BY <1>2, <1>4, <1>5, <1>11, DeleteOwes

LEMMA SoundStep == Typed /\ Sound /\ [Next]_vars => Sound'
  <1>. SUFFICES ASSUME Typed, Sound, [Next]_vars PROVE Sound'
    OBVIOUS
  <1>1. CASE UNCHANGED vars
    BY <1>1, SoundKept DEF vars, history
  <1>2. CASE \E n \in Nodes : CallUpdate(n) \/ CallDelete(n)
    BY <1>2, SoundCallUpdate, SoundCallDelete
  <1>3. CASE CallScan \/ ScanLooks
    BY <1>3, SoundScan
  <1>4. CASE UpdateLooks \/ UpdateLoads \/ UpdateWrites \/ UpdateStores
    BY <1>4, SoundUpdateLooks, SoundUpdateLoads, SoundUpdateWrites, SoundUpdateStores
  <1>5. CASE DeleteLooks \/ DeleteLoads \/ DeleteShifts \/ DeleteStores
    BY <1>5, SoundDeleteLooks, SoundDeleteLoads, SoundDeleteShifts, SoundDeleteStores
  <1>. QED
    BY <1>1, <1>2, <1>3, <1>4, <1>5 DEF Next

\* state.go:16 and state.go:26: in the middle of a call that none of the other kind
\* overlaps, the two loops know what they rely on: an Update that its node is not in
\* what it has seen, a Delete that behind the element it has removed the array it
\* still ranges over, which it has shifted, does not hold its node again.
THEOREM ListCorrect == Spec => []ListInv
  <1>1. Init => Typed /\ Sound
    BY TypeInit, SoundInit
  <1>2. Typed /\ Sound /\ [Next]_vars => (Typed /\ Sound)'
    BY TypeStep, SoundStep
  <1>3. Typed /\ Sound => ListInv
    BY DEF Typed, Sound, ListInv
  <1>. QED
    BY <1>1, <1>2, <1>3, PTL DEF Spec

\* A list without repetitions is as long as the set of its elements.
LEMMA DistinctSize ==
  ASSUME NEW h, h.len \in Nat, Distinct(h)
  PROVE  Cardinality(Elements(h)) = h.len
  <1> DEFINE f == [i \in 1..h.len |-> Slot(h, i)]
  <1>1. f \in [1..h.len -> Elements(h)]
    BY DEF Elements
  <1>2. \A i, j \in 1..h.len : f[i] = f[j] => i = j
    BY DEF Distinct
  <1>3. \A x \in Elements(h) : \E i \in 1..h.len : f[i] = x
    BY DEF Elements
  <1>. HIDE DEF f
  <1>4. f \in Bijection(1..h.len, Elements(h))
    BY <1>1, <1>2, <1>3 DEF Bijection, Injection, Surjection, IsInjective
  <1>5. ExistsBijection(1..h.len, Elements(h))
    BY <1>4 DEF ExistsBijection
  <1>. QED
    BY <1>5, FS_CountingElements

\* The comments of state.go:15 and state.go:25, as far as they are true: without an
\* overlap of the two calls the list is the set of the nodes added and not deleted.
THEOREM SequentialCorrect == Spec => []SequentialIsSet
  <1>1. Typed /\ Sound => SequentialIsSet
    <2>. SUFFICES ASSUME Typed, Sound, ~raced, Settled PROVE IsMembers
      BY DEF SequentialIsSet, Sound
    <2>1. Elements(list) = members /\ Distinct(list) /\ list.len \in Nat
      BY DEF Sound, Lists, Typed, TypeOK, Fits, Header
    <2>. QED
      BY <2>1, DistinctSize DEF IsMembers
  <1>2. Init => Typed /\ Sound
    BY TypeInit, SoundInit
  <1>3. Typed /\ Sound /\ [Next]_vars => (Typed /\ Sound)'
    BY TypeStep, SoundStep
  <1>. QED
    BY <1>1, <1>2, <1>3, PTL DEF Spec
=============================================================================
