------------------------- MODULE DownloadQueueSteps -------------------------
(***************************************************************************)
(* The inductive invariant of DownloadQueue, what its operations do, and   *)
(* the proofs that every step keeps the types, the invariant of the result *)
(* store, and PlaceInv: a task is in one place, and a task in flight has a *)
(* slot that waits for it.                                                 *)
(***************************************************************************)
EXTENDS DownloadQueue, TLAPS

USE DEF queueVars, storeVars, peerVars, procVars, loopVars

\* The result of block n is in the store and waits for part k.
Awaits(n, k) ==
  /\ resultOffset <= n /\ n < resultOffset + Size
  /\ items[n - resultOffset] # NoItem
  /\ k \in items[n - resultOffset].pending

\* A slot holds the result of its block, with the parts that arrived.
ItemsInv ==
  \A i \in Index : items[i] # NoItem =>
    /\ items[i].header = resultOffset + i /\ resultOffset + i <= head
    /\ items[i].pending \subseteq Parts(resultOffset + i, mode)
    /\ \A k \in Kind : items[i].data[k] =
         IF k \in Parts(resultOffset + i, mode) \ items[i].pending THEN resultOffset + i ELSE 0

\* Tasks are of scheduled blocks, and those under way have their slot.
TaskAt(k) ==
  /\ taskPool[k] \subseteq 1..head
  /\ \A n \in InHand(k) : Awaits(n, k)
  /\ \A p \in Peers : \A n \in pendPool[k][p] : Awaits(n, k)

\* EveryTaskInOnePlace, task by task; the hands hold a task once, too.
Placed(pool, queue, hand, pend) ==
  /\ \A n \in Number : n \in pool <=> n \in queue \/ n \in hand \/ \E p \in Peers : n \in pend[p]
  /\ \A n \in queue : n \notin hand
  /\ \A p \in Peers : \A n \in pend[p] :
       n \notin queue /\ n \notin hand /\ \A q \in Peers : q # p => n \notin pend[q]
PlaceAt(k) == Placed(taskPool[k], taskQueue[k], InHand(k), pendPool[k])
HandInv ==
  /\ op.type = "reserve" => op.send \cap op.skip = {}
  /\ op.type = "deliver" => op.todo \cap op.rest = {}
At(k) == TaskAt(k) /\ PlaceAt(k)
PlaceInv == HandInv /\ \A k \in Kind : At(k)

\* NothingForgotten, case by case.
Kept ==
  \A n \in resultOffset..head :
    /\ (n >= resultOffset + Size \/ items[n - resultOffset] = NoItem) =>
         n \in taskPool["body"] /\ \A k \in Parts(n, mode) : n \in taskPool[k]
    /\ (n < resultOffset + Size /\ items[n - resultOffset] # NoItem) =>
         \A k \in items[n - resultOffset].pending : n \in taskPool[k]

\* The items below indexIncomplete are complete, and the store begins where
\* the results delivered end.
CountInv ==
  /\ \A i \in Index : i < indexIncomplete => AllDone(items[i])
  /\ resultOffset = Len(delivered) + 1 /\ resultOffset <= head + 1

StoreInv == ItemsInv /\ Kept /\ CountInv

\* A peer still to be served in a round is idle, and so is the one served.
LoopAt(k, p) ==
  /\ p \in idles[k] => p \notin busy[k] /\ pendPool[k][p] = {}
  /\ op.type = "reserve" /\ op.kind = k /\ op.peer = p =>
       p \notin busy[k] /\ p \notin idles[k] /\ pendPool[k][p] = {}
  /\ op.type = "deliver" /\ op.kind = k /\ op.peer = p =>
       p \in busy[k] /\ p \notin idles[k] /\ pendPool[k][p] = {}
  /\ p \in registered /\ ~(op.type = "deliver" /\ op.kind = k /\ op.peer = p) =>
       (p \in busy[k] <=> pendPool[k][p] # {})
LoopInv ==
  /\ \A p \in leaving : p \notin registered
  /\ \A k \in Kind, p \in Peers : LoopAt(k, p)

\* A sleeping processor is about to be woken if it has work; an awake one that
\* takes results has some, or the queue is closed.
ProcessorInv ==
  /\ processor = "wait" => ~closed
  /\ processor = "wait" /\ HasCompletedItems =>
       op.type = "reserve" \/ (op.type = "deliver" /\ op.accepted > 0)
  /\ processor = "take" => HasCompletedItems \/ closed
  /\ processor = "end" => closed

\* While no peer has left, a loop that saw the end of the headers and an empty
\* queue finds it empty still, and one that is done has left nothing.
StrandAt(k) ==
  /\ fetcher[k] # "run" => idles[k] = {} /\ (op # NoOp => op.kind # k)
  /\ fetcher[k] = "drained" /\ finished[k] =>
       headersDone /\ (departed \/ taskQueue[k] = {})
  /\ fetcher[k] = "done" => headersDone /\ (departed \/ taskPool[k] = {})
StrandInv ==
  /\ departed \/ leaving = {}
  /\ \A k \in Kind : StrandAt(k)

IInv ==
  /\ TypeOK /\ StoreInv /\ PlaceInv /\ LoopInv /\ ProcessorInv /\ StrandInv
  /\ panicked = FALSE

-----------------------------------------------------------------------------
(* Helpers. *)

\* What an operation in progress is.
LEMMA OpType ==
  ASSUME TypeOK
  PROVE  /\ op.type = "reserve" => op \in Reservation
         /\ op.type = "deliver" => op \in Delivery
         /\ op = NoOp <=> op.type = "none"
<1>1. op \in {NoOp} \cup Reservation \cup Delivery
  BY Zenon DEF TypeOK
<1>2. NoOp.type = "none"
  BY Zenon DEF NoOp
<1>3. \A x \in Reservation : x.type = "reserve"
  BY Zenon DEF Reservation
<1>4. \A x \in Delivery : x.type = "deliver"
  BY Zenon DEF Delivery
<1>5. QED
  BY Zenon, <1>1, <1>2, <1>3, <1>4

\* A result is not an empty slot.
LEMMA NotNil ==
  ASSUME NEW x \in Item
  PROVE  x # NoItem
<1>1. x.header # 0
  BY DEF Item, Number
<1>2. NoItem.header = 0
  BY Zenon DEF NoItem
<1>3. QED
  BY Zenon, <1>1, <1>2

\* What newFetchResult makes.
LEMMA NewResult ==
  ASSUME NEW n \in Number, NEW m
  PROVE  /\ newFetchResult(n, m) \in Item
         /\ newFetchResult(n, m).header = n
         /\ newFetchResult(n, m).pending = Parts(n, m)
         /\ \A k \in Kind : newFetchResult(n, m).data[k] = 0
<1>1. Parts(n, m) \in SUBSET Kind
  BY Zenon DEF Parts
<1>2. [k \in Kind |-> 0] \in [Kind -> 0..MaxNumber]
  BY QueueAssumption
<1>3. QED
  BY Zenon, <1>1, <1>2 DEF newFetchResult, Item

\* What a part that arrives changes.
LEMMA Reconstructed ==
  ASSUME NEW item \in Item, NEW k \in Kind, NEW n \in Number
  PROVE  /\ reconstruct(item, k, n) \in Item
         /\ reconstruct(item, k, n).header = item.header
         /\ reconstruct(item, k, n).pending = item.pending \ {k}
         /\ \A j \in Kind : reconstruct(item, k, n).data[j] = IF j = k THEN n ELSE item.data[j]
<1>1. item.data \in [Kind -> 0..MaxNumber] /\ item.pending \in SUBSET Kind
  BY Zenon DEF Item
<1>2. n \in 0..MaxNumber
  BY DEF Number
<1>3. [item.data EXCEPT ![k] = n] \in [Kind -> 0..MaxNumber]
  BY Zenon, <1>1, <1>2
<1>4. reconstruct(item, k, n) =
        [header |-> item.header, pending |-> item.pending \ {k}, data |-> [item.data EXCEPT ![k] = n]]
  BY Zenon DEF reconstruct
<1>5. QED
  BY <1>1, <1>3, <1>4 DEF Item

\* What a reconstruction leaves to do.
LEMMA Reconstructing ==
  ASSUME NEW x \in Delivery, NEW n
  PROVE  LET y == [x EXCEPT !.todo = @ \ {n}, !.accepted = @ + 1]
         IN  /\ y \in Delivery
             /\ y.type = "deliver" /\ y.kind = x.kind /\ y.peer = x.peer
             /\ y.todo = x.todo \ {n} /\ y.rest = x.rest /\ y.accepted = x.accepted + 1
<1> DEFINE T == x.todo \ {n}
           a == x.accepted + 1
           y == [x EXCEPT !.todo = @ \ {n}, !.accepted = @ + 1]
<1>1. T \in SUBSET Number /\ a \in Nat
  BY DEF Delivery
<1>2. y = [x EXCEPT !.todo = T, !.accepted = a]
  BY Zenon
<1> HIDE DEF T, a, y
<1>3. y \in Delivery
  BY Zenon, <1>1, <1>2 DEF Delivery
<1>4. /\ y.type = "deliver" /\ y.kind = x.kind /\ y.peer = x.peer
      /\ y.todo = T /\ y.rest = x.rest /\ y.accepted = a
  BY Zenon, <1>2 DEF Delivery
<1>5. QED
  BY Zenon, <1>3, <1>4 DEF T, a, y

\* The outcomes of AddFetch for the task n of kind k that is peeked.
Unqueue(k, n) == taskQueue' = [taskQueue EXCEPT ![k] = @ \ {n}]
Drop(k, n) == op' = op /\ Unqueue(k, n) /\ taskPool' = [taskPool EXCEPT ![k] = @ \ {n}]
Take(k, n) ==
  /\ op' = [op EXCEPT !.send = @ \cup {n}] \/ op' = [op EXCEPT !.skip = @ \cup {n}]
  /\ Unqueue(k, n) /\ taskPool' = taskPool

Slot(n, item) ==
  /\ resultOffset <= n /\ n < resultOffset + Size
  /\ item = IF items[n - resultOffset] = NoItem THEN newFetchResult(n, mode)
            ELSE items[n - resultOffset]
  /\ items' = [items EXCEPT ![n - resultOffset] = item]

\* A round of reserveHeaders drops a task that is stale or done, throttles, or
\* takes the task and leaves its result in its slot.
LEMMA AddFetchCases ==
  ASSUME TypeOK, AddFetch
  PROVE  /\ op \in Reservation
         /\ \E n \in taskQueue[op.kind] :
              \/ n < resultOffset /\ items' = items /\ Drop(op.kind, n)
              \/ /\ op' = [op EXCEPT !.throttled = TRUE]
                 /\ UNCHANGED <<taskQueue, taskPool, items>>
              \/ \E item : /\ Slot(n, item)
                           /\ \/ op.kind \notin item.pending /\ Drop(op.kind, n)
                              \/ op.kind \in item.pending /\ Take(op.kind, n)
<1> DEFINE k == op.kind
           Throttle(n) == n >= resultOffset + throttleThreshold
           ItemOf(n) == IF items[n - resultOffset] = NoItem THEN newFetchResult(n, mode)
                        ELSE items[n - resultOffset]
<1>1. op \in Reservation
  BY Zenon, OpType DEF AddFetch, Reserving
<1>2. k \in Kind
  BY Zenon, <1>1 DEF Reservation
<1>3. taskQueue[k] \in SUBSET Number
  BY Zenon, <1>2 DEF TypeOK
<1>4. PICK n \in taskQueue[k] :
        /\ op' = IF Stale(n) THEN op
                 ELSE IF Throttle(n) THEN [op EXCEPT !.throttled = TRUE]
                 ELSE IF k \notin ItemOf(n).pending THEN op
                 ELSE IF n \in lacking[op.peer] THEN [op EXCEPT !.skip = @ \cup {n}]
                 ELSE [op EXCEPT !.send = @ \cup {n}]
        /\ taskQueue' = IF ~Stale(n) /\ Throttle(n) THEN taskQueue
                        ELSE [taskQueue EXCEPT ![k] = @ \ {n}]
        /\ taskPool' = IF Stale(n) \/ (~Throttle(n) /\ k \notin ItemOf(n).pending)
                       THEN [taskPool EXCEPT ![k] = @ \ {n}] ELSE taskPool
        /\ items' = IF Stale(n) \/ Throttle(n) THEN items
                    ELSE [items EXCEPT ![n - resultOffset] = ItemOf(n)]
  BY Zenon DEF AddFetch, Peek
<1>5. n \in Number
  BY Zenon, <1>3
<1>6. resultOffset \in Nat /\ throttleThreshold \in 1..Size /\ Size \in Nat /\ n \in Nat
  BY <1>5, QueueAssumption DEF TypeOK, Number
<1> HIDE DEF Throttle, ItemOf
<1> DEFINE throttle == Throttle(n)
           item == ItemOf(n)
           done == k \notin item.pending
<1>7. CASE Stale(n)
  <2>1. n < resultOffset /\ items' = items /\ Drop(k, n)
    BY Zenon, <1>4, <1>7 DEF Stale, Drop, Unqueue
  <2>2. QED
    BY Zenon, <1>1, <2>1
<1>8. CASE ~Stale(n) /\ throttle
  <2>1. op' = [op EXCEPT !.throttled = TRUE] /\ UNCHANGED <<taskQueue, taskPool, items>>
    BY Zenon, <1>4, <1>8
  <2>2. QED
    BY Zenon, <1>1, <2>1
<1>9. CASE ~Stale(n) /\ ~throttle
  <2>1. resultOffset <= n /\ n < resultOffset + Size
    BY <1>6, <1>9 DEF Stale, Throttle
  <2>2. Slot(n, item)
    BY Zenon, <1>4, <1>9, <2>1 DEF Slot, ItemOf
  <2>3. CASE done
    <3>1. Drop(k, n)
      BY Zenon, <1>4, <1>9, <2>3 DEF Drop, Unqueue
    <3>2. QED
      BY Zenon, <1>1, <2>2, <2>3, <3>1
  <2>4. CASE ~done
    <3>1. Take(k, n)
      BY Zenon, <1>4, <1>9, <2>4 DEF Take, Unqueue
    <3>2. QED
      BY Zenon, <1>1, <2>2, <2>4, <3>1
  <2>5. QED
    BY Zenon, <2>3, <2>4
<1>10. QED
  BY Zenon, <1>7, <1>8, <1>9

\* The header that Reconstruct takes next has a slot that waits for the part.
LEMMA ReconstructFacts ==
  ASSUME TypeOK, PlaceInv, Reconstruct
  PROVE  /\ op \in Delivery
         /\ \E n \in op.todo :
              /\ Awaits(n, op.kind)
              /\ panicked' = FALSE
              /\ items' = [items EXCEPT ![n - resultOffset] =
                             reconstruct(items[n - resultOffset], op.kind, n)]
              /\ taskPool' = [taskPool EXCEPT ![op.kind] = @ \ {n}]
              /\ op' = [op EXCEPT !.todo = @ \ {n}, !.accepted = @ + 1]
<1> DEFINE Nil(n) == Stale(n) \/ items[n - resultOffset] = NoItem
           Beyond(n) == n >= resultOffset + Size
<1>1. op \in Delivery /\ op.type = "deliver"
  BY Zenon, OpType DEF Reconstruct
<1>2. op.todo \in SUBSET Number /\ op.kind \in Kind
  BY Zenon, <1>1 DEF Delivery
<1>3. PICK n \in op.todo :
        /\ panicked' = (~Beyond(n) /\ Nil(n))
        /\ items' = IF Beyond(n) \/ Nil(n) THEN items
                    ELSE [items EXCEPT ![n - resultOffset] =
                            reconstruct(items[n - resultOffset], op.kind, n)]
        /\ taskPool' = [taskPool EXCEPT ![op.kind] = @ \ {n}]
        /\ op' = [op EXCEPT !.todo = @ \ {n}, !.accepted = @ + 1]
  BY Zenon DEF Reconstruct, Peek
<1>4. n \in Number
  BY Zenon, <1>2
<1>5. resultOffset \in Nat /\ Size \in Nat /\ n \in Nat
  BY <1>4, QueueAssumption DEF TypeOK, Number
<1>6. n \in InHand(op.kind)
  <2>1. op # NoOp
    BY <1>1 DEF NoOp
  <2>2. QED
    BY Zenon, <1>1, <1>3, <2>1 DEF InHand
<1>7. Awaits(n, op.kind)
  BY Zenon, <1>2, <1>6 DEF PlaceInv, At, TaskAt
<1>8. ~Beyond(n) /\ ~Nil(n)
  BY <1>5, <1>7 DEF Awaits, Stale
<1>9. QED
  BY Zenon, <1>1, <1>3, <1>7, <1>8

\* What Results takes: `limit` complete items from the front.
Taken(count, limit) ==
  /\ limit \in 0..count /\ limit <= maxResultsProcess
  /\ limit = 0 => count = 0
  /\ delivered' = delivered \o [j \in 1..limit |-> items[j - 1]]
  /\ items' = [i \in Index |-> IF i + limit < Size THEN items[i + limit] ELSE NoItem]
  /\ resultOffset' = resultOffset + limit
  /\ indexIncomplete' = count - limit
  /\ processor' = IF limit = 0 THEN "end" ELSE "calibrate"

\* What a call of Results takes was complete, and was scheduled.
LEMMA GetCompletedFacts ==
  ASSUME TypeOK, ItemsInv, CountInv, GetCompleted
  PROVE  \E count, limit \in Nat :
           /\ Taken(count, limit)
           /\ \A i \in Index : i < count => AllDone(items[i])
           /\ count \in 0..Size /\ (count < Size => ~AllDone(items[count]))
           /\ resultOffset + limit <= head + 1
<1>1. PICK count \in indexIncomplete..Size :
        /\ countCompleted(count)
        /\ LET limit == IF maxResultsProcess > count THEN count ELSE maxResultsProcess
           IN  /\ delivered' = delivered \o [j \in 1..limit |-> items[j - 1]]
               /\ items' = [i \in Index |-> IF i + limit < Size THEN items[i + limit] ELSE NoItem]
               /\ resultOffset' = resultOffset + limit
               /\ indexIncomplete' = count - limit
               /\ processor' = IF limit = 0 THEN "end" ELSE "calibrate"
  BY Zenon DEF GetCompleted
<1> DEFINE limit == IF maxResultsProcess > count THEN count ELSE maxResultsProcess
<1>2. indexIncomplete \in Nat /\ Size \in Nat /\ maxResultsProcess \in Nat \ {0}
  BY QueueAssumption DEF TypeOK
<1>3. count \in 0..Size
  BY <1>1, <1>2
<1>4. ASSUME NEW i \in Index, i < count
      PROVE  AllDone(items[i])
  <2>1. CASE i < indexIncomplete
    BY Zenon, <2>1 DEF CountInv
  <2>2. CASE ~(i < indexIncomplete)
    <3>1. i \in indexIncomplete..(count - 1)
      BY <1>2, <1>3, <1>4, <2>2 DEF Index
    <3>2. QED
      BY Zenon, <1>1, <3>1 DEF countCompleted
  <2>3. QED
    BY Zenon, <2>1, <2>2
<1>5. limit \in Nat /\ limit <= count /\ limit <= maxResultsProcess /\ limit >= 0
  BY <1>2, <1>3
<1>6. limit = 0 => count = 0
  BY Zenon, <1>2, <1>3
<1>7. Taken(count, limit)
  <2>1. limit \in 0..count
    BY <1>3, <1>5
  <2>2. QED
    BY Zenon, <1>1, <1>5, <1>6, <2>1 DEF Taken
<1>8. resultOffset + limit <= head + 1
  <2> HIDE DEF limit
  <2>1. resultOffset \in Nat /\ head \in Nat
    BY DEF TypeOK
  <2>2. CASE limit = 0
    BY <2>1, <2>2 DEF CountInv
  <2>3. CASE limit # 0
    <3>1. limit - 1 \in Index /\ limit - 1 < count
      BY <1>2, <1>3, <1>5, <2>3 DEF Index
    <3>2. items[limit - 1] # NoItem
      BY Zenon, <1>4, <3>1 DEF AllDone
    <3>3. resultOffset + (limit - 1) <= head
      BY Zenon, <3>1, <3>2 DEF ItemsInv
    <3>4. QED
      BY <1>5, <2>1, <3>3
  <2>4. QED
    BY Zenon, <2>2, <2>3
<1>9. count \in Nat /\ (count < Size => ~AllDone(items[count]))
  BY <1>1, <1>3 DEF countCompleted
<1>10. QED
  BY Zenon, <1>3, <1>4, <1>5, <1>7, <1>8, <1>9

-----------------------------------------------------------------------------
(* Types. *)

\* The initial states have the types.
LEMMA TypeInit == Init => TypeOK
<1> SUFFICES ASSUME Init PROVE TypeOK
  BY Zenon
<1>1. mode \in Mode /\ last \in Number /\ registered \subseteq Peers /\ reliable \subseteq Peers
  BY Zenon, QueueAssumption DEF Init
<1>2. taskPool \in [Kind -> SUBSET Number] /\ taskQueue \in [Kind -> SUBSET Number]
  BY Zenon DEF Init
<1>3. pendPool \in [Kind -> [Peers -> SUBSET Number]]
  BY Zenon DEF Init
<1>4. items \in [Index -> Item \cup {NoItem}] /\ delivered \in Seq(Item)
  BY DEF Init
<1>5. /\ resultOffset \in 1..(MaxNumber + 1) /\ head \in 0..MaxNumber
      /\ indexIncomplete \in 0..Size /\ throttleThreshold \in 1..Size
  BY QueueAssumption DEF Init
<1>6. /\ fetcher \in [Kind -> {"run", "drained", "done"}] /\ finished \in [Kind -> BOOLEAN]
      /\ idles \in [Kind -> SUBSET Peers] /\ busy \in [Kind -> SUBSET Peers]
      /\ lacking \in [Peers -> SUBSET Number]
  BY Zenon DEF Init
<1>7. QED
  BY Zenon, <1>1, <1>2, <1>3, <1>4, <1>5, <1>6 DEF Init, TypeOK

\* Schedule keeps the types.
LEMMA TypeSchedule ==
  ASSUME TypeOK, NEW c \in 1..MaxCount, Schedule(c)
  PROVE  TypeOK'
<1> DEFINE new == (head + 1)..(head + c)
           tasks == [k \in Kind |-> IF k = "body" THEN new
                                    ELSE {n \in new : mode = "fast" /\ n \in WithReceipts}]
<1>1. head \in Nat /\ last \in Number /\ c \in Nat /\ MaxNumber \in Nat /\ head + c <= last
  BY QueueAssumption DEF TypeOK, Schedule
<1>2. new \subseteq Number /\ head' \in 0..MaxNumber
  BY <1>1 DEF Schedule, Number
<1>3. tasks \in [Kind -> SUBSET Number]
  BY Zenon, <1>2
<1>4. /\ taskPool' = [k \in Kind |-> taskPool[k] \cup tasks[k]]
      /\ taskQueue' = [k \in Kind |-> taskQueue[k] \cup (tasks[k] \ taskPool[k])]
  BY Zenon DEF Schedule
<1> HIDE DEF tasks
<1>5. taskPool' \in [Kind -> SUBSET Number] /\ taskQueue' \in [Kind -> SUBSET Number]
  BY Zenon, <1>3, <1>4 DEF TypeOK
<1>6. QED
  BY Zenon, <1>2, <1>5 DEF TypeOK, Schedule

\* The start of a reservation keeps the types.
LEMMA TypeReserve ==
  ASSUME TypeOK, NEW k \in Kind, NEW p \in Peers, NEW c \in 1..MaxCount, reserveHeaders(k, p, c)
  PROVE  TypeOK'
<1>1. op' \in {NoOp} \cup Reservation
  BY Zenon DEF reserveHeaders, Reservation
<1>2. idles' \in [Kind -> SUBSET Peers]
  BY Zenon DEF reserveHeaders, TypeOK
<1>3. QED
  BY Zenon, <1>1, <1>2 DEF TypeOK, reserveHeaders

\* AddFetch keeps the types: the slot of a task is in the store.
LEMMA TypeAddFetch ==
  ASSUME TypeOK, AddFetch
  PROVE  TypeOK'
<1> DEFINE k == op.kind
<1>1. op \in Reservation /\ k \in Kind
  BY Zenon, AddFetchCases DEF Reservation
<1>2. PICK n \in taskQueue[k] :
        \/ n < resultOffset /\ items' = items /\ Drop(k, n)
        \/ /\ op' = [op EXCEPT !.throttled = TRUE]
           /\ UNCHANGED <<taskQueue, taskPool, items>>
        \/ \E item : /\ Slot(n, item)
                     /\ \/ k \notin item.pending /\ Drop(k, n)
                        \/ k \in item.pending /\ Take(k, n)
  BY Zenon, AddFetchCases
<1>3. n \in Number
  BY Zenon, <1>1 DEF TypeOK
<1>4. taskQueue' \in [Kind -> SUBSET Number] /\ taskPool' \in [Kind -> SUBSET Number]
  <2>1. taskQueue \in [Kind -> SUBSET Number] /\ taskPool \in [Kind -> SUBSET Number]
    BY Zenon DEF TypeOK
  <2>2. taskQueue' = taskQueue \/ taskQueue' = [taskQueue EXCEPT ![k] = @ \ {n}]
    BY Zenon, <1>2 DEF Drop, Take, Unqueue
  <2>3. taskPool' = taskPool \/ taskPool' = [taskPool EXCEPT ![k] = @ \ {n}]
    BY Zenon, <1>2 DEF Drop, Take, Unqueue
  <2> HIDE DEF k
  <2>4. QED
    BY Zenon, <1>1, <2>1, <2>2, <2>3
<1>5. op' \in Reservation
  <2>1. CASE op' = op
    BY Zenon, <1>1, <2>1
  <2>2. CASE op' = [op EXCEPT !.throttled = TRUE]
    BY Zenon, <1>1, <2>2 DEF Reservation
  <2>3. CASE op' = [op EXCEPT !.send = @ \cup {n}]
    BY Zenon, <1>1, <1>3, <2>3 DEF Reservation
  <2>4. CASE op' = [op EXCEPT !.skip = @ \cup {n}]
    BY Zenon, <1>1, <1>3, <2>4 DEF Reservation
  <2>5. QED
    BY Zenon, <1>2, <2>1, <2>2, <2>3, <2>4 DEF Drop, Take
<1>6. items' \in [Index -> Item \cup {NoItem}]
  <2>1. CASE items' = items
    BY Zenon, <2>1 DEF TypeOK
  <2>2. CASE \E item : Slot(n, item)
    <3>1. PICK item : Slot(n, item)
      BY Zenon, <2>2
    <3>2. n - resultOffset \in Index
      BY <1>3, <3>1, QueueAssumption DEF TypeOK, Slot, Index, Number
    <3>3. item \in Item \cup {NoItem}
      BY Zenon, <1>3, <3>1, <3>2, NewResult DEF TypeOK, Slot
    <3>4. QED
      BY Zenon, <3>1, <3>2, <3>3 DEF TypeOK, Slot
  <2>3. QED
    BY Zenon, <1>2, <2>1, <2>2
<1>7. QED
  BY Zenon, <1>4, <1>5, <1>6 DEF TypeOK, AddFetch

\* The end of a reservation keeps the types.
LEMMA TypeReserved ==
  ASSUME TypeOK, Reserved
  PROVE  TypeOK'
<1>1. op \in Reservation
  BY Zenon, OpType DEF Reserved
<1>2. /\ op.kind \in Kind /\ op.peer \in Peers
      /\ op.send \in SUBSET Number /\ op.skip \in SUBSET Number
  BY Zenon, <1>1 DEF Reservation
<1>3. taskQueue' \in [Kind -> SUBSET Number]
  BY Zenon, <1>2 DEF TypeOK, Reserved
<1>4. pendPool' \in [Kind -> [Peers -> SUBSET Number]]
  BY Zenon, <1>2 DEF TypeOK, Reserved
<1>5. busy' \in [Kind -> SUBSET Peers] /\ idles' \in [Kind -> SUBSET Peers]
  BY <1>2 DEF TypeOK, Reserved
<1>6. panicked' \in BOOLEAN
  BY Zenon DEF Reserved
<1>7. processor' \in {"check", "lock", "wait", "woken", "take", "calibrate", "end"}
  BY Zenon DEF TypeOK, Reserved, Wake
<1>8. QED
  BY Zenon, <1>3, <1>4, <1>5, <1>6, <1>7 DEF TypeOK, Reserved

\* The start of a delivery keeps the types.
LEMMA TypeDeliver ==
  ASSUME TypeOK, NEW k \in Kind, NEW p \in Peers, NEW valid \in SUBSET pendPool[k][p],
         NEW some \in BOOLEAN, deliver(k, p, valid, some)
  PROVE  TypeOK'
<1>1. pendPool[k][p] \in SUBSET Number
  BY DEF TypeOK
<1>2. op' \in {NoOp} \cup Delivery
  BY Zenon, <1>1 DEF deliver, Delivery
<1>3. pendPool' \in [Kind -> [Peers -> SUBSET Number]]
  BY Zenon DEF TypeOK, deliver, Unassign
<1>4. lacking' \in [Peers -> SUBSET Number]
  BY Zenon, <1>1 DEF TypeOK, deliver
<1>5. busy' \in [Kind -> SUBSET Peers]
  BY Zenon DEF TypeOK, deliver, setIdle
<1>6. QED
  BY <1>2, <1>3, <1>4, <1>5 DEF TypeOK, deliver

\* A part that arrives keeps the types: its slot holds a result.
LEMMA TypeReconstruct ==
  ASSUME TypeOK, PlaceInv, Reconstruct
  PROVE  TypeOK'
<1>1. op \in Delivery /\ op.kind \in Kind
  BY Zenon, ReconstructFacts DEF Delivery
<1>2. PICK n \in op.todo :
        /\ Awaits(n, op.kind)
        /\ panicked' = FALSE
        /\ items' = [items EXCEPT ![n - resultOffset] =
                       reconstruct(items[n - resultOffset], op.kind, n)]
        /\ taskPool' = [taskPool EXCEPT ![op.kind] = @ \ {n}]
        /\ op' = [op EXCEPT !.todo = @ \ {n}, !.accepted = @ + 1]
  BY Zenon, ReconstructFacts
<1>3. n \in Number
  BY Zenon, <1>1 DEF Delivery
<1>4. n - resultOffset \in Index
  <2>1. resultOffset <= n /\ n < resultOffset + Size
    BY Zenon, <1>2 DEF Awaits
  <2>2. resultOffset \in Nat /\ Size \in Nat /\ n \in Nat
    BY <1>3, QueueAssumption DEF TypeOK, Number
  <2>3. QED
    BY <2>1, <2>2 DEF Index
<1>5. items[n - resultOffset] \in Item
  BY Zenon, <1>2, <1>4 DEF Awaits, TypeOK
<1>6. items' \in [Index -> Item \cup {NoItem}]
  BY Zenon, <1>1, <1>2, <1>3, <1>4, <1>5, Reconstructed DEF TypeOK
<1>7. op' \in Delivery
  BY Zenon, <1>1, <1>2, Reconstructing
<1>8. taskPool' \in [Kind -> SUBSET Number]
  BY Zenon, <1>1, <1>2 DEF TypeOK
<1>9. QED
  BY Zenon, <1>2, <1>6, <1>7, <1>8 DEF TypeOK, Reconstruct

\* Results keeps the types: the processor gets results, never empty slots.
LEMMA TypeGetCompleted ==
  ASSUME TypeOK, ItemsInv, CountInv, GetCompleted
  PROVE  TypeOK'
<1>1. PICK count \in Nat, limit \in Nat :
        /\ Taken(count, limit)
        /\ \A i \in Index : i < count => AllDone(items[i])
        /\ count \in 0..Size
        /\ resultOffset + limit <= head + 1
  BY Zenon, GetCompletedFacts
<1>2. items' \in [Index -> Item \cup {NoItem}]
  <2>1. ASSUME NEW i \in Index, i + limit < Size PROVE items[i + limit] \in Item \cup {NoItem}
    <3>1. i + limit \in Index
      BY <2>1, QueueAssumption DEF Index
    <3>2. QED
      BY Zenon, <3>1 DEF TypeOK
  <2>2. QED
    BY Zenon, <1>1, <2>1 DEF Taken
<1>3. ASSUME NEW j \in 1..limit PROVE items[j - 1] \in Item
  <2>1. j - 1 \in Index /\ j - 1 < count
    BY <1>1, <1>3, QueueAssumption DEF Taken, Index
  <2>2. items[j - 1] # NoItem
    BY Zenon, <1>1, <2>1 DEF AllDone
  <2>3. QED
    BY Zenon, <2>1, <2>2 DEF TypeOK
<1>4. delivered' \in Seq(Item)
  <2> DEFINE new == [j \in 1..limit |-> items[j - 1]]
  <2>1. new \in Seq(Item)
    BY <1>3
  <2>2. delivered' = delivered \o new /\ delivered \in Seq(Item)
    BY Zenon, <1>1 DEF Taken, TypeOK
  <2> HIDE DEF new
  <2>3. QED
    BY <2>1, <2>2
<1>5. resultOffset' \in 1..(MaxNumber + 1) /\ indexIncomplete' \in 0..Size
  BY <1>1, QueueAssumption DEF TypeOK, Taken
<1>6. processor' \in {"check", "lock", "wait", "woken", "take", "calibrate", "end"}
  BY Zenon, <1>1 DEF Taken
<1>7. QED
  BY Zenon, <1>2, <1>4, <1>5, <1>6 DEF TypeOK, GetCompleted

\* Every step keeps the types.
LEMMA TypeNext ==
  ASSUME TypeOK, ItemsInv, CountInv, PlaceInv, Next
  PROVE  TypeOK'
<1>1. ASSUME NEW c \in 1..MaxCount, Schedule(c) PROVE TypeOK'
  BY Zenon, <1>1, TypeSchedule
<1>2. CASE HeadersDone
  BY <1>2 DEF HeadersDone, TypeOK
<1>3. ASSUME NEW k \in Kind, NEW p \in Peers, NEW c \in 1..MaxCount, reserveHeaders(k, p, c)
      PROVE  TypeOK'
  BY Zenon, <1>3, TypeReserve
<1>4. ASSUME NEW k \in Kind, NEW p \in Peers, NEW valid \in SUBSET pendPool[k][p],
             NEW some \in BOOLEAN, deliver(k, p, valid, some)
      PROVE  TypeOK'
  BY Zenon, <1>4, TypeDeliver
<1>5. ASSUME NEW k \in Kind, NEW p \in Peers, expire(k, p) PROVE TypeOK'
  <2>1. pendPool[k][p] \in SUBSET Number
    BY DEF TypeOK
  <2>2. taskQueue' \in [Kind -> SUBSET Number]
    BY Zenon, <1>5, <2>1 DEF TypeOK, expire
  <2>3. pendPool' \in [Kind -> [Peers -> SUBSET Number]]
    BY Zenon, <1>5 DEF TypeOK, expire, Unassign
  <2>4. busy' \in [Kind -> SUBSET Peers] /\ registered' \subseteq Peers /\ leaving' \subseteq Peers
    BY Zenon, <1>5 DEF TypeOK, expire, setIdle
  <2>5. departed' \in BOOLEAN
    BY Zenon, <1>5 DEF expire
  <2>6. QED
    BY Zenon, <1>5, <2>2, <2>3, <2>4, <2>5 DEF TypeOK, expire
<1>6. CASE AddFetch
  BY Zenon, <1>6, TypeAddFetch
<1>7. CASE Reserved
  BY <1>7, TypeReserved
<1>8. CASE Reconstruct
  BY Zenon, <1>8, TypeReconstruct
<1>9. CASE Delivered
  <2>1. op \in Delivery
    BY Zenon, <1>9, OpType DEF Delivered
  <2>2. op.kind \in Kind /\ op.peer \in Peers /\ op.rest \in SUBSET Number
    BY Zenon, <2>1 DEF Delivery
  <2>3. taskQueue' \in [Kind -> SUBSET Number] /\ busy' \in [Kind -> SUBSET Peers]
    BY Zenon, <1>9, <2>2 DEF TypeOK, Delivered, setIdle
  <2>4. processor' \in {"check", "lock", "wait", "woken", "take", "calibrate", "end"}
    BY Zenon, <1>9 DEF TypeOK, Delivered, Wake
  <2>5. QED
    BY Zenon, <1>9, <2>3, <2>4 DEF TypeOK, Delivered
<1>10. ASSUME NEW k \in Kind, Idle(k) \/ NoMoreTasks(k) PROVE TypeOK'
  <2>1. idles' \in [Kind -> SUBSET Peers]
    BY ZenonT(60), <1>10 DEF TypeOK, Idle, NoMoreTasks
  <2>2. QED
    BY <1>10, <2>1 DEF TypeOK, Idle, NoMoreTasks
<1>11. ASSUME NEW k \in Kind, PendingEmpty(k) PROVE TypeOK'
  <2>1. fetcher' \in [Kind -> {"run", "drained", "done"}] /\ finished' \in [Kind -> BOOLEAN]
    BY Zenon, <1>11 DEF TypeOK, PendingEmpty
  <2>2. QED
    BY Zenon, <1>11, <2>1 DEF TypeOK, PendingEmpty
<1>12. ASSUME NEW k \in Kind, InFlight(k) PROVE TypeOK'
  <2>1. fetcher' \in [Kind -> {"run", "drained", "done"}]
    BY Zenon, <1>12 DEF TypeOK, InFlight
  <2>2. QED
    BY Zenon, <1>12, <2>1 DEF TypeOK, InFlight
<1>13. ASSUME NEW p \in Peers, Unregister(p) PROVE TypeOK'
  BY <1>13 DEF TypeOK, Unregister
<1>14. ASSUME NEW p \in Peers, Revoke(p) PROVE TypeOK'
  <2>1. taskQueue' \in [Kind -> SUBSET Number]
    BY <1>14 DEF TypeOK, Revoke
  <2>2. pendPool' \in [Kind -> [Peers -> SUBSET Number]]
    BY Zenon, <1>14 DEF TypeOK, Revoke
  <2>3. QED
    BY <1>14, <2>1, <2>2 DEF TypeOK, Revoke
<1>15. CASE ResultsCheck
  BY Zenon, <1>15 DEF TypeOK, ResultsCheck
<1>16. CASE ResultsLock
  BY Zenon, <1>16 DEF TypeOK, ResultsLock
<1>17. CASE ResultsWoken
  BY Zenon, <1>17 DEF TypeOK, ResultsWoken
<1>18. CASE GetCompleted
  BY Zenon, <1>18, TypeGetCompleted
<1>19. CASE SetThrottleThreshold
  BY Zenon, <1>19 DEF TypeOK, SetThrottleThreshold, Threshold
<1>20. CASE Close
  BY Zenon, <1>20 DEF TypeOK, Close, Wake
<1>21. QED
  BY Zenon, <1>1, <1>2, <1>3, <1>4, <1>5, <1>6, <1>7, <1>8, <1>9, <1>10, <1>11, <1>12, <1>13, <1>14,
     <1>15, <1>16, <1>17, <1>18, <1>19, <1>20 DEF Next

-----------------------------------------------------------------------------
(* The result store. *)

\* Steps that leave the store and the pools alone keep StoreInv.
LEMMA StoreFrame ==
  ASSUME StoreInv,
         UNCHANGED <<mode, head, items, resultOffset, indexIncomplete, delivered, taskPool>>
  PROVE  StoreInv'
<1>1. ItemsInv'
  BY Zenon DEF StoreInv, ItemsInv
<1>2. Kept'
  BY Zenon DEF StoreInv, Kept
<1>3. CountInv'
  BY Zenon DEF StoreInv, CountInv
<1>4. QED
  BY Zenon, <1>1, <1>2, <1>3 DEF StoreInv

\* New headers lie beyond the results of the store, and are tasks.
LEMMA StoreSchedule ==
  ASSUME TypeOK, StoreInv, NEW c \in 1..MaxCount, Schedule(c)
  PROVE  StoreInv'
<1>1. head \in Nat /\ c \in Nat /\ head' = head + c /\ resultOffset \in Nat /\ Size \in Nat \ {0}
  BY QueueAssumption DEF TypeOK, Schedule
<1>2. UNCHANGED <<mode, items, resultOffset, indexIncomplete, delivered>>
  BY Zenon DEF Schedule
<1>3. ASSUME NEW k \in Kind PROVE taskPool[k] \subseteq taskPool'[k]
  BY Zenon DEF Schedule
<1>4. ASSUME NEW n \in (head + 1)..(head + c), NEW k \in Kind, k \in Parts(n, mode) \/ k = "body"
      PROVE  n \in taskPool'[k]
  BY Zenon, <1>4 DEF Schedule, Parts, Kind
<1>5. ItemsInv'
  <2> SUFFICES ASSUME NEW i \in Index, items[i] # NoItem
               PROVE  resultOffset + i <= head'
    BY Zenon, <1>2 DEF ItemsInv, StoreInv
  <2>1. resultOffset + i <= head
    BY Zenon DEF ItemsInv, StoreInv
  <2>2. QED
    BY <1>1, <2>1 DEF Index
<1>6. Kept'
  <2> SUFFICES ASSUME NEW n \in resultOffset..head'
               PROVE  /\ (n >= resultOffset + Size \/ items[n - resultOffset] = NoItem) =>
                           n \in taskPool'["body"] /\ \A k \in Parts(n, mode) : n \in taskPool'[k]
                      /\ (n < resultOffset + Size /\ items[n - resultOffset] # NoItem) =>
                           \A k \in items[n - resultOffset].pending : n \in taskPool'[k]
    BY Zenon, <1>2 DEF Kept
  <2>1. "body" \in Kind /\ \A k \in Parts(n, mode) : k \in Kind
    BY Zenon DEF Kind, Parts
  <2>2. CASE n \in resultOffset..head
    <3>1. /\ (n >= resultOffset + Size \/ items[n - resultOffset] = NoItem) =>
               n \in taskPool["body"] /\ \A k \in Parts(n, mode) : n \in taskPool[k]
          /\ (n < resultOffset + Size /\ items[n - resultOffset] # NoItem) =>
               \A k \in items[n - resultOffset].pending : n \in taskPool[k]
      BY Zenon, <2>2 DEF StoreInv, Kept
    <3>2. ASSUME n < resultOffset + Size, items[n - resultOffset] # NoItem
          PROVE  items[n - resultOffset].pending \subseteq Kind
      <4>1. n - resultOffset \in Index
        BY <1>1, <3>2 DEF Index
      <4>2. items[n - resultOffset] \in Item
        BY Zenon, <3>2, <4>1 DEF TypeOK
      <4>3. QED
        BY Zenon, <4>2 DEF Item
    <3>3. QED
      BY Zenon, <1>3, <2>1, <3>1, <3>2
  <2>3. CASE n \notin resultOffset..head
    <3>1. n \in (head + 1)..(head + c)
      BY <1>1, <2>3
    <3>2. n \in taskPool'["body"] /\ \A k \in Parts(n, mode) : n \in taskPool'[k]
      BY Zenon, <1>4, <2>1, <3>1
    <3>3. ~(n < resultOffset + Size /\ items[n - resultOffset] # NoItem)
      <4> SUFFICES ASSUME n < resultOffset + Size, items[n - resultOffset] # NoItem
                   PROVE  FALSE
        BY Zenon
      <4>1. n - resultOffset \in Index
        BY <1>1 DEF Index
      <4>2. resultOffset + (n - resultOffset) <= head
        BY Zenon, <4>1 DEF StoreInv, ItemsInv
      <4>3. QED
        BY <1>1, <3>1, <4>2
    <3>4. QED
      BY Zenon, <3>2, <3>3
  <2>4. QED
    BY Zenon, <2>2, <2>3
<1>7. CountInv'
  BY <1>1, <1>2 DEF StoreInv, CountInv
<1>8. QED
  BY Zenon, <1>5, <1>6, <1>7 DEF StoreInv

\* An item changes in one slot, and with it what the pool still has to hold.
Fits(n, item) ==
  /\ item.header = n /\ item.pending \subseteq Parts(n, mode)
  /\ \A j \in Kind : item.data[j] = IF j \in Parts(n, mode) \ item.pending THEN n ELSE 0
  /\ AllDone(items[n - resultOffset]) => AllDone(item)
Filled(n, k, item) ==
  /\ items' = [items EXCEPT ![n - resultOffset] = item]
  /\ \A j \in Kind : \A x \in taskPool[j] : x # n \/ j # k => x \in taskPool'[j]
  /\ \A j \in item.pending : n \in taskPool'[j]

\* Filling the slot of one header keeps StoreInv, when the result fits the slot and
\* the parts it still waits for are tasks.
LEMMA StoreSlot ==
  ASSUME TypeOK, StoreInv, UNCHANGED <<mode, head, resultOffset, indexIncomplete, delivered>>,
         NEW n \in Number, resultOffset <= n, n < resultOffset + Size, n <= head,
         NEW k \in Kind, NEW item \in Item, Fits(n, item), Filled(n, k, item)
  PROVE  StoreInv'
<1> DEFINE s == n - resultOffset
<1>1. resultOffset \in Nat /\ Size \in Nat /\ head \in Nat /\ n \in Nat
  BY QueueAssumption DEF TypeOK, Number
<1>2. s \in Index /\ resultOffset + s = n
  BY <1>1 DEF Index
<1> USE DEF Fits, Filled
<1>3. items'[s] = item /\ \A i \in Index : i # s => items'[i] = items[i]
  BY Zenon, <1>2 DEF TypeOK
<1>4. item # NoItem
  BY Zenon, NotNil
<1> HIDE DEF s
<1>5. ItemsInv'
  <2> SUFFICES ASSUME NEW i \in Index, items'[i] # NoItem
               PROVE  /\ items'[i].header = resultOffset + i /\ resultOffset + i <= head
                      /\ items'[i].pending \subseteq Parts(resultOffset + i, mode)
                      /\ \A j \in Kind : items'[i].data[j] =
                           IF j \in Parts(resultOffset + i, mode) \ items'[i].pending
                           THEN resultOffset + i ELSE 0
    BY DEF ItemsInv
  <2>1. CASE i = s
    BY Zenon, <1>2, <1>3, <2>1
  <2>2. CASE i # s
    <3>1. items'[i] = items[i]
      BY Zenon, <1>3, <2>2
    <3>2. QED
      BY <3>1 DEF StoreInv, ItemsInv
  <2>3. QED
    BY Zenon, <2>1, <2>2
<1>6. Kept'
  <2> SUFFICES ASSUME NEW x \in resultOffset..head
               PROVE  /\ (x >= resultOffset + Size \/ items'[x - resultOffset] = NoItem) =>
                           x \in taskPool'["body"] /\ \A j \in Parts(x, mode) : x \in taskPool'[j]
                      /\ (x < resultOffset + Size /\ items'[x - resultOffset] # NoItem) =>
                           \A j \in items'[x - resultOffset].pending : x \in taskPool'[j]
    BY Zenon DEF Kept
  <2>1. CASE x = n
    <3>1. items'[x - resultOffset] = item /\ ~(x >= resultOffset + Size)
      BY <1>1, <1>3, <2>1 DEF s
    <3>2. QED
      BY Zenon, <1>4, <2>1, <3>1
  <2>2. CASE x # n
    <3>1. x < resultOffset + Size => items'[x - resultOffset] = items[x - resultOffset]
      <4> SUFFICES ASSUME x < resultOffset + Size
                   PROVE  items'[x - resultOffset] = items[x - resultOffset]
        BY Zenon
      <4>1. x - resultOffset \in Index /\ x - resultOffset # s
        BY <1>1, <1>2, <2>2 DEF Index
      <4>2. QED
        BY Zenon, <1>3, <4>1
    <3>2. /\ (x >= resultOffset + Size \/ items[x - resultOffset] = NoItem) =>
               x \in taskPool["body"] /\ \A j \in Parts(x, mode) : x \in taskPool[j]
          /\ (x < resultOffset + Size /\ items[x - resultOffset] # NoItem) =>
               \A j \in items[x - resultOffset].pending : x \in taskPool[j]
      BY Zenon DEF StoreInv, Kept
    <3>3. "body" \in Kind /\ \A j \in Parts(x, mode) : j \in Kind
      BY Zenon DEF Kind, Parts
    <3>4. x < resultOffset + Size /\ items[x - resultOffset] # NoItem =>
            items[x - resultOffset].pending \subseteq Kind
      <4> SUFFICES ASSUME x < resultOffset + Size, items[x - resultOffset] # NoItem
                   PROVE  items[x - resultOffset].pending \subseteq Kind
        BY Zenon
      <4>1. x - resultOffset \in Index
        BY <1>1 DEF Index
      <4>2. items[x - resultOffset] \in Item
        BY Zenon, <4>1 DEF TypeOK
      <4>3. QED
        BY Zenon, <4>2 DEF Item
    <3>5. \A j \in Kind : x \in taskPool[j] => x \in taskPool'[j]
      BY Zenon, <2>2
    <3>6. x >= resultOffset + Size \/ x < resultOffset + Size
      BY <1>1
    <3>7. CASE x >= resultOffset + Size
      <4>1. ~(x < resultOffset + Size)
        BY <1>1, <3>7
      <4>2. QED
        BY Zenon, <3>2, <3>3, <3>5, <3>7, <4>1
    <3>8. CASE x < resultOffset + Size
      BY Zenon, <3>1, <3>2, <3>3, <3>4, <3>5, <3>8
    <3>9. QED
      BY Zenon, <3>6, <3>7, <3>8
  <2>3. QED
    BY Zenon, <2>1, <2>2
<1>7. CountInv'
  <2>1. ASSUME NEW i \in Index, i < indexIncomplete PROVE AllDone(items'[i])
    <3>1. AllDone(items[i])
      BY Zenon, <2>1 DEF StoreInv, CountInv
    <3>2. CASE i = s
      BY Zenon, <1>3, <3>1, <3>2 DEF s
    <3>3. CASE i # s
      BY Zenon, <1>3, <3>1, <3>3
    <3>4. QED
      BY Zenon, <3>2, <3>3
  <2>2. QED
    BY Zenon, <2>1 DEF StoreInv, CountInv, AllDone
<1>8. QED
  BY Zenon, <1>5, <1>6, <1>7 DEF StoreInv

\* AddFetch keeps StoreInv: it drops a task only if the part is not needed.
LEMMA StoreAddFetch ==
  ASSUME TypeOK, StoreInv, PlaceInv, AddFetch
  PROVE  StoreInv'
<1> DEFINE k == op.kind
<1>1. op \in Reservation /\ k \in Kind
  BY Zenon, AddFetchCases DEF Reservation
<1>2. PICK n \in taskQueue[k] :
        \/ n < resultOffset /\ items' = items /\ Drop(k, n)
        \/ /\ op' = [op EXCEPT !.throttled = TRUE]
           /\ UNCHANGED <<taskQueue, taskPool, items>>
        \/ \E item : /\ Slot(n, item)
                     /\ \/ k \notin item.pending /\ Drop(k, n)
                        \/ k \in item.pending /\ Take(k, n)
  BY Zenon, AddFetchCases
<1> HIDE DEF k
<1>3. n \in Number /\ n \in taskPool[k] /\ n <= head /\ n \in Nat
  BY <1>1 DEF TypeOK, PlaceInv, At, PlaceAt, Placed, TaskAt, Number
<1>4. UNCHANGED <<mode, head, resultOffset, indexIncomplete, delivered>>
  BY Zenon DEF AddFetch
<1>5. CASE n < resultOffset /\ items' = items /\ Drop(k, n)
  <2>1. \A j \in Kind : \A x \in taskPool[j] : x # n => x \in taskPool'[j]
    BY Zenon, <1>1, <1>5 DEF Drop, TypeOK
  <2>2. ItemsInv' /\ CountInv'
    BY Zenon, <1>4, <1>5 DEF StoreInv, ItemsInv, CountInv
  <2>3. Kept'
    <3> SUFFICES ASSUME NEW x \in resultOffset..head
                 PROVE  /\ (x >= resultOffset + Size \/ items[x - resultOffset] = NoItem) =>
                             x \in taskPool'["body"] /\ \A j \in Parts(x, mode) : x \in taskPool'[j]
                        /\ (x < resultOffset + Size /\ items[x - resultOffset] # NoItem) =>
                             \A j \in items[x - resultOffset].pending : x \in taskPool'[j]
      BY Zenon, <1>4, <1>5 DEF Kept
    <3>1. /\ (x >= resultOffset + Size \/ items[x - resultOffset] = NoItem) =>
               x \in taskPool["body"] /\ \A j \in Parts(x, mode) : x \in taskPool[j]
          /\ (x < resultOffset + Size /\ items[x - resultOffset] # NoItem) =>
               \A j \in items[x - resultOffset].pending : x \in taskPool[j]
      BY Zenon DEF StoreInv, Kept
    <3>2. x # n
      BY <1>3, <1>5 DEF TypeOK
    <3>3. "body" \in Kind /\ \A j \in Parts(x, mode) : j \in Kind
      BY Zenon DEF Kind, Parts
    <3>4. x < resultOffset + Size /\ items[x - resultOffset] # NoItem =>
            items[x - resultOffset].pending \subseteq Kind
      <4> SUFFICES ASSUME x < resultOffset + Size, items[x - resultOffset] # NoItem
                   PROVE  items[x - resultOffset].pending \subseteq Kind
        BY Zenon
      <4>1. x - resultOffset \in Index
        BY QueueAssumption DEF Index, TypeOK
      <4>2. items[x - resultOffset] \in Item
        BY Zenon, <4>1 DEF TypeOK
      <4>3. QED
        BY Zenon, <4>2 DEF Item
    <3>5. QED
      BY Zenon, <2>1, <3>1, <3>2, <3>3, <3>4
  <2>4. QED
    BY Zenon, <2>2, <2>3 DEF StoreInv
<1>6. CASE op' = [op EXCEPT !.throttled = TRUE] /\ UNCHANGED <<taskQueue, taskPool, items>>
  BY Zenon, <1>4, <1>6, StoreFrame
<1>7. ASSUME NEW item, Slot(n, item),
             (k \notin item.pending /\ Drop(k, n)) \/ (k \in item.pending /\ Take(k, n))
      PROVE  StoreInv'
  <2> DEFINE s == n - resultOffset
  <2>1. /\ resultOffset <= n /\ n < resultOffset + Size
        /\ item = IF items[s] = NoItem THEN newFetchResult(n, mode) ELSE items[s]
        /\ items' = [items EXCEPT ![s] = item]
    BY Zenon, <1>7 DEF Slot
  <2>2. s \in Index /\ resultOffset + s = n
    BY <1>3, <2>1, QueueAssumption DEF TypeOK, Index
  <2>3. n \in resultOffset..head
    BY <1>3, <2>1 DEF TypeOK
  <2> HIDE DEF s
  <2>4. /\ item \in Item /\ item.header = n /\ item.pending \subseteq Parts(n, mode)
        /\ \A j \in Kind : item.data[j] = IF j \in Parts(n, mode) \ item.pending THEN n ELSE 0
        /\ AllDone(items[s]) => AllDone(item)
        /\ \A j \in item.pending : n \in taskPool[j]
    <3>1. CASE items[s] = NoItem
      <4>1. item = newFetchResult(n, mode)
        BY Zenon, <2>1, <3>1
      <4>2. item \in Item /\ item.header = n /\ item.pending = Parts(n, mode)
        BY Zenon, <1>3, <4>1, NewResult
      <4>3. \A j \in Kind : item.data[j] = 0
        BY <1>3, <4>1, NewResult
      <4>4. ~AllDone(items[s])
        BY Zenon, <3>1 DEF AllDone
      <4>5. \A j \in Parts(n, mode) : n \in taskPool[j]
        BY Zenon, <2>3, <3>1 DEF StoreInv, Kept, s
      <4>6. QED
        BY Zenon, <4>2, <4>3, <4>4, <4>5
    <3>2. CASE items[s] # NoItem
      <4>1. item = items[s]
        BY Zenon, <2>1, <3>2
      <4>2. item \in Item
        BY Zenon, <2>2, <3>2, <4>1 DEF TypeOK
      <4>3. /\ item.header = resultOffset + s
            /\ item.pending \subseteq Parts(resultOffset + s, mode)
            /\ \A j \in Kind : item.data[j] =
                 IF j \in Parts(resultOffset + s, mode) \ item.pending THEN resultOffset + s ELSE 0
        BY Zenon, <2>2, <3>2, <4>1 DEF StoreInv, ItemsInv
      <4>4. \A j \in item.pending : n \in taskPool[j]
        BY Zenon, <2>1, <2>3, <3>2, <4>1 DEF StoreInv, Kept, s
      <4>5. QED
        BY Zenon, <2>2, <4>1, <4>2, <4>3, <4>4
    <3>3. QED
      BY Zenon, <3>1, <3>2
  <2>5. \A j \in Kind : \A x \in taskPool[j] : x # n \/ j # k => x \in taskPool'[j]
    BY Zenon, <1>1, <1>7 DEF Drop, Take, TypeOK
  <2>6. \A j \in item.pending : n \in taskPool'[j]
    <3>1. item.pending \subseteq Kind
      BY Zenon, <2>4 DEF Item
    <3>2. CASE k \notin item.pending
      BY Zenon, <2>4, <2>5, <3>1, <3>2
    <3>3. CASE k \in item.pending /\ Take(k, n)
      BY Zenon, <2>4, <3>3 DEF Take
    <3>4. QED
      BY Zenon, <1>7, <3>2, <3>3
  <2>7. Fits(n, item)
    BY Zenon, <2>1, <2>4 DEF Fits, s
  <2>8. Filled(n, k, item)
    BY Zenon, <2>1, <2>5, <2>6 DEF Filled, s
  <2>9. QED
    BY Zenon, <1>1, <1>3, <1>4, <2>1, <2>4, <2>7, <2>8, StoreSlot
<1>8. QED
  BY Zenon, <1>2, <1>5, <1>6, <1>7

\* A part that arrives leaves the pool and the pending parts together.
LEMMA StoreReconstruct ==
  ASSUME TypeOK, StoreInv, PlaceInv, Reconstruct
  PROVE  StoreInv'
<1> DEFINE k == op.kind
<1>1. op \in Delivery /\ k \in Kind
  BY Zenon, ReconstructFacts DEF Delivery
<1>2. PICK n \in op.todo :
        /\ Awaits(n, k)
        /\ panicked' = FALSE
        /\ items' = [items EXCEPT ![n - resultOffset] =
                       reconstruct(items[n - resultOffset], k, n)]
        /\ taskPool' = [taskPool EXCEPT ![k] = @ \ {n}]
        /\ op' = [op EXCEPT !.todo = @ \ {n}, !.accepted = @ + 1]
  BY Zenon, ReconstructFacts
<1>3. n \in Number /\ n \in Nat
  BY <1>1 DEF Delivery, Number
<1> HIDE DEF k
<1> DEFINE s == n - resultOffset
           item == reconstruct(items[s], k, n)
<1>4. s \in Index /\ resultOffset + s = n /\ resultOffset <= n /\ n < resultOffset + Size
  <2>1. resultOffset <= n /\ n < resultOffset + Size
    BY Zenon, <1>2 DEF Awaits
  <2>2. resultOffset \in Nat /\ Size \in Nat
    BY QueueAssumption DEF TypeOK
  <2>3. QED
    BY <1>3, <2>1, <2>2 DEF Index
<1>5. items[s] \in Item /\ items[s] # NoItem /\ k \in items[s].pending
  BY Zenon, <1>2, <1>4 DEF Awaits, TypeOK
<1>6. items' = [items EXCEPT ![s] = item]
  BY Zenon, <1>2
<1> HIDE DEF s
<1>7. /\ item \in Item /\ item.header = items[s].header
      /\ item.pending = items[s].pending \ {k}
      /\ \A j \in Kind : item.data[j] = IF j = k THEN n ELSE items[s].data[j]
  BY <1>1, <1>3, <1>5, Reconstructed
<1>8. /\ items[s].header = n /\ n <= head
      /\ items[s].pending \subseteq Parts(n, mode)
      /\ \A j \in Kind : items[s].data[j] =
           IF j \in Parts(n, mode) \ items[s].pending THEN n ELSE 0
  BY Zenon, <1>4, <1>5 DEF StoreInv, ItemsInv
<1> HIDE DEF item
<1>9. \A j \in Kind : item.data[j] = IF j \in Parts(n, mode) \ item.pending THEN n ELSE 0
  BY Zenon, <1>5, <1>7, <1>8
<1>10. AllDone(items[s]) => AllDone(item)
  BY Zenon, <1>5 DEF AllDone
<1>11. \A j \in Kind : \A x \in taskPool[j] : x # n \/ j # k => x \in taskPool'[j]
  BY Zenon, <1>1, <1>2 DEF TypeOK
<1>12. \A j \in item.pending : n \in taskPool'[j]
  <2>1. n \in resultOffset..head
    BY <1>3, <1>4, <1>8 DEF TypeOK
  <2>2. \A j \in items[s].pending : n \in taskPool[j]
    BY Zenon, <1>4, <1>5, <2>1 DEF StoreInv, Kept, s
  <2>3. items[s].pending \subseteq Kind
    BY Zenon, <1>5 DEF Item
  <2>4. QED
    BY Zenon, <1>7, <1>11, <2>2, <2>3
<1>13. UNCHANGED <<mode, head, resultOffset, indexIncomplete, delivered>>
  BY Zenon DEF Reconstruct
<1>14. item.pending \subseteq Parts(n, mode) /\ item.header = n
  BY Zenon, <1>7, <1>8
<1>15. Fits(n, item)
  BY Zenon, <1>9, <1>10, <1>14 DEF Fits, s
<1>16. Filled(n, k, item)
  BY Zenon, <1>6, <1>11, <1>12 DEF Filled, s
<1>17. QED
  BY Zenon, <1>1, <1>3, <1>4, <1>7, <1>8, <1>13, <1>15, <1>16, StoreSlot

\* The length of a concatenation.
LEMMA LenConcat ==
  ASSUME NEW S, NEW s \in Seq(S), NEW t \in Seq(S)
  PROVE  Len(s \o t) = Len(s) + Len(t)
OBVIOUS

\* Results shifts the slots and the offset together.
LEMMA StoreGetCompleted ==
  ASSUME TypeOK, StoreInv, GetCompleted
  PROVE  StoreInv'
<1>1. PICK count \in Nat, limit \in Nat :
        /\ Taken(count, limit)
        /\ \A i \in Index : i < count => AllDone(items[i])
        /\ count \in 0..Size
        /\ resultOffset + limit <= head + 1
  BY Zenon, GetCompletedFacts DEF StoreInv
<1>2. /\ resultOffset' = resultOffset + limit /\ resultOffset \in Nat
      /\ Size \in Nat /\ head \in Nat
  BY <1>1, QueueAssumption DEF Taken, TypeOK
<1>3. UNCHANGED <<mode, head, taskPool>>
  BY Zenon DEF GetCompleted
<1>4. ASSUME NEW i \in Index
      PROVE  /\ i \in Nat /\ i < Size
             /\ i + limit < Size => i + limit \in Index /\ items'[i] = items[i + limit]
             /\ ~(i + limit < Size) => items'[i] = NoItem
             /\ resultOffset' + i = resultOffset + (i + limit)
  BY <1>1, <1>2 DEF Taken, Index
<1>5. ItemsInv'
  <2> SUFFICES ASSUME NEW i \in Index, items'[i] # NoItem
               PROVE  /\ items'[i].header = resultOffset' + i /\ resultOffset' + i <= head
                      /\ items'[i].pending \subseteq Parts(resultOffset' + i, mode)
                      /\ \A j \in Kind : items'[i].data[j] =
                           IF j \in Parts(resultOffset' + i, mode) \ items'[i].pending
                           THEN resultOffset' + i ELSE 0
    BY Zenon, <1>3 DEF ItemsInv
  <2>1. /\ i + limit \in Index /\ items'[i] = items[i + limit]
        /\ resultOffset' + i = resultOffset + (i + limit)
    BY Zenon, <1>4
  <2>2. QED
    BY Zenon, <2>1 DEF StoreInv, ItemsInv
<1>6. Kept'
  <2> SUFFICES ASSUME NEW x \in resultOffset'..head
               PROVE  /\ (x >= resultOffset' + Size \/ items'[x - resultOffset'] = NoItem) =>
                           x \in taskPool["body"] /\ \A j \in Parts(x, mode) : x \in taskPool[j]
                      /\ (x < resultOffset' + Size /\ items'[x - resultOffset'] # NoItem) =>
                           \A j \in items'[x - resultOffset'].pending : x \in taskPool[j]
    BY Zenon, <1>3 DEF Kept
  <2>1. x \in resultOffset..head
    BY <1>2
  <2>2. /\ (x >= resultOffset + Size \/ items[x - resultOffset] = NoItem) =>
             x \in taskPool["body"] /\ \A j \in Parts(x, mode) : x \in taskPool[j]
        /\ (x < resultOffset + Size /\ items[x - resultOffset] # NoItem) =>
             \A j \in items[x - resultOffset].pending : x \in taskPool[j]
    BY Zenon, <2>1 DEF StoreInv, Kept
  <2>3. CASE x >= resultOffset + Size
    <3>1. x \in taskPool["body"] /\ \A j \in Parts(x, mode) : x \in taskPool[j]
      BY Zenon, <2>2, <2>3
    <3>2. x < resultOffset' + Size => items'[x - resultOffset'] = NoItem
      <4> SUFFICES ASSUME x < resultOffset' + Size PROVE items'[x - resultOffset'] = NoItem
        BY Zenon
      <4>1. x - resultOffset' \in Index /\ ~((x - resultOffset') + limit < Size)
        BY <1>2, <2>3 DEF Index
      <4>2. QED
        BY Zenon, <1>4, <4>1
    <3>3. QED
      BY Zenon, <3>1, <3>2
  <2>4. CASE ~(x >= resultOffset + Size)
    <3>1. /\ x - resultOffset' \in Index /\ (x - resultOffset') + limit = x - resultOffset
          /\ x - resultOffset < Size /\ x < resultOffset + Size
          /\ x < resultOffset' + Size /\ ~(x >= resultOffset' + Size)
      BY <1>2, <2>1, <2>4 DEF Index
    <3>2. items'[x - resultOffset'] = items[x - resultOffset]
      BY Zenon, <1>4, <3>1
    <3>3. QED
      BY Zenon, <2>2, <3>1, <3>2
  <2>5. QED
    BY Zenon, <2>3, <2>4
<1>7. CountInv'
  <2>1. ASSUME NEW i \in Index, i < indexIncomplete' PROVE AllDone(items'[i])
    <3>0. count \in Nat /\ count <= Size /\ indexIncomplete' = count - limit
      BY <1>1 DEF Taken
    <3>1. i + limit < count /\ i + limit < Size
      BY <1>2, <1>4, <2>1, <3>0
    <3>2. AllDone(items[i + limit])
      BY Zenon, <1>1, <1>4, <3>1
    <3>3. QED
      BY Zenon, <1>4, <3>1, <3>2
  <2>2. resultOffset' = Len(delivered') + 1
    <3> DEFINE new == [j \in 1..limit |-> items[j - 1]]
    <3>1. new \in Seq(Item \cup {NoItem}) /\ Len(new) = limit
      <4>1. ASSUME NEW j \in 1..limit PROVE items[j - 1] \in Item \cup {NoItem}
        <5>1. j - 1 \in Index
          BY <1>1, <1>2 DEF Taken, Index
        <5>2. QED
          BY Zenon, <5>1 DEF TypeOK
      <4>2. QED
        BY <4>1
    <3>2. delivered' = delivered \o new /\ delivered \in Seq(Item)
      BY Zenon, <1>1 DEF Taken, TypeOK
    <3> HIDE DEF new
    <3>3. Len(delivered') = Len(delivered) + limit
      <4>1. delivered \in Seq(Item \cup {NoItem})
        BY <3>2
      <4>2. QED
        BY Zenon, <3>1, <3>2, <4>1, LenConcat
    <3>4. QED
      BY <1>2, <3>2, <3>3 DEF StoreInv, CountInv
  <2>3. resultOffset' <= head' + 1
    BY Zenon, <1>1, <1>2, <1>3
  <2>4. QED
    BY Zenon, <2>1, <2>2, <2>3 DEF CountInv, AllDone
<1>8. QED
  BY Zenon, <1>5, <1>6, <1>7 DEF StoreInv

\* The store's invariant is kept.
LEMMA StoreNext ==
  ASSUME TypeOK, StoreInv, PlaceInv, Next
  PROVE  StoreInv'
<1>1. ASSUME NEW c \in 1..MaxCount, Schedule(c) PROVE StoreInv'
  BY Zenon, <1>1, StoreSchedule
<1>2. CASE AddFetch
  BY Zenon, <1>2, StoreAddFetch
<1>3. CASE Reconstruct
  BY <1>3, StoreReconstruct
<1>4. CASE GetCompleted
  BY Zenon, <1>4, StoreGetCompleted
<1>5. CASE HeadersDone \/ Reserved \/ Delivered \/ ResultsCheck \/ ResultsLock \/ ResultsWoken
           \/ SetThrottleThreshold \/ Close
  BY Zenon, <1>5, StoreFrame DEF HeadersDone, Reserved, Delivered, ResultsCheck, ResultsLock, ResultsWoken,
     SetThrottleThreshold, Close
<1>6. ASSUME NEW k \in Kind, Idle(k) \/ NoMoreTasks(k) \/ PendingEmpty(k) \/ InFlight(k)
      PROVE  StoreInv'
  BY Zenon, <1>6, StoreFrame DEF Idle, NoMoreTasks, PendingEmpty, InFlight
<1>7. ASSUME NEW p \in Peers, Unregister(p) \/ Revoke(p) PROVE StoreInv'
  BY Zenon, <1>7, StoreFrame DEF Unregister, Revoke
<1>8. ASSUME NEW k \in Kind, NEW p \in Peers, NEW c \in 1..MaxCount, reserveHeaders(k, p, c)
      PROVE  StoreInv'
  BY Zenon, <1>8, StoreFrame DEF reserveHeaders
<1>9. ASSUME NEW k \in Kind, NEW p \in Peers, NEW valid \in SUBSET pendPool[k][p],
             NEW some \in BOOLEAN, deliver(k, p, valid, some)
      PROVE  StoreInv'
  BY Zenon, <1>9, StoreFrame DEF deliver
<1>10. ASSUME NEW k \in Kind, NEW p \in Peers, expire(k, p) PROVE StoreInv'
  BY Zenon, <1>10, StoreFrame DEF expire
<1>11. QED
  BY Zenon, <1>1, <1>2, <1>3, <1>4, <1>5, <1>6, <1>7, <1>8, <1>9, <1>10 DEF Next

-----------------------------------------------------------------------------
(* Every task is in one place. *)

\* The moves of a task between its places.
LEMMA Moves ==
  ASSUME NEW pool, NEW queue, NEW hand, NEW pend, Placed(pool, queue, hand, pend)
  PROVE  /\ \A new \in SUBSET Number : new \cap pool = {} /\ hand \subseteq Number
              /\ (\A p \in Peers : pend[p] \subseteq Number) =>
              Placed(pool \cup new, queue \cup new, hand, pend)
         /\ \A n \in queue : /\ Placed(pool \ {n}, queue \ {n}, hand, pend)
                             /\ Placed(pool, queue \ {n}, hand \cup {n}, pend)
         /\ \A n \in hand : Placed(pool \ {n}, queue, hand \ {n}, pend)
         /\ Placed(pool, queue \cup hand, {}, pend)
<1>1. ASSUME NEW new \in SUBSET Number, new \cap pool = {}, hand \subseteq Number,
             \A p \in Peers : pend[p] \subseteq Number
      PROVE  Placed(pool \cup new, queue \cup new, hand, pend)
  BY Zenon, <1>1 DEF Placed
<1>2. ASSUME NEW n \in queue PROVE Placed(pool \ {n}, queue \ {n}, hand, pend)
  BY Zenon, <1>2 DEF Placed
<1>3. ASSUME NEW n \in queue PROVE Placed(pool, queue \ {n}, hand \cup {n}, pend)
  BY Zenon, <1>3 DEF Placed
<1>4. ASSUME NEW n \in hand PROVE Placed(pool \ {n}, queue, hand \ {n}, pend)
  BY Zenon, <1>4 DEF Placed
<1>5. Placed(pool, queue \cup hand, {}, pend)
  BY Zenon DEF Placed
<1>6. QED
  BY Zenon, <1>1, <1>2, <1>3, <1>4, <1>5

\* A reservation becomes a request: the tasks to send are the peer's, the
\* skipped ones return to the queue.
Sends(pool, queue, send, skip, pend, next, p) ==
  /\ Placed(pool, queue, send \cup skip, pend) /\ send \cap skip = {}
  /\ pend[p] = {} /\ next[p] = send /\ \A q \in Peers : q # p => next[q] = pend[q]

\* What is sent and what is skipped share nothing, so each task keeps one place.
LEMMA MovesToRequest ==
  ASSUME NEW pool, NEW queue, NEW send, NEW skip, NEW pend, NEW next, NEW p \in Peers,
         Sends(pool, queue, send, skip, pend, next, p)
  PROVE  Placed(pool, queue \cup skip, {}, next)
BY Zenon DEF Sends, Placed

\* The moves of a request: into the hands, into the queue.
LEMMA MovesOfRequest ==
  ASSUME NEW pool, NEW queue, NEW hand, NEW pend, NEW next, Placed(pool, queue, hand, pend),
         NEW p0 \in Peers, \A p \in Peers : p # p0 => next[p] = pend[p]
  PROVE  /\ hand = {} /\ next[p0] = {} => Placed(pool, queue, pend[p0], next)
         /\ next[p0] = {} => Placed(pool, queue \cup pend[p0], hand, next)
<1>1. ASSUME hand = {}, next[p0] = {} PROVE Placed(pool, queue, pend[p0], next)
  BY Zenon, <1>1 DEF Placed
<1>2. ASSUME next[p0] = {} PROVE Placed(pool, queue \cup pend[p0], hand, next)
  BY Zenon, <1>2 DEF Placed
<1>3. QED
  BY Zenon, <1>1, <1>2

\* The tasks in hand, by the kind of operation, before and after a step.
LEMMA HandNow ==
  ASSUME NEW k
  PROVE  /\ op = NoOp => InHand(k) = {}
         /\ op \in Reservation => InHand(k) = IF op.kind = k THEN op.send \cup op.skip ELSE {}
         /\ op \in Delivery => InHand(k) = IF op.kind = k THEN op.todo \cup op.rest ELSE {}
<1>1. op \in Reservation => op.type = "reserve" /\ op # NoOp
  BY DEF Reservation, NoOp
<1>2. op \in Delivery => op.type = "deliver" /\ op # NoOp
  BY DEF Delivery, NoOp
<1>3. QED
  BY Zenon, <1>1, <1>2 DEF InHand

\* The same after a step.
LEMMA HandThen ==
  ASSUME NEW k
  PROVE  /\ op' = NoOp => InHand(k)' = {}
         /\ op' \in Reservation => InHand(k)' = IF op'.kind = k THEN op'.send \cup op'.skip ELSE {}
         /\ op' \in Delivery => InHand(k)' = IF op'.kind = k THEN op'.todo \cup op'.rest ELSE {}
         /\ op' = op => InHand(k)' = InHand(k)
<1>1. op' \in Reservation => op'.type = "reserve" /\ op' # NoOp
  BY DEF Reservation, NoOp
<1>2. op' \in Delivery => op'.type = "deliver" /\ op' # NoOp
  BY DEF Delivery, NoOp
<1>3. QED
  BY Zenon, <1>1, <1>2 DEF InHand

\* The tasks in hand and in flight are block numbers.
LEMMA HandType ==
  ASSUME TypeOK, NEW k \in Kind
  PROVE  InHand(k) \subseteq Number /\ \A p \in Peers : pendPool[k][p] \subseteq Number
<1>1. \A p \in Peers : pendPool[k][p] \subseteq Number
  BY DEF TypeOK
<1>2. op \in {NoOp} \cup Reservation \cup Delivery
  BY Zenon DEF TypeOK
<1>3. op \in Reservation => op.send \cup op.skip \subseteq Number
  BY Zenon DEF Reservation
<1>4. op \in Delivery => op.todo \cup op.rest \subseteq Number
  BY Zenon DEF Delivery
<1>5. InHand(k) \subseteq Number
  BY Zenon, <1>2, <1>3, <1>4, HandNow, HandThen
<1>6. QED
  BY Zenon, <1>1, <1>5

\* Nothing happens to the tasks of kind k.
LEMMA AtFrame ==
  ASSUME TypeOK, NEW k \in Kind, At(k), head' = head,
         taskPool'[k] = taskPool[k], taskQueue'[k] = taskQueue[k], pendPool'[k] = pendPool[k],
         InHand(k)' = InHand(k), \A n \in Number : Awaits(n, k) => Awaits(n, k)'
  PROVE  At(k)'
<1>1. InHand(k) \subseteq Number /\ \A p \in Peers : pendPool[k][p] \subseteq Number
  BY Zenon, HandType
<1>2. TaskAt(k)'
  BY Zenon, <1>1 DEF At, TaskAt
<1>3. PlaceAt(k)'
  BY Zenon DEF At, PlaceAt
<1>4. QED
  BY Zenon, <1>2, <1>3 DEF At

\* What a slot waits for depends on the store alone.
LEMMA AwaitsFrame ==
  ASSUME UNCHANGED <<items, resultOffset>>, NEW n, NEW k
  PROVE  Awaits(n, k)' <=> Awaits(n, k)
BY Zenon DEF Awaits

\* Nothing happens to the tasks at all.
LEMMA PlaceFrame ==
  ASSUME TypeOK, PlaceInv,
         UNCHANGED <<head, taskPool, taskQueue, pendPool, items, resultOffset, op>>
  PROVE  PlaceInv'
<1>1. ASSUME NEW k \in Kind PROVE At(k)'
  <2>1. At(k) /\ InHand(k)' = InHand(k)
    BY Zenon, HandThen DEF PlaceInv
  <2>2. \A n \in Number : Awaits(n, k) => Awaits(n, k)'
    BY Zenon, AwaitsFrame
  <2>3. QED
    BY Zenon, <2>1, <2>2, AtFrame
<1>2. HandInv'
  BY Zenon DEF PlaceInv, HandInv
<1>3. QED
  BY Zenon, <1>1, <1>2 DEF PlaceInv

\* New headers are queued once.
LEMMA PlaceSchedule ==
  ASSUME TypeOK, PlaceInv, NEW c \in 1..MaxCount, Schedule(c)
  PROVE  PlaceInv'
<1>1. head \in Nat /\ c \in Nat /\ head' = head + c
  BY DEF TypeOK, Schedule
<1>2. UNCHANGED <<op, pendPool, items, resultOffset>>
  BY Zenon DEF Schedule
<1>3. ASSUME NEW k \in Kind PROVE At(k)'
  <2>1. PICK new \in SUBSET ((head + 1)..(head + c)) :
          taskPool'[k] = taskPool[k] \cup new /\ taskQueue'[k] = taskQueue[k] \cup (new \ taskPool[k])
    <3> DEFINE T == [j \in Kind |-> IF j = "body" THEN (head + 1)..(head + c)
                       ELSE {n \in (head + 1)..(head + c) : mode = "fast" /\ n \in WithReceipts}]
    <3>1. /\ taskPool' = [j \in Kind |-> taskPool[j] \cup T[j]]
          /\ taskQueue' = [j \in Kind |-> taskQueue[j] \cup (T[j] \ taskPool[j])]
      BY Zenon DEF Schedule
    <3>2. T[k] \in SUBSET ((head + 1)..(head + c))
      BY Zenon
    <3> HIDE DEF T
    <3>3. QED
      BY Zenon, <3>1, <3>2
  <2>2. InHand(k)' = InHand(k)
    BY Zenon, <1>2, HandThen
  <2>3. taskPool[k] \subseteq 1..head /\ TaskAt(k) /\ PlaceAt(k)
    BY Zenon DEF PlaceInv, At, TaskAt
  <2>4. taskPool'[k] \subseteq 1..head'
    <3>1. 1..head \subseteq 1..(head + c) /\ (head + 1)..(head + c) \subseteq 1..(head + c)
      BY <1>1
    <3>2. QED
      BY Zenon, <1>1, <2>1, <2>3, <3>1
  <2>5. \A n : Awaits(n, k)' <=> Awaits(n, k)
    BY Zenon, <1>2, AwaitsFrame
  <2>6. TaskAt(k)'
    BY Zenon, <1>2, <2>2, <2>3, <2>4, <2>5 DEF TaskAt
  <2>7. \A n \in new : n \notin taskPool[k]
    BY <1>1, <2>1, <2>3
  <2>8. InHand(k) \subseteq Number /\ \A p \in Peers : pendPool[k][p] \subseteq Number
    BY Zenon, HandType
  <2>9. PlaceAt(k)'
    <3>1. new \in SUBSET Number /\ new \cap taskPool[k] = {} /\ new \ taskPool[k] = new
      <4>1. head + c <= MaxNumber
        BY <1>1, QueueAssumption DEF Schedule, TypeOK, Number
      <4>2. new \subseteq Number
        <5>1. ASSUME NEW n \in new PROVE n \in Number
          BY SMTT(60), <1>1, <2>1, <4>1, <5>1, QueueAssumption DEF Number, TypeOK
        <5>2. QED
          BY Zenon, <5>1
      <4>3. QED
        BY Zenon, <2>7, <4>2
    <3>2. Placed(taskPool[k] \cup new, taskQueue[k] \cup new, InHand(k), pendPool[k])
      BY Zenon, <2>3, <2>8, <3>1, Moves DEF PlaceAt
    <3>3. QED
      BY Zenon, <1>2, <2>1, <2>2, <3>1, <3>2 DEF PlaceAt
  <2>10. QED
    BY Zenon, <2>6, <2>9 DEF At
<1>4. HandInv'
  BY Zenon, <1>2 DEF PlaceInv, HandInv
<1>5. QED
  BY Zenon, <1>3, <1>4 DEF PlaceInv

\* A reservation starts with empty hands.
LEMMA PlaceReserve ==
  ASSUME TypeOK, PlaceInv, NEW k0 \in Kind, NEW p \in Peers, NEW c \in 1..MaxCount,
         reserveHeaders(k0, p, c)
  PROVE  PlaceInv'
<1>1. op = NoOp /\ UNCHANGED <<head, taskPool, taskQueue, pendPool, items, resultOffset>>
  BY Zenon DEF reserveHeaders
<1>2. \/ op' = NoOp
      \/ op' \in Reservation /\ op'.send = {} /\ op'.skip = {} /\ op'.type = "reserve"
  BY Zenon DEF reserveHeaders, Reservation
<1>3. ASSUME NEW k \in Kind PROVE At(k)'
  <2>1. InHand(k)' = {} /\ InHand(k) = {}
    BY Zenon, <1>1, <1>2, HandNow, HandThen
  <2>2. \A n \in Number : Awaits(n, k) => Awaits(n, k)'
    BY Zenon, <1>1, AwaitsFrame
  <2>3. QED
    BY Zenon, <1>1, <2>1, <2>2, AtFrame DEF PlaceInv
<1>4. HandInv'
  BY <1>2 DEF HandInv, NoOp
<1>5. QED
  BY Zenon, <1>3, <1>4 DEF PlaceInv

\* A slot that is filled keeps every wait for it.
LEMMA AwaitsSlot ==
  ASSUME TypeOK, NEW n \in Number, NEW item, Slot(n, item), UNCHANGED resultOffset
  PROVE  /\ \A x \in Number : \A j : Awaits(x, j) => Awaits(x, j)'
         /\ \A j : j \in item.pending => Awaits(n, j)'
<1> DEFINE s == n - resultOffset
<1>1. /\ resultOffset <= n /\ n < resultOffset + Size
      /\ item = IF items[s] = NoItem THEN newFetchResult(n, mode) ELSE items[s]
      /\ items' = [items EXCEPT ![s] = item]
  BY Zenon DEF Slot
<1>2. s \in Index /\ n \in Nat /\ resultOffset \in Nat
  BY <1>1, QueueAssumption DEF TypeOK, Index, Number
<1>3. item # NoItem
  BY Zenon, <1>1, NewResult, NotNil
<1>4. items'[s] = item /\ \A i \in Index : i # s => items'[i] = items[i]
  BY Zenon, <1>1, <1>2 DEF TypeOK
<1>5. \A j : j \in item.pending => Awaits(n, j)'
  BY Zenon, <1>1, <1>3, <1>4 DEF Awaits
<1>6. ASSUME NEW x \in Number, NEW j, Awaits(x, j) PROVE Awaits(x, j)'
  <2>1. x \in Nat /\ x - resultOffset \in Index
    BY <1>2, <1>6, QueueAssumption DEF Awaits, Index, Number
  <2>2. CASE x = n
    <3>1. item = items[s]
      BY Zenon, <1>1, <1>6, <2>2 DEF Awaits
    <3>2. QED
      BY Zenon, <1>5, <1>6, <2>2, <3>1 DEF Awaits
  <2>3. CASE x # n
    <3>1. x - resultOffset # s
      BY <1>2, <2>1, <2>3
    <3> HIDE DEF s
    <3>2. items'[x - resultOffset] = items[x - resultOffset]
      BY Zenon, <1>4, <2>1, <3>1
    <3>3. QED
      BY Zenon, <1>6, <3>2 DEF Awaits
  <2>4. QED
    BY Zenon, <2>2, <2>3
<1>7. QED
  BY Zenon, <1>5, <1>6

\* AddFetch takes a task into the hands, or drops it everywhere.
LEMMA PlaceAddFetch ==
  ASSUME TypeOK, PlaceInv, AddFetch
  PROVE  PlaceInv'
<1>1. PICK k0 \in Kind : k0 = op.kind /\ op \in Reservation
  BY Zenon, AddFetchCases DEF Reservation
<1>2. PICK n \in taskQueue[k0] :
        \/ n < resultOffset /\ items' = items /\ Drop(k0, n)
        \/ /\ op' = [op EXCEPT !.throttled = TRUE]
           /\ UNCHANGED <<taskQueue, taskPool, items>>
        \/ \E item : /\ Slot(n, item)
                     /\ \/ k0 \notin item.pending /\ Drop(k0, n)
                        \/ k0 \in item.pending /\ Take(k0, n)
  BY Zenon, <1>1, AddFetchCases
<1>3. n \in Number
  BY Zenon, <1>1 DEF TypeOK
<1>4. UNCHANGED <<head, pendPool, resultOffset>>
  BY Zenon DEF AddFetch
<1>5. \A x \in Number : \A j : Awaits(x, j) => Awaits(x, j)'
  <2>1. CASE items' = items
    BY Zenon, <1>4, <2>1, AwaitsFrame
  <2>2. ASSUME NEW item, Slot(n, item) PROVE \A x \in Number : \A j : Awaits(x, j) => Awaits(x, j)'
    BY Zenon, <1>3, <1>4, <2>2, AwaitsSlot
  <2>3. QED
    BY Zenon, <1>2, <2>1, <2>2
<1>6. CASE Drop(k0, n)
  <2>1. op' = op
    BY Zenon, <1>6 DEF Drop
  <2>2. ASSUME NEW k \in Kind PROVE At(k)'
    <3>1. InHand(k)' = InHand(k) /\ At(k)
      BY Zenon, <2>1, HandThen DEF PlaceInv
    <3>2. CASE k # k0
      <4>1. taskQueue'[k] = taskQueue[k] /\ taskPool'[k] = taskPool[k]
        BY Zenon, <1>1, <1>6, <3>2 DEF Drop, Unqueue, TypeOK
      <4>2. QED
        BY Zenon, <1>4, <1>5, <3>1, <4>1, AtFrame
    <3>3. CASE k = k0
      <4>1. taskQueue'[k] = taskQueue[k] \ {n} /\ taskPool'[k] = taskPool[k] \ {n} /\ n \in taskQueue[k]
        BY Zenon, <1>1, <1>6, <3>3 DEF Drop, Unqueue, TypeOK
      <4>2. InHand(k) \subseteq Number /\ \A p \in Peers : pendPool[k][p] \subseteq Number
        BY Zenon, HandType
      <4>3. TaskAt(k)'
        BY Zenon, <1>4, <1>5, <3>1, <4>1, <4>2 DEF At, TaskAt
      <4>4. PlaceAt(k)'
        <5>1. Placed(taskPool[k] \ {n}, taskQueue[k] \ {n}, InHand(k), pendPool[k])
          BY Zenon, <3>1, <4>1, Moves DEF At, PlaceAt
        <5>2. QED
          BY Zenon, <1>4, <3>1, <4>1, <5>1 DEF PlaceAt
      <4>5. QED
        BY Zenon, <4>3, <4>4 DEF At
    <3>4. QED
      BY Zenon, <3>2, <3>3
  <2>3. HandInv'
    BY Zenon, <2>1 DEF HandInv, PlaceInv
  <2>4. QED
    BY Zenon, <2>2, <2>3 DEF PlaceInv
<1>7. CASE op' = [op EXCEPT !.throttled = TRUE] /\ UNCHANGED <<taskQueue, taskPool, items>>
  <2>1. /\ op' \in Reservation /\ op'.send = op.send /\ op'.skip = op.skip
        /\ op'.kind = op.kind /\ op'.type = op.type
    BY Zenon, <1>1, <1>7 DEF Reservation
  <2>2. ASSUME NEW k \in Kind PROVE At(k)'
    <3>1. InHand(k)' = InHand(k)
      BY Zenon, <1>1, <2>1, HandNow, HandThen
    <3>2. QED
      BY Zenon, <1>4, <1>5, <1>7, <3>1, AtFrame DEF PlaceInv
  <2>3. HandInv'
    BY Zenon, <1>1, <2>1 DEF HandInv, PlaceInv, Reservation
  <2>4. QED
    BY <2>2, <2>3 DEF PlaceInv
<1>8. ASSUME NEW item, Slot(n, item), k0 \in item.pending, Take(k0, n) PROVE PlaceInv'
  <2>1. Awaits(n, k0)'
    BY Zenon, <1>3, <1>4, <1>8, AwaitsSlot
  <2>2. /\ op' \in Reservation /\ op'.kind = op.kind /\ op'.type = "reserve"
        /\ \/ op'.send = op.send \cup {n} /\ op'.skip = op.skip
           \/ op'.send = op.send /\ op'.skip = op.skip \cup {n}
    <3>1. CASE op' = [op EXCEPT !.send = @ \cup {n}]
      BY Zenon, <1>1, <1>3, <3>1 DEF Reservation
    <3>2. CASE op' = [op EXCEPT !.skip = @ \cup {n}]
      BY Zenon, <1>1, <1>3, <3>2 DEF Reservation
    <3>3. QED
      BY Zenon, <1>8, <3>1, <3>2 DEF Take
  <2>3. taskQueue' = [taskQueue EXCEPT ![k0] = @ \ {n}] /\ taskPool' = taskPool
    BY Zenon, <1>8 DEF Take, Unqueue
  <2>4. ASSUME NEW k \in Kind, k # k0 PROVE At(k)'
    <3>1. InHand(k)' = InHand(k)
      BY Zenon, <1>1, <2>2, <2>4, HandNow, HandThen
    <3>2. taskQueue'[k] = taskQueue[k]
      BY Zenon, <1>1, <2>3, <2>4 DEF TypeOK
    <3>3. QED
      BY Zenon, <1>4, <1>5, <2>3, <3>1, <3>2, AtFrame DEF PlaceInv
  <2>5. InHand(k0) = op.send \cup op.skip /\ InHand(k0)' = InHand(k0) \cup {n}
    BY Zenon, <1>1, <2>2, HandNow, HandThen
  <2>6. taskQueue'[k0] = taskQueue[k0] \ {n} /\ At(k0) /\ n \notin InHand(k0)
    BY Zenon, <1>1, <1>2, <2>3 DEF TypeOK, PlaceInv, At, PlaceAt, Placed
  <2>7. InHand(k0) \subseteq Number /\ \A p \in Peers : pendPool[k0][p] \subseteq Number
    BY Zenon, <1>1, HandType
  <2>8. TaskAt(k0)'
    <3>1. taskPool'[k0] \subseteq 1..head'
      BY Zenon, <1>4, <2>3, <2>6 DEF At, TaskAt
    <3>2. \A x \in InHand(k0)' : Awaits(x, k0)'
      BY Zenon, <1>5, <2>1, <2>5, <2>6, <2>7 DEF At, TaskAt
    <3>3. \A p \in Peers : \A x \in pendPool'[k0][p] : Awaits(x, k0)'
      BY Zenon, <1>4, <1>5, <2>6, <2>7 DEF At, TaskAt
    <3>4. QED
      BY Zenon, <3>1, <3>2, <3>3 DEF TaskAt
  <2>9. PlaceAt(k0)'
    <3>1. Placed(taskPool[k0], taskQueue[k0] \ {n}, InHand(k0) \cup {n}, pendPool[k0])
      BY Zenon, <1>2, <2>6, Moves DEF At, PlaceAt
    <3>2. QED
      BY Zenon, <1>4, <2>3, <2>5, <2>6, <3>1 DEF PlaceAt
  <2>10. HandInv'
    <3>1. op.send \cap op.skip = {}
      BY Zenon, <1>1 DEF PlaceInv, HandInv, Reservation
    <3>2. op'.send \cap op'.skip = {}
      BY Zenon, <2>2, <2>5, <2>6, <3>1
    <3>3. QED
      BY Zenon, <2>2, <3>2 DEF HandInv
  <2>11. QED
    BY Zenon, <2>4, <2>8, <2>9, <2>10 DEF PlaceInv, At
<1>9. QED
  BY Zenon, <1>2, <1>6, <1>7, <1>8

\* A reservation ends as the request of a peer that had none.
LEMMA PlaceReserved ==
  ASSUME TypeOK, PlaceInv, LoopInv, Reserved
  PROVE  PlaceInv'
<1>1. op \in Reservation /\ op.type = "reserve"
  BY Zenon, OpType DEF Reserved
<1>2. PICK k0 \in Kind, p0 \in Peers : k0 = op.kind /\ p0 = op.peer
  BY Zenon, <1>1 DEF Reservation
<1>3. /\ op' = NoOp /\ UNCHANGED <<head, taskPool, items, resultOffset>>
      /\ taskQueue' = [taskQueue EXCEPT ![k0] = @ \cup op.skip]
      /\ pendPool' = [pendPool EXCEPT ![k0][p0] = op.send]
  BY Zenon, <1>2 DEF Reserved
<1>4. pendPool[k0][p0] = {} /\ op.send \cap op.skip = {}
  BY Zenon, <1>1, <1>2 DEF LoopInv, LoopAt, PlaceInv, HandInv
<1>5. \A n, k : Awaits(n, k)' <=> Awaits(n, k)
  BY Zenon, <1>3, AwaitsFrame
<1>6. ASSUME NEW k \in Kind, k # k0 PROVE At(k)'
  <2>1. InHand(k)' = InHand(k)
    BY Zenon, <1>1, <1>2, <1>3, <1>6, HandNow, HandThen
  <2>2. taskQueue'[k] = taskQueue[k] /\ pendPool'[k] = pendPool[k]
    BY Zenon, <1>2, <1>3, <1>6 DEF TypeOK
  <2>3. QED
    BY Zenon, <1>3, <1>5, <2>1, <2>2, AtFrame DEF PlaceInv
<1>7. InHand(k0) = op.send \cup op.skip /\ InHand(k0)' = {}
  BY Zenon, <1>1, <1>2, <1>3, HandNow, HandThen
<1>8. /\ taskQueue'[k0] = taskQueue[k0] \cup op.skip
      /\ pendPool'[k0][p0] = op.send
      /\ \A p \in Peers : p # p0 => pendPool'[k0][p] = pendPool[k0][p]
  BY Zenon, <1>2, <1>3 DEF TypeOK
<1>9. TaskAt(k0) /\ PlaceAt(k0)
  BY Zenon, <1>2 DEF PlaceInv, At
<1>10. TaskAt(k0)'
  <2>1. taskPool'[k0] \subseteq 1..head' /\ InHand(k0)' = {}
    BY Zenon, <1>3, <1>7, <1>9 DEF TaskAt
  <2>2. \A n \in pendPool'[k0][p0] : Awaits(n, k0)
    BY Zenon, <1>7, <1>8, <1>9 DEF TaskAt
  <2>3. \A p \in Peers : \A n \in pendPool'[k0][p] : Awaits(n, k0)
    BY Zenon, <1>8, <1>9, <2>2 DEF TaskAt
  <2>4. QED
    BY Zenon, <1>5, <2>1, <2>3 DEF TaskAt
<1>11. PlaceAt(k0)'
  <2>1. Placed(taskPool[k0], taskQueue[k0] \cup op.skip, {}, pendPool'[k0])
    <3>1. Placed(taskPool[k0], taskQueue[k0], op.send \cup op.skip, pendPool[k0])
      BY Zenon, <1>7, <1>9 DEF PlaceAt
    <3>2. \A p \in Peers : p # p0 => pendPool'[k0][p] = pendPool[k0][p]
      BY Zenon, <1>8
    <3>3. Sends(taskPool[k0], taskQueue[k0], op.send, op.skip, pendPool[k0], pendPool'[k0], p0)
      BY Zenon, <1>4, <1>8, <3>1, <3>2 DEF Sends
    <3>4. QED
      BY Zenon, <1>2, <3>3, MovesToRequest
  <2>2. QED
    BY Zenon, <1>3, <1>7, <1>8, <2>1 DEF PlaceAt
<1>12. HandInv'
  BY Zenon, <1>3 DEF HandInv, NoOp
<1>13. QED
  BY Zenon, <1>6, <1>10, <1>11, <1>12 DEF PlaceInv, At

\* The request of peer p returns to the queue, or into the hands.
LEMMA PlaceDeliver ==
  ASSUME TypeOK, PlaceInv, NEW k0 \in Kind, NEW p0 \in Peers, NEW valid \in SUBSET pendPool[k0][p0],
         NEW some \in BOOLEAN, deliver(k0, p0, valid, some)
  PROVE  PlaceInv'
<1> DEFINE request == pendPool[k0][p0]
<1>1. op = NoOp /\ UNCHANGED <<head, taskPool, taskQueue, items, resultOffset>>
  BY Zenon DEF deliver
<1>2. /\ pendPool'[k0][p0] = {}
      /\ \A p \in Peers : p # p0 => pendPool'[k0][p] = pendPool[k0][p]
      /\ \A k \in Kind : k # k0 => pendPool'[k] = pendPool[k]
  BY Zenon DEF deliver, Unassign, TypeOK
<1>3. \/ request = {} /\ op' = NoOp
      \/ /\ op' \in Delivery /\ op'.type = "deliver" /\ op'.kind = k0
         /\ op'.todo = valid /\ op'.rest = request \ valid
  <2>1. request \in SUBSET Number
    BY DEF TypeOK
  <2>2. QED
    BY Zenon, <1>1, <2>1 DEF deliver, Delivery
<1>4. \A n, k : Awaits(n, k)' <=> Awaits(n, k)
  BY Zenon, <1>1, AwaitsFrame
<1>5. \A k \in Kind : InHand(k) = {}
  BY Zenon, <1>1, HandNow, HandThen
<1>6. InHand(k0)' = request
  BY Zenon, <1>3, HandNow, HandThen
<1>7. ASSUME NEW k \in Kind, k # k0 PROVE At(k)'
  <2>1. InHand(k)' = {}
    BY Zenon, <1>3, <1>7, HandNow, HandThen
  <2>2. QED
    BY Zenon, <1>1, <1>2, <1>4, <1>5, <1>7, <2>1, AtFrame DEF PlaceInv
<1>8. TaskAt(k0) /\ PlaceAt(k0)
  BY Zenon DEF PlaceInv, At
<1>9. TaskAt(k0)'
  BY Zenon, <1>1, <1>2, <1>4, <1>6, <1>8 DEF TaskAt
<1>10. PlaceAt(k0)'
  <2>1. Placed(taskPool[k0], taskQueue[k0], request, pendPool'[k0])
    BY Zenon, <1>2, <1>5, <1>8, MovesOfRequest DEF PlaceAt
  <2>2. QED
    BY Zenon, <1>1, <1>6, <2>1 DEF PlaceAt
<1>11. HandInv'
  BY <1>3 DEF HandInv, NoOp
<1>12. QED
  BY Zenon, <1>7, <1>9, <1>10, <1>11 DEF PlaceInv, At

\* A task done leaves the hands and the pool together.
LEMMA PlaceReconstruct ==
  ASSUME TypeOK, PlaceInv, Reconstruct
  PROVE  PlaceInv'
<1>1. PICK k0 \in Kind : k0 = op.kind /\ op \in Delivery /\ op.type = "deliver"
  BY Zenon, ReconstructFacts DEF Delivery
<1>2. PICK n \in op.todo :
        /\ Awaits(n, k0)
        /\ panicked' = FALSE
        /\ items' = [items EXCEPT ![n - resultOffset] =
                       reconstruct(items[n - resultOffset], k0, n)]
        /\ taskPool' = [taskPool EXCEPT ![k0] = @ \ {n}]
        /\ op' = [op EXCEPT !.todo = @ \ {n}, !.accepted = @ + 1]
  BY Zenon, <1>1, ReconstructFacts
<1>3. n \in Number /\ n \in Nat
  BY <1>1 DEF Delivery, Number
<1>4. UNCHANGED <<head, taskQueue, pendPool, resultOffset>>
  BY Zenon DEF Reconstruct
<1>5. /\ op' \in Delivery /\ op'.type = "deliver" /\ op'.kind = k0
      /\ op'.todo = op.todo \ {n} /\ op'.rest = op.rest
  BY Zenon, <1>1, <1>2, Reconstructing
<1>6. op.todo \cap op.rest = {}
  BY Zenon, <1>1 DEF PlaceInv, HandInv
<1>7. ASSUME NEW x \in Number, NEW j \in Kind, Awaits(x, j), x # n \/ j # k0 PROVE Awaits(x, j)'
  <2> DEFINE s == n - resultOffset
  <2>1. x \in Nat /\ x - resultOffset \in Index /\ s \in Index /\ resultOffset \in Nat
    <3>1. x \in Nat /\ resultOffset \in Nat /\ Size \in Nat
      BY QueueAssumption DEF Number, TypeOK
    <3>2. resultOffset <= x /\ x < resultOffset + Size /\ resultOffset <= n /\ n < resultOffset + Size
      BY Zenon, <1>2, <1>7 DEF Awaits
    <3>3. QED
      BY SMTT(60), <1>3, <3>1, <3>2 DEF Index
  <2>2. items[s] \in Item
    BY Zenon, <1>2, <2>1 DEF Awaits, TypeOK
  <2>3. items'[s] = reconstruct(items[s], k0, n) /\ \A i \in Index : i # s => items'[i] = items[i]
    BY ZenonT(60), <1>2, <2>1 DEF TypeOK
  <2>4. items'[s] # NoItem /\ items'[s].pending = items[s].pending \ {k0}
    BY SMTT(60), <1>1, <1>3, <2>2, <2>3, Reconstructed, NotNil
  <2>5. CASE x = n
    <3>1. j # k0
      BY Zenon, <1>7, <2>5
    <3>2. QED
      BY Zenon, <1>4, <1>7, <2>4, <2>5, <3>1 DEF Awaits
  <2>6. CASE x # n
    <3>1. x - resultOffset # s
      BY <1>3, <2>1, <2>6
    <3> HIDE DEF s
    <3>2. items'[x - resultOffset] = items[x - resultOffset]
      BY Zenon, <2>1, <2>3, <3>1
    <3>3. QED
      BY Zenon, <1>4, <1>7, <3>2 DEF Awaits
  <2>7. QED
    BY Zenon, <2>5, <2>6
<1>8. ASSUME NEW k \in Kind, k # k0 PROVE At(k)'
  <2>1. InHand(k)' = InHand(k)
    BY Zenon, <1>1, <1>5, <1>8, HandNow, HandThen
  <2>2. taskPool'[k] = taskPool[k]
    BY Zenon, <1>1, <1>2, <1>8 DEF TypeOK
  <2>3. QED
    BY Zenon, <1>4, <1>7, <1>8, <2>1, <2>2, AtFrame DEF PlaceInv
<1>9. InHand(k0) = op.todo \cup op.rest /\ InHand(k0)' = InHand(k0) \ {n} /\ n \in InHand(k0)
  BY SMTT(60), <1>1, <1>5, <1>6, HandNow, HandThen
<1>10. taskPool'[k0] = taskPool[k0] \ {n}
  BY Zenon, <1>1, <1>2 DEF TypeOK
<1>11. TaskAt(k0) /\ PlaceAt(k0)
  BY Zenon, <1>1 DEF PlaceInv, At
<1>12. InHand(k0) \subseteq Number /\ \A p \in Peers : pendPool[k0][p] \subseteq Number
  BY Zenon, <1>1, HandType
<1>13. \A p \in Peers : n \notin pendPool[k0][p]
  BY Zenon, <1>9, <1>11 DEF PlaceAt, Placed
<1>14. TaskAt(k0)'
  <2>1. taskPool'[k0] \subseteq 1..head'
    BY Zenon, <1>4, <1>10, <1>11 DEF TaskAt
  <2>2. \A x \in InHand(k0)' : x \in Number /\ x # n /\ Awaits(x, k0)
    BY Zenon, <1>9, <1>11, <1>12 DEF TaskAt
  <2>3. \A p \in Peers : \A x \in pendPool'[k0][p] : x \in Number /\ x # n /\ Awaits(x, k0)
    BY Zenon, <1>4, <1>11, <1>12, <1>13 DEF TaskAt
  <2>4. QED
    BY Zenon, <1>1, <1>7, <2>1, <2>2, <2>3 DEF TaskAt
<1>15. PlaceAt(k0)'
  <2>1. Placed(taskPool[k0] \ {n}, taskQueue[k0], InHand(k0) \ {n}, pendPool[k0])
    BY Zenon, <1>9, <1>11, Moves DEF PlaceAt
  <2>2. QED
    BY Zenon, <1>4, <1>9, <1>10, <2>1 DEF PlaceAt
<1>16. HandInv'
  BY Zenon, <1>5, <1>6 DEF HandInv
<1>17. QED
  BY Zenon, <1>8, <1>14, <1>15, <1>16 DEF PlaceInv, At

\* The tasks a peer did not answer return to the queue.
LEMMA PlaceDelivered ==
  ASSUME TypeOK, PlaceInv, Delivered
  PROVE  PlaceInv'
<1>1. op \in Delivery /\ op.type = "deliver" /\ op.todo = {}
  BY Zenon, OpType DEF Delivered
<1>2. PICK k0 \in Kind : k0 = op.kind
  BY Zenon, <1>1 DEF Delivery
<1>3. /\ op' = NoOp /\ UNCHANGED <<head, taskPool, pendPool, items, resultOffset>>
      /\ taskQueue' = [taskQueue EXCEPT ![k0] = @ \cup op.rest]
  BY Zenon, <1>2 DEF Delivered
<1>4. \A n, k : Awaits(n, k)' <=> Awaits(n, k)
  BY Zenon, <1>3, AwaitsFrame
<1>5. ASSUME NEW k \in Kind, k # k0 PROVE At(k)'
  <2>1. InHand(k)' = InHand(k)
    BY Zenon, <1>1, <1>2, <1>3, <1>5, HandNow, HandThen
  <2>2. taskQueue'[k] = taskQueue[k]
    BY Zenon, <1>2, <1>3, <1>5 DEF TypeOK
  <2>3. QED
    BY Zenon, <1>3, <1>4, <2>1, <2>2, AtFrame DEF PlaceInv
<1>6. InHand(k0) = op.rest /\ InHand(k0)' = {}
  BY <1>1, <1>2, <1>3, HandNow, HandThen
<1>7. taskQueue'[k0] = taskQueue[k0] \cup op.rest
  BY Zenon, <1>2, <1>3 DEF TypeOK
<1>8. TaskAt(k0) /\ PlaceAt(k0)
  BY Zenon, <1>2 DEF PlaceInv, At
<1>9. TaskAt(k0)'
  BY Zenon, <1>3, <1>4, <1>6, <1>8 DEF TaskAt
<1>10. PlaceAt(k0)'
  <2>1. Placed(taskPool[k0], taskQueue[k0] \cup op.rest, {}, pendPool[k0])
    BY Zenon, <1>6, <1>8, Moves DEF PlaceAt
  <2>2. QED
    BY Zenon, <1>3, <1>6, <1>7, <2>1 DEF PlaceAt
<1>11. HandInv'
  BY Zenon, <1>3 DEF HandInv, NoOp
<1>12. QED
  BY Zenon, <1>5, <1>9, <1>10, <1>11 DEF PlaceInv, At

\* The requests of a peer return to the queue: a timeout for one kind, a
\* revocation for both.
LEMMA PlaceReturn ==
  ASSUME TypeOK, PlaceInv, NEW p0 \in Peers, NEW K \in SUBSET Kind, op = NoOp,
         UNCHANGED <<head, taskPool, items, resultOffset, op>>,
         \A k \in K : /\ taskQueue'[k] = taskQueue[k] \cup pendPool[k][p0]
                      /\ pendPool'[k][p0] = {}
                      /\ \A p \in Peers : p # p0 => pendPool'[k][p] = pendPool[k][p],
         \A k \in Kind \ K : taskQueue'[k] = taskQueue[k] /\ pendPool'[k] = pendPool[k]
  PROVE  PlaceInv'
<1>1. \A n, k : Awaits(n, k)' <=> Awaits(n, k)
  BY Zenon, AwaitsFrame
<1>2. ASSUME NEW k \in Kind PROVE At(k)'
  <2>1. InHand(k) = {} /\ InHand(k)' = {}
    BY Zenon, HandNow, HandThen
  <2>2. CASE k \notin K
    BY Zenon, <1>1, <2>1, <2>2, AtFrame DEF PlaceInv
  <2>3. CASE k \in K
    <3>1. TaskAt(k) /\ PlaceAt(k)
      BY Zenon DEF PlaceInv, At
    <3>2. TaskAt(k)'
      BY Zenon, <1>1, <2>1, <2>3, <3>1 DEF TaskAt
    <3>3. PlaceAt(k)'
      <4>1. Placed(taskPool[k], taskQueue[k] \cup pendPool[k][p0], InHand(k), pendPool'[k])
        BY Zenon, <2>3, <3>1, MovesOfRequest DEF PlaceAt
      <4>2. QED
        BY Zenon, <2>1, <2>3, <4>1 DEF PlaceAt
    <3>4. QED
      BY Zenon, <3>2, <3>3 DEF At
  <2>4. QED
    BY Zenon, <2>2, <2>3
<1>3. HandInv'
  BY Zenon DEF HandInv, NoOp
<1>4. QED
  BY Zenon, <1>2, <1>3 DEF PlaceInv

\* No task in flight belongs to a result that is taken.
LEMMA PlaceGetCompleted ==
  ASSUME TypeOK, StoreInv, PlaceInv, GetCompleted
  PROVE  PlaceInv'
<1>1. PICK count \in Nat, limit \in Nat :
        /\ Taken(count, limit)
        /\ \A i \in Index : i < count => AllDone(items[i])
        /\ count \in 0..Size
        /\ resultOffset + limit <= head + 1
  BY Zenon, GetCompletedFacts DEF StoreInv
<1>2. /\ resultOffset' = resultOffset + limit /\ resultOffset \in Nat /\ Size \in Nat
      /\ limit <= count
  <2>1. limit \in 0..count /\ resultOffset' = resultOffset + limit
    BY Zenon, <1>1 DEF Taken
  <2>2. QED
    BY SMTT(60), <1>1, <2>1, QueueAssumption DEF TypeOK
<1>3. UNCHANGED <<head, taskPool, taskQueue, pendPool, op>>
  BY Zenon DEF GetCompleted
<1>4. ASSUME NEW n \in Number, NEW k \in Kind, Awaits(n, k) PROVE Awaits(n, k)'
  <2> DEFINE i == n - resultOffset
  <2>1. n \in Nat /\ i \in Index /\ i \in Nat
    BY <1>2, <1>4 DEF Awaits, Index, Number
  <2>2. ~AllDone(items[i])
    BY Zenon, <1>4 DEF Awaits, AllDone
  <2>3. limit <= i
    <3>1. ~(i < count)
      BY Zenon, <1>1, <2>1, <2>2
    <3> HIDE DEF i
    <3>2. QED
      BY <1>1, <1>2, <2>1, <3>1
  <2>4. n - resultOffset' \in Index /\ (n - resultOffset') + limit = i
    BY <1>2, <2>1, <2>3 DEF Index
  <2>5. i < Size
    BY <2>1, <1>2 DEF Index
  <2>6. items'[n - resultOffset'] = items[i]
    BY Zenon, <1>1, <2>4, <2>5 DEF Taken
  <2>7. resultOffset' <= n /\ n < resultOffset' + Size
    BY <1>2, <2>1, <2>3, <2>5
  <2>8. QED
    BY Zenon, <1>4, <2>6, <2>7 DEF Awaits
<1>5. ASSUME NEW k \in Kind PROVE At(k)'
  <2>1. InHand(k)' = InHand(k)
    BY Zenon, <1>3, HandThen
  <2>2. QED
    BY Zenon, <1>3, <1>4, <2>1, AtFrame DEF PlaceInv
<1>6. HandInv'
  BY Zenon, <1>3 DEF HandInv, PlaceInv
<1>7. QED
  BY Zenon, <1>5, <1>6 DEF PlaceInv

\* The tasks' invariant is kept.
LEMMA PlaceNext ==
  ASSUME TypeOK, StoreInv, PlaceInv, LoopInv, Next
  PROVE  PlaceInv'
<1>1. ASSUME NEW c \in 1..MaxCount, Schedule(c) PROVE PlaceInv'
  BY Zenon, <1>1, PlaceSchedule
<1>2. CASE AddFetch
  BY Zenon, <1>2, PlaceAddFetch
<1>3. CASE Reconstruct
  BY Zenon, <1>3, PlaceReconstruct
<1>4. CASE GetCompleted
  BY Zenon, <1>4, PlaceGetCompleted
<1>5. CASE HeadersDone \/ ResultsCheck \/ ResultsLock \/ ResultsWoken \/ SetThrottleThreshold
           \/ Close
  BY Zenon, <1>5, PlaceFrame DEF HeadersDone, ResultsCheck, ResultsLock, ResultsWoken,
     SetThrottleThreshold, Close
<1>6. ASSUME NEW k \in Kind, Idle(k) \/ NoMoreTasks(k) \/ PendingEmpty(k) \/ InFlight(k)
      PROVE  PlaceInv'
  BY Zenon, <1>6, PlaceFrame DEF Idle, NoMoreTasks, PendingEmpty, InFlight
<1>7. ASSUME NEW p \in Peers, Unregister(p) PROVE PlaceInv'
  BY Zenon, <1>7, PlaceFrame DEF Unregister
<1>8. ASSUME NEW k \in Kind, NEW p \in Peers, NEW c \in 1..MaxCount, reserveHeaders(k, p, c)
      PROVE  PlaceInv'
  BY Zenon, <1>8, PlaceReserve
<1>9. ASSUME NEW k \in Kind, NEW p \in Peers, NEW valid \in SUBSET pendPool[k][p],
             NEW some \in BOOLEAN, deliver(k, p, valid, some)
      PROVE  PlaceInv'
  BY Zenon, <1>9, PlaceDeliver
<1>10. ASSUME NEW k \in Kind, NEW p \in Peers, expire(k, p) PROVE PlaceInv'
  <2>1. op = NoOp /\ UNCHANGED <<head, taskPool, items, resultOffset, op>>
    BY Zenon, <1>10 DEF expire
  <2>2. /\ taskQueue'[k] = taskQueue[k] \cup pendPool[k][p]
        /\ pendPool'[k][p] = {}
        /\ \A q \in Peers : q # p => pendPool'[k][q] = pendPool[k][q]
        /\ \A j \in Kind \ {k} : taskQueue'[j] = taskQueue[j] /\ pendPool'[j] = pendPool[j]
    BY Zenon, <1>10 DEF expire, Unassign, TypeOK
  <2>3. PICK K : K = {k}
    BY Zenon
  <2>4. /\ K \in SUBSET Kind
        /\ \A j \in K : /\ taskQueue'[j] = taskQueue[j] \cup pendPool[j][p]
                        /\ pendPool'[j][p] = {}
                        /\ \A q \in Peers : q # p => pendPool'[j][q] = pendPool[j][q]
        /\ \A j \in Kind \ K : taskQueue'[j] = taskQueue[j] /\ pendPool'[j] = pendPool[j]
    BY Zenon, <2>2, <2>3
  <2>5. QED
    BY ZenonT(60), <2>1, <2>4, PlaceReturn
<1>11. ASSUME NEW p \in Peers, Revoke(p) PROVE PlaceInv'
  <2>1. op = NoOp /\ UNCHANGED <<head, taskPool, items, resultOffset, op>>
    BY Zenon, <1>11 DEF Revoke
  <2>2. \A k \in Kind : /\ taskQueue'[k] = taskQueue[k] \cup pendPool[k][p]
                        /\ pendPool'[k][p] = {}
                        /\ \A q \in Peers : q # p => pendPool'[k][q] = pendPool[k][q]
    BY Zenon, <1>11 DEF Revoke, TypeOK
  <2>3. Kind \in SUBSET Kind /\ Kind \ Kind = {}
    BY Zenon
  <2>4. QED
    BY <2>1, <2>2, <2>3, PlaceReturn
<1>12. CASE Reserved
  BY Zenon, <1>12, PlaceReserved
<1>13. CASE Delivered
  BY <1>13, PlaceDelivered
<1>14. QED
  BY Zenon, <1>1, <1>2, <1>3, <1>4, <1>5, <1>6, <1>7, <1>8, <1>9, <1>10, <1>11, <1>12, <1>13 DEF Next
=============================================================================
