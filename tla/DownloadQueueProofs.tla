------------------------ MODULE DownloadQueueProofs -------------------------
(***************************************************************************)
(* The invariants of the fetch loops, of the block processor and of the    *)
(* loops that ended; and the theorems about DownloadQueue, for any peers,  *)
(* chain, store size and bounds: no task is lost or doubled, an answer     *)
(* always has its slot, no wake-up is lost, and the block processor gets   *)
(* the stream of BlockStream.                                              *)
(***************************************************************************)
EXTENDS DownloadQueueSteps

USE DEF queueVars, storeVars, peerVars, procVars, loopVars

\* Steps that leave the peers and their requests alone keep LoopInv.
LEMMA LoopFrame ==
  ASSUME LoopInv, UNCHANGED <<idles, busy, pendPool, registered, leaving>>,
         op'.type = op.type, op.type = "none" \/ (op'.kind = op.kind /\ op'.peer = op.peer)
  PROVE  LoopInv'
<1>1. ASSUME NEW k \in Kind, NEW p \in Peers PROVE LoopAt(k, p)'
  <2>1. LoopAt(k, p)
    BY Zenon DEF LoopInv
  <2>2. QED
    BY Zenon, <2>1 DEF LoopAt
<1>2. QED
  BY Zenon, <1>1 DEF LoopInv

\* A reservation is for an idle peer.
LEMMA LoopReserve ==
  ASSUME TypeOK, LoopInv, NEW k0 \in Kind, NEW p0 \in Peers, NEW c \in 1..MaxCount,
         reserveHeaders(k0, p0, c)
  PROVE  LoopInv'
<1>1. op = NoOp /\ op.type = "none" /\ UNCHANGED <<busy, pendPool, registered, leaving>>
  BY Zenon DEF reserveHeaders, NoOp
<1>2. /\ idles'[k0] = idles[k0] \ {p0} /\ p0 \in idles[k0]
      /\ \A k \in Kind : k # k0 => idles'[k] = idles[k]
  BY Zenon DEF reserveHeaders, TypeOK
<1>3. pendPool[k0][p0] = {} /\ p0 \notin busy[k0]
  BY Zenon, <1>2 DEF LoopInv, LoopAt
<1>4. op'.type = "reserve" /\ op'.kind = k0 /\ op'.peer = p0
  BY Zenon, <1>3 DEF reserveHeaders
<1>5. ASSUME NEW k \in Kind, NEW p \in Peers PROVE LoopAt(k, p)'
  <2>1. LoopAt(k, p)
    BY Zenon DEF LoopInv
  <2>2. QED
    BY Zenon, <1>1, <1>2, <1>3, <1>4, <2>1 DEF LoopAt
<1>6. QED
  BY Zenon, <1>1, <1>5 DEF LoopInv

\* The peer of a reservation has no request: marking it busy cannot fail.
LEMMA LoopReserved ==
  ASSUME TypeOK, LoopInv, Reserved
  PROVE  LoopInv' /\ panicked' = FALSE
<1> DEFINE k0 == op.kind
           p0 == op.peer
<1>1. op \in Reservation /\ op.type = "reserve"
  BY Zenon, OpType DEF Reserved
<1>2. k0 \in Kind /\ p0 \in Peers
  BY Zenon, <1>1 DEF Reservation
<1>3. p0 \notin busy[k0] /\ p0 \notin idles[k0] /\ pendPool[k0][p0] = {}
  BY Zenon, <1>1, <1>2 DEF LoopInv, LoopAt
<1>4. op'.type = "none" /\ UNCHANGED <<registered, leaving>>
  BY Zenon DEF Reserved, NoOp
<1>5. /\ pendPool'[k0][p0] = op.send
      /\ \A p \in Peers : p # p0 => pendPool'[k0][p] = pendPool[k0][p]
      /\ \A k \in Kind : k # k0 => pendPool'[k] = pendPool[k]
  BY Zenon, <1>2 DEF Reserved, TypeOK
<1>6. /\ busy'[k0] = IF op.send = {} THEN busy[k0] ELSE busy[k0] \cup {p0}
      /\ \A k \in Kind : k # k0 => busy'[k] = busy[k]
  BY Zenon, <1>2 DEF Reserved, TypeOK
<1>7. \A k \in Kind : idles'[k] \subseteq idles[k]
  BY Zenon, <1>2 DEF Reserved, TypeOK
<1>8. ASSUME NEW k \in Kind, NEW p \in Peers PROVE LoopAt(k, p)'
  <2>1. LoopAt(k, p)
    BY Zenon DEF LoopInv
  <2> HIDE DEF k0, p0
  <2>2. CASE k = k0 /\ p = p0
    <3>1. p \notin idles'[k] /\ (p \in busy'[k] <=> pendPool'[k][p] # {})
      BY Zenon, <1>2, <1>3, <1>5, <1>6, <1>7, <2>2
    <3>2. QED
      BY Zenon, <1>4, <3>1 DEF LoopAt
  <2>3. CASE ~(k = k0 /\ p = p0)
    <3>1. pendPool'[k][p] = pendPool[k][p] /\ (p \in busy'[k] <=> p \in busy[k])
      BY Zenon, <1>2, <1>5, <1>6, <2>3
    <3>2. ~(op.type = "deliver")
      BY Zenon, <1>1
    <3>3. QED
      BY Zenon, <1>4, <1>7, <2>1, <3>1, <3>2 DEF LoopAt
  <2>4. QED
    BY Zenon, <2>2, <2>3
<1>9. panicked' = FALSE
  BY Zenon, <1>3 DEF Reserved
<1>10. QED
  BY Zenon, <1>4, <1>8, <1>9 DEF LoopInv

\* A delivery ends the request of a busy peer.
LEMMA LoopDeliver ==
  ASSUME TypeOK, LoopInv, NEW k0 \in Kind, NEW p0 \in Peers, NEW valid \in SUBSET pendPool[k0][p0],
         NEW some \in BOOLEAN, deliver(k0, p0, valid, some)
  PROVE  LoopInv'
<1>1. /\ op.type = "none" /\ idles[k0] = {} /\ p0 \in registered
      /\ UNCHANGED <<idles, registered, leaving>>
  BY Zenon DEF deliver, Waits, NoOp
<1>2. /\ pendPool'[k0][p0] = {}
      /\ \A p \in Peers : p # p0 => pendPool'[k0][p] = pendPool[k0][p]
      /\ \A k \in Kind : k # k0 => pendPool'[k] = pendPool[k]
  BY Zenon DEF deliver, Unassign, TypeOK
<1>3. LoopAt(k0, p0)
  BY Zenon DEF LoopInv
<1>4. p0 \in busy[k0] <=> pendPool[k0][p0] # {}
  BY Zenon, <1>1, <1>3 DEF LoopAt
<1>5. \/ pendPool[k0][p0] = {} /\ op'.type = "none"
      \/ /\ pendPool[k0][p0] # {} /\ op'.type = "deliver" /\ op'.kind = k0 /\ op'.peer = p0
  BY Zenon DEF deliver, NoOp
<1>6. busy' = busy
  <2>1. CASE pendPool[k0][p0] = {}
    <3>1. busy' = [busy EXCEPT ![k0] = busy[k0] \ {p0}]
      BY Zenon, <2>1 DEF deliver, setIdle
    <3>2. busy[k0] \ {p0} = busy[k0]
      BY Zenon, <1>4, <2>1
    <3>3. QED
      BY Zenon, <3>1, <3>2 DEF TypeOK
  <2>2. CASE pendPool[k0][p0] # {}
    BY Zenon, <2>2 DEF deliver
  <2>3. QED
    BY Zenon, <2>1, <2>2
<1>7. ASSUME NEW k \in Kind, NEW p \in Peers PROVE LoopAt(k, p)'
  <2>1. LoopAt(k, p)
    BY Zenon DEF LoopInv
  <2>2. CASE k = k0 /\ p = p0
    BY Zenon, <1>1, <1>2, <1>4, <1>5, <1>6, <2>2 DEF LoopAt
  <2>3. CASE ~(k = k0 /\ p = p0)
    <3>1. pendPool'[k][p] = pendPool[k][p]
      BY Zenon, <1>2, <2>3
    <3>2. QED
      BY Zenon, <1>1, <1>5, <1>6, <2>1, <2>3, <3>1 DEF LoopAt
  <2>4. QED
    BY Zenon, <2>2, <2>3
<1>8. QED
  BY Zenon, <1>1, <1>7 DEF LoopInv

\* A peer that answered is idle.
LEMMA LoopDelivered ==
  ASSUME TypeOK, LoopInv, Delivered
  PROVE  LoopInv'
<1> DEFINE k0 == op.kind
           p0 == op.peer
<1>1. op \in Delivery /\ op.type = "deliver"
  BY Zenon, OpType DEF Delivered
<1>2. k0 \in Kind /\ p0 \in Peers
  BY Zenon, <1>1 DEF Delivery
<1>3. op'.type = "none" /\ UNCHANGED <<idles, pendPool, registered, leaving>>
  BY Zenon DEF Delivered, NoOp
<1>4. busy'[k0] = busy[k0] \ {p0} /\ \A k \in Kind : k # k0 => busy'[k] = busy[k]
  BY Zenon, <1>2 DEF Delivered, setIdle, TypeOK
<1>5. ASSUME NEW k \in Kind, NEW p \in Peers PROVE LoopAt(k, p)'
  <2>1. LoopAt(k, p)
    BY DEF LoopInv
  <2> HIDE DEF k0, p0
  <2>2. CASE k = k0 /\ p = p0
    <3>1. pendPool[k][p] = {} /\ p \notin idles[k]
      BY Zenon, <1>1, <2>1, <2>2 DEF LoopAt, k0, p0
    <3>2. QED
      BY Zenon, <1>3, <1>4, <2>2, <3>1 DEF LoopAt
  <2>3. CASE ~(k = k0 /\ p = p0)
    <3>1. p \in busy'[k] <=> p \in busy[k]
      BY Zenon, <1>4, <2>3
    <3>2. ~(op.kind = k /\ op.peer = p)
      BY Zenon, <2>3 DEF k0, p0
    <3>3. QED
      BY Zenon, <1>3, <2>1, <3>1, <3>2 DEF LoopAt
  <2>4. QED
    BY <2>2, <2>3
<1>6. QED
  BY Zenon, <1>3, <1>5 DEF LoopInv

\* A peer whose request timed out is idle, or it is dropped.
LEMMA LoopExpire ==
  ASSUME TypeOK, LoopInv, NEW k0 \in Kind, NEW p0 \in Peers, expire(k0, p0)
  PROVE  LoopInv'
<1>1. op' = op /\ op.type = "none" /\ idles[k0] = {} /\ UNCHANGED idles
  BY Zenon DEF expire, Waits, NoOp
<1>2. /\ pendPool'[k0][p0] = {}
      /\ \A p \in Peers : p # p0 => pendPool'[k0][p] = pendPool[k0][p]
      /\ \A k \in Kind : k # k0 => pendPool'[k] = pendPool[k]
  BY Zenon DEF expire, Unassign, TypeOK
<1>3. /\ registered' \subseteq registered
      /\ \A p \in leaving' : p \notin registered'
  BY Zenon DEF expire, LoopInv
<1>4. \/ p0 \notin registered' /\ busy' = busy
      \/ busy' = [busy EXCEPT ![k0] = @ \ {p0}]
  BY Zenon DEF expire, setIdle
<1>5. ASSUME NEW k \in Kind, NEW p \in Peers PROVE LoopAt(k, p)'
  <2>1. LoopAt(k, p)
    BY Zenon DEF LoopInv
  <2>2. CASE k = k0 /\ p = p0
    <3>1. p \notin registered' \/ p \notin busy'[k]
      BY Zenon, <1>4, <2>2 DEF TypeOK
    <3>2. QED
      BY Zenon, <1>1, <1>2, <2>2, <3>1 DEF LoopAt
  <2>3. CASE ~(k = k0 /\ p = p0)
    <3>1. pendPool'[k][p] = pendPool[k][p] /\ (p \in busy'[k] <=> p \in busy[k])
      BY <1>2, <1>4, <2>3 DEF TypeOK
    <3>2. QED
      BY Zenon, <1>1, <1>3, <2>1, <3>1 DEF LoopAt
  <2>4. QED
    BY Zenon, <2>2, <2>3
<1>6. QED
  BY Zenon, <1>3, <1>5 DEF LoopInv

\* Every step keeps LoopInv.
LEMMA LoopNext ==
  ASSUME TypeOK, PlaceInv, LoopInv, Next
  PROVE  LoopInv'
<1>1. ASSUME NEW c \in 1..MaxCount, Schedule(c) PROVE LoopInv'
  BY Zenon, <1>1, LoopFrame DEF Schedule
<1>2. CASE AddFetch
  <2>1. op \in Reservation
    BY Zenon, <1>2, AddFetchCases
  <2>2. op'.type = op.type /\ op'.kind = op.kind /\ op'.peer = op.peer
    BY Zenon, <1>2, <2>1, AddFetchCases DEF Reservation, Drop, Take
  <2>3. QED
    BY Zenon, <1>2, <2>2, LoopFrame DEF AddFetch
<1>3. CASE Reconstruct
  <2>1. op \in Delivery
    BY Zenon, <1>3, ReconstructFacts
  <2>2. op'.type = op.type /\ op'.kind = op.kind /\ op'.peer = op.peer
    BY Zenon, <1>3, <2>1, ReconstructFacts DEF Delivery
  <2>3. QED
    BY Zenon, <1>3, <2>2, LoopFrame DEF Reconstruct
<1>4. CASE HeadersDone \/ ResultsCheck \/ ResultsLock \/ ResultsWoken \/ GetCompleted
           \/ SetThrottleThreshold \/ Close
  BY Zenon, <1>4, LoopFrame DEF HeadersDone, ResultsCheck, ResultsLock, ResultsWoken, GetCompleted,
     SetThrottleThreshold, Close
<1>5. ASSUME NEW k \in Kind, PendingEmpty(k) \/ InFlight(k) PROVE LoopInv'
  BY Zenon, <1>5, LoopFrame DEF PendingEmpty, InFlight
<1>6. ASSUME NEW k0 \in Kind, Idle(k0) \/ NoMoreTasks(k0) PROVE LoopInv'
  <2>1. op' = op /\ op.type = "none" /\ UNCHANGED <<busy, pendPool, registered, leaving>>
    <3>1. op' = op /\ op = NoOp /\ UNCHANGED <<busy, pendPool, registered, leaving>>
      BY Zenon, <1>6 DEF Idle, NoMoreTasks
    <3>2. QED
      BY Zenon, <3>1 DEF NoOp
  <2>2. /\ \A k \in Kind : k # k0 => idles'[k] = idles[k]
        /\ idles'[k0] \subseteq registered \ busy[k0]
    BY Zenon, <1>6 DEF Idle, NoMoreTasks, TypeOK
  <2>3. ASSUME NEW k \in Kind, NEW p \in Peers PROVE LoopAt(k, p)'
    <3>1. LoopAt(k, p)
      BY Zenon DEF LoopInv
    <3>2. QED
      BY Zenon, <2>1, <2>2, <3>1 DEF LoopAt
  <2>4. QED
    BY Zenon, <2>1, <2>3 DEF LoopInv
<1>7. ASSUME NEW p0 \in Peers, Unregister(p0) PROVE LoopInv'
  <2>1. UNCHANGED <<op, idles, busy, pendPool>> /\ registered' = registered \ {p0}
    BY Zenon, <1>7 DEF Unregister
  <2>2. ASSUME NEW k \in Kind, NEW p \in Peers PROVE LoopAt(k, p)'
    <3>1. LoopAt(k, p)
      BY Zenon DEF LoopInv
    <3>2. QED
      BY Zenon, <2>1, <3>1 DEF LoopAt
  <2>3. QED
    BY Zenon, <1>7, <2>2 DEF LoopInv, Unregister
<1>8. ASSUME NEW p0 \in Peers, Revoke(p0) PROVE LoopInv'
  <2>1. op' = op /\ op.type = "none" /\ UNCHANGED <<idles, busy, registered>> /\ p0 \notin registered
    BY Zenon, <1>8 DEF Revoke, NoOp, LoopInv
  <2>2. \A k \in Kind : /\ pendPool'[k][p0] = {}
                        /\ \A p \in Peers : p # p0 => pendPool'[k][p] = pendPool[k][p]
    BY Zenon, <1>8 DEF Revoke, TypeOK
  <2>3. ASSUME NEW k \in Kind, NEW p \in Peers PROVE LoopAt(k, p)'
    <3>1. LoopAt(k, p)
      BY DEF LoopInv
    <3>2. QED
      BY Zenon, <2>1, <2>2, <3>1 DEF LoopAt
  <2>4. QED
    BY Zenon, <1>8, <2>3 DEF LoopInv, Revoke
<1>9. ASSUME NEW k \in Kind, NEW p \in Peers, NEW c \in 1..MaxCount, reserveHeaders(k, p, c)
      PROVE  LoopInv'
  BY Zenon, <1>9, LoopReserve
<1>10. ASSUME NEW k \in Kind, NEW p \in Peers, NEW valid \in SUBSET pendPool[k][p],
              NEW some \in BOOLEAN, deliver(k, p, valid, some)
       PROVE  LoopInv'
  BY Zenon, <1>10, LoopDeliver
<1>11. ASSUME NEW k \in Kind, NEW p \in Peers, expire(k, p) PROVE LoopInv'
  BY Zenon, <1>11, LoopExpire
<1>12. CASE Reserved
  BY Zenon, <1>12, LoopReserved
<1>13. CASE Delivered
  BY Zenon, <1>13, LoopDelivered
<1>14. QED
  BY Zenon, <1>1, <1>2, <1>3, <1>4, <1>5, <1>6, <1>7, <1>8, <1>9, <1>10, <1>11, <1>12, <1>13 DEF Next

-----------------------------------------------------------------------------
(* The processor: ProcessorInv. *)

\* Steps that neither wake the processor nor touch the first slot keep ProcessorInv.
LEMMA ProcessorFrame ==
  ASSUME ProcessorInv, UNCHANGED <<processor, closed, items>>,
         op' = op \/ op.type = "none"
  PROVE  ProcessorInv'
<1>1. HasCompletedItems' <=> HasCompletedItems
  BY Zenon DEF HasCompletedItems, AllDone
<1>2. QED
  BY Zenon, <1>1 DEF ProcessorInv

\* A complete item stays complete.
LEMMA StaysComplete ==
  ASSUME TypeOK, PlaceInv, AddFetch \/ Reconstruct
  PROVE  HasCompletedItems => HasCompletedItems'
<1> SUFFICES ASSUME AllDone(items[0]) PROVE AllDone(items'[0])
  BY Zenon DEF HasCompletedItems, AllDone
<1>1. 0 \in Index
  BY QueueAssumption DEF Index
<1>2. CASE AddFetch
  <2>1. op \in Reservation /\ op.kind \in Kind
    BY Zenon, <1>2, AddFetchCases DEF Reservation
  <2>2. PICK n \in taskQueue[op.kind] : items' = items \/ \E item : Slot(n, item)
    BY Zenon, <1>2, AddFetchCases
  <2>3. n \in Number
    BY Zenon, <2>1 DEF TypeOK
  <2>4. ASSUME NEW item, Slot(n, item) PROVE items'[0] = items[0]
    <3>1. items' = [items EXCEPT ![n - resultOffset] = item] /\ n - resultOffset \in Index
      BY <2>3, <2>4, QueueAssumption DEF Slot, TypeOK, Index, Number
    <3>2. n - resultOffset = 0 => item = items[0]
      BY Zenon, <2>4 DEF Slot, AllDone
    <3>3. QED
      BY Zenon, <1>1, <3>1, <3>2 DEF TypeOK
  <2>5. QED
    BY Zenon, <2>2, <2>4
<1>3. CASE Reconstruct
  <2>1. op \in Delivery /\ op.kind \in Kind
    BY Zenon, <1>3, ReconstructFacts DEF Delivery
  <2>2. PICK n \in op.todo :
          /\ Awaits(n, op.kind)
          /\ items' = [items EXCEPT ![n - resultOffset] =
                         reconstruct(items[n - resultOffset], op.kind, n)]
    BY Zenon, <1>3, ReconstructFacts
  <2>3. n - resultOffset # 0
    BY Zenon, <2>2 DEF Awaits, AllDone
  <2>4. items'[0] = items[0]
    BY Zenon, <1>1, <2>2, <2>3 DEF TypeOK
  <2>5. QED
    BY Zenon, <2>4
<1>4. QED
  BY Zenon, <1>2, <1>3

\* Every step keeps ProcessorInv.
LEMMA ProcessorNext ==
  ASSUME TypeOK, StoreInv, PlaceInv, ProcessorInv, Next
  PROVE  ProcessorInv'
<1>1. ASSUME NEW c \in 1..MaxCount, Schedule(c) PROVE ProcessorInv'
  BY Zenon, <1>1, ProcessorFrame DEF Schedule
<1>2. CASE HeadersDone
  BY Zenon, <1>2, ProcessorFrame DEF HeadersDone
<1>3. ASSUME NEW k \in Kind, Idle(k) \/ NoMoreTasks(k) \/ PendingEmpty(k) \/ InFlight(k)
      PROVE  ProcessorInv'
  BY Zenon, <1>3, ProcessorFrame DEF Idle, NoMoreTasks, PendingEmpty, InFlight
<1>4. ASSUME NEW p \in Peers, Unregister(p) \/ Revoke(p) PROVE ProcessorInv'
  BY Zenon, <1>4, ProcessorFrame DEF Unregister, Revoke
<1>5. ASSUME NEW k \in Kind, NEW p \in Peers, NEW c \in 1..MaxCount, reserveHeaders(k, p, c)
      PROVE  ProcessorInv'
  BY Zenon, <1>5, ProcessorFrame DEF reserveHeaders, NoOp
<1>6. ASSUME NEW k \in Kind, NEW p \in Peers, NEW valid \in SUBSET pendPool[k][p],
             NEW some \in BOOLEAN, deliver(k, p, valid, some)
      PROVE  ProcessorInv'
  <2>1. op.type = "none"
    BY Zenon, <1>6 DEF deliver, NoOp
  <2>2. QED
    BY Zenon, <1>6, <2>1, ProcessorFrame DEF deliver
<1>7. ASSUME NEW k \in Kind, NEW p \in Peers, expire(k, p) PROVE ProcessorInv'
  BY Zenon, <1>7, ProcessorFrame DEF expire
<1>8. CASE AddFetch
  <2>1. op \in Reservation /\ UNCHANGED <<processor, closed>>
    BY Zenon, <1>8, AddFetchCases DEF AddFetch
  <2>2. op'.type = "reserve"
    BY Zenon, <1>8, <2>1, AddFetchCases DEF Reservation, Drop, Take
  <2>3. QED
    BY Zenon, <1>8, <2>1, <2>2, StaysComplete DEF ProcessorInv
<1>9. CASE Reconstruct
  <2>1. op \in Delivery /\ UNCHANGED <<processor, closed>>
    BY Zenon, <1>9, ReconstructFacts DEF Reconstruct
  <2>2. op'.type = "deliver" /\ op'.accepted > 0
    <3>1. \E n : op' = [op EXCEPT !.todo = @ \ {n}, !.accepted = @ + 1]
      BY Zenon, <1>9, ReconstructFacts
    <3>2. QED
      BY <2>1, <3>1 DEF Delivery
  <2>3. QED
    BY Zenon, <1>9, <2>1, <2>2, StaysComplete DEF ProcessorInv
<1>10. CASE Reserved
  <2>1. UNCHANGED <<items, closed>> /\ op' = NoOp
    BY Zenon, <1>10 DEF Reserved
  <2>2. HasCompletedItems' <=> HasCompletedItems
    BY Zenon, <2>1 DEF HasCompletedItems, AllDone
  <2>3. processor' = IF HasCompletedItems THEN Wake(processor) ELSE processor
    BY Zenon, <1>10 DEF Reserved
  <2>4. QED
    BY Zenon, <2>1, <2>2, <2>3 DEF ProcessorInv, Wake
<1>11. CASE Delivered
  <2>1. UNCHANGED <<items, closed>> /\ op' = NoOp /\ op.type = "deliver"
    BY Zenon, <1>11 DEF Delivered
  <2>2. HasCompletedItems' <=> HasCompletedItems
    BY Zenon, <2>1 DEF HasCompletedItems, AllDone
  <2>3. processor' = IF op.accepted > 0 THEN Wake(processor) ELSE processor
    BY Zenon, <1>11 DEF Delivered
  <2>4. QED
    BY Zenon, <2>1, <2>2, <2>3 DEF ProcessorInv, Wake
<1>12. CASE ResultsCheck \/ ResultsLock \/ ResultsWoken \/ SetThrottleThreshold
  <2>1. UNCHANGED <<items, closed, op>>
    BY Zenon, <1>12 DEF ResultsCheck, ResultsLock, ResultsWoken, SetThrottleThreshold
  <2>2. HasCompletedItems' <=> HasCompletedItems
    BY Zenon, <2>1 DEF HasCompletedItems, AllDone
  <2>3. QED
    BY Zenon, <1>12, <2>1, <2>2
       DEF ProcessorInv, ResultsCheck, ResultsLock, ResultsWoken, SetThrottleThreshold, NeedNotWait
<1>13. CASE GetCompleted
  <2>1. closed' = closed /\ processor = "take"
    BY Zenon, <1>13 DEF GetCompleted
  <2>2. PICK count \in Nat, limit \in Nat :
          Taken(count, limit) /\ (count < Size => ~AllDone(items[count]))
    BY Zenon, <1>13, GetCompletedFacts DEF StoreInv
  <2>3. limit = 0 => ~HasCompletedItems
    <3> SUFFICES ASSUME limit = 0 PROVE ~HasCompletedItems
      BY Zenon
    <3>1. count = 0 /\ count < Size
      BY <2>2, QueueAssumption DEF Taken
    <3>2. ~AllDone(items[count])
      BY Zenon, <2>2, <3>1
    <3>3. QED
      BY Zenon, <3>1, <3>2 DEF HasCompletedItems
  <2>4. processor' = IF limit = 0 THEN "end" ELSE "calibrate"
    BY Zenon, <2>2 DEF Taken
  <2>5. QED
    BY Zenon, <2>1, <2>3, <2>4 DEF ProcessorInv
<1>14. CASE Close
  <2>1. UNCHANGED <<items, op>> /\ closed' = TRUE /\ processor' = Wake(processor)
    BY Zenon, <1>14 DEF Close
  <2>2. QED
    BY Zenon, <2>1 DEF ProcessorInv, Wake
<1>15. QED
  BY Zenon, <1>1, <1>2, <1>3, <1>4, <1>5, <1>6, <1>7, <1>8, <1>9, <1>10, <1>11, <1>12, <1>13, <1>14 DEF Next

-----------------------------------------------------------------------------
(* The end of the loops: StrandInv. *)

\* Steps that leave the loops and the tasks alone keep StrandInv.
LEMMA StrandFrame ==
  ASSUME StrandInv,
         UNCHANGED <<departed, leaving, fetcher, finished, idles, headersDone, taskQueue, taskPool, op>>
  PROVE  StrandInv'
<1>1. ASSUME NEW k \in Kind PROVE StrandAt(k)'
  <2>1. StrandAt(k)
    BY Zenon DEF StrandInv
  <2>2. QED
    BY Zenon, <2>1 DEF StrandAt
<1>2. QED
  BY Zenon, <1>1 DEF StrandInv

\* A step of the loop of kind k0 leaves the other kind alone.
LEMMA StrandOther ==
  ASSUME StrandInv, NEW k0 \in Kind, fetcher[k0] = "run",
         UNCHANGED <<fetcher, finished, headersDone>>,
         departed => departed',
         departed' \/ leaving' = leaving,
         op' = NoOp \/ op'.kind = k0,
         \A k \in Kind : k # k0 => /\ idles'[k] = idles[k] /\ taskQueue'[k] = taskQueue[k]
                                   /\ taskPool'[k] = taskPool[k]
  PROVE  StrandInv'
<1>1. ASSUME NEW k \in Kind PROVE StrandAt(k)'
  <2>1. StrandAt(k)
    BY Zenon DEF StrandInv
  <2>2. CASE k = k0
    BY Zenon, <2>2 DEF StrandAt
  <2>3. CASE k # k0
    BY Zenon, <2>1, <2>3 DEF StrandAt
  <2>4. QED
    BY Zenon, <2>2, <2>3
<1>2. QED
  BY Zenon, <1>1 DEF StrandInv

\* The loop whose operation is in progress runs.
LEMMA StrandRuns ==
  ASSUME TypeOK, StrandInv, op # NoOp
  PROVE  op.kind \in Kind /\ fetcher[op.kind] = "run"
<1>1. op.kind \in Kind
  BY Zenon DEF TypeOK, Reservation, Delivery
<1>2. QED
  BY Zenon, <1>1 DEF StrandInv, StrandAt

\* Every step keeps StrandInv.
LEMMA StrandNext ==
  ASSUME TypeOK, PlaceInv, StrandInv, Next
  PROVE  StrandInv'
<1>1. ASSUME NEW c \in 1..MaxCount, Schedule(c) PROVE StrandInv'
  <2>1. /\ ~headersDone /\ op = NoOp
        /\ UNCHANGED <<departed, leaving, fetcher, finished, idles, headersDone, op>>
    BY Zenon, <1>1 DEF Schedule
  <2>2. ASSUME NEW k \in Kind PROVE StrandAt(k)'
    <3>1. StrandAt(k)
      BY Zenon DEF StrandInv
    <3>2. QED
      BY Zenon, <2>1, <3>1 DEF StrandAt
  <2>3. QED
    BY Zenon, <2>1, <2>2 DEF StrandInv
<1>2. CASE HeadersDone
  <2>1. /\ headersDone' = TRUE
        /\ UNCHANGED <<departed, leaving, fetcher, finished, idles, taskQueue, taskPool, op>>
    BY Zenon, <1>2 DEF HeadersDone
  <2>2. ASSUME NEW k \in Kind PROVE StrandAt(k)'
    <3>1. StrandAt(k)
      BY Zenon DEF StrandInv
    <3>2. QED
      BY Zenon, <2>1, <3>1 DEF StrandAt
  <2>3. QED
    BY Zenon, <2>1, <2>2 DEF StrandInv
<1>3. ASSUME NEW k \in Kind, NEW p \in Peers, NEW c \in 1..MaxCount, reserveHeaders(k, p, c)
      PROVE  StrandInv'
  <2>1. fetcher[k] = "run"
    BY Zenon, <1>3 DEF reserveHeaders, StrandInv, StrandAt
  <2>2. op' = NoOp \/ op'.kind = k
    BY Zenon, <1>3 DEF reserveHeaders
  <2>3. \A j \in Kind : j # k => idles'[j] = idles[j]
    BY Zenon, <1>3 DEF reserveHeaders, TypeOK
  <2>4. QED
    BY Zenon, <1>3, <2>1, <2>2, <2>3, StrandOther DEF reserveHeaders
<1>4. ASSUME NEW k \in Kind, NEW p \in Peers, NEW valid \in SUBSET pendPool[k][p],
             NEW some \in BOOLEAN, deliver(k, p, valid, some)
      PROVE  StrandInv'
  <2>1. fetcher[k] = "run" /\ (op' = NoOp \/ op'.kind = k)
    BY Zenon, <1>4 DEF deliver, Waits
  <2>2. QED
    BY Zenon, <1>4, <2>1, StrandOther DEF deliver
<1>5. ASSUME NEW k \in Kind, NEW p \in Peers, expire(k, p) PROVE StrandInv'
  <2>1. fetcher[k] = "run" /\ op' = NoOp
    BY Zenon, <1>5 DEF expire, Waits
  <2>2. \A j \in Kind : j # k => taskQueue'[j] = taskQueue[j]
    BY Zenon, <1>5 DEF expire, TypeOK
  <2>3. (departed => departed') /\ (departed' \/ leaving' = leaving)
    BY Zenon, <1>5 DEF expire
  <2>4. QED
    BY Zenon, <1>5, <2>1, <2>2, <2>3, StrandOther DEF expire
<1>6. CASE AddFetch
  <2>1. op \in Reservation /\ op # NoOp
    BY <1>6, AddFetchCases DEF Reservation, NoOp
  <2>2. op.kind \in Kind /\ fetcher[op.kind] = "run"
    BY Zenon, <2>1, StrandRuns
  <2>3. op'.kind = op.kind
    BY Zenon, <1>6, <2>1, AddFetchCases DEF Reservation, Drop, Take
  <2>4. \A j \in Kind : j # op.kind => taskQueue'[j] = taskQueue[j] /\ taskPool'[j] = taskPool[j]
    BY Zenon, <1>6, <2>2, AddFetchCases DEF Drop, Take, Unqueue, TypeOK
  <2>5. QED
    BY Zenon, <1>6, <2>2, <2>3, <2>4, StrandOther DEF AddFetch
<1>7. CASE Reserved
  <2>1. op # NoOp
    BY <1>7 DEF Reserved, NoOp
  <2>2. op.kind \in Kind /\ fetcher[op.kind] = "run"
    BY Zenon, <2>1, StrandRuns
  <2>3. \A j \in Kind : j # op.kind => taskQueue'[j] = taskQueue[j] /\ idles'[j] = idles[j]
    BY Zenon, <1>7, <2>2 DEF Reserved, TypeOK
  <2>4. QED
    BY Zenon, <1>7, <2>2, <2>3, StrandOther DEF Reserved
<1>8. CASE Reconstruct
  <2>1. op \in Delivery /\ op # NoOp
    <3>1. op \in Delivery
      BY Zenon, <1>8, ReconstructFacts
    <3>2. QED
      BY <3>1 DEF Delivery, NoOp
  <2>2. op.kind \in Kind /\ fetcher[op.kind] = "run"
    BY <2>1, StrandRuns
  <2>3. op'.kind = op.kind
    BY Zenon, <1>8, <2>1, ReconstructFacts DEF Delivery
  <2>4. \A j \in Kind : j # op.kind => taskPool'[j] = taskPool[j]
    BY Zenon, <1>8, <2>2, ReconstructFacts DEF TypeOK
  <2>5. QED
    BY Zenon, <1>8, <2>2, <2>3, <2>4, StrandOther DEF Reconstruct
<1>9. CASE Delivered
  <2>1. op # NoOp
    <3>1. op.type = "deliver"
      BY Zenon, <1>9 DEF Delivered
    <3>2. QED
      BY <3>1 DEF NoOp
  <2>2. op.kind \in Kind /\ fetcher[op.kind] = "run"
    BY <2>1, StrandRuns
  <2>3. \A j \in Kind : j # op.kind => taskQueue'[j] = taskQueue[j]
    <3>1. taskQueue \in [Kind -> SUBSET Number]
      BY Zenon DEF TypeOK
    <3>2. taskQueue' = [taskQueue EXCEPT ![op.kind] = @ \cup op.rest]
      BY Zenon, <1>9 DEF Delivered
    <3>3. QED
      BY Zenon, <2>2, <3>1, <3>2
  <2>4. QED
    BY Zenon, <1>9, <2>2, <2>3, StrandOther DEF Delivered
<1>10. ASSUME NEW k \in Kind, Idle(k) PROVE StrandInv'
  <2>1. fetcher[k] = "run" /\ op' = NoOp
    BY Zenon, <1>10 DEF Idle
  <2>2. \A j \in Kind : j # k => idles'[j] = idles[j]
    BY Zenon, <1>10 DEF Idle, TypeOK
  <2>3. QED
    BY Zenon, <1>10, <2>1, <2>2, StrandOther DEF Idle
<1>11. ASSUME NEW k \in Kind, NoMoreTasks(k) PROVE StrandInv'
  <2>1. fetcher[k] = "run" /\ op' = NoOp
    BY Zenon, <1>11 DEF NoMoreTasks, StrandInv, StrandAt
  <2>2. \A j \in Kind : j # k => idles'[j] = idles[j]
    BY Zenon, <1>11 DEF NoMoreTasks, TypeOK
  <2>3. QED
    BY Zenon, <1>11, <2>1, <2>2, StrandOther DEF NoMoreTasks
<1>12. ASSUME NEW k0 \in Kind, PendingEmpty(k0) PROVE StrandInv'
  <2>1. /\ op = NoOp /\ idles[k0] = {} /\ taskQueue[k0] = {}
        /\ UNCHANGED <<departed, leaving, idles, headersDone, taskQueue, taskPool, op>>
    BY Zenon, <1>12 DEF PendingEmpty, Waits
  <2>2. /\ fetcher'[k0] = "drained" /\ finished'[k0] = headersDone
        /\ \A k \in Kind : k # k0 => fetcher'[k] = fetcher[k] /\ finished'[k] = finished[k]
    BY Zenon, <1>12 DEF PendingEmpty, TypeOK
  <2>3. ASSUME NEW k \in Kind PROVE StrandAt(k)'
    <3>1. StrandAt(k)
      BY Zenon DEF StrandInv
    <3>2. CASE k = k0
      BY Zenon, <2>1, <2>2, <3>2 DEF StrandAt
    <3>3. CASE k # k0
      BY Zenon, <2>1, <2>2, <3>1, <3>3 DEF StrandAt
    <3>4. QED
      BY Zenon, <3>2, <3>3
  <2>4. QED
    BY Zenon, <2>1, <2>3 DEF StrandInv
<1>13. ASSUME NEW k0 \in Kind, InFlight(k0) PROVE StrandInv'
  <2>1. /\ op = NoOp /\ fetcher[k0] = "drained"
        /\ UNCHANGED <<departed, leaving, idles, finished, headersDone, taskQueue, taskPool, op>>
    BY Zenon, <1>13 DEF InFlight
  <2>2. /\ \/ fetcher'[k0] = "done" /\ finished[k0] /\ NoneInFlight(k0)
           \/ fetcher'[k0] = "run"
        /\ \A k \in Kind : k # k0 => fetcher'[k] = fetcher[k]
    BY Zenon, <1>13 DEF InFlight, TypeOK
  <2>3. NoneInFlight(k0) => taskPool[k0] = taskQueue[k0]
    <3> SUFFICES ASSUME NoneInFlight(k0) PROVE taskPool[k0] = taskQueue[k0]
      BY Zenon
    <3>1. InHand(k0) = {}
      BY Zenon, <2>1, HandNow, HandThen
    <3>2. taskPool[k0] \subseteq Number /\ taskQueue[k0] \subseteq Number
      BY Zenon DEF TypeOK
    <3>3. \A n \in Number : n \in taskPool[k0] <=> n \in taskQueue[k0]
      BY Zenon, <3>1 DEF PlaceInv, At, PlaceAt, Placed, NoneInFlight
    <3>4. QED
      BY Zenon, <3>2, <3>3
  <2>4. ASSUME NEW k \in Kind PROVE StrandAt(k)'
    <3>1. StrandAt(k)
      BY DEF StrandInv
    <3>2. CASE k = k0
      BY Zenon, <2>1, <2>2, <2>3, <3>1, <3>2 DEF StrandAt
    <3>3. CASE k # k0
      BY Zenon, <2>1, <2>2, <3>1, <3>3 DEF StrandAt
    <3>4. QED
      BY <3>2, <3>3
  <2>5. QED
    BY Zenon, <2>1, <2>4 DEF StrandInv
<1>14. ASSUME NEW p \in Peers, Unregister(p) \/ Revoke(p) PROVE StrandInv'
  <2>1. departed' = TRUE \/ (departed /\ departed' = departed)
    BY Zenon, <1>14 DEF Unregister, Revoke, StrandInv
  <2>2. UNCHANGED <<fetcher, finished, idles, headersDone, op>>
    BY Zenon, <1>14 DEF Unregister, Revoke
  <2>3. ASSUME NEW k \in Kind PROVE StrandAt(k)'
    <3>1. StrandAt(k)
      BY Zenon DEF StrandInv
    <3>2. departed'
      BY <2>1
    <3>3. QED
      BY Zenon, <2>2, <3>1, <3>2 DEF StrandAt
  <2>4. QED
    BY <2>1, <2>3 DEF StrandInv
<1>15. CASE ResultsCheck \/ ResultsLock \/ ResultsWoken \/ GetCompleted \/ SetThrottleThreshold
            \/ Close
  BY Zenon, <1>15, StrandFrame
     DEF ResultsCheck, ResultsLock, ResultsWoken, GetCompleted, SetThrottleThreshold, Close
<1>16. QED
  BY Zenon, <1>1, <1>2, <1>3, <1>4, <1>5, <1>6, <1>7, <1>8, <1>9, <1>10, <1>11, <1>12, <1>13, <1>14,
     <1>15 DEF Next

-----------------------------------------------------------------------------
(* The theorems. *)

\* No step panics.
LEMMA NoPanicNext ==
  ASSUME TypeOK, PlaceInv, LoopInv, panicked = FALSE, Next
  PROVE  panicked' = FALSE
<1>1. CASE Reserved
  BY Zenon, <1>1, LoopReserved
<1>2. CASE Reconstruct
  BY Zenon, <1>2, ReconstructFacts
<1>3. CASE UNCHANGED panicked
  BY Zenon, <1>3
<1>4. ASSUME NEW k \in Kind, NEW p \in Peers
      PROVE  /\ \A c : reserveHeaders(k, p, c) => UNCHANGED panicked
             /\ \A valid, some : deliver(k, p, valid, some) => UNCHANGED panicked
             /\ expire(k, p) => UNCHANGED panicked
  <2>1. \A c : reserveHeaders(k, p, c) => UNCHANGED panicked
    BY Zenon DEF reserveHeaders
  <2>2. \A valid, some : deliver(k, p, valid, some) => UNCHANGED panicked
    BY Zenon DEF deliver
  <2>3. expire(k, p) => UNCHANGED panicked
    BY Zenon DEF expire
  <2>4. QED
    BY Zenon, <2>1, <2>2, <2>3
<1>5. \A k \in Kind : Idle(k) \/ NoMoreTasks(k) \/ PendingEmpty(k) \/ InFlight(k) => UNCHANGED panicked
  BY Zenon DEF Idle, NoMoreTasks, PendingEmpty, InFlight
<1>6. /\ \A p \in Peers : Unregister(p) \/ Revoke(p) => UNCHANGED panicked
      /\ \A c : Schedule(c) => UNCHANGED panicked
  BY Zenon DEF Unregister, Revoke, Schedule
<1>7. HeadersDone \/ AddFetch \/ Delivered \/ ResultsCheck \/ ResultsLock \/ ResultsWoken
        \/ GetCompleted \/ SetThrottleThreshold \/ Close => UNCHANGED panicked
  BY Zenon DEF HeadersDone, AddFetch, Delivered, ResultsCheck, ResultsLock, ResultsWoken,
               GetCompleted, SetThrottleThreshold, Close
<1>8. QED
  BY Zenon, <1>1, <1>2, <1>3, <1>4, <1>5, <1>6, <1>7 DEF Next

\* The invariant holds initially.
LEMMA InitIInv == Init => IInv
<1> SUFFICES ASSUME Init PROVE IInv
  BY Zenon
<1>1. TypeOK
  BY Zenon, TypeInit
<1>2. \A i \in Index : items[i] = NoItem
  BY Zenon DEF Init
<1>3. \A k \in Kind : /\ taskPool[k] = {} /\ taskQueue[k] = {} /\ idles[k] = {} /\ busy[k] = {}
                      /\ fetcher[k] = "run" /\ InHand(k) = {}
                      /\ \A p \in Peers : pendPool[k][p] = {}
  BY Zenon DEF Init, InHand
<1>4. StoreInv
  <2>1. ItemsInv
    BY Zenon, <1>2 DEF ItemsInv
  <2>2. Kept
    BY DEF Init, Kept
  <2>3. CountInv
    BY DEF Init, CountInv, Index
  <2>4. QED
    BY Zenon, <2>1, <2>2, <2>3 DEF StoreInv
<1>5. op.type = "none" /\ op = NoOp
  BY Zenon DEF Init, NoOp
<1>6. PlaceInv
  <2>1. \A k \in Kind : At(k)
    BY Zenon, <1>3 DEF At, TaskAt, PlaceAt, Placed
  <2>2. QED
    BY Zenon, <1>5, <2>1 DEF PlaceInv, HandInv
<1>7. LoopInv
  <2>1. \A k \in Kind, p \in Peers : LoopAt(k, p)
    BY Zenon, <1>3, <1>5 DEF LoopAt
  <2>2. QED
    BY Zenon, <2>1 DEF LoopInv, Init
<1>8. ProcessorInv
  BY Zenon DEF ProcessorInv, Init
<1>9. StrandInv
  <2>1. \A k \in Kind : StrandAt(k)
    BY Zenon, <1>3, <1>5 DEF StrandAt
  <2>2. QED
    BY Zenon, <2>1 DEF StrandInv, Init
<1>10. QED
  BY Zenon, <1>1, <1>4, <1>6, <1>7, <1>8, <1>9 DEF IInv, Init

\* The invariant is inductive.
LEMMA NextIInv == IInv /\ [Next]_vars => IInv'
<1> SUFFICES ASSUME IInv, [Next]_vars PROVE IInv'
  BY Zenon
<1>1. CASE Next
  <2>1. TypeOK /\ StoreInv /\ PlaceInv /\ LoopInv /\ ProcessorInv /\ StrandInv /\ panicked = FALSE
    BY Zenon DEF IInv
  <2>2. TypeOK'
    BY Zenon, <1>1, <2>1, TypeNext DEF StoreInv
  <2>3. StoreInv'
    BY Zenon, <1>1, <2>1, StoreNext
  <2>4. PlaceInv'
    BY Zenon, <1>1, <2>1, PlaceNext
  <2>5. LoopInv'
    BY Zenon, <1>1, <2>1, LoopNext
  <2>6. ProcessorInv'
    BY Zenon, <1>1, <2>1, ProcessorNext
  <2>7. StrandInv'
    BY Zenon, <1>1, <2>1, StrandNext
  <2>8. panicked' = FALSE
    BY Zenon, <1>1, <2>1, NoPanicNext
  <2>9. QED
    BY Zenon, <2>2, <2>3, <2>4, <2>5, <2>6, <2>7, <2>8 DEF IInv
<1>2. CASE UNCHANGED vars
  <2>1. /\ UNCHANGED <<queueVars, storeVars, peerVars, procVars, loopVars>>
        /\ UNCHANGED <<op, panicked>>
    BY Zenon, <1>2 DEF vars
  <2>2. TypeOK' /\ panicked' = FALSE
    BY <2>1 DEF IInv, TypeOK
  <2>3. StoreInv'
    BY Zenon, <2>1, StoreFrame DEF IInv
  <2>4. PlaceInv'
    BY Zenon, <2>1, PlaceFrame DEF IInv
  <2>5. LoopInv'
    BY Zenon, <2>1, LoopFrame DEF IInv
  <2>6. ProcessorInv'
    BY Zenon, <2>1, ProcessorFrame DEF IInv
  <2>7. StrandInv'
    BY Zenon, <2>1, StrandFrame DEF IInv
  <2>8. QED
    BY Zenon, <2>2, <2>3, <2>4, <2>5, <2>6, <2>7 DEF IInv
<1>3. QED
  BY Zenon, <1>1, <1>2

\* The inductive invariant holds in every run.
THEOREM Invariance == Spec => []IInv
BY InitIInv, NextIInv, PTL DEF Spec

\* The queue and the result store always hold what their structs declare; in
\* particular the slot of a result is within the store.
THEOREM TypeCorrect == Spec => []TypeOK
<1>1. IInv => TypeOK
  BY Zenon DEF IInv
<1>2. QED
  BY <1>1, Invariance, PTL

\* reserveHeaders, deliver, expire and Revoke lose no task and hand none out
\* twice, for any peers and chain.
THEOREM TasksConserved == Spec => []EveryTaskInOnePlace
<1>1. IInv => EveryTaskInOnePlace
  <2> SUFFICES ASSUME IInv, NEW k \in Kind
               PROVE  /\ taskPool[k] = taskQueue[k] \cup InHand(k) \cup
                                         UNION {pendPool[k][p] : p \in Peers}
                      /\ taskQueue[k] \cap InHand(k) = {}
                      /\ \A p \in Peers :
                           /\ pendPool[k][p] \cap (taskQueue[k] \cup InHand(k)) = {}
                           /\ \A q \in Peers \ {p} : pendPool[k][p] \cap pendPool[k][q] = {}
    BY Zenon DEF EveryTaskInOnePlace
  <2>1. TypeOK /\ PlaceAt(k)
    BY Zenon DEF IInv, PlaceInv, At
  <2>2. /\ taskPool[k] \subseteq Number /\ taskQueue[k] \subseteq Number /\ InHand(k) \subseteq Number
        /\ \A p \in Peers : pendPool[k][p] \subseteq Number
    BY Zenon, <2>1, HandType DEF TypeOK
  <2> DEFINE pending == UNION {pendPool[k][p] : p \in Peers}
  <2>3. \A n : n \in pending <=> \E p \in Peers : n \in pendPool[k][p]
    BY Zenon
  <2> HIDE DEF pending
  <2>4. taskPool[k] = taskQueue[k] \cup InHand(k) \cup pending
    <3>1. \A n \in Number : n \in taskPool[k] <=>
            n \in taskQueue[k] \/ n \in InHand(k) \/ n \in pending
      BY Zenon, <2>1, <2>3 DEF PlaceAt, Placed
    <3>2. pending \subseteq Number
      BY Zenon, <2>2, <2>3
    <3>3. QED
      BY Zenon, <2>2, <3>1, <3>2
  <2>5. QED
    BY Zenon, <2>1, <2>4 DEF PlaceAt, Placed, pending
<1>2. QED
  BY <1>1, Invariance, PTL

\* A scheduled block that is not delivered yet is never forgotten by the
\* queue: AddFetch and GetDeliverySlot drop only tasks that have no use.
THEOREM NothingIsForgotten == Spec => []NothingForgotten
<1>1. IInv => NothingForgotten
  <2> SUFFICES ASSUME IInv, NEW n \in resultOffset..head
               PROVE  LET item == IF n < resultOffset + Size THEN items[n - resultOffset] ELSE NoItem
                      IN  IF item = NoItem
                          THEN \A k \in Parts(n, mode) \cup {"body"} : n \in taskPool[k]
                          ELSE item.header = n /\ \A k \in item.pending : n \in taskPool[k]
    BY Zenon DEF NothingForgotten
  <2>1. TypeOK /\ ItemsInv /\ Kept
    BY Zenon DEF IInv, StoreInv
  <2>2. resultOffset \in Nat /\ head \in Nat /\ Size \in Nat
    BY <2>1, QueueAssumption DEF TypeOK
  <2>3. CASE n >= resultOffset + Size \/ items[n - resultOffset] = NoItem
    <3>1. n \in taskPool["body"] /\ \A k \in Parts(n, mode) : n \in taskPool[k]
      BY Zenon, <2>1, <2>3 DEF Kept
    <3>2. ~(n < resultOffset + Size) \/ items[n - resultOffset] = NoItem
      BY <2>2, <2>3
    <3>3. QED
      BY Zenon, <3>1, <3>2
  <2>4. CASE n < resultOffset + Size /\ items[n - resultOffset] # NoItem
    <3>1. \A k \in items[n - resultOffset].pending : n \in taskPool[k]
      BY Zenon, <2>1, <2>4 DEF Kept
    <3>2. n - resultOffset \in Index /\ resultOffset + (n - resultOffset) = n
      BY <2>2, <2>4 DEF Index
    <3>3. items[n - resultOffset].header = n
      BY Zenon, <2>1, <2>4, <3>2 DEF ItemsInv
    <3>4. QED
      BY Zenon, <2>4, <3>1, <3>3
  <2>5. QED
    BY <2>2, <2>3, <2>4
<1>2. QED
  BY <1>1, Invariance, PTL

\* Neither the nil result of GetDeliverySlot nor the panic of fetchParts on a
\* doubly allocated peer is ever met.
THEOREM NeverPanics == Spec => []NoPanic
<1>1. IInv => NoPanic
  BY Zenon DEF IInv, NoPanic
<1>2. QED
  BY <1>1, Invariance, PTL

\* The check of Results outside the queue's lock loses no wake-up.
THEOREM WakeupsArrive == Spec => []NoLostWakeup
<1>1. IInv => NoLostWakeup
  <2>1. NoOp.type = "none"
    BY Zenon DEF NoOp
  <2>2. QED
    BY Zenon, <2>1 DEF IInv, ProcessorInv, NoLostWakeup
<1>2. QED
  BY <1>1, Invariance, PTL

\* The idle flags of the peers agree with the requests of the queue.
THEOREM BusyPeers == Spec => []BusyHasRequest
<1>1. IInv => BusyHasRequest
  <2> SUFFICES ASSUME IInv, op = NoOp, NEW k \in Kind, NEW p \in registered
               PROVE  p \in busy[k] <=> pendPool[k][p] # {}
    BY Zenon DEF BusyHasRequest
  <2>1. p \in Peers
    BY Zenon DEF IInv, TypeOK
  <2>2. LoopAt(k, p)
    BY Zenon, <2>1 DEF IInv, LoopInv
  <2>3. op.type = "none"
    BY Zenon DEF NoOp
  <2>4. QED
    BY Zenon, <2>2, <2>3 DEF LoopAt
<1>2. QED
  BY <1>1, Invariance, PTL

\* As long as no peer leaves, a fetchParts loop ends only when everything is
\* fetched.
THEOREM OnlyDeparturesStrand == Spec => []StrandedByRevoke
<1>1. IInv => StrandedByRevoke
  BY Zenon DEF IInv, StrandInv, StrandAt, StrandedByRevoke
<1>2. QED
  BY <1>1, Invariance, PTL

-----------------------------------------------------------------------------
(* The refinement of BlockStream. *)

\* A step that changes nothing of the stream is a stutter of BlockStream.
LEMMA Stutters ==
  ASSUME UNCHANGED <<mode, head, delivered, closed>>, processor' = "end" <=> processor = "end"
  PROVE  UNCHANGED Stream!streamVars
<1>1. (processor' = "end") = (processor = "end")
  BY Zenon
<1>2. QED
  BY Zenon, <1>1 DEF Stream!streamVars

\* A complete item is the finished result of its block.
LEMMA Finished ==
  ASSUME IInv, NEW i \in Index, AllDone(items[i])
  PROVE  items[i] = Stream!Complete(resultOffset + i, mode)
<1> DEFINE n == resultOffset + i
           it == items[i]
<1>1. it # NoItem /\ it.pending = {} /\ it \in Item
  BY Zenon DEF IInv, TypeOK, AllDone
<1>2. it.header = n /\ \A k \in Kind : it.data[k] = IF k \in Parts(n, mode) THEN n ELSE 0
  BY Zenon, <1>1 DEF IInv, StoreInv, ItemsInv
<1> HIDE DEF n, it
<1>3. it.data = [k \in {"body", "receipt"} |->
                   IF n \in (IF k = "body" THEN WithBody
                             ELSE IF mode = "fast" THEN WithReceipts ELSE {})
                   THEN n ELSE 0]
  <2>1. it.data \in [Kind -> 0..MaxNumber]
    BY Zenon, <1>1 DEF Item
  <2>2. \A k \in Kind : k \in Parts(n, mode) <=>
          n \in (IF k = "body" THEN WithBody ELSE IF mode = "fast" THEN WithReceipts ELSE {})
    BY Zenon DEF Parts
  <2>3. QED
    BY Zenon, <1>2, <2>1, <2>2 DEF Kind
<1>4. it = [header |-> it.header, pending |-> it.pending, data |-> it.data]
  BY Zenon, <1>1 DEF Item
<1>5. it = Stream!Complete(n, mode)
  BY Zenon, <1>1, <1>2, <1>3, <1>4 DEF Stream!Complete
<1>6. QED
  BY Zenon, <1>5 DEF n, it

\* A batch is a hand-over, and getting nothing is the end.
LEMMA GetCompletedRefines ==
  ASSUME IInv, GetCompleted
  PROVE  Stream!Next
<1>1. TypeOK /\ ItemsInv /\ CountInv /\ ProcessorInv
  BY Zenon DEF IInv, StoreInv
<1>2. PICK count \in Nat, limit \in Nat :
        /\ Taken(count, limit)
        /\ \A i \in Index : i < count => AllDone(items[i])
        /\ count \in 0..Size /\ (count < Size => ~AllDone(items[count]))
        /\ resultOffset + limit <= head + 1
  BY Zenon, <1>1, GetCompletedFacts
<1>3. processor = "take" /\ UNCHANGED <<mode, head, closed>>
  BY Zenon DEF GetCompleted
<1>4. CASE limit = 0
  <2>1. delivered' = delivered
    <3>1. delivered' = delivered \o [j \in 1..0 |-> items[j - 1]] /\ delivered \in Seq(Item)
      BY Zenon, <1>1, <1>2, <1>4 DEF Taken, TypeOK
    <3>2. [j \in 1..0 |-> items[j - 1]] = << >>
      OBVIOUS
    <3>3. QED
      BY <3>1, <3>2
  <2>2. count = 0 /\ processor' = "end"
    BY Zenon, <1>2, <1>4 DEF Taken
  <2>3. ~HasCompletedItems
    <3>1. ~AllDone(items[count])
      BY <1>2, <2>2, QueueAssumption
    <3>2. QED
      BY Zenon, <2>2, <3>1 DEF HasCompletedItems
  <2>4. closed
    BY Zenon, <1>1, <1>3, <2>3 DEF ProcessorInv
  <2>5. (processor' = "end") = TRUE
    BY Zenon, <2>2
  <2>6. Stream!End
    BY Zenon, <1>3, <2>1, <2>4, <2>5 DEF Stream!End
  <2>7. QED
    BY Zenon, <2>6 DEF Stream!Next
<1>5. CASE limit # 0
  <2>1. limit \in 1..maxResultsProcess
    BY SMTT(60), <1>2, <1>5, QueueAssumption DEF Taken
  <2>2. resultOffset = Len(delivered) + 1 /\ Len(delivered) \in Nat /\ head \in Nat
    BY <1>1 DEF CountInv, TypeOK
  <2>3. Len(delivered) + limit <= head
    BY <1>2, <2>2
  <2>4. ASSUME NEW j \in 1..limit PROVE items[j - 1] = Stream!Complete(Len(delivered) + j, mode)
    <3>1. j - 1 \in Index /\ j - 1 < count /\ resultOffset + (j - 1) = Len(delivered) + j
      BY <1>2, <2>2, QueueAssumption DEF Taken, Index
    <3>2. AllDone(items[j - 1])
      BY Zenon, <1>2, <3>1
    <3>3. QED
      BY Zenon, <3>1, <3>2, Finished
  <2>5. delivered' = delivered \o [j \in 1..limit |-> Stream!Complete(Len(delivered) + j, mode)]
    <3>1. [j \in 1..limit |-> items[j - 1]] =
            [j \in 1..limit |-> Stream!Complete(Len(delivered) + j, mode)]
      BY Zenon, <2>4
    <3>2. QED
      BY Zenon, <1>2, <3>1 DEF Taken
  <2>6. (processor = "end") = FALSE /\ (processor' = "end") = FALSE
    BY Zenon, <1>2, <1>3, <1>5 DEF Taken
  <2>7. Stream!HandOver
    BY Zenon, <1>3, <2>1, <2>3, <2>5, <2>6 DEF Stream!HandOver
  <2>8. QED
    BY Zenon, <2>7 DEF Stream!Next
<1>6. QED
  BY Zenon, <1>4, <1>5

\* Every step is a step of BlockStream, or a stutter.
LEMMA RefinesNext == IInv /\ [Next]_vars => [Stream!Next]_(Stream!streamVars)
<1> SUFFICES ASSUME IInv, [Next]_vars PROVE [Stream!Next]_(Stream!streamVars)
  BY Zenon
<1>1. ASSUME NEW c \in 1..MaxCount, Schedule(c) PROVE Stream!Next
  <2>1. /\ head' = head + c /\ head + c <= last /\ head \in Nat /\ c \in Nat /\ c >= 1
        /\ last <= MaxNumber /\ last \in Nat /\ MaxNumber \in Nat
    BY <1>1, QueueAssumption DEF Schedule, IInv, TypeOK, Number
  <2>2. head' \in (head + 1)..MaxNumber
    BY <2>1
  <2>3. UNCHANGED <<mode, delivered, closed, processor>>
    BY Zenon, <1>1 DEF Schedule
  <2>4. Stream!Extend
    BY Zenon, <2>2, <2>3 DEF Stream!Extend
  <2>5. QED
    BY Zenon, <2>4 DEF Stream!Next
<1>2. CASE GetCompleted
  BY Zenon, <1>2, GetCompletedRefines
<1>3. CASE Close
  <2>1. closed = FALSE /\ closed' = TRUE /\ UNCHANGED <<mode, head, delivered>>
    BY Zenon, <1>3 DEF Close, IInv, TypeOK
  <2>2. (processor' = "end") = (processor = "end")
    BY Zenon, <1>3 DEF Close, Wake
  <2>3. Stream!CloseStream
    BY Zenon, <2>1, <2>2 DEF Stream!CloseStream
  <2>4. QED
    BY Zenon, <2>3 DEF Stream!Next
<1>4. CASE UNCHANGED <<mode, head, delivered, closed>> /\ (processor' = "end" <=> processor = "end")
  BY Zenon, <1>4, Stutters
<1>5. CASE HeadersDone \/ AddFetch \/ Reconstruct
  BY Zenon, <1>4, <1>5 DEF HeadersDone, AddFetch, Reconstruct
<1>6. CASE Reserved \/ Delivered
  BY Zenon, <1>4, <1>6 DEF Reserved, Delivered, Wake
<1>7. CASE ResultsCheck \/ ResultsLock \/ ResultsWoken \/ SetThrottleThreshold
  BY Zenon, <1>4, <1>7 DEF ResultsCheck, ResultsLock, ResultsWoken, SetThrottleThreshold
<1>8. ASSUME NEW k \in Kind, Idle(k) \/ NoMoreTasks(k) \/ PendingEmpty(k) \/ InFlight(k)
      PROVE  UNCHANGED Stream!streamVars
  BY Zenon, <1>8, Stutters DEF Idle, NoMoreTasks, PendingEmpty, InFlight
<1>9. ASSUME NEW p \in Peers, Unregister(p) \/ Revoke(p) PROVE UNCHANGED Stream!streamVars
  BY Zenon, <1>9, Stutters DEF Unregister, Revoke
<1>10. ASSUME NEW k \in Kind, NEW p \in Peers, NEW c \in 1..MaxCount, reserveHeaders(k, p, c)
       PROVE  UNCHANGED Stream!streamVars
  <2>1. UNCHANGED <<mode, head, delivered, closed, processor>>
    BY Zenon, <1>10 DEF reserveHeaders, storeVars, procVars
  <2>2. QED
    BY Zenon, <2>1, Stutters
<1>11. ASSUME NEW k \in Kind, NEW p \in Peers, NEW valid \in SUBSET pendPool[k][p],
              NEW some \in BOOLEAN, deliver(k, p, valid, some)
       PROVE  UNCHANGED Stream!streamVars
  <2>1. UNCHANGED <<mode, head, delivered, closed, processor>>
    BY Zenon, <1>11 DEF deliver, storeVars, procVars
  <2>2. QED
    BY Zenon, <2>1, Stutters
<1>12. ASSUME NEW k \in Kind, NEW p \in Peers, expire(k, p) PROVE UNCHANGED Stream!streamVars
  BY Zenon, <1>12, Stutters DEF expire
<1>13. CASE UNCHANGED vars
  BY Zenon, <1>4, <1>13 DEF vars
<1>14. QED
  BY Zenon, <1>1, <1>2, <1>3, <1>5, <1>6, <1>7, <1>8, <1>9, <1>10, <1>11, <1>12, <1>13 DEF Next

\* Whatever the peers do, the block processor gets the blocks of the chain in
\* order, each once and complete, in batches of at most maxResultsProcess, and
\* stops only after Close.
THEOREM RefinesStream == Spec => ImplementsStream
<1>1. Init => Stream!Init
  <2> SUFFICES ASSUME Init PROVE Stream!Init
    OBVIOUS
  <2>1. mode \in {"full", "fast"}
    BY Zenon, TypeInit DEF TypeOK, Mode
  <2>2. (processor = "end") = FALSE
    BY Zenon DEF Init
  <2>3. QED
    BY Zenon, <2>1, <2>2 DEF Init, Stream!Init
<1>2. QED
  BY <1>1, RefinesNext, Invariance, PTL DEF Spec, ImplementsStream, Stream!Spec
=============================================================================
