--------------------------- MODULE DownloadQueue ----------------------------
(***************************************************************************)
(* The content half of one synchronisation cycle of mxt/downloader: the    *)
(* queue of body and receipt downloads (queue.go), the store of results    *)
(* being assembled (resultstore.go), the two fetchParts loops that give    *)
(* the tasks to peers (downloader.go) and the block processor that calls   *)
(* Results.                                                                *)
(*                                                                         *)
(* Abstractions.  Schedule enforces number and ancestry, so the headers of *)
(* a cycle are one chain and a header is its number.  Tasks are popped in  *)
(* the order of their numbers, so a request is a set.  A delivered body or *)
(* receipt list is the number of the header it validates against.  A peer  *)
(* that reconnects is another peer.                                        *)
(*                                                                         *)
(* queue.lock is held from the start to the end of a reservation or a      *)
(* delivery (op), but the store has a lock of its own, and the block       *)
(* processor takes results under that one alone.                           *)
(***************************************************************************)
EXTENDS Naturals, FiniteSets, Sequences

CONSTANTS
  Peers,
  MaxNumber,          \* bound: the last block of the chain
  MaxCount,           \* bound: capacity of a peer, in headers per request
  WithBody,           \* the blocks that are not EmptyBody
  WithReceipts,       \* the blocks that are not EmptyReceipts
  Size,               \* slots of the result store, blockCacheMaxItems
  Initial,            \* blockCacheInitialItems, the threshold at first
  maxResultsProcess,  \* results imported at once
  minFails,           \* a peer that lets more than this expire is kept
  Start               \* modes, chain heights and peers a cycle may start with

Number == 1..MaxNumber
Kind == {"body", "receipt"}
Mode == {"full", "fast"}

ASSUME QueueAssumption ==
  /\ MaxNumber \in Nat /\ MaxCount \in Nat \ {0}
  /\ Size \in Nat \ {0} /\ Initial \in 1..Size
  /\ maxResultsProcess \in Nat \ {0} /\ minFails \in Nat
  /\ WithBody \subseteq Number /\ WithReceipts \subseteq Number
  /\ Start \subseteq [mode : Mode, last : Number, peers : SUBSET Peers, reliable : SUBSET Peers]

VARIABLES
  mode,         \* queue.mode
  last,         \* number of the last header of the chain
  head,         \* number of queue.headerHead
  headersDone,  \* processHeaders has seen the last header
  taskPool,     \* blockTaskPool and receiptTaskPool
  taskQueue,    \* blockTaskQueue and receiptTaskQueue
  pendPool,     \* blockPendPool and receiptPendPool, {} where there is none
  items,        \* resultStore.items
  resultOffset,
  indexIncomplete,
  throttleThreshold,
  closed,
  op,           \* what the holder of queue.lock has done so far
  fetcher,      \* the fetchParts loops
  finished,     \* their flag: no more headers come
  idles,        \* the idle peers a loop still has to serve in its round
  registered,   \* peers of the peer set
  departed,     \* history: some peer was unregistered
  leaving,      \* unregistered peers whose requests are not revoked yet
  busy,         \* peers whose blockIdle or receiptIdle is set
  lacking,      \* headers a peer is known not to have the data of
  processor,    \* the block processor
  delivered,    \* history: the results it got
  aborted,      \* the cycle failed or was cancelled
  panicked,
  reliable      \* peers that answer in full, in time, and stay

queueVars == <<mode, last, head, headersDone, taskPool, taskQueue, pendPool, closed>>
storeVars == <<items, resultOffset, indexIncomplete, throttleThreshold>>
peerVars == <<registered, departed, leaving, busy, lacking, reliable>>
procVars == <<processor, delivered, aborted>>
loopVars == <<fetcher, finished, idles>>
vars == <<queueVars, storeVars, peerVars, procVars, loopVars, op, panicked>>

-----------------------------------------------------------------------------
(* The result store. *)

Index == 0..(Size - 1)
NoItem == [header |-> 0]
NoOp == [type |-> "none"]

\* newFetchResult: the parts a result waits for.
PartsM(n, m) == {k \in Kind : k = "body" /\ n \in WithBody}
Parts(n, m) ==
  {k \in Kind : IF k = "body" THEN n \in WithBody ELSE m = "fast" /\ n \in WithReceipts}

newFetchResult(n, m) ==
  [header |-> n, pending |-> Parts(n, m), data |-> [k \in Kind |-> 0]]

\* The task at the front of a priority queue: the lowest number.
Peek(tasks) == {n \in tasks : \A m \in tasks : n <= m}

AllDone(item) == item # NoItem /\ item.pending = {}
HasCompletedItems == AllDone(items[0])

\* getFetchResult: the block was delivered already.
StaleM(n) == n <= resultOffset
Stale(n) == n < resultOffset

\* c is the count of the completed items at the front, counted on from where
\* the last count ended.
countCompletedM(c) ==
  /\ \A i \in indexIncomplete..(c - 1) : items[i] # NoItem
  /\ c < Size => items[c] = NoItem
countCompleted(c) ==
  /\ \A i \in indexIncomplete..(c - 1) : AllDone(items[i])
  /\ c < Size => ~AllDone(items[c])

\* queue.active.Signal: it wakes the block processor if it waits.
WakeM(p) == p
Wake(p) == IF p = "wait" THEN "woken" ELSE p

-----------------------------------------------------------------------------

\* Reset of the queue and of the peers, and Prepare with the first block.
Init ==
  /\ \E s \in Start :
       mode = s.mode /\ last = s.last /\ registered = s.peers /\ reliable = s.reliable
  /\ head = 0
  /\ headersDone = FALSE
  /\ taskPool = [k \in Kind |-> {}]
  /\ taskQueue = [k \in Kind |-> {}]
  /\ pendPool = [k \in Kind |-> [p \in Peers |-> {}]]
  /\ items = [i \in Index |-> NoItem]
  /\ resultOffset = 1
  /\ indexIncomplete = 0
  /\ throttleThreshold = Initial
  /\ closed = FALSE
  /\ op = NoOp
  /\ fetcher = [k \in Kind |-> "run"]
  /\ finished = [k \in Kind |-> FALSE]
  /\ idles = [k \in Kind |-> {}]
  /\ busy = [k \in Kind |-> {}]
  /\ lacking = [p \in Peers |-> {}]
  /\ processor = "check"
  /\ delivered = <<>>
  /\ aborted = FALSE
  /\ leaving = {} /\ departed = FALSE
  /\ panicked = FALSE

-----------------------------------------------------------------------------
(* processHeaders. *)

\* Schedule of the next headers of the chain; it stops at one that is not.
Schedule(c) ==
  LET new == (head + 1)..(head + c)
      tasks == [k \in Kind |-> IF k = "body" THEN new
                               ELSE {n \in new : mode = "fast" /\ n \in WithReceipts}]
  IN  /\ op = NoOp /\ ~headersDone
      /\ head + c <= last
      /\ head' = head + c
      /\ taskPool' = [k \in Kind |-> taskPool[k] \cup tasks[k]]
      /\ taskQueue' = [k \in Kind |-> taskQueue[k] \cup (tasks[k] \ taskPool[k])]
      /\ UNCHANGED <<mode, last, headersDone, pendPool, closed, storeVars, peerVars, procVars,
                     op, loopVars, panicked>>

\* The last header: the wake channels carry the news to both loops.
HeadersDone ==
  /\ ~headersDone
  /\ headersDone' = TRUE
  /\ UNCHANGED <<mode, last, head, taskPool, taskQueue, pendPool, closed, storeVars, peerVars,
                 procVars, op, loopVars, panicked>>

-----------------------------------------------------------------------------
(* A fetchParts loop: reserve tasks for an idle peer. *)

\* A round of the loop serves the peers that are idle now, even if one leaves
\* before its turn.
Idle(k) ==
  /\ op = NoOp /\ fetcher[k] = "run" /\ idles[k] = {}
  /\ taskQueue[k] # {} /\ registered \ busy[k] # {}
  /\ idles' = [idles EXCEPT ![k] = registered \ busy[k]]
  /\ UNCHANGED <<queueVars, storeVars, peerVars, procVars, op, fetcher, finished, panicked>>

\* The round ends early when there are no more tasks.
NoMoreTasks(k) ==
  /\ op = NoOp /\ idles[k] # {} /\ taskQueue[k] = {}
  /\ idles' = [idles EXCEPT ![k] = {}]
  /\ UNCHANGED <<queueVars, storeVars, peerVars, procVars, op, fetcher, finished, panicked>>

reserveHeaders(k, p, count) ==
  /\ op = NoOp /\ p \in idles[k] /\ taskQueue[k] # {}
  /\ idles' = [idles EXCEPT ![k] = @ \ {p}]
  /\ op' = IF pendPool[k][p] # {} THEN op
           ELSE [type |-> "reserve", kind |-> k, peer |-> p, count |-> count,
                 send |-> {}, skip |-> {}, throttled |-> FALSE]
  /\ UNCHANGED <<queueVars, storeVars, peerVars, procVars, fetcher, finished,
                 panicked>>

Reserving ==
  /\ op.type = "reserve" /\ ~op.throttled
  /\ Cardinality(op.send) < op.count
  /\ taskQueue[op.kind] # {}

\* One round of the loop of reserveHeaders: peek, AddFetch, pop.
AddFetch ==
  /\ Reserving
  /\ \E n \in Peek(taskQueue[op.kind]) :
     LET k == op.kind
         throttle == n >= resultOffset + throttleThreshold
         i == n - resultOffset
         item == IF items[i] = NoItem THEN newFetchResult(n, mode) ELSE items[i]
         done == k \notin item.pending
     IN  /\ op' = IF Stale(n) THEN op
                  ELSE IF throttle THEN [op EXCEPT !.throttled = TRUE]
                  ELSE IF done THEN op
                  ELSE IF n \in lacking[op.peer] THEN [op EXCEPT !.skip = @ \cup {n}]
                  ELSE [op EXCEPT !.send = @ \cup {n}]
         /\ taskQueue' = IF ~Stale(n) /\ throttle THEN taskQueue
                         ELSE [taskQueue EXCEPT ![k] = @ \ {n}]
         /\ taskPool' = IF Stale(n) \/ (~throttle /\ done)
                        THEN [taskPool EXCEPT ![k] = @ \ {n}] ELSE taskPool
         /\ items' = IF Stale(n) \/ throttle THEN items ELSE [items EXCEPT ![i] = item]
  /\ UNCHANGED <<mode, last, head, headersDone, pendPool, closed, resultOffset, indexIncomplete,
                 throttleThreshold, peerVars, procVars, loopVars, panicked>>

\* Its end, and the request that fetchParts then sends.  A peer that is busy
\* already is a panic.
Reserved ==
  /\ op.type = "reserve" /\ ~Reserving /\ ~panicked
  /\ taskQueue' = [taskQueue EXCEPT ![op.kind] = @ \cup op.skip]
  /\ processor' = IF HasCompletedItems THEN Wake(processor) ELSE processor
  /\ pendPool' = [pendPool EXCEPT ![op.kind][op.peer] = op.send]
  /\ busy' = IF op.send = {} THEN busy ELSE [busy EXCEPT ![op.kind] = @ \cup {op.peer}]
  /\ panicked' = (op.send # {} /\ op.peer \in busy[op.kind])
  /\ idles' = IF op.throttled /\ op.skip = {} THEN [idles EXCEPT ![op.kind] = {}] ELSE idles
  /\ op' = NoOp
  /\ UNCHANGED <<mode, last, head, headersDone, taskPool, closed, storeVars, registered, departed,
                 leaving, lacking, reliable, delivered, aborted, fetcher, finished>>

-----------------------------------------------------------------------------
(* A fetchParts loop: an answer, or a timeout. *)

\* The request of a peer is removed; the peer is idle again.
UnassignM(k, p) == pendPool
Unassign(k, p) == [pendPool EXCEPT ![k][p] = {}]

setIdle(k, p, accepted) == [busy EXCEPT ![k] = @ \ {p}]

Waits(k) == fetcher[k] = "run" /\ idles[k] = {}

\* deliver: `valid` is the part of the answer that validates, in the order of
\* the request; `some` says that the answer has anything at all.  An answer
\* that nothing is pending for (errNoFetchesPending) just sets the peer idle.
deliver(k, p, valid, some) ==
  LET request == pendPool[k][p]
  IN  /\ op = NoOp /\ Waits(k) /\ p \in registered
      /\ valid \subseteq request /\ \A n \in valid, m \in request : m < n => m \in valid
      /\ valid # {} => some
      /\ p \in reliable => valid = request
      /\ pendPool' = Unassign(k, p)
      /\ lacking' = IF some THEN lacking ELSE [lacking EXCEPT ![p] = @ \cup request]
      /\ op' = IF request = {} THEN op
               ELSE [type |-> "deliver", kind |-> k, peer |-> p,
                     todo |-> valid, rest |-> request \ valid, accepted |-> 0]
      /\ busy' = IF request = {} THEN setIdle(k, p, 0) ELSE busy
      /\ UNCHANGED <<mode, last, head, headersDone, taskPool, taskQueue, closed, storeVars,
                     registered, departed, leaving, reliable, procVars, loopVars, panicked>>

\* The closures of DeliverBodies and DeliverReceipts: a part arrives.
reconstruct(item, k, n) ==
  [header |-> item.header, pending |-> item.pending \ {k}, data |-> [item.data EXCEPT ![k] = n]]

\* GetDeliverySlot and reconstruct, for the next header.
Reconstruct ==
  /\ op.type = "deliver" /\ op.todo # {} /\ ~panicked
  /\ \E n \in Peek(op.todo) :
     LET k == op.kind
         i == n - resultOffset
         nil == Stale(n) \/ items[i] = NoItem
         beyond == n >= resultOffset + Size
     IN  /\ panicked' = (~beyond /\ nil)
         /\ items' = IF beyond \/ nil THEN items
                     ELSE [items EXCEPT ![i] = reconstruct(items[i], k, n)]
         /\ taskPool' = [taskPool EXCEPT ![k] = @ \ {n}]
         /\ op' = [op EXCEPT !.todo = @ \ {n}, !.accepted = @ + 1]
  /\ UNCHANGED <<mode, last, head, headersDone, taskQueue, pendPool, closed, resultOffset,
                 indexIncomplete, throttleThreshold, peerVars, procVars, loopVars>>

\* The rest goes back, and fetchParts sets the peer idle.
Delivered ==
  /\ op.type = "deliver" /\ op.todo = {}
  /\ taskQueue' = [taskQueue EXCEPT ![op.kind] = @ \cup op.rest]
  /\ processor' = IF op.accepted > 0 THEN Wake(processor) ELSE processor
  /\ busy' = setIdle(op.kind, op.peer, op.accepted)
  /\ op' = NoOp
  /\ UNCHANGED <<mode, last, head, headersDone, taskPool, pendPool, closed, storeVars, registered,
                 departed, leaving, lacking, reliable, delivered, aborted, loopVars, panicked>>

\* expire: the request returns to the queue.  A known peer that let a small
\* request expire is dropped, the others are idle again.
expire(k, p) ==
  LET request == pendPool[k][p]
      drop == p \in registered /\ Cardinality(request) <= minFails
  IN  /\ op = NoOp /\ Waits(k)
      /\ request # {} /\ p \notin reliable
      /\ taskQueue' = [taskQueue EXCEPT ![k] = @ \cup request]
      /\ pendPool' = Unassign(k, p)
      /\ busy' = IF p \in registered /\ ~drop THEN setIdle(k, p, 0) ELSE busy
      /\ registered' = IF drop THEN registered \ {p} ELSE registered
      /\ leaving' = IF drop THEN leaving \cup {p} ELSE leaving
      /\ departed' = (departed \/ drop)
      /\ UNCHANGED <<mode, last, head, headersDone, taskPool, closed, storeVars, lacking, reliable,
                     procVars, op, loopVars, panicked>>

\* The loop sees an empty task queue, and then whether requests are in flight.
\* The lock is released in between; the end of the headers is known by then.
PendingEmpty(k) ==
  /\ op = NoOp /\ Waits(k)
  /\ taskQueue[k] = {}
  /\ fetcher' = [fetcher EXCEPT ![k] = "drained"]
  /\ finished' = [finished EXCEPT ![k] = headersDone]
  /\ UNCHANGED <<queueVars, storeVars, peerVars, procVars, idles, op, panicked>>

NoneInFlightM(k) == TRUE
NoneInFlight(k) == \A p \in Peers : pendPool[k][p] = {}

InFlight(k) ==
  /\ op = NoOp /\ fetcher[k] = "drained"
  /\ fetcher' = [fetcher EXCEPT ![k] =
                   IF finished[k] /\ NoneInFlight(k) THEN "done" ELSE "run"]
  /\ UNCHANGED <<queueVars, storeVars, peerVars, procVars, idles, finished, op,
                 panicked>>

-----------------------------------------------------------------------------
(* UnregisterPeer, by the protocol handler: the peer set, then Revoke. *)

Unregister(p) ==
  /\ p \in registered /\ p \notin reliable
  /\ registered' = registered \ {p}
  /\ leaving' = leaving \cup {p}
  /\ departed' = TRUE
  /\ UNCHANGED <<queueVars, storeVars, busy, lacking, reliable, procVars, op, loopVars,
                 panicked>>

Revoke(p) ==
  /\ op = NoOp /\ p \in leaving
  /\ leaving' = leaving \ {p}
  /\ taskQueue' = [k \in Kind |-> taskQueue[k] \cup pendPool[k][p]]
  /\ pendPool' = [k \in Kind |-> [pendPool[k] EXCEPT ![p] = {}]]
  /\ UNCHANGED <<mode, last, head, headersDone, taskPool, closed, storeVars, registered, departed, busy,
                 lacking, reliable, procVars, op, loopVars, panicked>>

-----------------------------------------------------------------------------
(* The block processor in Results. *)

ResultsCheck ==
  /\ processor = "check"
  /\ processor' = IF HasCompletedItems THEN "take" ELSE "lock"
  /\ UNCHANGED <<queueVars, storeVars, peerVars, delivered, aborted, op, loopVars, panicked>>

\* Check again with the lock; Wait releases it.
NeedNotWaitM == closed
NeedNotWait == HasCompletedItems \/ closed

ResultsLock ==
  /\ op = NoOp /\ processor = "lock"
  /\ processor' = IF NeedNotWait THEN "take" ELSE "wait"
  /\ UNCHANGED <<queueVars, storeVars, peerVars, delivered, aborted, op, loopVars, panicked>>

ResultsWoken ==
  /\ op = NoOp /\ processor = "woken"
  /\ processor' = IF closed THEN "take" ELSE "check"
  /\ UNCHANGED <<queueVars, storeVars, peerVars, delivered, aborted, op, loopVars, panicked>>

\* The processor ends when it gets nothing.
GetCompleted ==
  /\ processor = "take"
  /\ \E completed \in indexIncomplete..Size :
       LET limit == IF maxResultsProcess > completed THEN completed ELSE maxResultsProcess
       IN  /\ countCompleted(completed)
           /\ delivered' = delivered \o [j \in 1..limit |-> items[j - 1]]
           /\ items' = [i \in Index |-> IF i + limit < Size THEN items[i + limit] ELSE NoItem]
           /\ resultOffset' = resultOffset + limit
           /\ indexIncomplete' = completed - limit
           /\ processor' = IF limit = 0 THEN "end" ELSE "calibrate"
  /\ UNCHANGED <<queueVars, throttleThreshold, peerVars, aborted, op, loopVars, panicked>>

\* The threshold for the size of the results, capped by the slots.
Threshold == 1..Size

SetThrottleThreshold ==
  /\ processor = "calibrate"
  /\ throttleThreshold' \in Threshold
  /\ processor' = "check"
  /\ UNCHANGED <<queueVars, items, resultOffset, indexIncomplete, peerVars, delivered, aborted,
                 op, loopVars, panicked>>

-----------------------------------------------------------------------------
(* The end of the cycle. *)

\* spawnSync closes the queue when all fetchers have exited, or one failed.
Close ==
  /\ op = NoOp /\ ~closed
  /\ aborted' \in BOOLEAN
  /\ ~aborted' => headersDone /\ \A k \in Kind : fetcher[k] = "done"
  /\ closed' = TRUE
  /\ processor' = Wake(processor)
  /\ UNCHANGED <<mode, last, head, headersDone, taskPool, taskQueue, pendPool, storeVars, peerVars,
                 delivered, op, loopVars, panicked>>

-----------------------------------------------------------------------------

Next ==
  \/ \E c \in 1..MaxCount : Schedule(c)
  \/ HeadersDone
  \/ \E k \in Kind, p \in Peers :
       \/ \E count \in 1..MaxCount : reserveHeaders(k, p, count)
       \/ \E valid \in SUBSET pendPool[k][p], some \in BOOLEAN : deliver(k, p, valid, some)
       \/ expire(k, p)
  \/ AddFetch \/ Reserved \/ Reconstruct \/ Delivered
  \/ \E k \in Kind : Idle(k) \/ NoMoreTasks(k) \/ PendingEmpty(k) \/ InFlight(k)
  \/ \E p \in Peers : Unregister(p) \/ Revoke(p)
  \/ ResultsCheck \/ ResultsLock \/ ResultsWoken \/ GetCompleted \/ SetThrottleThreshold
  \/ Close

Spec == Init /\ [][Next]_vars

\* The holder of the lock goes on, and so do the loops, the departures and
\* the block processor, which gets the lock (a Go mutex hands itself to a
\* starving waiter).  A loop neither ignores a reliable peer's answer nor a
\* timeout, and a reliable peer gets its turn: the idle peers are served by
\* their throughput, and one that let a request expire comes last.  New
\* headers need not come.
Round(k) ==
  \/ Idle(k) \/ NoMoreTasks(k) \/ PendingEmpty(k) \/ InFlight(k)
  \/ \E p \in Peers, count \in 1..MaxCount : reserveHeaders(k, p, count)

Fairness ==
  /\ WF_vars(AddFetch \/ Reserved \/ Reconstruct \/ Delivered)
  /\ \A k \in Kind : SF_vars(Round(k))
  /\ SF_vars(\E k \in Kind, p \in reliable, count \in 1..MaxCount : reserveHeaders(k, p, count))
  /\ SF_vars(\E k \in Kind, p \in reliable : deliver(k, p, pendPool[k][p], TRUE))
  /\ SF_vars(\E k \in Kind, p \in Peers : expire(k, p))
  /\ WF_vars(\E p \in Peers : Revoke(p))
  /\ WF_vars(ResultsCheck \/ GetCompleted \/ SetThrottleThreshold)
  /\ SF_vars(ResultsLock \/ ResultsWoken)
  /\ WF_vars(Close /\ ~aborted')

FairSpec == Spec /\ Fairness

-----------------------------------------------------------------------------
(* Properties. *)

\* A result as newFetchResult makes it and reconstruct fills it.
Item == [header : Number, pending : SUBSET Kind, data : [Kind -> 0..MaxNumber]]

\* A reservation and a delivery in progress.
Reservation ==
  [type : {"reserve"}, kind : Kind, peer : Peers, count : 1..MaxCount,
   send : SUBSET Number, skip : SUBSET Number, throttled : BOOLEAN]
Delivery ==
  [type : {"deliver"}, kind : Kind, peer : Peers, todo : SUBSET Number,
   rest : SUBSET Number, accepted : Nat]

\* The fields of struct queue and struct resultStore hold what they declare.
TypeOK ==
  /\ mode \in Mode /\ last \in Number /\ head \in 0..MaxNumber /\ headersDone \in BOOLEAN
  /\ taskPool \in [Kind -> SUBSET Number] /\ taskQueue \in [Kind -> SUBSET Number]
  /\ pendPool \in [Kind -> [Peers -> SUBSET Number]]
  /\ items \in [Index -> Item \cup {NoItem}]
  /\ resultOffset \in 1..(MaxNumber + 1)
  /\ indexIncomplete \in 0..Size /\ throttleThreshold \in 1..Size
  /\ closed \in BOOLEAN
  /\ op \in {NoOp} \cup Reservation \cup Delivery
  /\ fetcher \in [Kind -> {"run", "drained", "done"}] /\ finished \in [Kind -> BOOLEAN]
  /\ idles \in [Kind -> SUBSET Peers] /\ busy \in [Kind -> SUBSET Peers]
  /\ registered \subseteq Peers /\ leaving \subseteq Peers /\ reliable \subseteq Peers
  /\ lacking \in [Peers -> SUBSET Number]
  /\ processor \in {"check", "lock", "wait", "woken", "take", "calibrate", "end"}
  /\ delivered \in Seq(Item)
  /\ aborted \in BOOLEAN /\ panicked \in BOOLEAN /\ departed \in BOOLEAN

\* The tasks the holder of the lock has in its hands.
InHand(k) ==
  IF op = NoOp \/ op.kind # k THEN {}
  ELSE IF op.type = "reserve" THEN op.send \cup op.skip ELSE op.todo \cup op.rest

\* Nothing is lost and nothing is fetched twice: a task of the pool is in the
\* task queue, in the request of one peer, or in the hands of the operation
\* in progress, and nothing else is.  Timeouts, revocations and partial or
\* useless answers move tasks between them.
EveryTaskInOnePlace ==
  \A k \in Kind :
    /\ taskPool[k] = taskQueue[k] \cup InHand(k) \cup UNION {pendPool[k][p] : p \in Peers}
    /\ taskQueue[k] \cap InHand(k) = {}
    /\ \A p \in Peers :
         /\ pendPool[k][p] \cap (taskQueue[k] \cup InHand(k)) = {}
         /\ \A q \in Peers \ {p} : pendPool[k][p] \cap pendPool[k][q] = {}

\* No block is forgotten: as long as it is not delivered, what it waits for is
\* a task, and so is the body that makes reserveHeaders create its result.
NothingForgotten ==
  \A n \in resultOffset..head :
    LET item == IF n < resultOffset + Size THEN items[n - resultOffset] ELSE NoItem
    IN  IF item = NoItem
        THEN \A k \in Parts(n, mode) \cup {"body"} : n \in taskPool[k]
        ELSE item.header = n /\ \A k \in item.pending : n \in taskPool[k]

\* Only blocks whose result is in the store and waits for the part are
\* requested, so that an answer has a slot: neither GetDeliverySlot's nil nor
\* a doubly allocated peer is ever met.
NoPanic == ~panicked

\* Results returns the blocks of the chain in order, each once and with the
\* parts it has, whatever the order they arrived in, and nothing only after
\* Close: the processor gets the stream of BlockStream.
Stream == INSTANCE BlockStream WITH ended <- (processor = "end")
ImplementsStream == Stream!Spec

\* A processor that waits has nothing to process: no wake-up is lost between
\* its check and its wait.  (The holder of the lock may be about to signal.)
NoLostWakeup == processor = "wait" /\ op = NoOp => ~HasCompletedItems /\ ~closed

\* A peer counts as busy exactly while it has a request: none is left idle
\* with one, and none is forgotten as busy.
BusyHasRequest ==
  op = NoOp => \A k \in Kind, p \in registered : p \in busy[k] <=> pendPool[k][p] # {}

\* A loop that ends with tasks left has lost a peer in its last round.
StrandedByRevoke ==
  \A k \in Kind : fetcher[k] = "done" /\ taskPool[k] # {} => departed

\* With a reliable peer, whatever is scheduled is delivered, or the cycle ends.
Progress ==
  \A n \in Number : n <= head /\ reliable # {} ~> n < resultOffset \/ closed

\* A closed queue ends the block processor, which may be asleep in Results.
ProcessorEnds == closed ~> processor = "end"

\* "If there's nothing more to fetch, wait or terminate" (downloader.go:1416):
\* a fetch loop that has terminated has left no task behind.
FetchersFinish == \A k \in Kind : fetcher[k] = "done" => taskPool[k] = {}
=============================================================================
