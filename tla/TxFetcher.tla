------------------------------ MODULE TxFetcher ------------------------------
(***************************************************************************)
(* The announcement based transaction fetcher, mxt/fetcher/tx_fetcher.go.  *)
(*                                                                         *)
(* One goroutine runs loop() and owns every tracker.  The handler          *)
(* goroutine of each peer calls Notify and Enqueue, which first read or    *)
(* write state shared with the other handlers (the pool, the underpriced   *)
(* set) and then block until the loop takes their message.  Drop is called *)
(* when a peer goes away and by the goroutine whose retrieval failed.      *)
(*                                                                         *)
(* Abstractions.  A Go map from keys to sets is a total function whose     *)
(* absent keys map to {}; CoreInv shows that the code keeps no entry with  *)
(* an empty set where it could tell the two apart.  Clock readings are     *)
(* abstracted: a trigger finds an arbitrary subset of the entries expired. *)
(* The pool is external: hasTx and addTxs answer anything.  Go's map       *)
(* iteration order is arbitrary, so the order of a request's hashes is     *)
(* chosen when it matters, at the delivery.                                *)
(***************************************************************************)
EXTENDS Naturals, FiniteSets

CONSTANTS
  Hash,                     \* transaction hashes
  Cheap,                    \* the ones the pool may find underpriced
  Peer,                     \* peer identifiers
  NoPeer,                   \* "not being fetched"
  maxTxAnnounces,           \* announcements tracked per peer
  maxTxRetrievals,          \* hashes per request
  maxTxUnderpricedSetSize,  \* remembered underpriced transactions
  MaxBusy                   \* bound: handlers inside the fetcher at once

ASSUME FetcherAssumption ==
  /\ NoPeer \notin Peer
  /\ Cheap \subseteq Hash
  /\ IsFiniteSet(Peer) /\ IsFiniteSet(Hash)
  /\ maxTxAnnounces \in Nat \ {0}
  /\ maxTxRetrievals \in Nat \ {0}
  /\ maxTxUnderpricedSetSize \in Nat \ {0}
  /\ MaxBusy \in Nat

VARIABLES
  \* Stage 1, newly announced transactions waiting for a broadcast
  waitlist,     \* [Hash -> SUBSET Peer], who announced a waiting hash
  waittime,     \* the hashes that have a waiting deadline
  waitslots,    \* [Peer -> SUBSET Hash], waitlist grouped by peer
  waitTimer,    \* the wait timer is armed, or its trigger is pending
  \* Stages 2 and 3, queued and in-flight transactions
  core,         \* the trackers below, as one record
  timeoutTimer, \* the timeout timer is armed, or its trigger is pending
  \* Shared with the handlers
  underpriced,  \* transactions discarded as too cheap
  handler,      \* what each peer's handler goroutine is blocked sending
  quit,         \* the quit channel is closed
  panicked      \* the loop ran into one of its panics or a nil request

waitVars == <<waitlist, waittime, waitslots, waitTimer>>
vars == <<waitlist, waittime, waitslots, waitTimer, core, timeoutTimer,
          underpriced, handler, quit, panicked>>

Core ==
  [announces  : [Peer -> SUBSET Hash],      \* announced by the peer
   announced  : [Hash -> SUBSET Peer],      \* queued, with its origins
   fetching   : [Hash -> Peer \cup {NoPeer}],
   alternates : [Hash -> SUBSET Peer],      \* origins of an in-flight hash
   busy       : SUBSET Peer,                \* peers with a txRequest
   hashes     : [Peer -> SUBSET Hash],      \* txRequest.hashes
   stolen     : [Peer -> SUBSET Hash]]      \* txRequest.stolen

Message ==
  [op : {"idle", "notify", "cleanup"}, hashes : SUBSET Hash, direct : BOOLEAN]

Idle == [op |-> "idle", hashes |-> {}, direct |-> FALSE]

Init ==
  /\ waitlist = [h \in Hash |-> {}]
  /\ waittime = {}
  /\ waitslots = [p \in Peer |-> {}]
  /\ waitTimer = FALSE
  /\ core = [announces  |-> [p \in Peer |-> {}],
             announced  |-> [h \in Hash |-> {}],
             fetching   |-> [h \in Hash |-> NoPeer],
             alternates |-> [h \in Hash |-> {}],
             busy       |-> {},
             hashes     |-> [p \in Peer |-> {}],
             stolen     |-> [p \in Peer |-> {}]]
  /\ timeoutTimer = FALSE
  /\ underpriced = {}
  /\ handler = [p \in Peer |-> Idle]
  /\ quit = FALSE
  /\ panicked = FALSE

-----------------------------------------------------------------------------
(* Handler goroutines. *)

CanEnter(p) ==
  /\ ~quit
  /\ handler[p] = Idle
  /\ Cardinality({q \in Peer : handler[q] # Idle}) < MaxBusy

\* What Notify passes on: neither in the pool nor remembered as too cheap.
Unknowns(hashes, pool) == hashes \ (pool \cup underpriced)

Notify(p, hashes, pool) ==
  /\ CanEnter(p)
  /\ Unknowns(hashes, pool) # {}
  /\ handler' = [handler EXCEPT ![p] =
       [op |-> "notify", hashes |-> Unknowns(hashes, pool), direct |-> FALSE]]
  /\ UNCHANGED <<waitVars, core, timeoutTimer, underpriced, quit, panicked>>

\* The underpriced set after remembering cheap: Pop evicts arbitrary members
\* once the limit is reached (an over-approximation for batches).
Remember(cheap) ==
  IF cheap = {} \/ Cardinality(underpriced \cup cheap) < maxTxUnderpricedSetSize
  THEN {underpriced \cup cheap}
  ELSE {s \in SUBSET (underpriced \cup cheap) :
          /\ Cardinality(s) \in {maxTxUnderpricedSetSize - 1, maxTxUnderpricedSetSize}
          /\ s \cap cheap # {}}

\* addTxs rejects cheap as underpriced and takes, knows or rejects the rest;
\* all of txs are handed to the loop as delivered.
Enqueue(p, txs, cheap, direct) ==
  /\ CanEnter(p)
  /\ underpriced' \in Remember(cheap)
  /\ handler' = [handler EXCEPT ![p] =
       [op |-> "cleanup", hashes |-> txs, direct |-> direct]]
  /\ UNCHANGED <<waitVars, core, timeoutTimer, quit, panicked>>

\* A handler blocked on the loop returns errTerminated once quit is closed.
Terminated(p) ==
  /\ quit
  /\ handler[p] # Idle
  /\ handler' = [handler EXCEPT ![p] = Idle]
  /\ UNCHANGED <<waitVars, core, timeoutTimer, underpriced, quit, panicked>>

Stop ==
  /\ ~quit
  /\ quit' = TRUE
  /\ UNCHANGED <<waitVars, core, timeoutTimer, underpriced, handler, panicked>>

-----------------------------------------------------------------------------
(* scheduleFetches. *)

\* Orders in which forEachPeer may visit the peers.
Orders ==
  {order \in [Peer -> 1..Cardinality(Peer)] :
     \A p, q \in Peer : p # q => order[p] # order[q]}

\* Hashes the peer announced that nobody is fetching.
Free(c, p) == {h \in c.announces[p] : c.fetching[h] = NoPeer}

\* What each ready peer is asked for: as much as fits in a request of
\* what the peers visited before it left over.
AllocationsTo(c, ready) ==
  {alloc \in [Peer -> SUBSET Hash] :
     \E order \in Orders : \A p \in Peer :
       LET before == {q \in Peer : order[q] < order[p]}
           left   == {h \in Free(c, p) : \A q \in before : h \notin alloc[q]}
       IN  IF p \in ready
           THEN /\ alloc[p] \subseteq left
                /\ \/ Cardinality(alloc[p]) = maxTxRetrievals
                   \/ alloc[p] = left /\ Cardinality(left) < maxTxRetrievals
           ELSE alloc[p] = {}}

\* Allocations, stopping at a busy peer instead of going on with the next.
AllocationsM(c, actives) ==
  AllocationsTo(c, IF actives \cap c.busy = {} THEN actives ELSE {})

Allocations(c, actives) == AllocationsTo(c, actives \ c.busy)

Taken(alloc) == {h \in Hash : \E p \in Peer : h \in alloc[p]}
Taker(alloc, h) == CHOOSE p \in Peer : h \in alloc[p]

Schedule(c, alloc) ==
  [announces  |-> c.announces,
   announced  |-> [h \in Hash |-> IF h \in Taken(alloc) THEN {} ELSE c.announced[h]],
   fetching   |-> [h \in Hash |-> IF h \in Taken(alloc) THEN Taker(alloc, h) ELSE c.fetching[h]],
   alternates |-> [h \in Hash |-> IF h \in Taken(alloc) THEN c.announced[h] ELSE c.alternates[h]],
   busy       |-> c.busy \cup {p \in Peer : alloc[p] # {}},
   hashes     |-> [p \in Peer |-> IF alloc[p] # {} THEN alloc[p] ELSE c.hashes[p]],
   stolen     |-> [p \in Peer |-> IF alloc[p] # {} THEN {} ELSE c.stolen[p]]]

\* scheduleFetches from the trackers c, as the last call of a loop iteration.
\* It panics on a hash that has alternates already; bad tells whether the
\* iteration had panicked before.  The timer is armed by the first request of
\* an idle fetcher, or stays or was set as timer says.  (Quantifying over
\* {from} makes TLC evaluate it once.)
ScheduleFetches(from, actives, timer, bad) ==
  \E c \in {from} : \E alloc \in Allocations(c, actives) :
    /\ core' = Schedule(c, alloc)
    /\ timeoutTimer' = (timer \/ (c.busy = {} /\ core'.busy # {}))
    /\ panicked' = (panicked \/ bad \/ \E h \in Taken(alloc) : c.alternates[h] # {})

\* An iteration that ends without scheduling anything.
NoSchedule(c, bad) ==
  /\ core' = c
  /\ panicked' = (panicked \/ bad)
  /\ UNCHANGED timeoutTimer

\* Everyone, but only the peers not waiting for an answer, read before the requests
\* of this iteration were closed.
EveryoneM(c) == {p \in Peer : c.announces[p] # {} /\ p \notin core.busy}

\* A nil whitelist stands for every peer with announcements.
Everyone(c) == {p \in Peer : c.announces[p] # {}}

-----------------------------------------------------------------------------
(* The loop. *)

\* The announcements kept when the peer's allowance runs out.
Used(p) == Cardinality(waitslots[p]) + Cardinality(core.announces[p])

Kept(p, hashes) ==
  LET want == Used(p) + Cardinality(hashes)
  IN  IF want > maxTxAnnounces
      THEN {k \in SUBSET hashes : Cardinality(k) = want - maxTxAnnounces}
      ELSE {hashes}

\* p announces hashes that are in flight or queued.
Announce(c, p, inflight, queued) ==
  [c EXCEPT
     !.alternates = [h \in Hash |-> IF h \in inflight THEN @[h] \cup {p} ELSE @[h]],
     !.announced  = [h \in Hash |-> IF h \in queued THEN @[h] \cup {p} ELSE @[h]],
     !.announces[p] = @ \cup inflight \cup queued]

\* p announces hashes that wait or are new.
AnnounceWaiting(p, waiting) ==
  /\ waitlist' = [h \in Hash |-> IF h \in waiting THEN waitlist[h] \cup {p} ELSE waitlist[h]]
  /\ waitslots' = [waitslots EXCEPT ![p] = @ \cup waiting]
  /\ waittime' = waittime \cup waiting
  /\ waitTimer' = (waitTimer \/ (waittime = {} /\ waiting # {}))

\* Announced hashes already being fetched; InflightM overlooks them.
InflightM(kept) == {}
Inflight(kept) == {h \in kept : core.alternates[h] # {}}

\* The announcement of kept by p, split by the stage each hash is in.
TrackAnnounce(p, kept) ==
  LET inflight == Inflight(kept)
      queued   == {h \in kept \ inflight : core.announced[h] # {}}
      c        == Announce(core, p, inflight, queued)
  IN  /\ AnnounceWaiting(p, kept \ (inflight \cup queued))
      /\ IF core.announces[p] = {} /\ c.announces[p] # {}
         THEN ScheduleFetches(c, {p}, timeoutTimer, FALSE)
         ELSE NoSchedule(c, FALSE)

LoopNotify(p) ==
  /\ ~quit
  /\ handler[p].op = "notify"
  /\ handler' = [handler EXCEPT ![p] = Idle]
  /\ UNCHANGED <<underpriced, quit>>
  /\ IF Used(p) >= maxTxAnnounces
     THEN UNCHANGED <<waitVars, core, timeoutTimer, panicked>>
     ELSE \E kept \in Kept(p, handler[p].hashes) : TrackAnnounce(p, kept)

\* Move the expired waiting hashes into the queue of everyone announcing them.
QueueExpired(c, expired) ==
  [c EXCEPT
     !.announced = [h \in Hash |-> IF h \in expired THEN waitlist[h] ELSE @[h]],
     !.announces = [p \in Peer |-> @[p] \cup {h \in expired : p \in waitlist[h]}]]

\* rescheduleWait, when something is still waiting.
RearmWaitM(left) == FALSE
RearmWait(left) == left # {}

WaitTrigger(expired) ==
  /\ ~quit
  /\ waitTimer
  /\ expired \subseteq waittime
  /\ UNCHANGED <<underpriced, handler, quit>>
  /\ waitlist' = [h \in Hash |-> IF h \in expired THEN {} ELSE waitlist[h]]
  /\ waittime' = waittime \ expired
  /\ waitslots' = [p \in Peer |-> waitslots[p] \ {h \in expired : p \in waitlist[h]}]
  /\ waitTimer' = RearmWait(waittime \ expired)
  /\ LET actives == UNION {waitlist[h] : h \in expired}
         c       == QueueExpired(core, expired)
         bad     == \E h \in expired : core.announced[h] # {}
     IN  IF actives # {}
         THEN ScheduleFetches(c, actives, timeoutTimer, bad)
         ELSE NoSchedule(c, bad)

\* The undelivered hashes of a request.
Outstanding(c, p) == c.hashes[p] \ c.stolen[p]

\* Give up on the requests of the late peers; they stay busy, with no hashes.
ExpireRequests(c, late) ==
  LET back == [h \in Hash |-> {p \in late : h \in Outstanding(c, p)}]
  IN  [c EXCEPT
         !.announced  = [h \in Hash |-> IF back[h] # {} /\ c.alternates[h] # {}
                                        THEN c.alternates[h] \ back[h] ELSE @[h] \ back[h]],
         !.announces  = [p \in Peer |-> IF p \in late THEN @[p] \ Outstanding(c, p) ELSE @[p]],
         !.alternates = [h \in Hash |-> IF back[h] # {} THEN {} ELSE @[h]],
         !.fetching   = [h \in Hash |-> IF back[h] # {} THEN NoPeer ELSE @[h]],
         !.hashes     = [p \in Peer |-> IF p \in late THEN {} ELSE @[p]]]

\* The timer is rescheduled whatever the outcome.
RearmTimeoutM == FALSE
RearmTimeout == TRUE

TimeoutTrigger(late) ==
  /\ ~quit
  /\ timeoutTimer
  /\ late \subseteq core.busy
  /\ UNCHANGED <<waitVars, underpriced, handler, quit>>
  /\ LET c   == ExpireRequests(core, late)
         bad == \E p \in late : \E h \in Outstanding(core, p) : core.announced[h] # {}
     IN  ScheduleFetches(c, Everyone(c), RearmTimeout, bad)

\* Stolen, forgetting that the origin of the request may broadcast.
StolenM(c, h, origin, direct) ==
  c.fetching[h] # NoPeer /\ c.fetching[h] # origin

\* The delivery of h is stolen: h is being fetched from somebody else, or
\* origin broadcast it before replying.
Stolen(c, h, origin, direct) ==
  c.fetching[h] # NoPeer /\ (c.fetching[h] # origin \/ ~direct)

\* Untrack, leaving the alternative origins of the hash alone.
UntrackM(c, delivered, origin, direct) ==
  [c EXCEPT
     !.announced  = [h \in Hash |-> IF h \in delivered THEN {} ELSE @[h]],
     !.fetching   = [h \in Hash |-> IF h \in delivered THEN NoPeer ELSE @[h]],
     !.stolen     = [p \in Peer |-> @[p] \cup
                      {h \in delivered : Stolen(c, h, origin, direct) /\ c.fetching[h] = p}]]

\* Remove all traces of delivered hashes past the wait list, and mark the
\* stolen ones.
Untrack(c, delivered, origin, direct) ==
  [c EXCEPT
     !.announces  = [p \in Peer |-> @[p] \ delivered],
     !.announced  = [h \in Hash |-> IF h \in delivered THEN {} ELSE @[h]],
     !.alternates = [h \in Hash |-> IF h \in delivered THEN {} ELSE @[h]],
     !.fetching   = [h \in Hash |-> IF h \in delivered THEN NoPeer ELSE @[h]],
     !.stolen     = [p \in Peer |-> @[p] \cup
                      {h \in delivered : Stolen(c, h, origin, direct) /\ c.fetching[h] = p}]]

\* Close the request of origin: whatever it did not deliver goes back to the
\* queue, without origin for the hashes it skipped.
Left(c, h, origin, skipped) ==
  IF h \in skipped THEN c.alternates[h] \ {origin} ELSE c.alternates[h]

CloseRequest(c, origin, delivered, skipped) ==
  LET open    == Outstanding(c, origin)
      requeue == {h \in open \ delivered : Left(c, h, origin, skipped) # {}}
  IN  [announces  |-> [p \in Peer |-> IF p = origin THEN c.announces[p] \ skipped ELSE c.announces[p]],
       announced  |-> [h \in Hash |-> IF h \in requeue THEN Left(c, h, origin, skipped) ELSE c.announced[h]],
       fetching   |-> [h \in Hash |-> IF h \in open THEN NoPeer ELSE c.fetching[h]],
       alternates |-> [h \in Hash |-> IF h \in open THEN {} ELSE c.alternates[h]],
       busy       |-> c.busy \ {origin},
       hashes     |-> [p \in Peer |-> IF p = origin THEN {} ELSE c.hashes[p]],
       stolen     |-> [p \in Peer |-> IF p = origin THEN {} ELSE c.stolen[p]]]

\* Hashes before the last delivered one were skipped by the peer, those after
\* it may just not have fitted; an empty reply skips everything.
Skipped(c, origin, delivered) ==
  LET missing == Outstanding(c, origin) \ delivered
  IN  IF delivered \cap c.hashes[origin] = {} THEN {missing} ELSE SUBSET missing

LoopCleanup(p) ==
  /\ ~quit
  /\ handler[p].op = "cleanup"
  /\ handler' = [handler EXCEPT ![p] = Idle]
  /\ UNCHANGED <<waitTimer, underpriced, quit>>
  /\ LET delivered == handler[p].hashes
         direct    == handler[p].direct
         waiting   == {h \in delivered : waitlist[h] # {}}
         nilReq    == \E h \in delivered \ waiting :
                        Stolen(core, h, p, direct) /\ core.fetching[h] \notin core.busy
         clash(c, skipped) == \E h \in Outstanding(c, p) \ delivered :
                        Left(c, h, p, skipped) # {} /\ c.announced[h] # {}
     IN  /\ waitlist' = [h \in Hash |-> IF h \in waiting THEN {} ELSE waitlist[h]]
         /\ waitslots' = [q \in Peer |-> waitslots[q] \ waiting]
         /\ waittime' = waittime \ waiting
         /\ \E c \in {Untrack(core, delivered \ waiting, p, direct)} :
              IF direct /\ p \in c.busy
              THEN \E skipped \in Skipped(c, p, delivered) :
                     LET d == CloseRequest(c, p, delivered, skipped)
                     IN  ScheduleFetches(d, Everyone(d), timeoutTimer, nilReq \/ clash(c, skipped))
              ELSE NoSchedule(c, nilReq)

\* CancelRequest, keeping the cancelled hashes marked as in flight.
CancelRequestM(c, p) ==
  [c EXCEPT
     !.announced  = [h \in Hash |-> IF h \in Outstanding(c, p) /\ c.alternates[h] \ {p} # {}
                                    THEN c.alternates[h] \ {p} ELSE @[h]],
     !.alternates = [h \in Hash |-> IF h \in Outstanding(c, p) THEN {} ELSE @[h]],
     !.busy       = @ \ {p},
     !.hashes[p]  = {},
     !.stolen[p]  = {}]

\* Forget the peer: cancel its request, then its queued announcements.
CancelRequest(c, p) ==
  LET open == Outstanding(c, p)
  IN  [announces  |-> c.announces,
       announced  |-> [h \in Hash |-> IF h \in open /\ c.alternates[h] \ {p} # {}
                                      THEN c.alternates[h] \ {p} ELSE c.announced[h]],
       fetching   |-> [h \in Hash |-> IF h \in open THEN NoPeer ELSE c.fetching[h]],
       alternates |-> [h \in Hash |-> IF h \in open THEN {} ELSE c.alternates[h]],
       busy       |-> c.busy \ {p},
       hashes     |-> [q \in Peer |-> IF q = p THEN {} ELSE c.hashes[q]],
       stolen     |-> [q \in Peer |-> IF q = p THEN {} ELSE c.stolen[q]]]

ForgetAnnounces(c, p) ==
  [c EXCEPT
     !.announced = [h \in Hash |-> IF h \in c.announces[p] THEN @[h] \ {p} ELSE @[h]],
     !.announces[p] = {}]

Drop(p) ==
  /\ ~quit
  /\ UNCHANGED <<underpriced, handler, quit>>
  /\ waitlist' = [h \in Hash |-> IF h \in waitslots[p] THEN waitlist[h] \ {p} ELSE waitlist[h]]
  /\ waittime' = waittime \ {h \in waitslots[p] : waitlist[h] \subseteq {p}}
  /\ waitslots' = [waitslots EXCEPT ![p] = {}]
  /\ waitTimer' = (waitTimer \/ (waitslots[p] # {} /\ \E h \in Hash : waitlist'[h] # {}))
  /\ IF p \in core.busy
     THEN LET c == ForgetAnnounces(CancelRequest(core, p), p)
          IN  ScheduleFetches(c, Everyone(c), TRUE, FALSE)
     ELSE NoSchedule(ForgetAnnounces(core, p), FALSE)

Next ==
  \/ \E p \in Peer, hashes, pool \in SUBSET Hash : Notify(p, hashes, pool)
  \/ \E p \in Peer, txs \in SUBSET Hash : \E cheap \in SUBSET (txs \cap Cheap), direct \in BOOLEAN :
       Enqueue(p, txs, cheap, direct)
  \/ \E p \in Peer : Terminated(p)
  \/ \E p \in Peer : LoopNotify(p)
  \/ \E p \in Peer : LoopCleanup(p)
  \/ \E expired \in SUBSET waittime : WaitTrigger(expired)
  \/ \E late \in SUBSET core.busy : TimeoutTrigger(late)
  \/ \E p \in Peer : Drop(p)
  \/ Stop

Spec == Init /\ [][Next]_vars

(***************************************************************************)
(* Fairness.  The Go scheduler and select run every pending channel        *)
(* operation eventually; an armed timer fires, rescheduleWait and          *)
(* rescheduleTimeout aim it at the earliest deadline, and an iteration     *)
(* that finds an entry past its deadline expires it.                       *)
(***************************************************************************)
Fairness ==
  /\ \A p \in Peer : WF_vars(LoopNotify(p) \/ LoopCleanup(p))
  /\ \A h \in Hash : WF_vars(\E expired \in SUBSET waittime :
                                h \in expired /\ WaitTrigger(expired))
  /\ \A p \in Peer : WF_vars(\E late \in SUBSET core.busy :
                                p \in late /\ TimeoutTrigger(late))

FairSpec == Spec /\ Fairness

-----------------------------------------------------------------------------
(* Properties. *)

\* Every tracker holds what its Go declaration says (struct TxFetcher).
TypeOK ==
  /\ waitlist \in [Hash -> SUBSET Peer]
  /\ waittime \in SUBSET Hash
  /\ waitslots \in [Peer -> SUBSET Hash]
  /\ waitTimer \in BOOLEAN
  /\ core \in Core
  /\ timeoutTimer \in BOOLEAN
  /\ underpriced \in SUBSET Hash
  /\ handler \in [Peer -> Message]
  /\ quit \in BOOLEAN
  /\ panicked \in BOOLEAN

\* The fetcher's documented invariant: a hash is in one of the three stages
\* (waiting, queued, in flight) at most.
OneStage ==
  \A h \in Hash :
    /\ waitlist[h] # {} => core.announced[h] = {} /\ core.fetching[h] = NoPeer
    /\ core.announced[h] # {} => core.fetching[h] = NoPeer

\* No loop iteration hits one of the four panics of loop and scheduleFetches,
\* nor dereferences a request that is gone when it marks a stolen delivery.
NoPanic == ~panicked

\* A hash is outstanding in one request at most, and the fetching tracker
\* names exactly the request it is outstanding in: no transaction is
\* downloaded twice at once and none is marked in flight with nobody asked.
FetchingMatchesRequests ==
  \A h \in Hash, p \in Peer :
    core.fetching[h] = p <=> p \in core.busy /\ h \in core.hashes[p] \ core.stolen[p]

\* Whoever is credited with an announcement can be found from the hash, and
\* the wait lists agree with each other: otherwise a Drop or a delivery would
\* leave an entry behind that nothing removes.
TrackersAgree ==
  /\ \A h \in Hash, p \in Peer : p \in waitlist[h] <=> h \in waitslots[p]
  /\ \A h \in Hash : waitlist[h] # {} <=> h \in waittime
  /\ \A h \in Hash, p \in Peer :
       h \in core.announces[p] => p \in core.announced[h] \cup core.alternates[h]
  /\ \A h \in Hash : core.alternates[h] # {} <=> core.fetching[h] # NoPeer

\* Every hash that waits and every open request has a timer that will look
\* at it: the code arms the timers only on the first entry or on expiry.
TimersArmed ==
  /\ waittime # {} => waitTimer
  /\ core.busy # {} => timeoutTimer

\* With no request in flight nothing is left that somebody could be asked
\* for: every step that queues a hash, or frees its last request, schedules
\* the peers that announced it.
IdleMeansDrained == core.busy = {} => \A p \in Peer : core.announces[p] = {}

\* Everything that is queued and announced by an idle peer was given to it.
NoIdlePeer == \A p \in Peer \ core.busy : Free(core, p) = {}

Tracked(h) ==
  \/ waitlist[h] # {} \/ h \in waittime
  \/ core.announced[h] # {} \/ core.alternates[h] # {} \/ core.fetching[h] # NoPeer
  \/ \E p \in Peer : h \in waitslots[p] \cup core.announces[p]

\* Once the loop has handled a delivery no trace of the delivered hashes is
\* left in any stage, the rescheduling of the rest of the request included.
DeliveredForgotten ==
  [][\A p \in Peer : LoopCleanup(p) => \A h \in handler[p].hashes : ~Tracked(h)']_vars

\* A waiting hash is delivered, dropped or queued in the end.
WaitEnds == \A h \in Hash : waitlist[h] # {} ~> (waitlist[h] = {} \/ quit)

\* A hash stays in flight with one peer for ever only if that peer keeps
\* answering requests: a silent peer's request is given up.
SilentPeerGivenUp ==
  \A h \in Hash, p \in Peer :
    <>[](core.fetching[h] = p /\ ~quit)
      => []<>(handler[p].op = "cleanup" /\ handler[p].direct)

\* Whatever the loop skipped to schedule before, a timeout iteration leaves
\* no peer idle that could be asked for something; with TimersArmed, a peer
\* announcing a hash is asked for it sooner or later.
TimeoutServesIdle ==
  [][(\E late \in SUBSET core.busy : TimeoutTrigger(late)) => NoIdlePeer']_vars

\* maxTxAnnounces "is the maximum number of unique transaction a peer can
\* announce in a short time" (tx_fetcher.go:36): a single announcement never
\* takes a peer past it.
AnnounceCap ==
  [][\A p \in Peer : LoopNotify(p) =>
        (Used(p)' <= maxTxAnnounces \/ Used(p)' <= Used(p))]_vars
=============================================================================
