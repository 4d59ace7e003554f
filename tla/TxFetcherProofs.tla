-------------------------- MODULE TxFetcherProofs --------------------------
(***************************************************************************)
(* The safety invariants of TxFetcher for any hashes, peers and limits.    *)
(*                                                                         *)
(* CoreInv says of the queue and in-flight trackers alone what every       *)
(* operation on them keeps, so that a loop iteration is proved operation   *)
(* by operation: each one takes trackers satisfying CoreInv to trackers    *)
(* satisfying CoreInv, scheduleFetches last.                               *)
(***************************************************************************)
EXTENDS TxFetcher, FiniteSetTheorems, TLAPS

\* fetching names exactly the request a hash is outstanding in.
Matched(c) ==
  \A h \in Hash, p \in Peer :
    c.fetching[h] = p <=> p \in c.busy /\ h \in c.hashes[p] \ c.stolen[p]

\* Who is credited with an announcement is found from the hash.
Credited(c) ==
  \A h \in Hash, p \in Peer :
    h \in c.announces[p] => p \in c.announced[h] \cup c.alternates[h]

\* The hashes in flight are those with alternates, and they are not queued.
Alternated(c) == \A h \in Hash : c.alternates[h] # {} <=> c.fetching[h] # NoPeer

Unqueued(c) == \A h \in Hash : c.announced[h] # {} => c.fetching[h] = NoPeer

\* The queue and in-flight trackers agree with each other.
CoreInv(c) == c \in Core /\ Matched(c) /\ Credited(c) /\ Alternated(c) /\ Unqueued(c)

\* The wait lists agree with each other.
WaitInv ==
  /\ \A h \in Hash, p \in Peer : p \in waitlist[h] <=> h \in waitslots[p]
  /\ \A h \in Hash : waitlist[h] # {} <=> h \in waittime

\* A waiting hash is in no other stage.
Apart(c, w) ==
  \A h \in Hash : w[h] # {} => c.announced[h] = {} /\ c.fetching[h] = NoPeer

IInv ==
  /\ TypeOK
  /\ CoreInv(core)
  /\ WaitInv
  /\ Apart(core, waitlist)
  /\ panicked = FALSE

\* What scheduleFetches hands out: free hashes, to peers with no request, and
\* no hash to two of them.
LEMMA AllocationFacts ==
  ASSUME NEW c, CoreInv(c), NEW actives, NEW alloc \in Allocations(c, actives)
  PROVE  /\ alloc \in [Peer -> SUBSET Hash]
         /\ \A p \in Peer : alloc[p] \subseteq Free(c, p)
         /\ \A p \in Peer : alloc[p] # {} => p \notin c.busy
         /\ \A p, q \in Peer : p # q => alloc[p] \cap alloc[q] = {}
<1>1. alloc \in [Peer -> SUBSET Hash]
  BY Zenon DEF Allocations, AllocationsTo
<1>2. PICK order \in Orders : \A p \in Peer :
        LET before == {q \in Peer : order[q] < order[p]}
            left   == {h \in Free(c, p) : \A q \in before : h \notin alloc[q]}
        IN  IF p \in actives \ c.busy
            THEN /\ alloc[p] \subseteq left
                 /\ \/ Cardinality(alloc[p]) = maxTxRetrievals
                    \/ alloc[p] = left /\ Cardinality(left) < maxTxRetrievals
            ELSE alloc[p] = {}
  BY Zenon DEF Allocations, AllocationsTo
<1>3. \A p \in Peer : /\ alloc[p] # {} => p \notin c.busy
                      /\ alloc[p] \subseteq Free(c, p)
                      /\ \A q \in Peer : order[q] < order[p] => alloc[p] \cap alloc[q] = {}
  BY Zenon, <1>2
<1>4. Cardinality(Peer) \in Nat
  BY Zenon, FetcherAssumption, FS_CardinalityType
<1>5. \A p, q \in Peer : p # q => order[p] < order[q] \/ order[q] < order[p]
  BY <1>4 DEF Orders
<1>6. QED
  BY Zenon, <1>1, <1>3, <1>5

\* scheduleFetches keeps the trackers consistent, never meets a hash that
\* already has alternates, and leaves what nobody announces alone.
LEMMA ScheduleKeeps ==
  ASSUME NEW c, CoreInv(c), NEW actives, NEW alloc \in Allocations(c, actives)
  PROVE  /\ CoreInv(Schedule(c, alloc))
         /\ ~ \E h \in Taken(alloc) : c.alternates[h] # {}
         /\ \A w \in [Hash -> SUBSET Peer] : Apart(c, w) => Apart(Schedule(c, alloc), w)
<1> DEFINE d == Schedule(c, alloc)
<1>1. /\ alloc \in [Peer -> SUBSET Hash]
      /\ \A p \in Peer : alloc[p] \subseteq Free(c, p)
      /\ \A p \in Peer : alloc[p] # {} => p \notin c.busy
      /\ \A p, q \in Peer : p # q => alloc[p] \cap alloc[q] = {}
  BY Zenon, AllocationFacts
<1>2. \A h \in Taken(alloc) : /\ Taker(alloc, h) \in Peer
                              /\ h \in alloc[Taker(alloc, h)]
                              /\ \A p \in Peer : h \in alloc[p] => p = Taker(alloc, h)
  BY Zenon, <1>1 DEF Taken, Taker
<1>3. \A h \in Taken(alloc) : c.fetching[h] = NoPeer /\ c.alternates[h] = {} /\ c.announced[h] # {}
  <2> TAKE h \in Taken(alloc)
  <2>1. PICK p \in Peer : h \in alloc[p]
    BY Zenon DEF Taken
  <2>2. h \in Hash /\ h \in c.announces[p] /\ c.fetching[h] = NoPeer
    BY Zenon, <2>1, <1>1 DEF Free, CoreInv, Core
  <2>3. QED
    BY Zenon, <2>2 DEF CoreInv, Credited, Alternated
<1>4. c \in Core
  BY Zenon DEF CoreInv
<1>5. d \in Core
  BY Zenon, <1>1, <1>2, <1>4 DEF Core, Schedule, Taken
<1>6. Matched(d)
  <2> SUFFICES ASSUME NEW h \in Hash, NEW p \in Peer
               PROVE  d.fetching[h] = p <=> p \in d.busy /\ h \in d.hashes[p] \ d.stolen[p]
    BY Zenon DEF Matched
  <2>1. CASE alloc[p] # {}
    <3>1. d.busy = c.busy \cup {q \in Peer : alloc[q] # {}} /\ d.hashes[p] = alloc[p] /\ d.stolen[p] = {}
      BY Zenon, <2>1 DEF Schedule
    <3>2. c.fetching[h] # p
      BY Zenon, <2>1, <1>1 DEF CoreInv, Matched
    <3>3. d.fetching[h] = p <=> h \in alloc[p]
      BY Zenon, <3>2, <1>2, <1>1 DEF Schedule, Taken
    <3>4. QED
      BY Zenon, <3>1, <3>3, <2>1
  <2>2. CASE alloc[p] = {}
    <3>1. /\ p \in d.busy <=> p \in c.busy
          /\ d.hashes[p] = c.hashes[p] /\ d.stolen[p] = c.stolen[p]
      BY Zenon, <2>2, <1>1, <1>4 DEF Schedule, Core
    <3>2. d.fetching[h] = p <=> c.fetching[h] = p
      <4>1. CASE h \in Taken(alloc)
        <5>1. c.fetching[h] # p
          BY Zenon, <4>1, <1>3, FetcherAssumption
        <5>2. d.fetching[h] # p
          BY Zenon, <4>1, <1>2, <2>2 DEF Schedule
        <5>3. QED
          BY Zenon, <5>1, <5>2
      <4>2. CASE h \notin Taken(alloc)
        BY Zenon, <4>2 DEF Schedule
      <4>3. QED
        BY Zenon, <4>1, <4>2
    <3>3. QED
      BY Zenon, <3>1, <3>2 DEF CoreInv, Matched
  <2>3. QED
    BY Zenon, <2>1, <2>2
<1>7. Credited(d)
  BY Zenon, <1>3 DEF Schedule, CoreInv, Credited
<1>8. Alternated(d)
  BY Zenon, <1>2, <1>3, FetcherAssumption DEF Schedule, CoreInv, Alternated
<1>9. Unqueued(d)
  BY Zenon DEF Schedule, CoreInv, Unqueued
<1>10. \A w \in [Hash -> SUBSET Peer] : Apart(c, w) => Apart(d, w)
  BY Zenon, <1>3 DEF Schedule, Apart
<1>11. QED
  BY Zenon, <1>3, <1>5, <1>6, <1>7, <1>8, <1>9, <1>10 DEF CoreInv

-----------------------------------------------------------------------------
(* Each operation on the trackers keeps CoreInv. *)

\* A notify concerns hashes queued or in flight.
LEMMA AnnounceKeeps ==
  ASSUME NEW c, CoreInv(c), NEW p \in Peer, NEW inflight \in SUBSET Hash, NEW queued \in SUBSET Hash,
         \A h \in inflight : c.alternates[h] # {},
         \A h \in queued : c.announced[h] # {}
  PROVE  /\ CoreInv(Announce(c, p, inflight, queued))
         /\ \A w \in [Hash -> SUBSET Peer] :
              Apart(c, w) => Apart(Announce(c, p, inflight, queued), w)
<1> DEFINE d == Announce(c, p, inflight, queued)
<1>0. c \in Core
  BY Zenon DEF CoreInv
<1>1. /\ d.announces = [c.announces EXCEPT ![p] = @ \cup inflight \cup queued]
      /\ d.announced = [h \in Hash |-> IF h \in queued THEN c.announced[h] \cup {p} ELSE c.announced[h]]
      /\ d.alternates = [h \in Hash |-> IF h \in inflight THEN c.alternates[h] \cup {p} ELSE c.alternates[h]]
      /\ d.fetching = c.fetching /\ d.busy = c.busy /\ d.hashes = c.hashes /\ d.stolen = c.stolen
  BY Zenon, <1>0 DEF Core, Announce
<1>2. d \in Core
  <2>1. /\ inflight \cup queued \in SUBSET Hash
        /\ \A h \in Hash : c.announced[h] \cup {p} \in SUBSET Peer /\ c.alternates[h] \cup {p} \in SUBSET Peer
    BY Zenon, <1>0 DEF Core
  <2>2. [c.announces EXCEPT ![p] = @ \cup inflight \cup queued] \in [Peer -> SUBSET Hash]
    BY Zenon, <1>0, <2>1 DEF Core
  <2>3. /\ [h \in Hash |-> IF h \in queued THEN c.announced[h] \cup {p} ELSE c.announced[h]]
             \in [Hash -> SUBSET Peer]
        /\ [h \in Hash |-> IF h \in inflight THEN c.alternates[h] \cup {p} ELSE c.alternates[h]]
             \in [Hash -> SUBSET Peer]
    BY Zenon, <1>0, <2>1 DEF Core
  <2>4. QED
    BY Zenon, <1>0, <2>2, <2>3 DEF Core, Announce
<1>3. Credited(d)
  BY <1>0, <1>1 DEF CoreInv, Credited, Core
<1>4. Matched(d)
  BY <1>1 DEF CoreInv, Matched
<1>5. Alternated(d)
  BY Zenon, <1>1 DEF CoreInv, Alternated
<1>6. Unqueued(d)
  BY Zenon, <1>1 DEF CoreInv, Unqueued
<1>7. \A w \in [Hash -> SUBSET Peer] : Apart(c, w) => Apart(d, w)
  BY Zenon, <1>1 DEF Apart
<1>8. QED
  BY Zenon, <1>2, <1>3, <1>4, <1>5, <1>6, <1>7 DEF CoreInv

\* The wait trigger queues hashes that no other stage holds.
LEMMA QueueExpiredKeeps ==
  ASSUME TypeOK, CoreInv(core), Apart(core, waitlist), NEW expired \in SUBSET Hash,
         \A h \in expired : waitlist[h] # {}
  PROVE  /\ CoreInv(QueueExpired(core, expired))
         /\ Apart(QueueExpired(core, expired), [h \in Hash |-> IF h \in expired THEN {} ELSE waitlist[h]])
<1> DEFINE d == QueueExpired(core, expired)
<1>0. core \in Core
  BY Zenon DEF CoreInv
<1>1. /\ d.announces = [p \in Peer |-> core.announces[p] \cup {h \in expired : p \in waitlist[h]}]
      /\ d.announced = [h \in Hash |-> IF h \in expired THEN waitlist[h] ELSE core.announced[h]]
      /\ d.alternates = core.alternates
      /\ d.fetching = core.fetching /\ d.busy = core.busy /\ d.hashes = core.hashes /\ d.stolen = core.stolen
  BY Zenon, <1>0 DEF Core, QueueExpired
<1>2. d \in Core
  BY Zenon, <1>0 DEF Core, QueueExpired, TypeOK
<1>3. \A h \in expired : core.announced[h] = {} /\ core.fetching[h] = NoPeer /\ core.alternates[h] = {}
  BY Zenon DEF Apart, CoreInv, Alternated
<1>4. Credited(d)
  BY <1>1, <1>3 DEF CoreInv, Credited
<1>5. Matched(d)
  BY <1>1 DEF CoreInv, Matched
<1>6. Alternated(d)
  BY Zenon, <1>1 DEF CoreInv, Alternated
<1>7. Unqueued(d)
  BY <1>1, <1>3 DEF CoreInv, Unqueued
<1>8. Apart(d, [h \in Hash |-> IF h \in expired THEN {} ELSE waitlist[h]])
  BY <1>1 DEF Apart
<1>9. QED
  BY Zenon, <1>2, <1>4, <1>5, <1>6, <1>7, <1>8 DEF CoreInv

\* Expired requests give their hashes back to the other announcers.
LEMMA ExpireKeeps ==
  ASSUME NEW c, CoreInv(c), NEW late, late \subseteq c.busy
  PROVE  /\ CoreInv(ExpireRequests(c, late))
         /\ \A w \in [Hash -> SUBSET Peer] : Apart(c, w) => Apart(ExpireRequests(c, late), w)
<1> DEFINE d == ExpireRequests(c, late)
           back == [h \in Hash |-> {p \in late : h \in Outstanding(c, p)}]
<1>0. c \in Core /\ late \subseteq Peer
  BY Zenon DEF CoreInv, Core
<1>1. /\ d.announces = [p \in Peer |-> IF p \in late THEN c.announces[p] \ Outstanding(c, p) ELSE c.announces[p]]
      /\ d.announced = [h \in Hash |-> IF back[h] # {} /\ c.alternates[h] # {}
                                       THEN c.alternates[h] \ back[h] ELSE c.announced[h] \ back[h]]
      /\ d.alternates = [h \in Hash |-> IF back[h] # {} THEN {} ELSE c.alternates[h]]
      /\ d.fetching = [h \in Hash |-> IF back[h] # {} THEN NoPeer ELSE c.fetching[h]]
      /\ d.hashes = [p \in Peer |-> IF p \in late THEN {} ELSE c.hashes[p]]
      /\ d.busy = c.busy /\ d.stolen = c.stolen
  BY Zenon, <1>0 DEF Core, ExpireRequests
<1>2. d \in Core
  <2>1. \A h \in Hash : back[h] \subseteq Peer
    BY Zenon, <1>0
  <2>2. QED
    BY Zenon, <1>0, <2>1 DEF Core, ExpireRequests
<1>3. \A h \in Hash : \A p \in back[h] : c.fetching[h] = p
  BY Zenon, <1>0 DEF CoreInv, Matched, Outstanding
<1>4. \A h \in Hash : back[h] # {} => /\ c.fetching[h] \in late
                                      /\ back[h] = {c.fetching[h]}
                                      /\ c.announced[h] = {} /\ c.alternates[h] # {}
  BY <1>0, <1>3, FetcherAssumption DEF CoreInv, Alternated, Unqueued
<1>5. \A h \in Hash : back[h] = {} => c.fetching[h] \notin late
  BY <1>0 DEF CoreInv, Matched, Outstanding
<1>6. Matched(d)
  BY SMTT(60), <1>0, <1>1, <1>4, <1>5, FetcherAssumption DEF CoreInv, Matched
<1>7. Credited(d)
  <2> SUFFICES ASSUME NEW h \in Hash, NEW p \in Peer, h \in d.announces[p]
               PROVE  p \in d.announced[h] \cup d.alternates[h]
    BY Zenon DEF Credited
  <2>1. h \in c.announces[p] /\ p \in c.announced[h] \cup c.alternates[h]
    BY <1>0, <1>1 DEF CoreInv, Credited
  <2>2. p \notin back[h]
    BY <1>1
  <2>3. QED
    BY <1>1, <1>4, <2>1, <2>2
<1>8. Alternated(d)
  BY <1>1 DEF CoreInv, Alternated
<1>9. Unqueued(d)
  BY <1>0, <1>1 DEF CoreInv, Unqueued, Core
<1>10. \A w \in [Hash -> SUBSET Peer] : Apart(c, w) => Apart(d, w)
  BY <1>1, <1>4, <1>0, FetcherAssumption DEF Apart
<1>11. QED
  BY Zenon, <1>2, <1>6, <1>7, <1>8, <1>9, <1>10 DEF CoreInv

\* A broadcast, or a reply nobody waits for, withdraws every delivered hash.
LEMMA UntrackKeeps ==
  ASSUME NEW c, CoreInv(c), NEW D \in SUBSET Hash, NEW origin \in Peer, NEW direct \in BOOLEAN,
         ~direct \/ origin \notin c.busy,
         NEW d, d = Untrack(c, D, origin, direct)
  PROVE  /\ CoreInv(d)
         /\ \A w \in [Hash -> SUBSET Peer] : Apart(c, w) => Apart(d, w)
<1>0. c \in Core
  BY Zenon DEF CoreInv
<1>1. /\ d \in Core
      /\ \A p \in Peer : d.announces[p] = c.announces[p] \ D
      /\ \A h \in Hash : d.announced[h] = IF h \in D THEN {} ELSE c.announced[h]
      /\ \A h \in Hash : d.alternates[h] = IF h \in D THEN {} ELSE c.alternates[h]
      /\ \A h \in Hash : d.fetching[h] = IF h \in D THEN NoPeer ELSE c.fetching[h]
      /\ \A p \in Peer : d.stolen[p] = c.stolen[p] \cup
           {h \in D : Stolen(c, h, origin, direct) /\ c.fetching[h] = p}
      /\ d.busy = c.busy /\ d.hashes = c.hashes
  BY Zenon, <1>0 DEF Core, Untrack
<1>2. \A h \in Hash : c.fetching[h] \in Peer => Stolen(c, h, origin, direct)
  BY FetcherAssumption DEF Stolen, CoreInv, Matched
<1>3. Matched(d)
  BY SMTT(60), <1>1, <1>2, FetcherAssumption DEF CoreInv, Matched
<1>4. Credited(d)
  BY <1>1 DEF CoreInv, Credited
<1>5. Alternated(d)
  BY Zenon, <1>1 DEF CoreInv, Alternated
<1>6. Unqueued(d)
  BY Zenon, <1>1 DEF CoreInv, Unqueued
<1>7. \A w \in [Hash -> SUBSET Peer] : Apart(c, w) => Apart(d, w)
  BY Zenon, <1>1 DEF Apart
<1>8. QED
  BY Zenon, <1>1, <1>3, <1>4, <1>5, <1>6, <1>7 DEF CoreInv

\* None of S is in flight.
Landed(c, S) == \A h \in S : c.fetching[h] = NoPeer

\* e is what the reply of origin to its request makes of the trackers c, d
\* the trackers once the delivered hashes are gone.  The waiting hashes among
\* the delivered ones (those outside D) are not in flight.
Closing(c, delivered, D, origin, direct, d, skipped, e) ==
  /\ CoreInv(c) /\ origin \in Peer /\ origin \in c.busy
  /\ delivered \in SUBSET Hash /\ D \subseteq delivered /\ Landed(c, delivered \ D)
  /\ direct = TRUE /\ d = Untrack(c, D, origin, direct)
  /\ skipped \in Skipped(d, origin, delivered)
  /\ e = CloseRequest(d, origin, delivered, skipped)

\* A reply closes its request: delivered hashes are gone, the others are back
\* in the queue, and no panic is met on the way.
LEMMA CloseKeeps ==
  ASSUME NEW c, NEW delivered, NEW D, NEW origin, NEW direct, NEW d, NEW skipped, NEW e,
         Closing(c, delivered, D, origin, direct, d, skipped, e)
  PROVE  /\ CoreInv(e)
         /\ \A h \in Outstanding(d, origin) \ delivered : d.announced[h] = {}
         /\ \A w \in [Hash -> SUBSET Peer] : Apart(c, w) => Apart(e, w)
<1>z. /\ CoreInv(c) /\ origin \in Peer /\ origin \in c.busy
      /\ delivered \in SUBSET Hash /\ D \in SUBSET Hash /\ D \subseteq delivered
      /\ Landed(c, delivered \ D)
      /\ direct = TRUE /\ d = Untrack(c, D, origin, direct)
      /\ skipped \in Skipped(d, origin, delivered)
      /\ e = CloseRequest(d, origin, delivered, skipped)
  BY Zenon DEF Closing
<1> USE <1>z
<1> DEFINE open == Outstanding(d, origin)
<1>0. c \in Core
  BY Zenon DEF CoreInv
<1>1. d \in Core
  BY Zenon, <1>0 DEF Core, Untrack, Stolen
<1>2. \A p \in Peer : d.announces[p] = c.announces[p] \ D
  BY Zenon, <1>0 DEF Core, Untrack
<1>3. \A h \in Hash : /\ h \in D => d.announced[h] = {} /\ d.alternates[h] = {} /\ d.fetching[h] = NoPeer
                      /\ h \notin D => /\ d.announced[h] = c.announced[h]
                                       /\ d.alternates[h] = c.alternates[h]
                                       /\ d.fetching[h] = c.fetching[h]
  BY Zenon, <1>0 DEF Core, Untrack
<1>4. \A p \in Peer : d.stolen[p] = c.stolen[p] \cup {h \in D : Stolen(c, h, origin, direct) /\ c.fetching[h] = p}
  BY Zenon, <1>0 DEF Core, Untrack
<1>5. d.busy = c.busy /\ d.hashes = c.hashes
  BY Zenon, <1>0 DEF Core, Untrack
<1>6. d.stolen[origin] = c.stolen[origin]
  BY Zenon, <1>4 DEF Stolen
<1>7. \A p \in Peer : p # origin => d.stolen[p] = c.stolen[p] \cup {h \in D : c.fetching[h] = p}
  BY Zenon, <1>4, FetcherAssumption DEF Stolen
<1>8. open = {h \in Hash : c.fetching[h] = origin}
  <2>1. c.hashes[origin] \subseteq Hash
    BY Zenon, <1>0 DEF Core
  <2>2. \A h \in Hash : c.fetching[h] = origin <=> h \in c.hashes[origin] \ c.stolen[origin]
    BY Zenon DEF CoreInv, Matched
  <2>3. QED
    BY Zenon, <1>5, <1>6, <2>1, <2>2 DEF Outstanding
<1>9. skipped \subseteq open \ delivered
  BY Zenon DEF Skipped
<1>10. \A h \in open : c.announced[h] = {}
  BY Zenon, <1>8, FetcherAssumption DEF CoreInv, Unqueued
<1>11. \A h \in open \ delivered : /\ d.announced[h] = {} /\ d.alternates[h] = c.alternates[h] /\ h \notin D
  BY Zenon, <1>3, <1>8, <1>10
<1>12. \A h \in open : h \in delivered => h \in D
  BY Zenon, <1>8, FetcherAssumption DEF Landed
<1> HIDE DEF open
<1>13. \A h \in Hash : Left(d, h, origin, skipped) \in SUBSET Peer
  BY Zenon, <1>1 DEF Left, Core
<1>14. e \in Core
  BY ZenonT(60), <1>1, <1>13 DEF Core, CloseRequest
<1>15. \A p \in Peer : /\ p = origin => e.announces[p] = d.announces[p] \ skipped
                       /\ p # origin => e.announces[p] = d.announces[p]
  BY Zenon, <1>1 DEF Core, CloseRequest
<1>16. \A h \in Hash : /\ h \in open \ delivered /\ Left(d, h, origin, skipped) # {}
                            => e.announced[h] = Left(d, h, origin, skipped)
                       /\ ~(h \in open \ delivered /\ Left(d, h, origin, skipped) # {})
                            => e.announced[h] = d.announced[h]
  BY Zenon, <1>1 DEF Core, CloseRequest, open
<1>17. \A h \in Hash : /\ h \in open => e.alternates[h] = {} /\ e.fetching[h] = NoPeer
                       /\ h \notin open => e.alternates[h] = d.alternates[h] /\ e.fetching[h] = d.fetching[h]
  BY Zenon, <1>1 DEF Core, CloseRequest, open
<1>18. /\ e.busy = d.busy \ {origin}
       /\ \A p \in Peer : p # origin => e.hashes[p] = d.hashes[p] /\ e.stolen[p] = d.stolen[p]
  BY Zenon, <1>1 DEF Core, CloseRequest
<1>a. \A h \in Hash : /\ h \in D \cup open => e.alternates[h] = {} /\ e.fetching[h] = NoPeer
                      /\ h \notin D \cup open => e.alternates[h] = c.alternates[h] /\ e.fetching[h] = c.fetching[h]
  <2> TAKE h \in Hash
  <2>1. CASE h \in open
    BY Zenon, <1>17, <2>1
  <2>2. CASE h \notin open /\ h \in D
    <3>1. e.alternates[h] = d.alternates[h] /\ e.fetching[h] = d.fetching[h]
      BY Zenon, <1>17, <2>2
    <3>2. d.alternates[h] = {} /\ d.fetching[h] = NoPeer
      BY Zenon, <1>3, <2>2
    <3>3. QED
      BY Zenon, <2>2, <3>1, <3>2
  <2>3. CASE h \notin open /\ h \notin D
    <3>1. e.alternates[h] = d.alternates[h] /\ e.fetching[h] = d.fetching[h]
      BY Zenon, <1>17, <2>3
    <3>2. d.alternates[h] = c.alternates[h] /\ d.fetching[h] = c.fetching[h]
      BY Zenon, <1>3, <2>3
    <3>3. QED
      BY Zenon, <2>3, <3>1, <3>2
  <2>4. QED
    BY Zenon, <2>1, <2>2, <2>3
<1>b. \A h \in Hash : e.announced[h] = {} \/ h \in open \/ (h \notin D /\ e.announced[h] = c.announced[h])
  <2> TAKE h \in Hash
  <2>1. CASE h \in open
    BY Zenon, <2>1
  <2>2. CASE h \notin open
    <3>1. e.announced[h] = d.announced[h]
      BY Zenon, <1>16, <2>2
    <3>2. d.announced[h] = {} \/ (h \notin D /\ d.announced[h] = c.announced[h])
      BY Zenon, <1>3
    <3>3. QED
      BY Zenon, <3>1, <3>2
  <2>3. QED
    BY Zenon, <2>1, <2>2
<1>19. Matched(e)
  <2> SUFFICES ASSUME NEW h \in Hash, NEW p \in Peer
               PROVE  e.fetching[h] = p <=> p \in e.busy /\ h \in e.hashes[p] \ e.stolen[p]
    BY Zenon DEF Matched
  <2>1. CASE p = origin
    <3>1. p \notin e.busy
      BY Zenon, <1>18, <2>1
    <3>2. e.fetching[h] # p
      <4>1. CASE h \in D \cup open
        BY ZenonT(60), <1>a, <4>1, FetcherAssumption
      <4>2. CASE h \notin D \cup open
        BY Zenon, <1>a, <1>8, <4>2, <2>1
      <4>3. QED
        BY Zenon, <4>1, <4>2
    <3>3. QED
      BY Zenon, <3>1, <3>2
  <2>2. CASE p # origin
    <3>1. e.fetching[h] = p <=> h \notin D /\ c.fetching[h] = p
      BY ZenonT(60), <1>a, <1>8, <2>2, FetcherAssumption
    <3>2. /\ p \in e.busy <=> p \in c.busy
          /\ e.hashes[p] = c.hashes[p]
          /\ e.stolen[p] = c.stolen[p] \cup {g \in D : c.fetching[g] = p}
      BY ZenonT(60), <1>5, <1>7, <1>18, <2>2
    <3>3. c.fetching[h] = p <=> p \in c.busy /\ h \in c.hashes[p] \ c.stolen[p]
      BY Zenon DEF CoreInv, Matched
    <3>4. QED
      BY Zenon, <3>1, <3>2, <3>3
  <2>3. QED
    BY Zenon, <2>1, <2>2
<1>20. Credited(e)
  <2> SUFFICES ASSUME NEW h \in Hash, NEW p \in Peer, h \in e.announces[p]
               PROVE  p \in e.announced[h] \cup e.alternates[h]
    BY Zenon DEF Credited
  <2>1. h \in c.announces[p] /\ h \notin D
    BY Zenon, <1>2, <1>15
  <2>2. p = origin => h \notin skipped
    BY Zenon, <1>15
  <2>3. p \in c.announced[h] \cup c.alternates[h]
    BY Zenon, <2>1 DEF CoreInv, Credited
  <2>4. CASE h \in open
    <3>1. h \in open \ delivered
      BY Zenon, <1>12, <2>1, <2>4
    <3>2. p \in d.alternates[h]
      BY Zenon, <1>10, <1>11, <2>3, <3>1
    <3>3. p \in Left(d, h, origin, skipped)
      BY Zenon, <2>2, <3>2 DEF Left
    <3>4. QED
      BY Zenon, <1>16, <3>1, <3>3
  <2>5. CASE h \notin open
    <3>1. e.announced[h] = c.announced[h]
      <4>1. e.announced[h] = d.announced[h]
        BY Zenon, <1>16, <2>5
      <4>2. d.announced[h] = c.announced[h]
        BY Zenon, <1>3, <2>1
      <4>3. QED
        BY Zenon, <4>1, <4>2
    <3>2. e.alternates[h] = c.alternates[h]
      BY Zenon, <1>a, <2>1, <2>5
    <3>3. QED
      BY Zenon, <2>3, <3>1, <3>2
  <2>6. QED
    BY Zenon, <2>4, <2>5
<1>21. Alternated(e)
  <2> SUFFICES ASSUME NEW h \in Hash PROVE e.alternates[h] # {} <=> e.fetching[h] # NoPeer
    BY Zenon DEF Alternated
  <2>1. CASE h \in D \cup open
    BY Zenon, <1>a, <2>1
  <2>2. CASE h \notin D \cup open
    <3>1. e.alternates[h] = c.alternates[h] /\ e.fetching[h] = c.fetching[h]
      BY Zenon, <1>a, <2>2
    <3>2. c.alternates[h] # {} <=> c.fetching[h] # NoPeer
      BY Zenon DEF CoreInv, Alternated
    <3>3. QED
      BY Zenon, <3>1, <3>2
  <2>3. QED
    BY Zenon, <2>1, <2>2
<1>22. Unqueued(e)
  <2> SUFFICES ASSUME NEW h \in Hash, e.announced[h] # {} PROVE e.fetching[h] = NoPeer
    BY Zenon DEF Unqueued
  <2>1. CASE h \in open
    BY Zenon, <1>a, <2>1
  <2>2. CASE h \notin open
    <3>1. h \notin D /\ e.announced[h] = c.announced[h]
      BY Zenon, <1>b, <2>2
    <3>2. c.fetching[h] = NoPeer
      BY Zenon, <3>1 DEF CoreInv, Unqueued
    <3>3. QED
      BY Zenon, <1>a, <2>2, <3>1, <3>2
  <2>3. QED
    BY Zenon, <2>1, <2>2
<1>23. \A w \in [Hash -> SUBSET Peer] : Apart(c, w) => Apart(e, w)
  <2> SUFFICES ASSUME NEW w \in [Hash -> SUBSET Peer], Apart(c, w), NEW h \in Hash, w[h] # {}
               PROVE  e.announced[h] = {} /\ e.fetching[h] = NoPeer
    BY Zenon DEF Apart
  <2>1. c.announced[h] = {} /\ c.fetching[h] = NoPeer
    BY Zenon DEF Apart
  <2>2. h \notin open
    BY Zenon, <1>8, <2>1, FetcherAssumption
  <2>3. e.announced[h] = {}
    BY Zenon, <1>b, <2>1, <2>2
  <2>4. e.fetching[h] = NoPeer
    BY Zenon, <1>a, <2>1, <2>2
  <2>5. QED
    BY Zenon, <2>3, <2>4
<1>24. QED
  BY Zenon, <1>11, <1>14, <1>19, <1>20, <1>21, <1>22, <1>23 DEF CoreInv, open

\* Forgetting the announcements of a peer leaves those of the others alone.
LEMMA ForgetKeeps ==
  ASSUME NEW c \in Core, Matched(c), Alternated(c), Unqueued(c), NEW p \in Peer,
         \A h \in Hash, q \in Peer : q # p /\ h \in c.announces[q] => q \in c.announced[h] \cup c.alternates[h],
         NEW d, d = ForgetAnnounces(c, p)
  PROVE  /\ CoreInv(d)
         /\ \A w \in [Hash -> SUBSET Peer] : Apart(c, w) => Apart(d, w)
<1>1. d \in Core
  BY Zenon DEF Core, ForgetAnnounces
<1>2. \A q \in Peer : /\ q = p => d.announces[q] = {}
                      /\ q # p => d.announces[q] = c.announces[q]
  BY Zenon DEF Core, ForgetAnnounces
<1>3. \A h \in Hash : /\ d.announced[h] \subseteq c.announced[h]
                      /\ \A q \in Peer : q # p /\ q \in c.announced[h] => q \in d.announced[h]
  BY Zenon DEF Core, ForgetAnnounces
<1>4. /\ d.alternates = c.alternates /\ d.fetching = c.fetching /\ d.busy = c.busy
      /\ d.hashes = c.hashes /\ d.stolen = c.stolen
  BY Zenon DEF Core, ForgetAnnounces
<1>5. Matched(d)
  BY <1>4 DEF Matched
<1>6. Credited(d)
  BY Zenon, <1>2, <1>3, <1>4 DEF Credited
<1>7. Alternated(d)
  BY Zenon, <1>4 DEF Alternated
<1>8. Unqueued(d)
  BY Zenon, <1>3, <1>4 DEF Unqueued
<1>9. \A w \in [Hash -> SUBSET Peer] : Apart(c, w) => Apart(d, w)
  BY <1>3, <1>4 DEF Apart
<1>10. QED
  BY Zenon, <1>1, <1>5, <1>6, <1>7, <1>8, <1>9 DEF CoreInv

\* Dropping a busy peer returns what it was fetching to the others.
LEMMA DropKeeps ==
  ASSUME NEW c, CoreInv(c), NEW p \in Peer, p \in c.busy,
         NEW b, b = CancelRequest(c, p),
         NEW d, d = ForgetAnnounces(b, p)
  PROVE  /\ CoreInv(d)
         /\ \A w \in [Hash -> SUBSET Peer] : Apart(c, w) => Apart(d, w)
<1> DEFINE open == Outstanding(c, p)
<1>0. c \in Core
  BY Zenon DEF CoreInv
<1>1. b \in Core
  BY Zenon, <1>0 DEF Core, CancelRequest
<1>2. open = {h \in Hash : c.fetching[h] = p}
  <2>1. c.hashes[p] \subseteq Hash
    BY Zenon, <1>0 DEF Core
  <2>2. QED
    BY <2>1 DEF CoreInv, Matched, Outstanding
<1>3. b.announces = c.announces
  BY Zenon DEF CancelRequest
<1>4. \A h \in Hash : /\ h \in open => b.alternates[h] = {} /\ b.fetching[h] = NoPeer
                      /\ h \notin open => /\ b.alternates[h] = c.alternates[h]
                                          /\ b.fetching[h] = c.fetching[h]
                                          /\ b.announced[h] = c.announced[h]
  BY Zenon DEF CancelRequest
<1>5. \A h \in open : \A q \in Peer : q # p /\ q \in c.alternates[h] => q \in b.announced[h]
  BY Zenon, <1>2 DEF CancelRequest
<1>6. /\ b.busy = c.busy \ {p}
      /\ \A q \in Peer : q # p => b.hashes[q] = c.hashes[q] /\ b.stolen[q] = c.stolen[q]
  BY Zenon DEF CancelRequest
<1> HIDE DEF open
<1>7. \A h \in open : c.announced[h] = {}
  BY Zenon, <1>2, FetcherAssumption DEF CoreInv, Unqueued
<1>8. Matched(b)
  <2> SUFFICES ASSUME NEW h \in Hash, NEW q \in Peer
               PROVE  b.fetching[h] = q <=> q \in b.busy /\ h \in b.hashes[q] \ b.stolen[q]
    BY Zenon DEF Matched
  <2>1. b.fetching[h] = q <=> c.fetching[h] = q /\ q # p
    <3>1. CASE h \in open
      BY Zenon, <1>2, <1>4, <3>1, FetcherAssumption
    <3>2. CASE h \notin open
      BY Zenon, <1>2, <1>4, <3>2
    <3>3. QED
      BY Zenon, <3>1, <3>2
  <2>2. c.fetching[h] = q <=> q \in c.busy /\ h \in c.hashes[q] \ c.stolen[q]
    BY Zenon DEF CoreInv, Matched
  <2>3. QED
    BY Zenon, <1>6, <2>1, <2>2
<1>9. Alternated(b)
  BY Zenon, <1>4 DEF CoreInv, Alternated
<1>10. Unqueued(b)
  BY Zenon, <1>4 DEF CoreInv, Unqueued
<1>11. \A h \in Hash, q \in Peer : q # p /\ h \in b.announces[q] => q \in b.announced[h] \cup b.alternates[h]
  <2> TAKE h \in Hash, q \in Peer
  <2> HAVE q # p /\ h \in b.announces[q]
  <2>1. q \in c.announced[h] \cup c.alternates[h]
    BY Zenon, <1>3 DEF CoreInv, Credited
  <2>2. CASE h \in open
    BY Zenon, <1>5, <1>7, <2>1, <2>2
  <2>3. CASE h \notin open
    BY Zenon, <1>4, <2>1, <2>3
  <2>4. QED
    BY Zenon, <2>2, <2>3
<1>12. \A w \in [Hash -> SUBSET Peer] : Apart(c, w) => Apart(b, w)
  BY <1>2, <1>4, FetcherAssumption DEF Apart
<1>13. QED
  BY Zenon, <1>1, <1>8, <1>9, <1>10, <1>11, <1>12, ForgetKeeps

-----------------------------------------------------------------------------
(* Loop iterations. *)

\* What an iteration has to establish, whichever way it ends.
Good == CoreInv(core') /\ Apart(core', waitlist') /\ panicked' = FALSE /\ timeoutTimer' \in BOOLEAN

\* scheduleFetches at the end of an iteration.
LEMMA ScheduleFetchesKeeps ==
  ASSUME NEW c, CoreInv(c), waitlist' \in [Hash -> SUBSET Peer], Apart(c, waitlist'), panicked = FALSE,
         NEW actives, NEW timer \in BOOLEAN,
         ScheduleFetches(c, actives, timer, FALSE)
  PROVE  Good
<1>1. PICK alloc \in Allocations(c, actives) :
        /\ core' = Schedule(c, alloc)
        /\ timeoutTimer' = (timer \/ (c.busy = {} /\ core'.busy # {}))
        /\ panicked' = (panicked \/ FALSE \/ \E h \in Taken(alloc) : c.alternates[h] # {})
  BY Zenon DEF ScheduleFetches
<1>2. /\ CoreInv(Schedule(c, alloc))
      /\ ~ \E h \in Taken(alloc) : c.alternates[h] # {}
      /\ Apart(Schedule(c, alloc), waitlist')
  BY Zenon, ScheduleKeeps
<1>3. panicked' = FALSE
  BY Zenon, <1>1, <1>2
<1>4. timeoutTimer' \in BOOLEAN
  BY Zenon, <1>1
<1>5. QED
  BY Zenon, <1>1, <1>2, <1>3, <1>4 DEF Good

LEMMA NoScheduleKeeps ==
  ASSUME NEW c, CoreInv(c), Apart(c, waitlist'), panicked = FALSE, timeoutTimer \in BOOLEAN,
         NoSchedule(c, FALSE)
  PROVE  Good
  BY Zenon DEF NoSchedule, Good

\* A type invariant of the variables the loop leaves to the handlers, and of
\* the wait lists: what an iteration needs besides Good to keep IInv.
LEMMA IterationKeeps ==
  ASSUME Good, WaitInv',
         waitlist' \in [Hash -> SUBSET Peer], waittime' \in SUBSET Hash,
         waitslots' \in [Peer -> SUBSET Hash], waitTimer' \in BOOLEAN,
         underpriced' \in SUBSET Hash, handler' \in [Peer -> Message], quit' \in BOOLEAN
  PROVE  IInv'
<1>1. panicked' \in BOOLEAN /\ core' \in Core
  BY Zenon DEF Good, CoreInv
<1>2. TypeOK'
  BY Zenon, <1>1 DEF Good, TypeOK
<1>3. QED
  BY Zenon, <1>2 DEF Good, IInv

LEMMA IdleMessage == Idle \in Message
  BY Zenon DEF Idle, Message

\* An announcement adds its origin to one stage of each hash.
LEMMA NotifyStep ==
  ASSUME IInv, NEW p \in Peer, LoopNotify(p)
  PROVE  IInv'
<1> USE DEF IInv
<1>1. handler' \in [Peer -> Message]
  BY Zenon, IdleMessage DEF LoopNotify, TypeOK
<1>2. underpriced' \in SUBSET Hash /\ quit' \in BOOLEAN
  BY Zenon DEF LoopNotify, TypeOK
<1>3. CASE Used(p) >= maxTxAnnounces
  <2>1. UNCHANGED <<waitlist, waittime, waitslots, waitTimer, core, timeoutTimer, panicked>>
    BY Zenon, <1>3 DEF LoopNotify, waitVars
  <2>2. TypeOK'
    BY Zenon, <1>1, <1>2, <2>1 DEF TypeOK
  <2>3. WaitInv' /\ CoreInv(core') /\ Apart(core', waitlist') /\ panicked' = FALSE
    BY Zenon, <2>1 DEF WaitInv
  <2>4. QED
    BY Zenon, <2>2, <2>3
<1>4. CASE ~(Used(p) >= maxTxAnnounces)
  <2>1. PICK kept \in Kept(p, handler[p].hashes) : TrackAnnounce(p, kept)
    BY Zenon, <1>4 DEF LoopNotify
  <2>2. handler[p].hashes \subseteq Hash
    BY Zenon DEF TypeOK, Message
  <2>3. kept \subseteq Hash
    BY Zenon, <2>1, <2>2 DEF Kept
  <2> DEFINE inflight == Inflight(kept)
             queued   == {h \in kept \ inflight : core.announced[h] # {}}
             waiting  == kept \ (inflight \cup queued)
             c        == Announce(core, p, inflight, queued)
  <2>4. AnnounceWaiting(p, waiting)
    BY Zenon, <2>1 DEF TrackAnnounce
  <2>5. IF core.announces[p] = {} /\ c.announces[p] # {}
        THEN ScheduleFetches(c, {p}, timeoutTimer, FALSE)
        ELSE NoSchedule(c, FALSE)
    BY Zenon, <2>1 DEF TrackAnnounce
  <2>6. /\ waitlist' \in [Hash -> SUBSET Peer] /\ waittime' \in SUBSET Hash
        /\ waitslots' \in [Peer -> SUBSET Hash] /\ waitTimer' \in BOOLEAN
    BY Zenon, <2>3, <2>4 DEF AnnounceWaiting, TypeOK
  <2>7. WaitInv'
    <3>1. \A h \in Hash, q \in Peer : q \in waitlist'[h] <=> h \in waitslots'[q]
      BY Zenon, <2>3, <2>4 DEF AnnounceWaiting, TypeOK, WaitInv
    <3>2. \A h \in Hash : waitlist'[h] # {} <=> h \in waittime'
      BY Zenon, <2>3, <2>4 DEF AnnounceWaiting, TypeOK, WaitInv
    <3>3. QED
      BY Zenon, <3>1, <3>2 DEF WaitInv
  <2>8. inflight \in SUBSET Hash /\ queued \in SUBSET Hash
    BY Zenon, <2>3 DEF Inflight
  <2>9. \A h \in inflight : core.alternates[h] # {}
    BY Zenon DEF Inflight
  <2>10. \A h \in waiting : core.announced[h] = {} /\ core.alternates[h] = {}
    BY Zenon DEF Inflight
  <2>11. \A h \in waiting : core.fetching[h] = NoPeer
    BY Zenon, <2>3, <2>10 DEF CoreInv, Alternated
  <2>12. Apart(core, waitlist')
    BY Zenon, <2>3, <2>4, <2>10, <2>11 DEF AnnounceWaiting, Apart
  <2> HIDE DEF inflight, queued, waiting
  <2>13. \A h \in queued : core.announced[h] # {}
    BY Zenon DEF queued
  <2>14. CoreInv(c) /\ Apart(c, waitlist')
    BY Zenon, <2>6, <2>8, <2>9, <2>12, <2>13, AnnounceKeeps
  <2> HIDE DEF c
  <2>15. timeoutTimer \in BOOLEAN
    BY Zenon DEF TypeOK
  <2>16. Good
    <3>1. CASE core.announces[p] = {} /\ c.announces[p] # {}
      <4>1. ScheduleFetches(c, {p}, timeoutTimer, FALSE)
        BY Zenon, <2>5, <3>1
      <4>2. QED
        BY Zenon, <2>6, <2>14, <2>15, <4>1, ScheduleFetchesKeeps
    <3>2. CASE ~(core.announces[p] = {} /\ c.announces[p] # {})
      <4>1. NoSchedule(c, FALSE)
        BY Zenon, <2>5, <3>2
      <4>2. QED
        BY Zenon, <2>14, <2>15, <4>1, NoScheduleKeeps
    <3>3. QED
      BY Zenon, <3>1, <3>2
  <2>17. QED
    BY Zenon, <1>1, <1>2, <2>6, <2>7, <2>16, IterationKeeps
<1>5. QED
  BY Zenon, <1>3, <1>4

\* Expired waiting hashes move to the queue, which does not hold them.
LEMMA WaitStep ==
  ASSUME IInv, NEW expired, WaitTrigger(expired)
  PROVE  IInv'
<1> USE DEF IInv
<1> DEFINE c == QueueExpired(core, expired)
           bad == \E h \in expired : core.announced[h] # {}
           actives == UNION {waitlist[h] : h \in expired}
<1>1. /\ handler' \in [Peer -> Message] /\ underpriced' \in SUBSET Hash /\ quit' \in BOOLEAN
  BY Zenon DEF WaitTrigger, TypeOK
<1>2. expired \in SUBSET Hash /\ \A h \in expired : waitlist[h] # {}
  BY Zenon DEF WaitTrigger, TypeOK, WaitInv
<1>3. waitlist' = [h \in Hash |-> IF h \in expired THEN {} ELSE waitlist[h]]
  BY Zenon DEF WaitTrigger
<1>4. /\ waitlist' \in [Hash -> SUBSET Peer] /\ waittime' \in SUBSET Hash
      /\ waitslots' \in [Peer -> SUBSET Hash] /\ waitTimer' \in BOOLEAN
  BY Zenon, <1>2 DEF WaitTrigger, TypeOK, RearmWait
<1>5. WaitInv'
  <2>1. \A h \in Hash, q \in Peer : q \in waitlist'[h] <=> h \in waitslots'[q]
    BY Zenon, <1>2 DEF WaitTrigger, TypeOK, WaitInv
  <2>2. \A h \in Hash : waitlist'[h] # {} <=> h \in waittime'
    BY Zenon, <1>2 DEF WaitTrigger, TypeOK, WaitInv
  <2>3. QED
    BY Zenon, <2>1, <2>2 DEF WaitInv
<1>6. CoreInv(c) /\ Apart(c, waitlist')
  BY Zenon, <1>2, <1>3, QueueExpiredKeeps
<1>7. ~bad
  BY Zenon, <1>2 DEF Apart
<1>8. IF actives # {} THEN ScheduleFetches(c, actives, timeoutTimer, bad) ELSE NoSchedule(c, bad)
  BY Zenon DEF WaitTrigger
<1> HIDE DEF c, bad, actives
<1>9. timeoutTimer \in BOOLEAN
  BY Zenon DEF TypeOK
<1>10. Good
  <2>1. CASE actives # {}
    <3>1. ScheduleFetches(c, actives, timeoutTimer, FALSE)
      BY Zenon, <1>7, <1>8, <2>1 DEF ScheduleFetches
    <3>2. QED
      BY Zenon, <1>4, <1>6, <1>7, <1>9, <3>1, ScheduleFetchesKeeps
  <2>2. CASE actives = {}
    <3>1. NoSchedule(c, FALSE)
      BY Zenon, <1>7, <1>8, <2>2 DEF NoSchedule
    <3>2. QED
      BY Zenon, <1>6, <1>7, <1>9, <3>1, NoScheduleKeeps
  <2>3. QED
    BY Zenon, <2>1, <2>2
<1>11. QED
  BY Zenon, <1>1, <1>4, <1>5, <1>10, IterationKeeps

\* Late requests are emptied; nothing they held was queued.
LEMMA TimeoutStep ==
  ASSUME IInv, NEW late, TimeoutTrigger(late)
  PROVE  IInv'
<1> USE DEF IInv
<1> DEFINE c == ExpireRequests(core, late)
           bad == \E p \in late : \E h \in Outstanding(core, p) : core.announced[h] # {}
<1>1. /\ handler' \in [Peer -> Message] /\ underpriced' \in SUBSET Hash /\ quit' \in BOOLEAN
      /\ waitlist' = waitlist /\ waittime' = waittime /\ waitslots' = waitslots /\ waitTimer' = waitTimer
  BY Zenon DEF TimeoutTrigger, TypeOK, waitVars
<1>2. WaitInv'
  BY Zenon, <1>1 DEF WaitInv
<1>3. /\ waitlist' \in [Hash -> SUBSET Peer] /\ waittime' \in SUBSET Hash
      /\ waitslots' \in [Peer -> SUBSET Hash] /\ waitTimer' \in BOOLEAN
  BY Zenon, <1>1 DEF TypeOK
<1>4. late \subseteq core.busy /\ core \in Core
  BY Zenon DEF TimeoutTrigger, CoreInv
<1>5. CoreInv(c) /\ Apart(c, waitlist')
  BY Zenon, <1>1, <1>3, <1>4, ExpireKeeps
<1>6. ~bad
  <2> SUFFICES ASSUME NEW p \in late, NEW h \in Outstanding(core, p) PROVE core.announced[h] = {}
    BY Zenon
  <2>1. p \in Peer /\ p \in core.busy /\ h \in Hash
    BY Zenon, <1>4 DEF Core, Outstanding
  <2>2. core.fetching[h] = p
    BY Zenon, <2>1 DEF CoreInv, Matched, Outstanding
  <2>3. QED
    BY Zenon, <2>1, <2>2, FetcherAssumption DEF CoreInv, Unqueued
<1>7. ScheduleFetches(c, Everyone(c), RearmTimeout, bad)
  BY Zenon DEF TimeoutTrigger
<1>8. RearmTimeout \in BOOLEAN
  BY Zenon DEF RearmTimeout
<1> HIDE DEF c, bad
<1>9. Good
  <2>1. ScheduleFetches(c, Everyone(c), RearmTimeout, FALSE)
    BY Zenon, <1>6, <1>7 DEF ScheduleFetches
  <2>2. QED
    BY Zenon, <1>3, <1>5, <1>8, <2>1, ScheduleFetchesKeeps
<1>10. QED
  BY Zenon, <1>1, <1>2, <1>3, <1>9, IterationKeeps

\* A delivery, broadcast or in reply to a request.
LEMMA CleanupStep ==
  ASSUME IInv, NEW p \in Peer, LoopCleanup(p)
  PROVE  IInv'
<1> USE DEF IInv
<1> DEFINE delivered == handler[p].hashes
           direct == handler[p].direct
           waiting == {h \in delivered : waitlist[h] # {}}
           D == delivered \ waiting
           c == Untrack(core, D, p, direct)
           nilReq == \E h \in D : Stolen(core, h, p, direct) /\ core.fetching[h] \notin core.busy
           clash(skipped) == \E h \in Outstanding(c, p) \ delivered :
                               Left(c, h, p, skipped) # {} /\ c.announced[h] # {}
<1>1. /\ handler' \in [Peer -> Message] /\ underpriced' \in SUBSET Hash /\ quit' \in BOOLEAN
  BY Zenon, IdleMessage DEF LoopCleanup, TypeOK
<1>2. delivered \in SUBSET Hash /\ direct \in BOOLEAN /\ D \in SUBSET Hash /\ D \subseteq delivered
  BY Zenon DEF TypeOK, Message
<1>3. /\ waitlist' = [h \in Hash |-> IF h \in waiting THEN {} ELSE waitlist[h]]
      /\ waitslots' = [q \in Peer |-> waitslots[q] \ waiting]
      /\ waittime' = waittime \ waiting /\ waitTimer' = waitTimer
  BY Zenon DEF LoopCleanup
<1>4. /\ waitlist' \in [Hash -> SUBSET Peer] /\ waittime' \in SUBSET Hash
      /\ waitslots' \in [Peer -> SUBSET Hash] /\ waitTimer' \in BOOLEAN
  BY Zenon, <1>3 DEF TypeOK
<1>5. WaitInv'
  <2>1. \A h \in Hash, q \in Peer : q \in waitlist'[h] <=> h \in waitslots'[q]
    BY Zenon, <1>2, <1>3 DEF TypeOK, WaitInv
  <2>2. \A h \in Hash : waitlist'[h] # {} <=> h \in waittime'
    BY Zenon, <1>2, <1>3 DEF TypeOK, WaitInv
  <2>3. QED
    BY Zenon, <2>1, <2>2 DEF WaitInv
<1>6. Apart(core, waitlist')
  BY Zenon, <1>3 DEF Apart
<1>7. Landed(core, delivered \ D)
  BY Zenon, <1>2 DEF Apart, Landed
<1>8. ~nilReq
  <2> SUFFICES ASSUME NEW h \in D, core.fetching[h] # NoPeer PROVE core.fetching[h] \in core.busy
    BY Zenon DEF Stolen
  <2>1. core.fetching[h] \in Peer /\ h \in Hash
    BY Zenon, <1>2 DEF CoreInv, Core
  <2>2. QED
    BY Zenon, <2>1 DEF CoreInv, Matched
<1>9. IF direct /\ p \in c.busy
      THEN \E skipped \in Skipped(c, p, delivered) :
             LET d == CloseRequest(c, p, delivered, skipped)
             IN  ScheduleFetches(d, Everyone(d), timeoutTimer, nilReq \/ clash(skipped))
      ELSE NoSchedule(c, nilReq)
  BY Zenon DEF LoopCleanup
<1>10. c.busy = core.busy
  BY DEF Untrack
<1>11. timeoutTimer \in BOOLEAN
  BY Zenon DEF TypeOK
<1>12. CASE direct /\ p \in c.busy
  <2>1. PICK skipped \in Skipped(c, p, delivered) :
          ScheduleFetches(CloseRequest(c, p, delivered, skipped),
                          Everyone(CloseRequest(c, p, delivered, skipped)),
                          timeoutTimer, nilReq \/ clash(skipped))
    BY Zenon, <1>9, <1>12
  <2> DEFINE e == CloseRequest(c, p, delivered, skipped)
  <2>2. direct = TRUE /\ c = Untrack(core, D, p, direct)
    BY Zenon, <1>2, <1>12
  <2> HIDE DEF c, D, delivered, e, direct
  <2>3. /\ CoreInv(e)
        /\ \A h \in Outstanding(c, p) \ delivered : c.announced[h] = {}
        /\ Apart(e, waitlist')
    <3>1. e = CloseRequest(c, p, delivered, skipped)
      BY Zenon DEF e
    <3>2. p \in core.busy
      BY Zenon, <1>10, <1>12
    <3>3. skipped \in Skipped(c, p, delivered)
      BY Zenon, <2>1
    <3>4. Closing(core, delivered, D, p, direct, c, skipped, e)
      BY Zenon, <1>2, <1>7, <2>2, <3>1, <3>2, <3>3 DEF Closing
    <3>a. /\ CoreInv(e)
          /\ \A h \in Outstanding(c, p) \ delivered : c.announced[h] = {}
          /\ \A w \in [Hash -> SUBSET Peer] : Apart(core, w) => Apart(e, w)
      BY Zenon, <3>4, CloseKeeps
    <3>5. QED
      BY Zenon, <1>4, <1>6, <3>a
  <2>4. ~(nilReq \/ clash(skipped))
    BY Zenon, <1>8, <2>3
  <2>5. ScheduleFetches(e, Everyone(e), timeoutTimer, nilReq \/ clash(skipped))
    BY Zenon, <2>1 DEF e
  <2> HIDE DEF nilReq, clash
  <2>6. ScheduleFetches(e, Everyone(e), timeoutTimer, FALSE)
    BY Zenon, <2>4, <2>5 DEF ScheduleFetches
  <2>8. Good
    BY Zenon, <1>4, <1>11, <2>3, <2>6, ScheduleFetchesKeeps
  <2>9. QED
    BY Zenon, <1>1, <1>4, <1>5, <2>8, IterationKeeps
<1>13. CASE ~(direct /\ p \in c.busy)
  <2>1. NoSchedule(c, nilReq)
    BY Zenon, <1>9, <1>13
  <2>2. ~direct \/ p \notin core.busy
    BY Zenon, <1>2, <1>10, <1>13
  <2>3. c = Untrack(core, D, p, direct)
    BY Zenon
  <2> HIDE DEF c, D, direct, nilReq
  <2>4. CoreInv(c) /\ Apart(c, waitlist')
    BY Zenon, <1>2, <1>4, <1>6, <2>2, <2>3, UntrackKeeps
  <2>5. NoSchedule(c, FALSE)
    BY Zenon, <1>8, <2>1 DEF NoSchedule
  <2>6. Good
    BY Zenon, <1>11, <2>4, <2>5, NoScheduleKeeps
  <2>7. QED
    BY Zenon, <1>1, <1>4, <1>5, <2>6, IterationKeeps
<1>14. QED
  BY Zenon, <1>12, <1>13

\* A dropped peer leaves the wait lists and the queue, and its request is
\* cancelled.
LEMMA DropStep ==
  ASSUME IInv, NEW p \in Peer, Drop(p)
  PROVE  IInv'
<1> USE DEF IInv
<1>1. /\ handler' \in [Peer -> Message] /\ underpriced' \in SUBSET Hash /\ quit' \in BOOLEAN
  BY Zenon DEF Drop, TypeOK
<1>2. waitlist' = [h \in Hash |-> IF h \in waitslots[p] THEN waitlist[h] \ {p} ELSE waitlist[h]]
  BY Zenon DEF Drop
<1>3. /\ waitlist' \in [Hash -> SUBSET Peer] /\ waittime' \in SUBSET Hash
      /\ waitslots' \in [Peer -> SUBSET Hash] /\ waitTimer' \in BOOLEAN
  BY Zenon DEF Drop, TypeOK
<1>4. WaitInv'
  <2>1. \A h \in Hash, q \in Peer : q \in waitlist'[h] <=> h \in waitslots'[q]
    BY Zenon DEF Drop, TypeOK, WaitInv
  <2>2. \A h \in Hash : waitlist'[h] # {} <=> h \in waittime'
    BY Zenon DEF Drop, TypeOK, WaitInv
  <2>3. QED
    BY <2>1, <2>2 DEF WaitInv
<1>5. Apart(core, waitlist')
  BY Zenon, <1>2 DEF Apart
<1>6. timeoutTimer \in BOOLEAN
  BY DEF TypeOK
<1>7. CASE p \in core.busy
  <2> DEFINE b == CancelRequest(core, p)
             d == ForgetAnnounces(b, p)
  <2>1. ScheduleFetches(d, Everyone(d), TRUE, FALSE)
    BY Zenon, <1>7 DEF Drop
  <2>2. b = CancelRequest(core, p) /\ d = ForgetAnnounces(b, p)
    BY Zenon
  <2> HIDE DEF b, d
  <2>3. CoreInv(d) /\ \A w \in [Hash -> SUBSET Peer] : Apart(core, w) => Apart(d, w)
    BY Zenon, <1>7, <2>2, DropKeeps
  <2>4. Apart(d, waitlist')
    BY Zenon, <1>3, <1>5, <2>3
  <2>5. Good
    BY Zenon, <1>3, <2>1, <2>3, <2>4, ScheduleFetchesKeeps
  <2>6. QED
    BY Zenon, <1>1, <1>3, <1>4, <2>5, IterationKeeps
<1>8. CASE p \notin core.busy
  <2> DEFINE d == ForgetAnnounces(core, p)
  <2>1. NoSchedule(d, FALSE)
    BY Zenon, <1>8 DEF Drop
  <2>2. d = ForgetAnnounces(core, p)
    BY Zenon
  <2> HIDE DEF d
  <2>3. /\ core \in Core /\ Matched(core) /\ Alternated(core) /\ Unqueued(core)
        /\ \A h \in Hash, q \in Peer :
             q # p /\ h \in core.announces[q] => q \in core.announced[h] \cup core.alternates[h]
    BY Zenon DEF CoreInv, Credited
  <2>4. CoreInv(d) /\ \A w \in [Hash -> SUBSET Peer] : Apart(core, w) => Apart(d, w)
    BY Zenon, <2>2, <2>3, ForgetKeeps
  <2>5. Apart(d, waitlist')
    BY <1>3, <1>5, <2>4
  <2>6. Good
    BY Zenon, <1>6, <2>1, <2>4, <2>5, NoScheduleKeeps
  <2>7. QED
    BY Zenon, <1>1, <1>3, <1>4, <2>6, IterationKeeps
<1>9. QED
  BY Zenon, <1>7, <1>8

\* The handlers and Stop leave the trackers alone.
LEMMA HandlerStep ==
  ASSUME IInv,
         \/ \E p \in Peer, hashes, pool \in SUBSET Hash : Notify(p, hashes, pool)
         \/ \E p \in Peer, txs \in SUBSET Hash : \E cheap \in SUBSET (txs \cap Cheap), direct \in BOOLEAN :
              Enqueue(p, txs, cheap, direct)
         \/ \E p \in Peer : Terminated(p)
         \/ Stop
  PROVE  IInv'
<1> USE DEF IInv
<1>1. UNCHANGED <<waitlist, waittime, waitslots, waitTimer, core, timeoutTimer, panicked>>
  BY Zenon DEF Notify, Enqueue, Terminated, Stop, waitVars
<1>2. WaitInv' /\ CoreInv(core') /\ Apart(core', waitlist') /\ panicked' = FALSE
  BY Zenon, <1>1 DEF WaitInv
<1>3. underpriced' \in SUBSET Hash
  <2>1. ASSUME NEW txs \in SUBSET Hash, NEW cheap \in SUBSET (txs \cap Cheap)
        PROVE  Remember(cheap) \subseteq SUBSET Hash
    BY Zenon DEF Remember, TypeOK
  <2>2. QED
    BY Zenon, <2>1 DEF Notify, Enqueue, Terminated, Stop, TypeOK
<1>4. handler' \in [Peer -> Message]
  <2>1. handler \in [Peer -> Message]
    BY Zenon DEF TypeOK
  <2>2. \A p \in Peer, m \in Message : [handler EXCEPT ![p] = m] \in [Peer -> Message]
    BY Zenon, <2>1
  <2>3. ASSUME NEW p \in Peer, NEW hashes \in SUBSET Hash, NEW pool \in SUBSET Hash,
               Notify(p, hashes, pool)
        PROVE  handler' \in [Peer -> Message]
    <3>1. [op |-> "notify", hashes |-> Unknowns(hashes, pool), direct |-> FALSE] \in Message
      BY Zenon DEF Message, Unknowns
    <3>2. QED
      BY Zenon, <2>2, <2>3, <3>1 DEF Notify
  <2>4. ASSUME NEW p \in Peer, NEW txs \in SUBSET Hash, NEW cheap, NEW direct \in BOOLEAN,
               Enqueue(p, txs, cheap, direct)
        PROVE  handler' \in [Peer -> Message]
    <3>1. [op |-> "cleanup", hashes |-> txs, direct |-> direct] \in Message
      BY Zenon DEF Message
    <3>2. QED
      BY Zenon, <2>2, <2>4, <3>1 DEF Enqueue
  <2>5. ASSUME NEW p \in Peer, Terminated(p) PROVE handler' \in [Peer -> Message]
    BY Zenon, <2>2, <2>5, IdleMessage DEF Terminated
  <2>6. CASE Stop
    BY Zenon, <2>1, <2>6 DEF Stop
  <2>7. QED
    BY Zenon, <2>3, <2>4, <2>5, <2>6
<1>5. quit' \in BOOLEAN
  BY Zenon DEF Notify, Enqueue, Terminated, Stop, TypeOK
<1>6. TypeOK'
  BY Zenon, <1>1, <1>3, <1>4, <1>5 DEF TypeOK
<1>7. QED
  BY Zenon, <1>2, <1>6

LEMMA InitIInv == Init => IInv
<1> SUFFICES ASSUME Init PROVE IInv
  BY Zenon
<1>1. core \in Core /\ Idle \in Message
  BY Zenon, IdleMessage DEF Init, Core
<1>2. TypeOK
  BY Zenon, <1>1 DEF Init, TypeOK
<1>3. CoreInv(core)
  BY Zenon, <1>1, FetcherAssumption DEF Init, CoreInv, Matched, Credited, Alternated, Unqueued
<1>4. WaitInv /\ Apart(core, waitlist) /\ panicked = FALSE
  BY Zenon DEF Init, WaitInv, Apart
<1>5. QED
  BY Zenon, <1>2, <1>3, <1>4 DEF IInv

LEMMA NextIInv == IInv /\ [Next]_vars => IInv'
<1> SUFFICES ASSUME IInv, [Next]_vars PROVE IInv'
  BY Zenon
<1>1. CASE UNCHANGED vars
  <2>1. /\ core' = core /\ waitlist' = waitlist /\ waittime' = waittime /\ waitslots' = waitslots
        /\ panicked' = panicked
    BY Zenon, <1>1 DEF vars
  <2>2. TypeOK'
    BY Zenon, <1>1 DEF vars, IInv, TypeOK
  <2>3. CoreInv(core)'
    BY Zenon, <2>1 DEF IInv, CoreInv, Matched, Credited, Alternated, Unqueued
  <2>4. WaitInv'
    BY Zenon, <2>1 DEF IInv, WaitInv
  <2>5. Apart(core, waitlist)' /\ panicked' = FALSE
    BY Zenon, <2>1 DEF IInv, Apart
  <2>6. QED
    BY Zenon, <2>2, <2>3, <2>4, <2>5 DEF IInv
<1>2. ASSUME NEW p \in Peer, LoopNotify(p) PROVE IInv'
  BY Zenon, <1>2, NotifyStep
<1>3. ASSUME NEW p \in Peer, LoopCleanup(p) PROVE IInv'
  BY Zenon, <1>3, CleanupStep
<1>4. ASSUME NEW expired \in SUBSET waittime, WaitTrigger(expired) PROVE IInv'
  BY Zenon, <1>4, WaitStep
<1>5. ASSUME NEW late \in SUBSET core.busy, TimeoutTrigger(late) PROVE IInv'
  BY Zenon, <1>5, TimeoutStep
<1>6. ASSUME NEW p \in Peer, Drop(p) PROVE IInv'
  BY <1>6, DropStep
<1>7. CASE \/ \E p \in Peer, hashes, pool \in SUBSET Hash : Notify(p, hashes, pool)
           \/ \E p \in Peer, txs \in SUBSET Hash :
                \E cheap \in SUBSET (txs \cap Cheap), direct \in BOOLEAN : Enqueue(p, txs, cheap, direct)
           \/ \E p \in Peer : Terminated(p)
           \/ Stop
  BY Zenon, <1>7, HandlerStep
<1>8. QED
  BY Zenon, <1>1, <1>2, <1>3, <1>4, <1>5, <1>6, <1>7 DEF Next

\* The inductive invariant holds of every reachable state of the fetcher.
THEOREM Invariance == Spec => []IInv
  BY InitIInv, NextIInv, PTL DEF Spec

\* Every tracker keeps its type.
THEOREM TypeCorrect == Spec => []TypeOK
<1>1. IInv => TypeOK
  BY Zenon DEF IInv
<1>2. QED
  BY <1>1, Invariance, PTL

\* The documented invariant: no hash is ever in two stages.
THEOREM OneStageHolds == Spec => []OneStage
<1>1. IInv => OneStage
  BY Zenon DEF IInv, OneStage, Apart, CoreInv, Unqueued
<1>2. QED
  BY <1>1, Invariance, PTL

\* loop and scheduleFetches never reach their panics.
THEOREM NoPanicHolds == Spec => []NoPanic
<1>1. IInv => NoPanic
  BY Zenon DEF IInv, NoPanic
<1>2. QED
  BY <1>1, Invariance, PTL

\* No hash is requested from two peers at once, and none is marked in flight
\* without a request.
THEOREM FetchingMatchesRequestsHolds == Spec => []FetchingMatchesRequests
<1>1. IInv => FetchingMatchesRequests
  BY Zenon DEF IInv, FetchingMatchesRequests, CoreInv, Matched
<1>2. QED
  BY <1>1, Invariance, PTL

\* The trackers agree with each other.
THEOREM TrackersAgreeHolds == Spec => []TrackersAgree
<1>1. IInv => TrackersAgree
  BY Zenon DEF IInv, TrackersAgree, CoreInv, Credited, Alternated, WaitInv
<1>2. QED
  BY <1>1, Invariance, PTL

-----------------------------------------------------------------------------
(* Timers and scheduling. *)

\* scheduleFetches asks a ready peer for something unless everything it
\* announced is in flight or was given to a peer visited before it.
LEMMA UnaskedFacts ==
  ASSUME NEW c, CoreInv(c), NEW actives, NEW alloc \in Allocations(c, actives),
         NEW p \in actives, p \in Peer, p \notin c.busy, alloc[p] = {}
  PROVE  \A h \in Free(c, p) : h \in Taken(alloc)
<1>1. PICK order \in Orders : \A q \in Peer :
        LET before == {r \in Peer : order[r] < order[q]}
            left   == {h \in Free(c, q) : \A r \in before : h \notin alloc[r]}
        IN  IF q \in actives \ c.busy
            THEN /\ alloc[q] \subseteq left
                 /\ \/ Cardinality(alloc[q]) = maxTxRetrievals
                    \/ alloc[q] = left /\ Cardinality(left) < maxTxRetrievals
            ELSE alloc[q] = {}
  BY Zenon DEF Allocations, AllocationsTo
<1> DEFINE left == {h \in Free(c, p) : \A r \in {r \in Peer : order[r] < order[p]} : h \notin alloc[r]}
<1>2. Cardinality(alloc[p]) = maxTxRetrievals \/ alloc[p] = left
  BY Zenon, <1>1
<1>3. Cardinality(alloc[p]) # maxTxRetrievals
  BY Zenon, FS_EmptySet, FetcherAssumption
<1>4. left = {}
  BY Zenon, <1>2, <1>3
<1>5. Free(c, p) \subseteq Hash
  BY Zenon DEF Free, CoreInv, Core
<1>6. QED
  BY Zenon, <1>4, <1>5 DEF Taken

\* The trackers after scheduleFetches.
LEMMA Scheduled ==
  ASSUME NEW c, NEW actives, NEW timer, NEW bad, ScheduleFetches(c, actives, timer, bad)
  PROVE  \E alloc \in Allocations(c, actives) :
           /\ core' = Schedule(c, alloc)
           /\ timeoutTimer' = (timer \/ (c.busy = {} /\ core'.busy # {}))
  BY Zenon DEF ScheduleFetches

\* With every peer considered, none is left idle that could be asked.
LEMMA EveryoneServed ==
  ASSUME NEW c, CoreInv(c), NEW timer, NEW bad, ScheduleFetches(c, Everyone(c), timer, bad)
  PROVE  NoIdlePeer'
<1>1. PICK alloc \in Allocations(c, Everyone(c)) : core' = Schedule(c, alloc)
  BY Zenon, Scheduled
<1>2. alloc \in [Peer -> SUBSET Hash]
  BY Zenon, AllocationFacts
<1> SUFFICES ASSUME NEW p \in Peer, p \notin core'.busy, NEW h \in core'.announces[p],
                    core'.fetching[h] = NoPeer
             PROVE  FALSE
  BY Zenon DEF NoIdlePeer, Free
<1>3. p \notin c.busy /\ alloc[p] = {} /\ h \in c.announces[p]
  BY Zenon, <1>1 DEF Schedule
<1>4. h \in Hash /\ p \in Everyone(c)
  BY Zenon, <1>3 DEF CoreInv, Core, Everyone
<1>5. h \notin Taken(alloc)
  <2> SUFFICES ASSUME h \in Taken(alloc) PROVE FALSE
    BY Zenon
  <2>1. Taker(alloc, h) \in Peer
    BY Zenon DEF Taken, Taker
  <2>2. core'.fetching[h] = Taker(alloc, h)
    BY Zenon, <1>1, <1>4 DEF Schedule
  <2>3. QED
    BY Zenon, <2>1, <2>2, FetcherAssumption
<1>6. c.fetching[h] = NoPeer
  BY Zenon, <1>1, <1>4, <1>5 DEF Schedule
<1>7. QED
  BY Zenon, <1>3, <1>4, <1>5, <1>6, UnaskedFacts DEF Free

\* What an iteration has to bring to scheduleFetches: the timer runs if
\* requests are open, and if none is, whoever announced something is ready.
LEMMA SchedulingServes ==
  ASSUME NEW c, CoreInv(c), NEW actives, NEW timer \in BOOLEAN, NEW bad,
         ScheduleFetches(c, actives, timer, bad),
         c.busy # {} => timer,
         c.busy = {} => \A p \in Peer : c.announces[p] # {} => p \in actives
  PROVE  /\ core'.busy # {} => timeoutTimer'
         /\ core'.busy = {} => \A p \in Peer : core'.announces[p] = {}
<1>1. PICK alloc \in Allocations(c, actives) :
           /\ core' = Schedule(c, alloc)
           /\ timeoutTimer' = (timer \/ (c.busy = {} /\ core'.busy # {}))
  BY Zenon, Scheduled
<1>2. core'.busy # {} => timeoutTimer'
  BY Zenon, <1>1
<1>3. ASSUME core'.busy = {}, NEW p \in Peer, NEW h \in core'.announces[p] PROVE FALSE
  <2>1. c.busy = {} /\ h \in c.announces[p] /\ \A q \in Peer : alloc[q] = {}
    BY Zenon, <1>1, <1>3 DEF Schedule
  <2>2. h \in Hash /\ c.fetching[h] \in Peer \cup {NoPeer}
    BY Zenon, <2>1 DEF CoreInv, Core
  <2>3. c.fetching[h] = NoPeer
    BY Zenon, <2>1, <2>2 DEF CoreInv, Matched
  <2>4. p \in actives /\ h \notin Taken(alloc)
    BY Zenon, <2>1 DEF Taken
  <2>5. QED
    BY Zenon, <2>1, <2>3, <2>4, UnaskedFacts DEF Free
<1>4. QED
  BY Zenon, <1>2, <1>3

LEMMA NoSchedulingServes ==
  ASSUME TimersArmed, NEW c, NEW bad, NoSchedule(c, bad), c.busy = core.busy,
         c.busy = {} => \A p \in Peer : c.announces[p] = {}
  PROVE  /\ core'.busy # {} => timeoutTimer'
         /\ core'.busy = {} => \A p \in Peer : core'.announces[p] = {}
  BY Zenon DEF NoSchedule, TimersArmed

LEMMA NotifyServes ==
  ASSUME IInv, TimersArmed, IdleMeansDrained, NEW p \in Peer, LoopNotify(p)
  PROVE  TimersArmed' /\ IdleMeansDrained'
<1>1. CASE Used(p) >= maxTxAnnounces
  <2>1. UNCHANGED <<waittime, waitTimer, core, timeoutTimer>>
    BY Zenon, <1>1 DEF LoopNotify, waitVars
  <2>2. QED
    BY Zenon, <2>1 DEF TimersArmed, IdleMeansDrained
<1>2. CASE ~(Used(p) >= maxTxAnnounces)
  <2>1. PICK kept \in Kept(p, handler[p].hashes) : TrackAnnounce(p, kept)
    BY Zenon, <1>2 DEF LoopNotify
  <2>2. kept \subseteq Hash
    BY <2>1 DEF Kept, IInv, TypeOK, Message
  <2> DEFINE inflight == Inflight(kept)
             queued   == {h \in kept \ inflight : core.announced[h] # {}}
             waiting  == kept \ (inflight \cup queued)
             c        == Announce(core, p, inflight, queued)
  <2>3. AnnounceWaiting(p, waiting)
    BY Zenon, <2>1 DEF TrackAnnounce
  <2>4. IF core.announces[p] = {} /\ c.announces[p] # {}
        THEN ScheduleFetches(c, {p}, timeoutTimer, FALSE)
        ELSE NoSchedule(c, FALSE)
    BY Zenon, <2>1 DEF TrackAnnounce
  <2>5. inflight \in SUBSET Hash /\ queued \in SUBSET Hash
    BY Zenon, <2>2 DEF Inflight
  <2>6. \A h \in inflight : core.alternates[h] # {}
    BY Zenon DEF Inflight
  <2>7. waittime' # {} => waitTimer'
    BY Zenon, <2>3 DEF AnnounceWaiting, TimersArmed
  <2> HIDE DEF inflight, waiting
  <2>8. \A h \in queued : core.announced[h] # {}
    BY Zenon DEF queued
  <2> HIDE DEF queued
  <2>9. CoreInv(c)
    BY Zenon, <2>5, <2>6, <2>8, AnnounceKeeps DEF IInv
  <2>10. c.busy = core.busy /\ \A q \in Peer : q # p => c.announces[q] = core.announces[q]
    BY Zenon DEF Announce, IInv, CoreInv, Core
  <2> HIDE DEF c
  <2>11. c.busy = {} => core.announces[p] = {} /\ \A q \in Peer : c.announces[q] # {} => q \in {p}
    BY Zenon, <2>10 DEF IdleMeansDrained
  <2>12. timeoutTimer \in BOOLEAN /\ (c.busy # {} => timeoutTimer)
    BY Zenon, <2>10 DEF IInv, TypeOK, TimersArmed
  <2>13. /\ core'.busy # {} => timeoutTimer'
         /\ core'.busy = {} => \A q \in Peer : core'.announces[q] = {}
    <3>1. CASE core.announces[p] = {} /\ c.announces[p] # {}
      BY Zenon, <2>4, <2>9, <2>11, <2>12, <3>1, SchedulingServes
    <3>2. CASE ~(core.announces[p] = {} /\ c.announces[p] # {})
      <4>1. NoSchedule(c, FALSE)
        BY Zenon, <2>4, <3>2
      <4>2. c.busy = {} => \A q \in Peer : c.announces[q] = {}
        BY Zenon, <2>11, <3>2
      <4>3. QED
        BY Zenon, <2>10, <4>1, <4>2, NoSchedulingServes
    <3>3. QED
      BY Zenon, <3>1, <3>2
  <2>14. QED
    BY Zenon, <2>7, <2>13 DEF TimersArmed, IdleMeansDrained
<1>3. QED
  BY Zenon, <1>1, <1>2

LEMMA WaitServes ==
  ASSUME IInv, TimersArmed, IdleMeansDrained, NEW expired, WaitTrigger(expired)
  PROVE  TimersArmed' /\ IdleMeansDrained'
<1> DEFINE c == QueueExpired(core, expired)
           bad == \E h \in expired : core.announced[h] # {}
           actives == UNION {waitlist[h] : h \in expired}
<1>1. expired \in SUBSET Hash /\ \A h \in expired : waitlist[h] # {}
  BY Zenon DEF WaitTrigger, IInv, TypeOK, WaitInv
<1>2. waittime' # {} => waitTimer'
  BY Zenon DEF WaitTrigger, RearmWait
<1>3. CoreInv(c)
  BY Zenon, <1>1, QueueExpiredKeeps DEF IInv
<1>4. IF actives # {} THEN ScheduleFetches(c, actives, timeoutTimer, bad) ELSE NoSchedule(c, bad)
  BY Zenon DEF WaitTrigger
<1>5. c.busy = core.busy /\ \A q \in Peer : q \notin actives => c.announces[q] = core.announces[q]
  BY DEF QueueExpired, IInv, CoreInv, Core
<1> HIDE DEF c, bad, actives
<1>6. c.busy = {} => \A q \in Peer : c.announces[q] # {} => q \in actives
  BY Zenon, <1>5 DEF IdleMeansDrained
<1>7. timeoutTimer \in BOOLEAN /\ (c.busy # {} => timeoutTimer)
  BY Zenon, <1>5 DEF IInv, TypeOK, TimersArmed
<1>8. /\ core'.busy # {} => timeoutTimer'
      /\ core'.busy = {} => \A q \in Peer : core'.announces[q] = {}
  <2>1. CASE actives # {}
    BY Zenon, <1>3, <1>4, <1>6, <1>7, <2>1, SchedulingServes
  <2>2. CASE actives = {}
    <3>1. NoSchedule(c, bad)
      BY Zenon, <1>4, <2>2
    <3>2. c.busy = {} => \A q \in Peer : c.announces[q] = {}
      BY Zenon, <1>6, <2>2
    <3>3. QED
      BY Zenon, <1>5, <3>1, <3>2, NoSchedulingServes
  <2>3. QED
    BY Zenon, <2>1, <2>2
<1>9. QED
  BY Zenon, <1>2, <1>8 DEF TimersArmed, IdleMeansDrained

LEMMA TimeoutServes ==
  ASSUME IInv, TimersArmed, IdleMeansDrained, NEW late, TimeoutTrigger(late)
  PROVE  TimersArmed' /\ IdleMeansDrained' /\ NoIdlePeer'
<1> DEFINE c == ExpireRequests(core, late)
           bad == \E p \in late : \E h \in Outstanding(core, p) : core.announced[h] # {}
<1>1. waittime' = waittime /\ waitTimer' = waitTimer /\ late \subseteq core.busy
  BY Zenon DEF TimeoutTrigger, waitVars
<1>2. ScheduleFetches(c, Everyone(c), RearmTimeout, bad)
  BY Zenon DEF TimeoutTrigger
<1>3. CoreInv(c)
  BY Zenon, <1>1, ExpireKeeps DEF IInv
<1> HIDE DEF c, bad
<1>4. \A q \in Peer : c.announces[q] # {} => q \in Everyone(c)
  BY Zenon DEF Everyone
<1>5. RearmTimeout = TRUE
  BY Zenon DEF RearmTimeout
<1>6. /\ core'.busy # {} => timeoutTimer'
      /\ core'.busy = {} => \A q \in Peer : core'.announces[q] = {}
  BY Zenon, <1>2, <1>3, <1>4, <1>5, SchedulingServes
<1>7. NoIdlePeer'
  BY Zenon, <1>2, <1>3, EveryoneServed
<1>8. QED
  BY Zenon, <1>1, <1>6, <1>7 DEF TimersArmed, IdleMeansDrained

LEMMA DropServes ==
  ASSUME IInv, TimersArmed, IdleMeansDrained, NEW p \in Peer, Drop(p)
  PROVE  TimersArmed' /\ IdleMeansDrained'
<1>1. waittime' # {} => waitTimer'
  BY Zenon DEF Drop, TimersArmed
<1>2. CASE p \in core.busy
  <2> DEFINE b == CancelRequest(core, p)
             d == ForgetAnnounces(b, p)
  <2>1. ScheduleFetches(d, Everyone(d), TRUE, FALSE)
    BY Zenon, <1>2 DEF Drop
  <2>2. b = CancelRequest(core, p) /\ d = ForgetAnnounces(b, p)
    BY Zenon
  <2> HIDE DEF b, d
  <2>3. CoreInv(d)
    BY Zenon, <1>2, <2>2, DropKeeps DEF IInv
  <2>4. \A q \in Peer : d.announces[q] # {} => q \in Everyone(d)
    BY Zenon DEF Everyone
  <2>5. /\ core'.busy # {} => timeoutTimer'
        /\ core'.busy = {} => \A q \in Peer : core'.announces[q] = {}
    BY Zenon, <2>1, <2>3, <2>4, SchedulingServes
  <2>6. QED
    BY Zenon, <1>1, <2>5 DEF TimersArmed, IdleMeansDrained
<1>3. CASE p \notin core.busy
  <2> DEFINE d == ForgetAnnounces(core, p)
  <2>1. NoSchedule(d, FALSE)
    BY Zenon, <1>3 DEF Drop
  <2>2. d.busy = core.busy /\ \A q \in Peer : d.announces[q] \subseteq core.announces[q]
    BY Zenon DEF ForgetAnnounces, IInv, CoreInv, Core
  <2> HIDE DEF d
  <2>3. d.busy = {} => \A q \in Peer : d.announces[q] = {}
    BY Zenon, <2>2 DEF IdleMeansDrained
  <2>4. /\ core'.busy # {} => timeoutTimer'
        /\ core'.busy = {} => \A q \in Peer : core'.announces[q] = {}
    BY Zenon, <2>1, <2>2, <2>3, NoSchedulingServes
  <2>5. QED
    BY <1>1, <2>4 DEF TimersArmed, IdleMeansDrained
<1>4. QED
  BY Zenon, <1>2, <1>3

\* A delivery ends in one of two ways: its origin had a request, which is
\* closed before everyone is scheduled, or nothing but the delivered hashes is
\* taken out.
LEMMA CleanupEnds ==
  ASSUME IInv, NEW p \in Peer, LoopCleanup(p),
         NEW D, D = {h \in handler[p].hashes : waitlist[h] = {}},
         NEW c, c = Untrack(core, D, p, handler[p].direct)
  PROVE  \/ \E skipped, e, bad :
              /\ e = CloseRequest(c, p, handler[p].hashes, skipped)
              /\ CoreInv(e)
              /\ ScheduleFetches(e, Everyone(e), timeoutTimer, bad)
         \/ \E bad : NoSchedule(c, bad)
<1> DEFINE delivered == handler[p].hashes
           direct == handler[p].direct
           waiting == {h \in delivered : waitlist[h] # {}}
           nilReq == \E h \in delivered \ waiting :
                       Stolen(core, h, p, direct) /\ core.fetching[h] \notin core.busy
           clash(skipped) == \E h \in Outstanding(c, p) \ delivered :
                               Left(c, h, p, skipped) # {} /\ c.announced[h] # {}
<1>1. delivered \in SUBSET Hash /\ direct \in BOOLEAN /\ D \subseteq delivered
  BY Zenon DEF IInv, TypeOK, Message
<1>2. D = delivered \ waiting
  BY Zenon
<1>3. c = Untrack(core, delivered \ waiting, p, direct)
  BY Zenon, <1>2
<1>4. IF direct /\ p \in c.busy
      THEN \E skipped \in Skipped(c, p, delivered) :
             LET d == CloseRequest(c, p, delivered, skipped)
             IN  ScheduleFetches(d, Everyone(d), timeoutTimer, nilReq \/ clash(skipped))
      ELSE NoSchedule(c, nilReq)
  BY Zenon, <1>3 DEF LoopCleanup
<1>5. c.busy = core.busy
  BY DEF Untrack
<1>6. Landed(core, delivered \ D)
  BY Zenon, <1>1 DEF IInv, Apart, Landed
<1>7. CASE direct /\ p \in c.busy
  <2>1. PICK skipped \in Skipped(c, p, delivered) :
          ScheduleFetches(CloseRequest(c, p, delivered, skipped),
                          Everyone(CloseRequest(c, p, delivered, skipped)),
                          timeoutTimer, nilReq \/ clash(skipped))
    BY Zenon, <1>4, <1>7
  <2> DEFINE e == CloseRequest(c, p, delivered, skipped)
  <2>2. direct = TRUE /\ p \in core.busy
    BY Zenon, <1>1, <1>5, <1>7
  <2>3. Closing(core, delivered, D, p, direct, c, skipped, e)
    BY Zenon, <1>1, <1>6, <2>1, <2>2 DEF Closing, IInv
  <2>4. CoreInv(e)
    <3> HIDE DEF e, delivered, direct
    <3>1. QED
      BY <2>3, CloseKeeps
  <2>5. QED
    BY Zenon, <2>1, <2>4
<1>8. CASE ~(direct /\ p \in c.busy)
  BY Zenon, <1>4, <1>8
<1>9. QED
  BY Zenon, <1>7, <1>8

LEMMA CleanupServes ==
  ASSUME IInv, TimersArmed, IdleMeansDrained, NEW p \in Peer, LoopCleanup(p)
  PROVE  TimersArmed' /\ IdleMeansDrained'
<1>1. waittime' # {} => waitTimer'
  BY Zenon DEF LoopCleanup, TimersArmed
<1> DEFINE D == {h \in handler[p].hashes : waitlist[h] = {}}
           c == Untrack(core, D, p, handler[p].direct)
<1>2. c.busy = core.busy /\ \A q \in Peer : c.announces[q] \subseteq core.announces[q]
  BY Zenon DEF Untrack, IInv, CoreInv, Core
<1>3. \/ \E skipped, e, bad :
           /\ e = CloseRequest(c, p, handler[p].hashes, skipped)
           /\ CoreInv(e)
           /\ ScheduleFetches(e, Everyone(e), timeoutTimer, bad)
      \/ \E bad : NoSchedule(c, bad)
  BY Zenon, CleanupEnds
<1> HIDE DEF c
<1>4. timeoutTimer \in BOOLEAN /\ (core.busy # {} => timeoutTimer)
  BY Zenon DEF IInv, TypeOK, TimersArmed
<1>5. ASSUME NEW skipped, NEW e, NEW bad,
             e = CloseRequest(c, p, handler[p].hashes, skipped), CoreInv(e),
             ScheduleFetches(e, Everyone(e), timeoutTimer, bad)
      PROVE  /\ core'.busy # {} => timeoutTimer'
             /\ core'.busy = {} => \A q \in Peer : core'.announces[q] = {}
  <2>1. e.busy # {} => timeoutTimer
    BY Zenon, <1>2, <1>4, <1>5 DEF CloseRequest
  <2>2. \A q \in Peer : e.announces[q] # {} => q \in Everyone(e)
    BY Zenon DEF Everyone
  <2>3. QED
    BY Zenon, <1>4, <1>5, <2>1, <2>2, SchedulingServes
<1>6. ASSUME NEW bad, NoSchedule(c, bad)
      PROVE  /\ core'.busy # {} => timeoutTimer'
             /\ core'.busy = {} => \A q \in Peer : core'.announces[q] = {}
  <2>1. c.busy = {} => \A q \in Peer : c.announces[q] = {}
    BY <1>2 DEF IdleMeansDrained
  <2>2. QED
    BY Zenon, <1>2, <1>6, <2>1, NoSchedulingServes
<1>7. /\ core'.busy # {} => timeoutTimer'
      /\ core'.busy = {} => \A q \in Peer : core'.announces[q] = {}
  BY Zenon, <1>3, <1>5, <1>6
<1>8. QED
  BY <1>1, <1>7 DEF TimersArmed, IdleMeansDrained

LEMMA NextServes ==
  IInv /\ TimersArmed /\ IdleMeansDrained /\ [Next]_vars => TimersArmed' /\ IdleMeansDrained'
<1> SUFFICES ASSUME IInv, TimersArmed, IdleMeansDrained, [Next]_vars
             PROVE  TimersArmed' /\ IdleMeansDrained'
  BY Zenon
<1>1. CASE UNCHANGED <<waittime, waitTimer, core, timeoutTimer>>
  BY Zenon, <1>1 DEF TimersArmed, IdleMeansDrained
<1>2. CASE \/ \E p \in Peer, hashes, pool \in SUBSET Hash : Notify(p, hashes, pool)
           \/ \E p \in Peer, txs \in SUBSET Hash :
                \E cheap \in SUBSET (txs \cap Cheap), direct \in BOOLEAN : Enqueue(p, txs, cheap, direct)
           \/ \E p \in Peer : Terminated(p)
           \/ Stop
           \/ UNCHANGED vars
  BY Zenon, <1>1, <1>2 DEF Notify, Enqueue, Terminated, Stop, waitVars, vars
<1>3. ASSUME NEW p \in Peer, LoopNotify(p) \/ LoopCleanup(p) \/ Drop(p)
      PROVE  TimersArmed' /\ IdleMeansDrained'
  BY Zenon, <1>3, NotifyServes, CleanupServes, DropServes
<1>4. ASSUME NEW expired \in SUBSET waittime, WaitTrigger(expired)
      PROVE  TimersArmed' /\ IdleMeansDrained'
  BY Zenon, <1>4, WaitServes
<1>5. ASSUME NEW late \in SUBSET core.busy, TimeoutTrigger(late)
      PROVE  TimersArmed' /\ IdleMeansDrained'
  BY Zenon, <1>5, TimeoutServes
<1>6. QED
  BY Zenon, <1>2, <1>3, <1>4, <1>5 DEF Next

\* Whatever adds a waiting hash or a request, and whatever takes the entry away
\* that the timer was started for, a timer is running while there is something
\* to expire; and the loop never rests with announcements and no request.
LEMMA LoopServes == Spec => [](TimersArmed /\ IdleMeansDrained)
<1>1. Init => TimersArmed /\ IdleMeansDrained
  BY DEF Init, TimersArmed, IdleMeansDrained
<1>2. QED
  BY <1>1, NextServes, Invariance, PTL DEF Spec

\* Every waiting hash and every open request is watched by a running timer.
THEOREM TimersStayArmed == Spec => []TimersArmed
  BY LoopServes, PTL

\* Announcements are never left over with no request open.
THEOREM NothingIdles == Spec => []IdleMeansDrained
  BY LoopServes, PTL

\* A timeout iteration leaves no peer idle that announced a hash nobody is
\* fetching, in whatever order forEachPeer visits the peers.
THEOREM TimeoutsServe == Spec => TimeoutServesIdle
<1>1. ASSUME IInv, TimersArmed, IdleMeansDrained, NEW late \in SUBSET core.busy, TimeoutTrigger(late)
      PROVE  NoIdlePeer'
  BY Zenon, <1>1, TimeoutServes
<1>2. IInv /\ TimersArmed /\ IdleMeansDrained
        => ((\E late \in SUBSET core.busy : TimeoutTrigger(late)) => NoIdlePeer')
  BY Zenon, <1>1
<1>3. QED
  BY <1>2, Invariance, LoopServes, PTL DEF TimeoutServesIdle

\* The trace of a hash in the queue and in-flight trackers.
Traced(c, h) ==
  \/ c.announced[h] # {} \/ c.alternates[h] # {} \/ c.fetching[h] # NoPeer
  \/ \E p \in Peer : h \in c.announces[p]

\* The loop forgets what was delivered, in whatever stage it was, and the
\* rescheduling of what was not delivered does not bring it back.
THEOREM DeliveriesForgotten == Spec => DeliveredForgotten
<1>1. ASSUME IInv, NEW p \in Peer, LoopCleanup(p), NEW h \in handler[p].hashes
      PROVE  ~Tracked(h)'
  <2> DEFINE D == {g \in handler[p].hashes : waitlist[g] = {}}
             c == Untrack(core, D, p, handler[p].direct)
  <2>1. h \in Hash /\ core \in Core /\ D \in SUBSET Hash
    BY Zenon, <1>1 DEF IInv, CoreInv, TypeOK, Message
  <2>2. waitlist'[h] = {} /\ h \notin waittime' /\ \A q \in Peer : h \notin waitslots'[q]
    <3> DEFINE waiting == {g \in handler[p].hashes : waitlist[g] # {}}
    <3>1. /\ waitlist' = [g \in Hash |-> IF g \in waiting THEN {} ELSE waitlist[g]]
          /\ waitslots' = [q \in Peer |-> waitslots[q] \ waiting]
          /\ waittime' = waittime \ waiting
      BY Zenon, <1>1 DEF LoopCleanup
    <3>2. waitlist[h] = {} => h \notin waittime /\ \A q \in Peer : h \notin waitslots[q]
      BY Zenon, <1>1, <2>1 DEF IInv, WaitInv
    <3>3. QED
      BY Zenon, <1>1, <2>1, <3>1, <3>2
  <2>3. ~Traced(c, h)
    <3>1. CASE h \in D
      BY Zenon, <2>1, <3>1 DEF Traced, Untrack, Core
    <3>2. CASE h \notin D
      <4>1. core.announced[h] = {} /\ core.fetching[h] = NoPeer
        BY Zenon, <1>1, <2>1, <3>2 DEF IInv, Apart
      <4>2. core.alternates[h] = {} /\ \A q \in Peer : h \notin core.announces[q]
        BY Zenon, <1>1, <2>1, <4>1 DEF IInv, CoreInv, Alternated, Credited
      <4>3. QED
        BY Zenon, <2>1, <4>1, <4>2 DEF Traced, Untrack, Core
    <3>3. QED
      BY Zenon, <3>1, <3>2
  <2>4. \/ \E skipped, e, bad :
              /\ e = CloseRequest(c, p, handler[p].hashes, skipped)
              /\ CoreInv(e)
              /\ ScheduleFetches(e, Everyone(e), timeoutTimer, bad)
        \/ \E bad : NoSchedule(c, bad)
    BY Zenon, <1>1, CleanupEnds
  <2> HIDE DEF c
  <2>5. ASSUME NEW skipped, NEW e, NEW bad,
               e = CloseRequest(c, p, handler[p].hashes, skipped), CoreInv(e),
               ScheduleFetches(e, Everyone(e), timeoutTimer, bad)
        PROVE  ~Traced(core', h)
    <3>1. ~Traced(e, h)
      BY Zenon, <1>1, <2>1, <2>3, <2>5 DEF Traced, CloseRequest
    <3>2. PICK alloc \in Allocations(e, Everyone(e)) : core' = Schedule(e, alloc)
      BY Zenon, <2>5, Scheduled
    <3>3. h \notin Taken(alloc)
      <4>1. \A q \in Peer : alloc[q] \subseteq Free(e, q)
        BY Zenon, <2>5, AllocationFacts
      <4>2. \A q \in Peer : h \notin Free(e, q)
        BY Zenon, <3>1 DEF Free, Traced
      <4>3. QED
        BY Zenon, <4>1, <4>2 DEF Taken
    <3>4. QED
      BY Zenon, <2>1, <3>1, <3>2, <3>3 DEF Traced, Schedule
  <2>6. ~Traced(core', h)
    BY Zenon, <2>3, <2>4, <2>5 DEF NoSchedule
  <2>7. QED
    BY Zenon, <2>2, <2>6 DEF Tracked, Traced
<1>2. IInv => \A p \in Peer : LoopCleanup(p) => \A h \in handler[p].hashes : ~Tracked(h)'
  BY Zenon, <1>1
<1>3. QED
  BY <1>2, Invariance, PTL DEF DeliveredForgotten

=============================================================================
