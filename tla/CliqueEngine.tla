---------------------------- MODULE CliqueEngine ----------------------------
(***************************************************************************)
(* How the engine finds a snapshot, Clique.snapshot of clique.go: an       *)
(* in-memory cache, snapshots stored every checkpointInterval blocks, the  *)
(* genesis block, and trusted checkpoint blocks, whichever comes first     *)
(* walking back from the block; the headers after it are applied again.    *)
(*                                                                         *)
(* A block's hash is the sequence of headers from genesis to the block, so *)
(* hashes are injective and name their ancestors.  The chain database is   *)
(* external: the canonical chain and one abandoned branch.                 *)
(***************************************************************************)
EXTENDS CliqueSnapshot, Sequences

CONSTANTS
  GenesisSigners,             \* signers listed by the genesis block
  checkpointInterval,         \* blocks between stored snapshots
  FullImmutabilityThreshold,  \* headers after which a checkpoint is trusted
  inmemorySnapshots,          \* capacity of the cache
  Ballots,                    \* bound: the votes tried, a set of <<coinbase, nonce>>
  MaxResets                   \* bound: rewinds and reinitialisations

ASSUME EngineAssumption ==
  /\ GenesisSigners \subseteq Address
  /\ checkpointInterval \in Nat \ {0} /\ FullImmutabilityThreshold \in Nat
  /\ inmemorySnapshots \in Nat \ {0}
  /\ Ballots \subseteq Address \X Nonce
  /\ MaxResets \in Nat

VARIABLES
  chain,    \* headers of the canonical chain, the genesis block left out
  side,     \* headers of the branch the last rewind abandoned
  base,     \* headers below this number (but genesis) are missing
  recents,  \* cached snapshots, as [hash, snap] entries
  stored,   \* snapshots in the database, as [hash, snap] entries
  resets    \* rewinds and reinitialisations so far

vars == <<chain, side, base, recents, stored, resets>>

Init ==
  /\ chain = <<>>
  /\ side = <<>>
  /\ base = 0
  /\ recents = {}
  /\ stored = {}
  /\ resets = 0

Prefix(p, k) == SubSeq(p, 1, k)

\* The snapshot filed under a hash, as a set of at most one.
Filed(entries, hash) == {e.snap : e \in {f \in entries : f.hash = hash}}

\* One header applied: an error leaves nothing.
Advance(S, h) == {apply(s, h) : s \in {t \in S : ~Refused(t, h)}}

\* Apply headers one by one: the singleton of the result, or {} on an error.
ApplyAll(start, headers) ==
  LET after[i \in 0..Len(headers)] ==
        IF i = 0 THEN start ELSE Advance(after[i - 1], headers[i])
  IN  after[Len(headers)]

\* A checkpoint taken at its word: genesis, one without a parent, or one
\* below more headers than can be reorged.  (TrustedM overlooks the second.)
TrustedM(p, k) ==
  /\ k = 0 \/ (k % Epoch = 0 /\ Len(p) - k > FullImmutabilityThreshold)
  /\ k <= Len(chain) /\ (k = 0 \/ k >= base)
Trusted(p, k) ==
  /\ \/ k = 0
     \/ /\ k % Epoch = 0
        /\ Len(p) - k > FullImmutabilityThreshold \/ (k > 1 /\ k - 1 < base)
  /\ k <= Len(chain) /\ (k = 0 \/ k >= base)

\* The snapshot of the canonical checkpoint at number k.
CheckpointM(k) == newSnapshot(k, GenesisSigners)
Checkpoint(k) ==
  newSnapshot(k, IF k = 0 THEN GenesisSigners ELSE chain[k].signers)

OnDisk(p, k) == IF k % checkpointInterval = 0 THEN Filed(stored, Prefix(p, k)) ELSE {}

Found(p, k) ==
  Filed(recents, Prefix(p, k)) # {} \/ OnDisk(p, k) # {} \/ Trusted(p, k)

\* Where the walk back from p ends: at the first snapshot found.
Start(p) == CHOOSE k \in 0..Len(p) : Found(p, k) /\ \A j \in 0..Len(p) : Found(p, j) => j <= k

FromTrust(p, k) == Filed(recents, Prefix(p, k)) = {} /\ OnDisk(p, k) = {}

StartSnapshot(p, k) ==
  IF Filed(recents, Prefix(p, k)) # {} THEN Filed(recents, Prefix(p, k))
  ELSE IF OnDisk(p, k) # {} THEN OnDisk(p, k)
  ELSE {Checkpoint(k)}

\* Headers the walk needs but the database has not: ErrUnknownAncestor.
Missing(p, k) == k < Len(p) /\ k + 1 < base

\* The headers walked over, oldest first.
Gathered(p, k) == SubSeq(p, k + 1, Len(p))

SnapshotFrom(p, k) ==
  IF Missing(p, k) THEN {} ELSE ApplyAll(StartSnapshot(p, k), Gathered(p, k))

snapshot(p) == SnapshotFrom(p, Start(p))

\* The hash the resulting snapshot carries.
SnapshotHash(p, k) ==
  IF k = Len(p) /\ FromTrust(p, k) THEN Prefix(chain, k) ELSE p

Put(entries, hash, s) == {e \in entries : e.hash # hash} \cup {[hash |-> hash, snap |-> s]}

\* A checkpoint taken on trust is stored.
StoreTrusted(p, k) ==
  IF FromTrust(p, k) THEN Put(stored, Prefix(chain, k), Checkpoint(k)) ELSE stored

\* recents.Add: a full cache evicts an arbitrary other entry.
AddRecent(hash, s) ==
  LET all == Put(recents, hash, s)
  IN  IF Cardinality(all) <= inmemorySnapshots THEN {all}
      ELSE {all \ {e} : e \in {f \in all : f.hash # hash}}

\* The effects of asking for the snapshot of p: the result is cached, and
\* stored if it is due.
Lookup(p) ==
  \E k \in {Start(p)} : \E result \in {SnapshotFrom(p, k)} :
    IF result = {}
    THEN recents' = recents /\ stored' = StoreTrusted(p, k)
    ELSE \E s \in result :
           /\ recents' \in AddRecent(SnapshotHash(p, k), s)
           /\ stored' = IF Len(p) % checkpointInterval = 0 /\ k < Len(p)
                        THEN Put(StoreTrusted(p, k), p, s) ELSE StoreTrusted(p, k)

-----------------------------------------------------------------------------
(* Callers. *)

Candidate(h) == <<h.coinbase, h.nonce>> \in Ballots

\* A header on top of the head passes verification and is written.
Insert(h) ==
  /\ Len(chain) < MaxNumber
  /\ \E s \in snapshot(chain) : h \in Header(s) /\ Candidate(h) /\ verifyHeader(s, h)
  /\ chain' = Append(chain, h)
  /\ Lookup(chain)
  /\ UNCHANGED <<side, base, resets>>

\* The snapshot of a known block is asked for: the API, Prepare, Seal, or the
\* verification of a block on top of it.
Query(p) ==
  /\ Lookup(p)
  /\ UNCHANGED <<chain, side, base, resets>>

\* A batch is verified: the snapshot of a header that is not (and may never
\* be) part of the chain, passed in as a parent.
QueryParent(h) ==
  /\ Len(chain) < MaxNumber
  /\ Candidate(h)
  /\ Lookup(Append(chain, h))
  /\ UNCHANGED <<chain, side, base, resets>>

\* The chain leaves a branch, which stays in the database.
Rewind(k) ==
  /\ resets < MaxResets
  /\ k < Len(chain) /\ k >= base
  /\ Len(chain) - k <= FullImmutabilityThreshold
  /\ chain' = Prefix(chain, k)
  /\ side' = chain
  /\ resets' = resets + 1
  /\ UNCHANGED <<base, recents, stored>>

Restart ==
  /\ recents' = {}
  /\ UNCHANGED <<chain, side, base, stored, resets>>

\* A node that starts from a checkpoint, with the headers from b on (a light
\* client), or from frozen headers only (b = 0).
Reinit(b) ==
  /\ resets < MaxResets
  /\ b % Epoch = 0
  /\ base' = b
  /\ side' = <<>>
  /\ recents' = {} /\ stored' = {}
  /\ resets' = resets + 1
  /\ UNCHANGED chain

Next ==
  \/ \E a \in GenesisSigners, b \in Ballots, d \in {diffInTurn, diffNoTurn} :
       \E l \in {{}} \cup SUBSET GenesisSigners :
         LET h == [signer |-> a, coinbase |-> b[1], nonce |-> b[2], difficulty |-> d, signers |-> l]
         IN  Insert(h)
  \/ \E a \in GenesisSigners :
       QueryParent([signer |-> a, coinbase |-> Zero, nonce |-> "drop", difficulty |-> diffNoTurn, signers |-> {}])
  \/ \E k \in 0..Len(chain) : Query(Prefix(chain, k))
  \/ \E k \in 0..Len(side) : Query(Prefix(side, k))
  \/ \E k \in 0..Len(chain) : Rewind(k)
  \/ Restart
  \/ \E b \in 0..Len(chain) : Reinit(b)

Spec == Init /\ [][Next]_vars

-----------------------------------------------------------------------------
(* Properties. *)

\* The snapshot a block has by replaying every header since genesis.
Replay(p) == ApplyAll({newSnapshot(0, GenesisSigners)}, p)

\* However a snapshot was put together, from caches that survived rewinds and
\* restarts, stored ones or a trusted checkpoint, it has the signers and the
\* votes that a replay of the whole chain yields, and no recent signer the
\* replay does not have.
SnapshotsAgree ==
  \A e \in recents \cup stored : \A s \in Replay(e.hash) :
    /\ e.snap.Signers = s.Signers /\ e.snap.Votes = s.Votes /\ e.snap.Tally = s.Tally
    /\ e.snap.Recents \subseteq s.Recents

\* Blocks the node has written can be looked up for as long as it keeps the
\* headers: no state of the caches makes the walk back fail.
HeadResolves == Len(chain) >= base => snapshot(chain) # {}
=============================================================================
