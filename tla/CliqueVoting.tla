---------------------------- MODULE CliqueVoting ----------------------------
(***************************************************************************)
(* Signer voting along a chain: the snapshot of the head, evolved by every *)
(* header that the verification of consensus/clique/clique.go accepts.     *)
(* Verification and Snapshot.apply judge a header separately: a verified   *)
(* head that apply refuses can never be built upon.                        *)
(***************************************************************************)
EXTENDS CliqueSnapshot

CONSTANT Genesis  \* the signer lists a genesis block may have

ASSUME VotingAssumption == Genesis \subseteq SUBSET Address

VARIABLES
  snap,   \* the snapshot of the chain's head
  broken  \* the head was verified, but has no snapshot

vars == <<snap, broken>>

Init ==
  /\ \E signers \in Genesis : snap = newSnapshot(0, signers)
  /\ broken = FALSE

\* h is the new head: its snapshot is asked for.
Extend(h) ==
  IF Refused(snap, h)
  THEN broken' = TRUE /\ snap' = snap
  ELSE broken' = broken /\ snap' = apply(snap, h)

Import(h) ==
  /\ ~broken
  /\ snap.Number < MaxNumber
  /\ verifyHeader(snap, h)
  /\ Extend(h)

Next == \E h \in Header(snap) : Import(h)

Spec == Init /\ [][Next]_vars

-----------------------------------------------------------------------------
(* Properties. *)

\* The snapshot holds what struct Snapshot declares.
TypeOK == snap \in Snapshot /\ broken \in BOOLEAN

VotesOn(s, a) == {v \in s.Votes : v.Address = a}

\* The cached tally of apply is the number of pending votes on the account,
\* and counts them in the direction that would change its status.
TallyMatchesVotes ==
  \A a \in Address :
    /\ snap.Tally[a].Votes = Cardinality(VotesOn(snap, a))
    /\ snap.Tally[a].Votes > 0 => snap.Tally[a].Authorize = (a \notin snap.Signers)

\* Pending votes were cast since the last checkpoint, by accounts that are
\* still signers, at most one per signer and account, and every one of them
\* asks for a change of status: nothing stale is left to interfere with a
\* later vote when a signer is added, removed and added again.
VotesAreLive ==
  \A v \in snap.Votes :
    /\ v.Signer \in snap.Signers
    /\ v.Authorize = (v.Address \notin snap.Signers)
    /\ v.Block <= snap.Number
    /\ snap.Number - v.Block <= snap.Number % Epoch
    /\ \A w \in snap.Votes : w.Signer = v.Signer /\ w.Address = v.Address => w = v

\* Whatever the signer set went through, the recents that count for the next
\* block are those of exactly the last Limit - 1 blocks, each once; the list
\* holds at most one more, which the next block shifts out.
RecentsWindow ==
  LET counted == {r \in snap.Recents : r.block + Limit(snap) > snap.Number + 1}
  IN  /\ {r.block : r \in counted} = {n \in 1..snap.Number : n + Limit(snap) > snap.Number + 1}
      /\ \A r \in snap.Recents : r.block + Limit(snap) >= snap.Number + 1
      /\ \A q, r \in snap.Recents : q.block = r.block => q = r

\* Seal starts to sign exactly when apply would take the signer's block: a
\* node neither seals a block that is refused nor sits out a turn it has.
SealAgreesWithApply ==
  \A a \in Address :
    MaySeal(snap, a) <=> a \in snap.Signers /\ ~\E r \in Cleared(snap).Recents : r.signer = a

\* Recent-signer protection never locks everybody out: while there are
\* signers, one of them may seal the next block.
SomeoneMaySeal == snap.Signers # {} => \E a \in snap.Signers : MaySeal(snap, a)

\* One signer is in turn at every height, so two in-turn blocks (the
\* heaviest) cannot compete for one parent.
OneInTurn ==
  snap.Signers # {} =>
    Cardinality({a \in Address : calcDifficulty(snap, a) = diffInTurn}) = 1

\* The signers that want what header h asks for: those with a pending vote on
\* its account, and the sealer if its vote makes sense.
Supporters(s, h) ==
  {a \in s.Signers :
     \/ a = h.signer /\ validVote(s, h.coinbase, Authorizes(h))
     \/ /\ a # h.signer /\ (s.Number + 1) % Epoch # 0
        /\ \E v \in VotesOn(s, h.coinbase) : v.Signer = a}

\* A header changes the signers only by the account it votes on, and only if
\* more than half of the signers want it.
MajorityChanges ==
  [][\A h \in Header(snap) : Import(h) /\ snap'.Signers # snap.Signers =>
       /\ snap'.Signers \in {snap.Signers \cup {h.coinbase}, snap.Signers \ {h.coinbase}}
       /\ 2 * Cardinality(Supporters(snap, h)) > Cardinality(snap.Signers)]_vars

\* From the block on whose number reaches the limit, a header that passes
\* verifySeal and verifyHeader is one apply takes: the two recent-signer
\* checks, written against different states of the list, agree.
EarlyOnly == broken => snap.Number + 1 < Limit(snap)
=============================================================================
