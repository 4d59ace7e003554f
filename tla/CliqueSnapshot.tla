--------------------------- MODULE CliqueSnapshot ---------------------------
(***************************************************************************)
(* The operators of the proof-of-authority engine: the vote snapshot of    *)
(* consensus/clique/snapshot.go, and the header checks and the sealing     *)
(* rule of consensus/clique/clique.go, which read it.                      *)
(*                                                                         *)
(* Abstractions.  Addresses are numbers, ordered as their bytes are; a     *)
(* signature is the signer it recovers to, and nobody signs for Zero.      *)
(* Fields that every verifier checks without looking at the snapshot       *)
(* (vanity, mix digest, uncles, fork hashes, time) are left out.  The      *)
(* vote list is a set: votes have distinct blocks, and the oldest match of *)
(* the code's scan is the one with the smallest block.                     *)
(***************************************************************************)
EXTENDS Naturals, FiniteSets

CONSTANTS
  Address,    \* accounts that may be voted on
  Zero,       \* the zero address, the coinbase of a block without a vote
  Epoch,      \* blocks between checkpoints, config.Epoch
  Word,       \* size of the uint64 range block numbers are computed in
  MaxNumber   \* bound: height of the chain

ASSUME CliqueAssumption ==
  /\ Address \subseteq Nat /\ IsFiniteSet(Address) /\ Zero \in Address
  /\ Epoch \in Nat \ {0}
  /\ MaxNumber \in Nat
  /\ Word \in Nat /\ Word > 2 * (MaxNumber + Cardinality(Address) + 1)

Vote == [Signer : Address, Block : Nat, Address : Address, Authorize : BOOLEAN]
Tally == [Authorize : BOOLEAN, Votes : Nat]
NoTally == [Authorize |-> FALSE, Votes |-> 0]
Recent == [block : Nat, signer : Address]

Snapshot ==
  [Number  : Nat,
   Signers : SUBSET Address,
   Recents : SUBSET Recent,
   Votes   : SUBSET Vote,
   Tally   : [Address -> Tally]]

\* The parts of a header the engine reads: who sealed it, the vote it casts
\* (nonceAuthVote, nonceDropVote or something else), its difficulty, and the
\* signers a checkpoint lists.
Nonce == {"auth", "drop", "other"}
diffInTurn == 2
diffNoTurn == 1

newSnapshot(number, signers) ==
  [Number  |-> number,
   Signers |-> signers,
   Recents |-> {},
   Votes   |-> {},
   Tally   |-> [a \in Address |-> NoTally]]

-----------------------------------------------------------------------------
(* Snapshot.apply, for one header. *)

Half(s) == Cardinality(s.Signers) \div 2
Limit(s) == Half(s) + 1

Authorizes(h) == h.nonce = "auth"

validVote(s, address, authorize) == (address \in s.Signers) # authorize

\* Checkpoints drop the pending votes.
ResetVotes(s, number) ==
  IF number % Epoch = 0
  THEN [s EXCEPT !.Votes = {}, !.Tally = [a \in Address |-> NoTally]]
  ELSE s

\* Let the oldest recent signer sign again.  (No subtraction: a number below
\* the limit deletes nothing.)
ForgetOldestM(s, number) == [s EXCEPT !.Recents = {r \in @ : r.block + Half(s) # number}]
ForgetOldest(s, number) == [s EXCEPT !.Recents = {r \in @ : r.block + Limit(s) # number}]

\* The tally of an account after uncasting some votes on it.
uncast(tally, votes) ==
  LET counted == Cardinality({v \in votes : v.Authorize = tally.Authorize})
  IN  IF tally.Votes > counted
      THEN [Authorize |-> tally.Authorize, Votes |-> tally.Votes - counted]
      ELSE NoTally

\* Discard the signer's previous vote on the same account.
DiscardVoteM(s, h) == s
DiscardVote(s, h) ==
  LET old == {v \in s.Votes : v.Signer = h.signer /\ v.Address = h.coinbase}
  IN  IF old = {} THEN s
      ELSE LET vote == CHOOSE v \in old : \A w \in old : v.Block <= w.Block
           IN  [s EXCEPT !.Votes = @ \ {vote},
                         !.Tally[h.coinbase] = uncast(@, {vote})]

cast(s, h, number) ==
  LET old == s.Tally[h.coinbase]
      new == IF old.Votes > 0
             THEN [Authorize |-> old.Authorize, Votes |-> old.Votes + 1]
             ELSE [Authorize |-> Authorizes(h), Votes |-> 1]
  IN  IF validVote(s, h.coinbase, Authorizes(h))
      THEN [s EXCEPT !.Tally[h.coinbase] = new,
                     !.Votes = @ \cup {[Signer |-> h.signer, Block |-> number,
                                        Address |-> h.coinbase, Authorize |-> Authorizes(h)]}]
      ELSE s

\* Remove a signer, and the votes it cast.  DeauthorizeM leaves them in the
\* tally.
DeauthorizeM(s, address, number) ==
  [s EXCEPT !.Signers = @ \ {address}, !.Votes = {v \in @ : v.Signer # address}]
Deauthorize(s, address, number) ==
  ForgetOldest([s EXCEPT
    !.Signers = @ \ {address},
    !.Votes   = {v \in @ : v.Signer # address},
    !.Tally   = [a \in Address |->
                   uncast(@[a], {v \in s.Votes : v.Signer = address /\ v.Address = a})]],
    number)

\* If the vote passed, change the signers and forget the votes on the account.
PassedM(s, address) == s.Tally[address].Votes >= Half(s)
Passed(s, address) == s.Tally[address].Votes > Half(s)

Settle(s, address, number) ==
  IF ~Passed(s, address) THEN s
  ELSE LET t == IF s.Tally[address].Authorize
                THEN [s EXCEPT !.Signers = @ \cup {address}]
                ELSE Deauthorize(s, address, number)
       IN  [t EXCEPT !.Votes = {v \in @ : v.Address # address},
                     !.Tally[address] = NoTally]

\* The trackers the next header is judged against.
Cleared(s) == ForgetOldest(ResetVotes(s, s.Number + 1), s.Number + 1)

\* errUnauthorizedSigner, errRecentlySigned and errInvalidVote.
Refused(s, h) ==
  \/ h.signer \notin s.Signers
  \/ \E r \in Cleared(s).Recents : r.signer = h.signer
  \/ h.nonce = "other"

Seen(s, h) ==
  [Cleared(s) EXCEPT !.Recents = @ \cup {[block |-> s.Number + 1, signer |-> h.signer]}]

Voted(s, h) == cast(DiscardVote(Seen(s, h), h), h, s.Number + 1)

apply(s, h) ==
  [Settle(Voted(s, h), h.coinbase, s.Number + 1) EXCEPT !.Number = s.Number + 1]

-----------------------------------------------------------------------------
(* Header verification and sealing. *)

\* In-turn signers: the index of the signer among the sorted signers.
inturnM(s, number, signer) ==
  /\ signer \in s.Signers
  /\ number % Cardinality(s.Signers) = Cardinality({a \in s.Signers : a <= signer})
inturn(s, number, signer) ==
  /\ signer \in s.Signers
  /\ number % Cardinality(s.Signers) = Cardinality({a \in s.Signers : a < signer})

calcDifficulty(s, signer) ==
  IF inturn(s, s.Number + 1, signer) THEN diffInTurn ELSE diffNoTurn

\* uint64 subtraction.
Minus(a, b) == IF a >= b THEN a - b ELSE Word + a - b

\* verifySeal refuses a signer among the recents, unless this block shifts it
\* out.
verifySealM(s, h) ==
  /\ h.signer \in s.Signers
  /\ \A r \in s.Recents : r.signer = h.signer => r.block <= Minus(s.Number + 1, Half(s))
  /\ h.difficulty = calcDifficulty(s, h.signer)
verifySeal(s, h) ==
  /\ h.signer \in s.Signers
  /\ \A r \in s.Recents : r.signer = h.signer => r.block <= Minus(s.Number + 1, Limit(s))
  /\ h.difficulty = calcDifficulty(s, h.signer)

\* verifyHeader and verifyCascadingFields.
verifyHeader(s, h) ==
  /\ h.nonce # "other"
  /\ IF (s.Number + 1) % Epoch = 0
     THEN h.coinbase = Zero /\ h.nonce = "drop" /\ h.signers = s.Signers
     ELSE h.signers = {}
  /\ h.difficulty \in {diffInTurn, diffNoTurn}
  /\ verifySeal(s, h)

\* Seal waits while the signer is among the recents that this block does not
\* shift out.
MaySealM(s, signer) ==
  /\ signer \in s.Signers
  /\ \A r \in s.Recents : r.signer = signer =>
       ~(s.Number + 1 < Limit(s) \/ r.block >= Minus(s.Number + 1, Limit(s)))
MaySeal(s, signer) ==
  /\ signer \in s.Signers
  /\ \A r \in s.Recents : r.signer = signer =>
       ~(s.Number + 1 < Limit(s) \/ r.block > Minus(s.Number + 1, Limit(s)))

-----------------------------------------------------------------------------
(* Headers, as far as a verifier with snapshot s can tell them apart. *)

Header(s) ==
  [signer : Address \ {Zero}, coinbase : Address, nonce : Nonce,
   difficulty : {diffInTurn, diffNoTurn}, signers : {{}, s.Signers}]

=============================================================================
