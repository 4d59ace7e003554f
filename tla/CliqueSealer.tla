---------------------------- MODULE CliqueSealer ----------------------------
(***************************************************************************)
(* A signing node on the chain of CliqueVoting: the user's proposals       *)
(* (consensus/clique/api.go), and Prepare, Seal and Authorize of           *)
(* consensus/clique/clique.go, which run on different goroutines while the *)
(* chain moves on.  The miner, which calls Prepare and Seal in this order  *)
(* on the same header, is external.                                        *)
(***************************************************************************)
EXTENDS CliqueVoting

CONSTANT MaxProposals  \* bound: proposals running at once

VARIABLES
  signer,     \* c.signer, the account to sign with
  proposals,  \* c.proposals, "none" for an account without one
  work,       \* the header prepared last, not sealed yet (at most one)
  sealing,    \* the sealed header waiting for its time (at most one)
  panicked    \* Prepare divided by zero

nodeVars == <<signer, proposals, work, sealing, panicked>>
sealerVars == <<vars, nodeVars>>

SealerInit ==
  /\ Init
  /\ signer \in Address \ {Zero}
  /\ proposals = [a \in Address |-> "none"]
  /\ work = {}
  /\ sealing = {}
  /\ panicked = FALSE

\* Proposals that make sense voting on.
Sensible(s) ==
  {a \in Address : proposals[a] # "none" /\ validVote(s, a, proposals[a] = "auth")}

NoVote == [coinbase |-> Zero, nonce |-> "drop"]

\* The votes Prepare may put into a header: none on a checkpoint, else a random
\* sensible one.
Choices(s) ==
  IF (s.Number + 1) % Epoch = 0 \/ Sensible(s) = {} THEN {NoVote}
  ELSE {[coinbase |-> a, nonce |-> proposals[a]] : a \in Sensible(s)}

CheckpointListM(s) == {}
CheckpointList(s) == IF (s.Number + 1) % Epoch = 0 THEN s.Signers ELSE {}

\* Prepare on top of the head, if that has a snapshot: the consensus fields of
\* a new header.  The turn of a signer in an empty set is a division by zero.
Prepare ==
  /\ ~panicked /\ ~broken
  /\ IF snap.Signers = {}
     THEN panicked' = TRUE /\ work' = work
     ELSE /\ panicked' = panicked
          /\ \E vote \in Choices(snap) :
               work' = {[parent     |-> snap,
                         by         |-> signer,
                         coinbase   |-> vote.coinbase,
                         nonce      |-> vote.nonce,
                         difficulty |-> calcDifficulty(snap, signer),
                         signers    |-> CheckpointList(snap)]}
  /\ UNCHANGED <<vars, signer, proposals, sealing>>

\* Seal signs the prepared header with the account configured now, replacing
\* what was waiting, or returns without sealing.
Seal ==
  /\ ~panicked
  /\ \E w \in work :
       sealing' = {[parent |-> w.parent, by |-> w.by,
                    header |-> [signer |-> a, coinbase |-> w.coinbase, nonce |-> w.nonce,
                                difficulty |-> w.difficulty, signers |-> w.signers]] :
                     a \in {b \in {signer} : MaySeal(w.parent, b)}}
  /\ work' = {}
  /\ UNCHANGED <<vars, signer, proposals, panicked>>

\* The delay is over: the sealed block is delivered, and adopted without
\* further verification if it extends the head.
Extends(t) == ~broken /\ t.parent = snap /\ snap.Number < MaxNumber

Publish ==
  /\ \E t \in sealing : IF Extends(t) THEN Extend(t.header) ELSE UNCHANGED vars
  /\ sealing' = {}
  /\ UNCHANGED <<signer, proposals, work, panicked>>

\* Somebody else's block arrives.
ImportBlock(h) == Import(h) /\ UNCHANGED nodeVars

Propose(a, auth) ==
  /\ proposals' = [proposals EXCEPT ![a] = auth]
  /\ Cardinality({b \in Address : proposals'[b] # "none"}) <= MaxProposals
  /\ UNCHANGED <<vars, signer, work, sealing, panicked>>

Discard(a) ==
  /\ proposals' = [proposals EXCEPT ![a] = "none"]
  /\ UNCHANGED <<vars, signer, work, sealing, panicked>>

Authorize(a) ==
  /\ signer' = a
  /\ UNCHANGED <<vars, proposals, work, sealing, panicked>>

SealerNext ==
  \/ Prepare
  \/ Seal
  \/ Publish
  \/ \E h \in Header(snap) : ImportBlock(h)
  \/ \E a \in Address, auth \in {"auth", "drop"} : Propose(a, auth)
  \/ \E a \in Address : Discard(a)
  \/ \E a \in Address \ {Zero} : Authorize(a)

SealerSpec == SealerInit /\ [][SealerNext]_sealerVars

-----------------------------------------------------------------------------
(* Properties. *)

Valid(t) == verifyHeader(t.parent, t.header) /\ ~Refused(t.parent, t.header)

\* What Prepare and Seal put together for one account passes the verification
\* of every other node and can be built upon, checkpoints and votes included,
\* however the chain and the proposals changed in between.
SealedVerifies == \A t \in sealing : t.header.signer = t.by => Valid(t)
=============================================================================
