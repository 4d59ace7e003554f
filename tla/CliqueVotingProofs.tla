------------------------- MODULE CliqueVotingProofs -------------------------
(***************************************************************************)
(* Proofs about CliqueVoting and CliqueSealer, for any accounts, epoch and *)
(* chain length.  The votes: Sound is kept by every stage of               *)
(* Snapshot.apply.  The recent signers: Window says which blocks' sealers  *)
(* the list holds.  The turns: ranks among the signers.  A signing node:   *)
(* NodeInv keeps what Prepare and Seal know of the parent of their header. *)
(***************************************************************************)
EXTENDS CliqueSealer, FiniteSetTheorems, TLAPS

TallyOK(s) ==
  \A a \in Address :
    /\ s.Tally[a].Votes = Cardinality(VotesOn(s, a))
    /\ s.Tally[a].Votes > 0 => s.Tally[a].Authorize = (a \notin s.Signers)

VotesOK(s) ==
  \A v \in s.Votes :
    /\ v.Signer \in s.Signers
    /\ v.Authorize = (v.Address \notin s.Signers)
    /\ \A w \in s.Votes : w.Signer = v.Signer /\ w.Address = v.Address => w = v

Sound(s) == s \in Snapshot /\ IsFiniteSet(s.Votes) /\ TallyOK(s) /\ VotesOK(s)

HeaderOK(h) == h.signer \in Address /\ h.coinbase \in Address

-----------------------------------------------------------------------------
(* Votes. *)

LEMMA VotesOnFinite ==
  ASSUME NEW s, IsFiniteSet(s.Votes), NEW a
  PROVE  IsFiniteSet(VotesOn(s, a)) /\ Cardinality(VotesOn(s, a)) \in Nat
<1>1. VotesOn(s, a) \in SUBSET s.Votes
  BY Zenon DEF VotesOn
<1>2. QED
  BY Zenon, <1>1, FS_Subset, FS_CardinalityType

\* Uncasting counted votes leaves the number of the others.
LEMMA UncastFacts ==
  ASSUME NEW t \in Tally, NEW V, IsFiniteSet(V), t.Votes = Cardinality(V),
         NEW W \in SUBSET V,
         t.Votes > 0 => \A v \in W : v.Authorize = t.Authorize
  PROVE  /\ uncast(t, W) \in Tally
         /\ uncast(t, W).Votes = Cardinality(V \ W)
         /\ uncast(t, W).Votes > 0 => t.Votes > 0 /\ uncast(t, W).Authorize = t.Authorize
<1> DEFINE C == {v \in W : v.Authorize = t.Authorize}
<1>1. IsFiniteSet(W) /\ Cardinality(W) \in Nat /\ Cardinality(V) \in Nat
  BY Zenon, FS_Subset, FS_CardinalityType
<1>2. Cardinality(V \ W) = Cardinality(V) - Cardinality(W)
  <2>1. V \cap W = W
    BY Zenon
  <2>2. QED
    BY <2>1, FS_Difference
<1>3. Cardinality(V \ W) \in Nat
  BY Zenon, FS_Difference, FS_CardinalityType
<1>4. uncast(t, W) = IF t.Votes > Cardinality(C)
                     THEN [Authorize |-> t.Authorize, Votes |-> t.Votes - Cardinality(C)]
                     ELSE NoTally
  BY Zenon DEF uncast
<1>5. CASE t.Votes > 0
  <2>1. C = W
    BY Zenon, <1>5
  <2> HIDE DEF C
  <2>2. QED
    BY <1>1, <1>2, <1>3, <1>4, <1>5, <2>1 DEF Tally, NoTally
<1>6. CASE ~(t.Votes > 0)
  <2>1. V = {} /\ W = {}
    BY <1>1, <1>6, FS_EmptySet DEF Tally
  <2>2. Cardinality(C) = 0 /\ Cardinality(V \ W) = 0
    BY Zenon, <2>1, FS_EmptySet
  <2> HIDE DEF C
  <2>3. QED
    BY <1>4, <1>6, <2>2 DEF Tally, NoTally
<1>7. QED
  BY Zenon, <1>5, <1>6

LEMMA NewSound ==
  ASSUME NEW n \in Nat, NEW S \in SUBSET Address
  PROVE  Sound(newSnapshot(n, S))
<1> DEFINE s == newSnapshot(n, S)
<1>1. s \in Snapshot
  BY Zenon DEF newSnapshot, Snapshot, NoTally, Tally
<1>2. s.Votes = {} /\ \A a \in Address : s.Tally[a] = NoTally /\ VotesOn(s, a) = {}
  BY Zenon DEF newSnapshot, VotesOn
<1> HIDE DEF s
<1>3. IsFiniteSet(s.Votes) /\ TallyOK(s) /\ VotesOK(s)
  BY <1>2, FS_EmptySet DEF TallyOK, VotesOK, NoTally
<1>4. QED
  BY Zenon, <1>1, <1>3 DEF Sound, s

\* Checkpoints.
LEMMA ResetSound ==
  ASSUME NEW s, Sound(s), NEW n \in Nat, NEW t, t = ResetVotes(s, n)
  PROVE  /\ Sound(t)
         /\ t.Signers = s.Signers /\ t.Recents = s.Recents /\ t.Number = s.Number
         /\ t.Votes \in {{}, s.Votes}
<1> USE DEF Sound
<1>1. CASE n % Epoch = 0
  <2>1. t = [s EXCEPT !.Votes = {}, !.Tally = [a \in Address |-> NoTally]]
    BY Zenon, <1>1 DEF ResetVotes
  <2>2. /\ t.Votes = {} /\ t.Signers = s.Signers /\ t.Recents = s.Recents
        /\ t.Number = s.Number /\ t.Tally = [a \in Address |-> NoTally]
    BY Zenon, <2>1 DEF Snapshot
  <2>3. t \in Snapshot
    <3>1. [a \in Address |-> NoTally] \in [Address -> Tally]
      BY Zenon DEF NoTally, Tally
    <3>2. QED
      BY Zenon, <2>1, <3>1 DEF Snapshot
  <2>4. /\ IsFiniteSet(t.Votes) /\ Cardinality({}) = 0
        /\ \A a \in Address : t.Tally[a].Votes = 0 /\ VotesOn(t, a) = {}
    BY <2>2, FS_EmptySet DEF VotesOn, NoTally
  <2>5. TallyOK(t)
    <3>1. \A a \in Address : t.Tally[a].Votes = 0 /\ Cardinality(VotesOn(t, a)) = 0
      BY Zenon, <2>4
    <3>2. QED
      BY <3>1 DEF TallyOK
  <2>6. VotesOK(t)
    BY Zenon, <2>2 DEF VotesOK
  <2>7. QED
    BY Zenon, <2>2, <2>3, <2>4, <2>5, <2>6
<1>2. CASE n % Epoch # 0
  BY Zenon, <1>2 DEF ResetVotes
<1>3. QED
  BY Zenon, <1>1, <1>2

\* Changing only the recent signers.
LEMMA RecentsSound ==
  ASSUME NEW s, Sound(s), NEW R \in SUBSET Recent, NEW t, t = [s EXCEPT !.Recents = R]
  PROVE  /\ Sound(t)
         /\ t.Signers = s.Signers /\ t.Recents = R /\ t.Number = s.Number /\ t.Votes = s.Votes
<1>1. /\ t \in Snapshot /\ t.Votes = s.Votes /\ t.Signers = s.Signers
      /\ t.Recents = R /\ t.Number = s.Number /\ t.Tally = s.Tally
  BY Zenon DEF Sound, Snapshot
<1>2. QED
  BY <1>1 DEF Sound, TallyOK, VotesOK, VotesOn

\* Discarding a vote leaves no vote of the sealer on the account.
LEMMA DiscardSound ==
  ASSUME NEW s, Sound(s), NEW h, HeaderOK(h), NEW t, t = DiscardVote(s, h)
  PROVE  /\ Sound(t)
         /\ t.Signers = s.Signers /\ t.Recents = s.Recents /\ t.Number = s.Number
         /\ t.Votes \subseteq s.Votes
         /\ \A v \in t.Votes : ~(v.Signer = h.signer /\ v.Address = h.coinbase)
<1> DEFINE c == h.coinbase
           old == {v \in s.Votes : v.Signer = h.signer /\ v.Address = c}
           vote == CHOOSE v \in old : \A w \in old : v.Block <= w.Block
<1>1. CASE old = {}
  <2>1. t = s
    BY Zenon, <1>1 DEF DiscardVote
  <2>2. QED
    BY Zenon, <1>1, <2>1
<1>2. CASE old # {}
  <2>1. PICK x : x \in old
    BY Zenon, <1>2
  <2>2. old = {x}
    BY Zenon, <2>1 DEF Sound, VotesOK
  <2>3. x.Block \in Nat
    BY Zenon, <2>1 DEF Sound, Snapshot, Vote
  <2>4. vote = x
    BY <2>2, <2>3
  <2>5. t = [s EXCEPT !.Votes = @ \ {x}, !.Tally[c] = uncast(@, {x})]
    BY Zenon, <1>2, <2>4 DEF DiscardVote
  <2>6. x \in s.Votes /\ x.Signer = h.signer /\ x.Address = c /\ c \in Address
    BY Zenon, <2>1 DEF HeaderOK
  <2>7. \A v \in s.Votes \ {x} : ~(v.Signer = h.signer /\ v.Address = c)
    BY Zenon, <2>2
  <2> DEFINE u == uncast(s.Tally[c], {x})
  <2>8. /\ u \in Tally
        /\ u.Votes = Cardinality(VotesOn(s, c) \ {x})
        /\ u.Votes > 0 => s.Tally[c].Votes > 0 /\ u.Authorize = s.Tally[c].Authorize
    <3>1. s.Tally[c] \in Tally
      BY Zenon, <2>6 DEF Sound, Snapshot
    <3>2. IsFiniteSet(VotesOn(s, c)) /\ s.Tally[c].Votes = Cardinality(VotesOn(s, c))
      BY Zenon, <2>6, VotesOnFinite DEF Sound, TallyOK
    <3>3. {x} \in SUBSET VotesOn(s, c)
      BY Zenon, <2>6 DEF VotesOn
    <3>4. s.Tally[c].Votes > 0 => \A v \in {x} : v.Authorize = s.Tally[c].Authorize
      BY Zenon, <2>6 DEF Sound, TallyOK, VotesOK
    <3>5. QED
      BY Zenon, <3>1, <3>2, <3>3, <3>4, UncastFacts
  <2> HIDE DEF u
  <2>9. t = [s EXCEPT !.Votes = s.Votes \ {x}, !.Tally = [s.Tally EXCEPT ![c] = u]]
    BY Zenon, <2>5 DEF u, Sound, Snapshot
  <2>10. /\ t.Signers = s.Signers /\ t.Recents = s.Recents /\ t.Number = s.Number
         /\ t.Votes = s.Votes \ {x} /\ t.Tally = [s.Tally EXCEPT ![c] = u]
    BY Zenon, <2>9 DEF Sound, Snapshot
  <2>11. t \in Snapshot
    <3>1. [s.Tally EXCEPT ![c] = u] \in [Address -> Tally]
      BY Zenon, <2>8 DEF Sound, Snapshot
    <3>2. QED
      BY Zenon, <2>9, <3>1 DEF Sound, Snapshot
  <2>12. IsFiniteSet(t.Votes)
    BY <2>10, FS_RemoveElement DEF Sound
  <2>13. ASSUME NEW a \in Address
         PROVE  /\ t.Tally[a].Votes = Cardinality(VotesOn(t, a))
                /\ t.Tally[a].Votes > 0 => t.Tally[a].Authorize = (a \notin t.Signers)
    <3>1. CASE a = c
      <4>1. t.Tally[a] = u
        BY Zenon, <2>10, <3>1 DEF Sound, Snapshot
      <4>2. VotesOn(t, a) = VotesOn(s, c) \ {x}
        BY Zenon, <2>10, <3>1 DEF VotesOn
      <4>3. u.Votes > 0 => u.Authorize = (a \notin s.Signers)
        BY Zenon, <2>8, <3>1 DEF Sound, TallyOK
      <4>4. QED
        BY Zenon, <2>8, <2>10, <4>1, <4>2, <4>3
    <3>2. CASE a # c
      <4>1. t.Tally[a] = s.Tally[a]
        BY Zenon, <2>10, <3>2 DEF Sound, Snapshot
      <4>2. VotesOn(t, a) = VotesOn(s, a)
        BY Zenon, <2>6, <2>10, <3>2 DEF VotesOn
      <4>3. QED
        BY Zenon, <2>10, <4>1, <4>2 DEF Sound, TallyOK
    <3>3. QED
      BY Zenon, <3>1, <3>2
  <2>14. TallyOK(t)
    BY Zenon, <2>13 DEF TallyOK
  <2>15. VotesOK(t)
    BY Zenon, <2>10 DEF Sound, VotesOK
  <2>16. QED
    BY Zenon, <2>7, <2>10, <2>11, <2>12, <2>14, <2>15 DEF Sound
<1>3. QED
  BY Zenon, <1>1, <1>2

\* Casting the sealer's vote.
LEMMA CastSound ==
  ASSUME NEW s, Sound(s), NEW h, HeaderOK(h), NEW n \in Nat, NEW t, t = cast(s, h, n),
         h.signer \in s.Signers,
         \A v \in s.Votes : ~(v.Signer = h.signer /\ v.Address = h.coinbase)
  PROVE  /\ Sound(t)
         /\ t.Signers = s.Signers /\ t.Recents = s.Recents /\ t.Number = s.Number
         /\ \A v \in t.Votes : \/ v \in s.Votes
                               \/ /\ v.Block = n /\ v.Signer = h.signer
                                  /\ validVote(s, h.coinbase, Authorizes(h))
<1> DEFINE c == h.coinbase
           x == [Signer |-> h.signer, Block |-> n, Address |-> c, Authorize |-> Authorizes(h)]
           old == s.Tally[c]
           new == IF old.Votes > 0
                  THEN [Authorize |-> old.Authorize, Votes |-> old.Votes + 1]
                  ELSE [Authorize |-> Authorizes(h), Votes |-> 1]
<1>1. CASE ~validVote(s, c, Authorizes(h))
  <2>1. t = s
    BY Zenon, <1>1 DEF cast
  <2>2. QED
    BY Zenon, <2>1
<1>2. CASE validVote(s, c, Authorizes(h))
  <2>1. t = [s EXCEPT !.Tally[c] = new, !.Votes = @ \cup {x}]
    BY Zenon, <1>2 DEF cast
  <2>2. Authorizes(h) \in BOOLEAN /\ Authorizes(h) = (c \notin s.Signers)
    BY <1>2 DEF validVote, Authorizes
  <2>3. c \in Address /\ x \in Vote
    BY Zenon, <2>2 DEF HeaderOK, Vote
  <2>4. /\ x \notin s.Votes /\ x.Signer = h.signer /\ x.Address = c /\ x.Block = n
        /\ x.Authorize = (c \notin s.Signers)
    BY Zenon, <2>2
  <2>5. /\ old \in Tally /\ IsFiniteSet(VotesOn(s, c))
        /\ old.Votes = Cardinality(VotesOn(s, c))
        /\ old.Votes > 0 => old.Authorize = (c \notin s.Signers)
    BY Zenon, <2>3, VotesOnFinite DEF Sound, Snapshot, TallyOK
  <2>6. new \in Tally
    BY <2>2, <2>5 DEF Tally
  <2>7. new.Votes = Cardinality(VotesOn(s, c)) + 1
    BY <2>5 DEF Tally
  <2>8. new.Authorize = (c \notin s.Signers)
    <3>1. CASE old.Votes > 0
      BY Zenon, <3>1, <2>5
    <3>2. CASE ~(old.Votes > 0)
      BY Zenon, <3>2, <2>2
    <3>3. QED
      BY Zenon, <3>1, <3>2
  <2> HIDE DEF new, x
  <2>9. t = [s EXCEPT !.Tally = [s.Tally EXCEPT ![c] = new], !.Votes = s.Votes \cup {x}]
    BY Zenon, <2>1 DEF Sound, Snapshot
  <2>10. /\ t.Signers = s.Signers /\ t.Recents = s.Recents /\ t.Number = s.Number
         /\ t.Votes = s.Votes \cup {x} /\ t.Tally = [s.Tally EXCEPT ![c] = new]
    BY Zenon, <2>9 DEF Sound, Snapshot
  <2>11. t \in Snapshot
    <3>1. [s.Tally EXCEPT ![c] = new] \in [Address -> Tally]
      BY Zenon, <2>6 DEF Sound, Snapshot
    <3>2. s.Votes \cup {x} \in SUBSET Vote
      BY Zenon, <2>3 DEF Sound, Snapshot
    <3>3. QED
      BY Zenon, <2>9, <3>1, <3>2 DEF Sound, Snapshot
  <2>12. IsFiniteSet(t.Votes)
    BY <2>10, FS_AddElement DEF Sound
  <2>13. ASSUME NEW a \in Address
         PROVE  /\ t.Tally[a].Votes = Cardinality(VotesOn(t, a))
                /\ t.Tally[a].Votes > 0 => t.Tally[a].Authorize = (a \notin t.Signers)
    <3>1. CASE a = c
      <4>1. t.Tally[a] = new
        BY Zenon, <2>10, <3>1 DEF Sound, Snapshot
      <4>2. VotesOn(t, a) = VotesOn(s, c) \cup {x} /\ x \notin VotesOn(s, c)
        <5>1. t.Votes = s.Votes \cup {x}
          BY Zenon, <2>10
        <5>2. x.Address = c /\ x \notin s.Votes
          BY Zenon, <2>4
        <5>3. QED
          BY Zenon, <3>1, <5>1, <5>2 DEF VotesOn
      <4>3. Cardinality(VotesOn(t, a)) = Cardinality(VotesOn(s, c)) + 1
        <5> DEFINE V == VotesOn(s, c)
        <5>1. IsFiniteSet(V) /\ VotesOn(t, a) = V \cup {x} /\ x \notin V
          BY Zenon, <2>5, <4>2
        <5> HIDE DEF V
        <5>2. Cardinality(V \cup {x}) = Cardinality(V) + 1
          BY Zenon, <5>1, FS_AddElement
        <5>3. QED
          BY Zenon, <5>1, <5>2 DEF V
      <4>4. t.Tally[a].Votes = Cardinality(VotesOn(t, a))
        BY Zenon, <2>7, <4>1, <4>3
      <4>5. t.Tally[a].Authorize = (a \notin t.Signers)
        BY Zenon, <2>8, <2>10, <3>1, <4>1
      <4>6. QED
        BY Zenon, <4>4, <4>5
    <3>2. CASE a # c
      <4>1. t.Tally[a] = s.Tally[a]
        BY Zenon, <2>10, <3>2 DEF Sound, Snapshot
      <4>2. VotesOn(t, a) = VotesOn(s, a)
        BY Zenon, <2>4, <2>10, <3>2 DEF VotesOn
      <4>3. QED
        BY Zenon, <2>10, <4>1, <4>2 DEF Sound, TallyOK
    <3>3. QED
      BY Zenon, <3>1, <3>2
  <2>14. TallyOK(t)
    BY Zenon, <2>13 DEF TallyOK
  <2>15. VotesOK(t)
    BY <2>4, <2>10 DEF Sound, VotesOK
  <2>16. QED
    BY Zenon, <1>2, <2>4, <2>10, <2>11, <2>12, <2>14, <2>15 DEF Sound
<1>3. QED
  BY Zenon, <1>1, <1>2

\* What Settle does when the vote passed, field by field.
Changed(s, c, n, t) ==
  /\ Passed(s, c) /\ t \in Snapshot /\ t.Number = s.Number
  /\ t.Tally[c] = NoTally
  /\ t.Votes = {v \in s.Votes : v.Signer \in t.Signers /\ v.Address # c}
  /\ \/ /\ c \notin s.Signers /\ t.Signers = s.Signers \cup {c}
        /\ t.Recents = s.Recents
        /\ \A a \in Address \ {c} : t.Tally[a] = s.Tally[a]
     \/ /\ c \in s.Signers /\ t.Signers = s.Signers \ {c}
        /\ t.Recents = {r \in s.Recents : r.block + Limit(t) # n}
        /\ \A a \in Address \ {c} :
             t.Tally[a] = uncast(s.Tally[a], {v \in VotesOn(s, a) : v.Signer = c})

LEMMA SettleFacts ==
  ASSUME NEW s, Sound(s), NEW c \in Address, NEW n \in Nat, NEW t, t = Settle(s, c, n)
  PROVE  t = s \/ Changed(s, c, n, t)
<1> USE DEF Snapshot
<1>0. s \in Snapshot
  BY Zenon DEF Sound
<1>1. CASE ~Passed(s, c)
  BY Zenon, <1>1 DEF Settle
<1>2. CASE Passed(s, c)
  <2>1. s.Tally[c].Votes > 0 /\ s.Tally[c].Authorize = (c \notin s.Signers)
    <3>1. Half(s) \in Nat
      <4>1. IsFiniteSet(s.Signers)
        BY Zenon, <1>0, CliqueAssumption, FS_Subset
      <4>2. QED
        BY <4>1, FS_CardinalityType DEF Half
    <3>2. s.Tally[c].Votes > 0
      BY <1>0, <1>2, <3>1 DEF Passed, Tally
    <3>3. QED
      BY Zenon, <3>2 DEF Sound, TallyOK
  <2>2. CASE c \notin s.Signers
    <3> DEFINE u == [s EXCEPT !.Signers = @ \cup {c}]
    <3>1. t = [u EXCEPT !.Votes = {v \in @ : v.Address # c}, !.Tally[c] = NoTally]
      BY Zenon, <1>2, <2>1, <2>2 DEF Settle
    <3>2. /\ u \in Snapshot /\ u.Signers = s.Signers \cup {c} /\ u.Votes = s.Votes
          /\ u.Tally = s.Tally /\ u.Recents = s.Recents /\ u.Number = s.Number
      BY Zenon, <1>0
    <3> HIDE DEF u
    <3>3. t = [u EXCEPT !.Votes = {v \in u.Votes : v.Address # c},
                        !.Tally = [u.Tally EXCEPT ![c] = NoTally]]
      BY Zenon, <3>1, <3>2
    <3>4. /\ t.Votes = {v \in s.Votes : v.Address # c}
          /\ t.Tally = [s.Tally EXCEPT ![c] = NoTally]
          /\ t.Signers = s.Signers \cup {c} /\ t.Recents = s.Recents /\ t.Number = s.Number
      BY Zenon, <3>2, <3>3
    <3>5. t \in Snapshot
      <4>1. [u.Tally EXCEPT ![c] = NoTally] \in [Address -> Tally]
        BY Zenon, <3>2 DEF NoTally, Tally
      <4>2. {v \in u.Votes : v.Address # c} \in SUBSET Vote
        BY Zenon, <3>2
      <4>3. QED
        BY Zenon, <3>2, <3>3, <4>1, <4>2
    <3>6. t.Votes = {v \in s.Votes : v.Signer \in t.Signers /\ v.Address # c}
      BY Zenon, <3>4 DEF Sound, VotesOK
    <3>7. t.Tally[c] = NoTally /\ \A a \in Address \ {c} : t.Tally[a] = s.Tally[a]
      BY Zenon, <1>0, <3>4
    <3>8. QED
      BY Zenon, <1>2, <2>2, <3>4, <3>5, <3>6, <3>7 DEF Changed
  <2>3. CASE c \in s.Signers
    <3> DEFINE W(a) == {v \in s.Votes : v.Signer = c /\ v.Address = a}
               T == [a \in Address |-> uncast(s.Tally[a], W(a))]
               k == [s EXCEPT !.Signers = s.Signers \ {c},
                              !.Votes = {v \in s.Votes : v.Signer # c},
                              !.Tally = T]
               u == Deauthorize(s, c, n)
    <3>1. t = [u EXCEPT !.Votes = {v \in @ : v.Address # c}, !.Tally[c] = NoTally]
      BY Zenon, <1>2, <2>1, <2>3 DEF Settle
    <3>2. u = ForgetOldest(k, n)
      BY Zenon, <1>0 DEF Deauthorize
    <3>3. T \in [Address -> Tally]
      <4>1. ASSUME NEW a \in Address PROVE uncast(s.Tally[a], W(a)) \in Tally
        <5>1. s.Tally[a] \in Tally /\ IsFiniteSet(VotesOn(s, a))
              /\ s.Tally[a].Votes = Cardinality(VotesOn(s, a))
          BY Zenon, <1>0, VotesOnFinite DEF Sound, TallyOK
        <5>2. W(a) \in SUBSET VotesOn(s, a)
          BY Zenon DEF VotesOn
        <5>3. s.Tally[a].Votes > 0 => \A v \in W(a) : v.Authorize = s.Tally[a].Authorize
          BY Zenon DEF Sound, TallyOK, VotesOK
        <5> HIDE DEF W
        <5>4. QED
          BY Zenon, <5>1, <5>2, <5>3, UncastFacts
      <4>2. QED
        BY Zenon, <4>1
    <3>4. \A a \in Address : T[a] = uncast(s.Tally[a], {v \in VotesOn(s, a) : v.Signer = c})
      <4>1. \A a \in Address : W(a) = {v \in VotesOn(s, a) : v.Signer = c}
        BY Zenon DEF VotesOn
      <4>2. QED
        BY Zenon, <4>1
    <3> HIDE DEF T
    <3>5. /\ k \in Snapshot /\ k.Signers = s.Signers \ {c} /\ k.Recents = s.Recents
          /\ k.Votes = {v \in s.Votes : v.Signer # c} /\ k.Tally = T /\ k.Number = s.Number
      BY Zenon, <1>0, <3>3
    <3> HIDE DEF k
    <3>6. u = [k EXCEPT !.Recents = {r \in k.Recents : r.block + Limit(k) # n}]
      BY Zenon, <3>2, <3>5 DEF ForgetOldest
    <3> HIDE DEF u
    <3>7. /\ u \in Snapshot /\ u.Signers = k.Signers /\ u.Votes = k.Votes /\ u.Tally = T
          /\ u.Recents = {r \in k.Recents : r.block + Limit(k) # n} /\ u.Number = k.Number
      <4>1. {r \in k.Recents : r.block + Limit(k) # n} \in SUBSET Recent
        BY Zenon, <3>5
      <4>2. QED
        BY Zenon, <3>5, <3>6, <4>1
    <3>8. t = [u EXCEPT !.Votes = {v \in u.Votes : v.Address # c},
                        !.Tally = [u.Tally EXCEPT ![c] = NoTally]]
      BY Zenon, <3>1, <3>7
    <3>9. /\ t.Votes = {v \in u.Votes : v.Address # c}
          /\ t.Tally = [T EXCEPT ![c] = NoTally]
          /\ t.Signers = u.Signers /\ t.Recents = u.Recents /\ t.Number = u.Number
      BY Zenon, <3>7, <3>8
    <3>10. t \in Snapshot
      <4>1. [u.Tally EXCEPT ![c] = NoTally] \in [Address -> Tally]
        BY Zenon, <3>7 DEF NoTally, Tally
      <4>2. {v \in u.Votes : v.Address # c} \in SUBSET Vote
        BY Zenon, <3>7
      <4>3. QED
        BY Zenon, <3>7, <3>8, <4>1, <4>2
    <3>11. Limit(t) = Limit(k)
      BY Zenon, <3>7, <3>9 DEF Limit, Half
    <3>12. t.Votes = {v \in s.Votes : v.Signer \in t.Signers /\ v.Address # c}
      BY <3>5, <3>7, <3>9 DEF Sound, VotesOK
    <3>13. t.Tally[c] = NoTally /\ \A a \in Address \ {c} : t.Tally[a] = T[a]
      BY Zenon, <3>3, <3>9
    <3>14. t.Recents = {r \in s.Recents : r.block + Limit(t) # n}
      BY <3>5, <3>7, <3>9, <3>11
    <3>15. t.Signers = s.Signers \ {c} /\ t.Number = s.Number
      BY Zenon, <3>5, <3>7, <3>9
    <3>16. \A a \in Address \ {c} :
             t.Tally[a] = uncast(s.Tally[a], {v \in VotesOn(s, a) : v.Signer = c})
      BY Zenon, <3>4, <3>13
    <3>17. t.Tally[c] = NoTally
      BY Zenon, <3>13
    <3>18. QED
      BY Zenon, <1>2, <2>3, <3>10, <3>12, <3>14, <3>15, <3>16, <3>17 DEF Changed
  <2>4. QED
    BY Zenon, <2>2, <2>3
<1>3. QED
  BY Zenon, <1>1, <1>2

\* Adding or removing a signer leaves only live votes, and counts them.
LEMMA SettleSound ==
  ASSUME NEW s, Sound(s), NEW c \in Address, NEW n \in Nat, NEW t, t = Settle(s, c, n)
  PROVE  Sound(t) /\ t.Votes \subseteq s.Votes /\ t.Number = s.Number
<1>1. CASE t = s
  BY Zenon, <1>1
<1>2. CASE t # s
  <2>0. Changed(s, c, n, t)
    BY Zenon, <1>2, SettleFacts
  <2>1. /\ t \in Snapshot /\ t.Number = s.Number /\ t.Tally[c] = NoTally
        /\ t.Votes = {v \in s.Votes : v.Signer \in t.Signers /\ v.Address # c}
        /\ \/ /\ c \notin s.Signers /\ t.Signers = s.Signers \cup {c}
              /\ \A a \in Address \ {c} : t.Tally[a] = s.Tally[a]
           \/ /\ c \in s.Signers /\ t.Signers = s.Signers \ {c}
              /\ \A a \in Address \ {c} :
                   t.Tally[a] = uncast(s.Tally[a], {v \in VotesOn(s, a) : v.Signer = c})
    BY Zenon, <2>0 DEF Changed
  <2>2. IsFiniteSet(t.Votes) /\ t.Votes \subseteq s.Votes
    BY Zenon, <2>1, FS_Subset DEF Sound
  <2>3. \A a \in Address \ {c} : (a \in t.Signers) = (a \in s.Signers)
    BY <2>1
  <2>4. VotesOK(t)
    BY Zenon, <2>1, <2>3 DEF Sound, VotesOK, Snapshot, Vote
  <2>5. ASSUME NEW a \in Address
        PROVE  /\ t.Tally[a].Votes = Cardinality(VotesOn(t, a))
               /\ t.Tally[a].Votes > 0 => t.Tally[a].Authorize = (a \notin t.Signers)
    <3>1. CASE a = c
      <4>1. VotesOn(t, a) = {}
        BY Zenon, <2>1, <3>1 DEF VotesOn
      <4>2. t.Tally[a].Votes = 0
        BY <2>1, <3>1 DEF NoTally
      <4>3. Cardinality(VotesOn(t, a)) = 0
        BY Zenon, <4>1, FS_EmptySet
      <4>4. QED
        BY <4>2, <4>3
    <3>2. CASE a # c /\ c \notin s.Signers
      <4>1. VotesOn(t, a) = VotesOn(s, a)
        BY Zenon, <2>1, <3>2 DEF VotesOn, Sound, VotesOK
      <4>2. t.Tally[a] = s.Tally[a]
        BY Zenon, <2>1, <3>2
      <4>3. QED
        BY Zenon, <2>3, <3>2, <4>1, <4>2 DEF Sound, TallyOK
    <3>3. CASE a # c /\ c \in s.Signers
      <4> DEFINE W == {v \in VotesOn(s, a) : v.Signer = c}
      <4>1. VotesOn(t, a) = VotesOn(s, a) \ W
        BY Zenon, <2>1, <3>3 DEF VotesOn, Sound, VotesOK
      <4>2. t.Tally[a] = uncast(s.Tally[a], W)
        BY Zenon, <2>1, <3>3
      <4>3. s.Tally[a] \in Tally /\ IsFiniteSet(VotesOn(s, a))
            /\ s.Tally[a].Votes = Cardinality(VotesOn(s, a))
        BY Zenon, VotesOnFinite DEF Sound, TallyOK, Snapshot
      <4>4. W \in SUBSET VotesOn(s, a)
        BY Zenon
      <4>5. s.Tally[a].Votes > 0 => \A v \in W : v.Authorize = s.Tally[a].Authorize
        <5>1. \A v \in W : v.Authorize = (a \notin s.Signers)
          BY Zenon DEF Sound, VotesOK, VotesOn
        <5>2. s.Tally[a].Votes > 0 => s.Tally[a].Authorize = (a \notin s.Signers)
          BY Zenon DEF Sound, TallyOK
        <5> HIDE DEF W
        <5>3. QED
          BY Zenon, <5>1, <5>2
      <4>6. s.Tally[a].Votes > 0 => s.Tally[a].Authorize = (a \notin s.Signers)
        BY Zenon DEF Sound, TallyOK
      <4> HIDE DEF W
      <4>7. /\ uncast(s.Tally[a], W).Votes = Cardinality(VotesOn(s, a) \ W)
            /\ uncast(s.Tally[a], W).Votes > 0 =>
                 s.Tally[a].Votes > 0 /\ uncast(s.Tally[a], W).Authorize = s.Tally[a].Authorize
        BY <4>3, <4>4, <4>5, UncastFacts
      <4>8. QED
        BY Zenon, <2>3, <3>3, <4>1, <4>2, <4>6, <4>7
    <3>4. QED
      BY Zenon, <3>1, <3>2, <3>3
  <2>6. TallyOK(t)
    BY Zenon, <2>5 DEF TallyOK
  <2>7. QED
    BY Zenon, <2>1, <2>2, <2>4, <2>6 DEF Sound
<1>3. QED
  BY Zenon, <1>1, <1>2

-----------------------------------------------------------------------------
(* The stages of apply, from the snapshot of the parent. *)

\* The votes are no older than the last checkpoint.
Fresh(s, n) == \A v \in s.Votes : v.Block <= n /\ n - v.Block <= n % Epoch

LEMMA NextModulo ==
  ASSUME NEW n \in Nat, (n + 1) % Epoch # 0
  PROVE  (n + 1) % Epoch = (n % Epoch) + 1
<1> DEFINE E == Epoch
           q == n \div E
           r == n % E
           p == (n + 1) \div E
           t == (n + 1) % E
<1>1. E \in Nat \ {0}
  BY Zenon, CliqueAssumption
<1>2. /\ q \in Nat /\ r \in 0..(E - 1) /\ n = E * q + r
      /\ p \in Nat /\ t \in 0..(E - 1) /\ n + 1 = E * p + t
  BY <1>1
<1>3. t # 0
  BY Zenon
<1> HIDE DEF E, q, r, p, t
<1>4. E * p + t = E * q + r + 1
  BY Zenon, <1>1, <1>2
<1>5. ~(p > q)
  <2>1. ASSUME p > q PROVE E * p >= E * q + E
    <3>1. E * p = E * q + E * (p - q)
      BY <1>1, <1>2
    <3>2. E * (p - q) >= E
      BY <1>1, <1>2, <2>1
    <3>3. QED
      BY <1>1, <1>2, <3>1, <3>2
  <2>2. QED
    BY <1>1, <1>2, <1>3, <1>4, <2>1
<1>6. ~(p < q)
  <2>1. ASSUME p < q PROVE E * q >= E * p + E
    <3>1. E * q = E * p + E * (q - p)
      BY <1>1, <1>2
    <3>2. E * (q - p) >= E
      BY <1>1, <1>2, <2>1
    <3>3. QED
      BY <1>1, <1>2, <3>1, <3>2
  <2>2. QED
    BY <1>1, <1>2, <1>4, <2>1
<1>7. p = q
  BY <1>2, <1>5, <1>6
<1>8. t = r + 1
  BY <1>1, <1>2, <1>4, <1>7
<1>9. QED
  BY Zenon, <1>8 DEF E, r, t

LEMMA ClearedFacts ==
  ASSUME NEW s, Sound(s), NEW t, t = Cleared(s)
  PROVE  /\ Sound(t) /\ t.Signers = s.Signers /\ t.Number = s.Number
         /\ t.Recents = {r \in s.Recents : r.block + Limit(s) # s.Number + 1}
         /\ t.Votes \subseteq s.Votes
         /\ (s.Number + 1) % Epoch = 0 => t.Votes = {}
<1> DEFINE n == s.Number + 1
           u == ResetVotes(s, n)
           R == {r \in u.Recents : r.block + Limit(u) # n}
<1>1. n \in Nat
  BY DEF Sound, Snapshot
<1>2. /\ Sound(u) /\ u.Signers = s.Signers /\ u.Recents = s.Recents /\ u.Number = s.Number
      /\ u.Votes \in {{}, s.Votes}
  BY Zenon, <1>1, ResetSound
<1>3. n % Epoch = 0 => u.Votes = {}
  BY Zenon DEF ResetVotes, Sound, Snapshot
<1> HIDE DEF u
<1>4. t = [u EXCEPT !.Recents = R]
  BY Zenon DEF Cleared, ForgetOldest, u
<1>5. R \in SUBSET Recent
  BY Zenon, <1>2 DEF Sound, Snapshot
<1>6. Limit(u) = Limit(s)
  BY Zenon, <1>2 DEF Limit, Half
<1>7. Sound(t) /\ t.Signers = u.Signers /\ t.Recents = R /\ t.Number = u.Number /\ t.Votes = u.Votes
  BY <1>2, <1>4, <1>5, RecentsSound
<1>8. QED
  BY Zenon, <1>2, <1>3, <1>6, <1>7

LEMMA SeenFacts ==
  ASSUME NEW s, Sound(s), NEW h, HeaderOK(h), NEW t, t = Seen(s, h)
  PROVE  /\ Sound(t) /\ t.Signers = s.Signers /\ t.Number = s.Number
         /\ t.Recents = {r \in s.Recents : r.block + Limit(s) # s.Number + 1}
                          \cup {[block |-> s.Number + 1, signer |-> h.signer]}
         /\ t.Votes \subseteq s.Votes
         /\ (s.Number + 1) % Epoch = 0 => t.Votes = {}
<1> DEFINE u == Cleared(s)
           x == [block |-> s.Number + 1, signer |-> h.signer]
<1>1. /\ Sound(u) /\ u.Signers = s.Signers /\ u.Number = s.Number
      /\ u.Recents = {r \in s.Recents : r.block + Limit(s) # s.Number + 1}
      /\ u.Votes \subseteq s.Votes
      /\ (s.Number + 1) % Epoch = 0 => u.Votes = {}
  BY Zenon, ClearedFacts
<1> DEFINE R == u.Recents \cup {x}
<1>2. t = [u EXCEPT !.Recents = R]
  BY Zenon DEF Seen
<1> HIDE DEF u
<1>3. x \in Recent
  BY DEF HeaderOK, Recent, Sound, Snapshot
<1> HIDE DEF x
<1>4. R \in SUBSET Recent
  BY Zenon, <1>1, <1>3 DEF Sound, Snapshot
<1> HIDE DEF R
<1>5. Sound(t) /\ t.Signers = u.Signers /\ t.Recents = R
      /\ t.Number = u.Number /\ t.Votes = u.Votes
  <2>1. Sound(u)
    BY Zenon, <1>1
  <2>2. QED
    BY <1>2, <1>4, <2>1, RecentsSound
<1>6. QED
  BY Zenon, <1>1, <1>5 DEF R, x

\* After the vote: the votes are the sealer's, if it counts, and older ones
\* of others.
LEMMA VotedFacts ==
  ASSUME NEW s, Sound(s), NEW h, HeaderOK(h), h.signer \in s.Signers, NEW t, t = Voted(s, h)
  PROVE  /\ Sound(t) /\ t.Signers = s.Signers /\ t.Number = s.Number
         /\ t.Recents = {r \in s.Recents : r.block + Limit(s) # s.Number + 1}
                          \cup {[block |-> s.Number + 1, signer |-> h.signer]}
         /\ \A v \in t.Votes :
              \/ /\ v \in s.Votes /\ (s.Number + 1) % Epoch # 0
                 /\ ~(v.Signer = h.signer /\ v.Address = h.coinbase)
              \/ /\ v.Block = s.Number + 1 /\ v.Signer = h.signer
                 /\ validVote(s, h.coinbase, Authorizes(h))
<1> DEFINE u == Seen(s, h)
           d == DiscardVote(u, h)
<1>1. /\ Sound(u) /\ u.Signers = s.Signers /\ u.Number = s.Number
      /\ u.Recents = {r \in s.Recents : r.block + Limit(s) # s.Number + 1}
                       \cup {[block |-> s.Number + 1, signer |-> h.signer]}
      /\ u.Votes \subseteq s.Votes
      /\ (s.Number + 1) % Epoch = 0 => u.Votes = {}
  BY Zenon, SeenFacts
<1>2. t = cast(d, h, s.Number + 1)
  BY Zenon DEF Voted
<1> HIDE DEF u
<1>3. /\ Sound(d) /\ d.Signers = u.Signers /\ d.Recents = u.Recents /\ d.Number = u.Number
      /\ d.Votes \subseteq u.Votes
      /\ \A v \in d.Votes : ~(v.Signer = h.signer /\ v.Address = h.coinbase)
  <2>1. Sound(u) /\ d = DiscardVote(u, h)
    BY Zenon, <1>1
  <2> HIDE DEF d
  <2>2. QED
    BY <2>1, DiscardSound
<1> HIDE DEF d
<1>4. s.Number + 1 \in Nat
  BY DEF Sound, Snapshot
<1>5. /\ Sound(t) /\ t.Signers = d.Signers /\ t.Recents = d.Recents /\ t.Number = d.Number
      /\ \A v \in t.Votes : \/ v \in d.Votes
                            \/ /\ v.Block = s.Number + 1 /\ v.Signer = h.signer
                               /\ validVote(d, h.coinbase, Authorizes(h))
  <2>1. h.signer \in d.Signers
    BY Zenon, <1>1, <1>3
  <2>2. QED
    BY <1>2, <1>3, <1>4, <2>1, CastSound
<1>6. validVote(d, h.coinbase, Authorizes(h)) <=> validVote(s, h.coinbase, Authorizes(h))
  BY Zenon, <1>1, <1>3 DEF validVote
<1>7. QED
  BY Zenon, <1>1, <1>3, <1>5, <1>6

LEMMA ApplySound ==
  ASSUME NEW s, Sound(s), Fresh(s, s.Number), NEW h, HeaderOK(h), h.signer \in s.Signers,
         NEW t, t = apply(s, h)
  PROVE  Sound(t) /\ Fresh(t, t.Number) /\ t.Number = s.Number + 1
<1> DEFINE n == s.Number + 1
           v == Voted(s, h)
           u == Settle(v, h.coinbase, n)
<1>1. n \in Nat /\ s.Number \in Nat /\ h.coinbase \in Address
  BY DEF Sound, Snapshot, HeaderOK
<1>2. /\ Sound(v)
      /\ \A x \in v.Votes : (x \in s.Votes /\ n % Epoch # 0) \/ x.Block = n
  BY VotedFacts
<1>3. t = [u EXCEPT !.Number = n]
  BY Zenon DEF apply
<1> HIDE DEF v
<1>4. Sound(u) /\ u.Votes \subseteq v.Votes
  BY Zenon, <1>1, <1>2, SettleSound
<1> HIDE DEF u
<1>5. /\ t \in Snapshot /\ t.Votes = u.Votes /\ t.Signers = u.Signers /\ t.Tally = u.Tally
      /\ t.Number = n
  BY Zenon, <1>1, <1>3, <1>4 DEF Sound, Snapshot
<1>6. IsFiniteSet(t.Votes) /\ TallyOK(t) /\ VotesOK(t)
  BY Zenon, <1>4, <1>5 DEF Sound, TallyOK, VotesOK, VotesOn
<1>7. ASSUME NEW x \in t.Votes PROVE x.Block <= n /\ n - x.Block <= n % Epoch
  <2>1. n % Epoch \in Nat
    BY <1>1, CliqueAssumption
  <2>2. x.Block \in Nat
    BY Zenon, <1>5 DEF Snapshot, Vote
  <2>3. CASE x.Block = n
    BY <1>1, <2>1, <2>3
  <2>4. CASE x \in s.Votes /\ n % Epoch # 0
    <3>1. x.Block <= s.Number /\ s.Number - x.Block <= s.Number % Epoch
      BY Zenon, <2>4 DEF Fresh
    <3>2. n % Epoch = (s.Number % Epoch) + 1
      BY Zenon, <1>1, <2>4, NextModulo
    <3>3. s.Number % Epoch \in Nat
      BY <1>1, CliqueAssumption
    <3> HIDE DEF n
    <3>4. n = s.Number + 1
      BY Zenon DEF n
    <3>5. QED
      BY <1>1, <2>2, <3>1, <3>2, <3>3, <3>4
  <2>5. QED
    BY Zenon, <1>2, <1>4, <1>5, <2>3, <2>4
<1>8. Fresh(t, t.Number)
  BY Zenon, <1>5, <1>7 DEF Fresh
<1>9. QED
  BY Zenon, <1>5, <1>6, <1>8 DEF Sound

-----------------------------------------------------------------------------
(* Recent signers. *)

Window(s) ==
  /\ \A r \in s.Recents :
       1 <= r.block /\ r.block <= s.Number /\ r.block + Limit(s) >= s.Number + 1
  /\ \A m \in 1..s.Number :
       m + Limit(s) > s.Number + 1 => \E r \in s.Recents : r.block = m
  /\ \A q, r \in s.Recents : q.block = r.block => q = r

LEMMA LimitType ==
  ASSUME NEW s, s.Signers \subseteq Address
  PROVE  /\ IsFiniteSet(s.Signers) /\ Cardinality(s.Signers) \in Nat
         /\ Half(s) \in Nat /\ Limit(s) \in Nat /\ Limit(s) >= 1
<1>1. IsFiniteSet(s.Signers) /\ Cardinality(s.Signers) \in Nat
  BY Zenon, CliqueAssumption, FS_Subset, FS_CardinalityType
<1>2. Half(s) \in Nat
  BY <1>1 DEF Half
<1>3. QED
  BY <1>1, <1>2 DEF Limit

\* One more signer raises the limit by at most one.
LEMMA LimitStep ==
  ASSUME NEW s, NEW t, NEW c, s.Signers \subseteq Address, c \notin s.Signers,
         t.Signers = s.Signers \cup {c}
  PROVE  Limit(t) = Limit(s) \/ Limit(t) = Limit(s) + 1
<1>1. IsFiniteSet(s.Signers) /\ Cardinality(s.Signers) \in Nat
  BY Zenon, LimitType
<1>2. Cardinality(t.Signers) = Cardinality(s.Signers) + 1
  BY Zenon, <1>1, FS_AddElement
<1>3. QED
  BY <1>1, <1>2 DEF Limit, Half

\* A new block slides the window by one, however the limit changes.
LEMMA ApplyWindow ==
  ASSUME NEW s, Sound(s), Window(s), NEW h, HeaderOK(h), h.signer \in s.Signers,
         NEW t, t = apply(s, h)
  PROVE  Window(t)
<1> DEFINE n == s.Number
           L == Limit(s)
           x == [block |-> n + 1, signer |-> h.signer]
           v == Voted(s, h)
           u == Settle(v, h.coinbase, n + 1)
<1>1. /\ Sound(v) /\ v.Signers = s.Signers
      /\ v.Recents = {r \in s.Recents : r.block + L # n + 1} \cup {x}
  BY VotedFacts
<1>2. n \in Nat /\ h.coinbase \in Address /\ s.Signers \subseteq Address
      /\ \A r \in s.Recents : r.block \in Nat
  BY Zenon DEF Sound, Snapshot, HeaderOK, Recent
<1>3. t = [u EXCEPT !.Number = n + 1]
  BY Zenon DEF apply
<1>4. u = v \/ Changed(v, h.coinbase, n + 1, u)
  <2> HIDE DEF v
  <2>1. n + 1 \in Nat
    BY <1>2
  <2>2. QED
    BY Zenon, <1>1, <1>2, <2>1, SettleFacts
<1>5. u \in Snapshot
  BY Zenon, <1>1, <1>4 DEF Sound, Changed
<1> HIDE DEF u, v
<1>6. t.Recents = u.Recents /\ t.Signers = u.Signers /\ t.Number = n + 1
  BY Zenon, <1>3, <1>5 DEF Snapshot
<1>7. Limit(t) = Limit(u) /\ Limit(v) = L /\ u.Signers \subseteq Address
  BY Zenon, <1>1, <1>5, <1>6 DEF Limit, Half, Snapshot
<1>8. L \in Nat /\ L >= 1 /\ Limit(u) \in Nat /\ Limit(u) >= 1
  BY Zenon, <1>2, <1>7, LimitType
<1>9. x.block = n + 1
  BY Zenon
<1> HIDE DEF L, x
<1>10. /\ \A r \in s.Recents : 1 <= r.block /\ r.block <= n /\ r.block + L >= n + 1
       /\ \A m \in 1..n : m + L > n + 1 => \E r \in s.Recents : r.block = m
       /\ \A q, r \in s.Recents : q.block = r.block => q = r
  BY Zenon DEF Window, L
<1> HIDE DEF n
<1>11. /\ \A r \in v.Recents :
            r.block \in Nat /\ 1 <= r.block /\ r.block <= n + 1 /\ r.block + L > n + 1
       /\ \A q, r \in v.Recents : q.block = r.block => q = r
  BY <1>1, <1>2, <1>8, <1>9, <1>10
<1>12. \A m \in 1..(n + 1) : m + L > n + 1 => \E r \in v.Recents : r.block = m
  <2> SUFFICES ASSUME NEW m \in 1..(n + 1), m + L > n + 1
               PROVE  \E r \in v.Recents : r.block = m
    BY Zenon
  <2>1. CASE m = n + 1
    BY Zenon, <1>1, <1>9, <2>1
  <2>2. CASE m # n + 1
    <3>1. m \in 1..n
      BY <1>2, <2>2
    <3>2. PICK r \in s.Recents : r.block = m
      BY Zenon, <1>10, <3>1
    <3>3. r.block + L # n + 1
      BY <1>2, <1>8, <3>2
    <3>4. QED
      BY Zenon, <1>1, <3>2, <3>3
  <2>3. QED
    BY Zenon, <2>1, <2>2
<1> DEFINE K == Limit(u)
<1>13. \/ /\ K = L \/ K = L + 1
          /\ u.Recents = v.Recents
       \/ /\ K = L \/ K + 1 = L
          /\ u.Recents = {r \in v.Recents : r.block + K # n + 1}
  <2>1. CASE u = v
    BY Zenon, <1>7, <2>1
  <2>2. CASE Changed(v, h.coinbase, n + 1, u)
    <3>1. CASE h.coinbase \notin v.Signers
      <4>1. u.Signers = v.Signers \cup {h.coinbase} /\ u.Recents = v.Recents
        BY Zenon, <2>2, <3>1 DEF Changed
      <4>2. K = L \/ K = L + 1
        BY Zenon, <1>1, <1>2, <1>7, <3>1, <4>1, LimitStep
      <4>3. QED
        BY Zenon, <4>1, <4>2
    <3>2. CASE h.coinbase \in v.Signers
      <4>1. u.Signers = v.Signers \ {h.coinbase}
            /\ u.Recents = {r \in v.Recents : r.block + K # n + 1}
        BY Zenon, <2>2, <3>2 DEF Changed
      <4>2. h.coinbase \notin u.Signers /\ v.Signers = u.Signers \cup {h.coinbase}
        BY Zenon, <3>2, <4>1
      <4>3. L = K \/ L = K + 1
        BY Zenon, <1>7, <4>2, LimitStep
      <4> HIDE DEF K
      <4>4. QED
        BY Zenon, <4>1, <4>3
    <3>3. QED
      BY Zenon, <3>1, <3>2
  <2>3. QED
    BY Zenon, <1>4, <2>1, <2>2
<1> HIDE DEF K
<1>14. K \in Nat /\ K >= 1
  BY Zenon, <1>8 DEF K
<1>15. u.Recents \subseteq v.Recents
  BY Zenon, <1>13
<1>16. \A r \in u.Recents : r.block + K >= n + 2
  BY <1>2, <1>8, <1>11, <1>13, <1>14
<1>17. ASSUME NEW m \in 1..(n + 1), m + K > n + 2
       PROVE  \E r \in u.Recents : r.block = m
  <2>1. m + L > n + 1
    BY <1>2, <1>8, <1>13, <1>14, <1>17
  <2>2. PICK r \in v.Recents : r.block = m
    BY Zenon, <1>12, <2>1
  <2>3. r.block + K # n + 1
    BY <1>2, <1>14, <1>17, <2>2
  <2>4. r \in u.Recents
    BY Zenon, <1>13, <2>3
  <2>5. QED
    BY Zenon, <2>2, <2>4
<1>18. Limit(t) = K
  BY Zenon, <1>7 DEF K
<1>19. \A r \in t.Recents :
         1 <= r.block /\ r.block <= t.Number /\ r.block + Limit(t) >= t.Number + 1
  BY <1>2, <1>6, <1>11, <1>15, <1>16, <1>18
<1>20. \A m \in 1..t.Number :
         m + Limit(t) > t.Number + 1 => \E r \in t.Recents : r.block = m
  <2>1. t.Number + 1 = n + 2
    BY <1>2, <1>6
  <2>2. QED
    BY Zenon, <1>6, <1>17, <1>18, <2>1
<1>21. QED
  BY Zenon, <1>6, <1>11, <1>15, <1>19, <1>20 DEF Window

-----------------------------------------------------------------------------
(* The invariant. *)

IInv ==
  /\ Sound(snap) /\ Fresh(snap, snap.Number) /\ Window(snap)
  /\ broken \in BOOLEAN
  /\ EarlyOnly

LEMMA InitInv == Init => IInv
<1> SUFFICES ASSUME Init PROVE IInv
  BY Zenon
<1>1. PICK signers \in Genesis : snap = newSnapshot(0, signers) /\ broken = FALSE
  BY Zenon DEF Init
<1>2. Sound(snap)
  BY Zenon, <1>1, NewSound, VotingAssumption
<1>3. snap.Votes = {} /\ snap.Recents = {} /\ snap.Number = 0
  BY Zenon, <1>1 DEF newSnapshot
<1>4. Fresh(snap, snap.Number) /\ Window(snap)
  BY <1>3 DEF Fresh, Window
<1>5. QED
  BY Zenon, <1>1, <1>2, <1>4 DEF IInv, EarlyOnly

\* Once the number reaches the limit, verifySeal and apply agree.
LEMMA VerifiedIsTaken ==
  ASSUME NEW s, Sound(s), Window(s), NEW h, verifyHeader(s, h), Refused(s, h)
  PROVE  s.Number + 1 < Limit(s)
<1> DEFINE n == s.Number + 1
           L == Limit(s)
<1>1. n \in Nat /\ s.Signers \subseteq Address /\ \A r \in s.Recents : r.block \in Nat
  BY DEF Sound, Snapshot, Recent
<1>2. L \in Nat
  BY Zenon, <1>1, LimitType
<1>3. h.signer \in s.Signers /\ h.nonce # "other"
  BY Zenon DEF verifyHeader, verifySeal
<1>4. PICK r \in Cleared(s).Recents : r.signer = h.signer
  BY Zenon, <1>3 DEF Refused
<1>5. r \in s.Recents /\ r.block + L # n
  BY <1>4, ClearedFacts
<1>6. r.block <= Minus(n, L)
  BY Zenon, <1>4, <1>5 DEF verifyHeader, verifySeal
<1>7. r.block + L >= n /\ r.block \in Nat
  BY Zenon, <1>1, <1>5 DEF Window
<1> HIDE DEF n, L
<1>8. ~(n >= L)
  BY <1>1, <1>2, <1>5, <1>6, <1>7 DEF Minus
<1>9. n < L
  BY <1>1, <1>2, <1>8
<1>10. QED
  BY Zenon, <1>9 DEF n, L

\* A header of a signer, applied, keeps the invariant.
LEMMA AppliedInv ==
  ASSUME IInv, NEW h, HeaderOK(h), h.signer \in snap.Signers,
         broken' = FALSE, snap' = apply(snap, h)
  PROVE  IInv'
<1> DEFINE t == apply(snap, h)
<1>1. Sound(t) /\ Fresh(t, t.Number)
  BY Zenon, ApplySound DEF IInv
<1>2. Window(t)
  BY Zenon, ApplyWindow DEF IInv
<1> HIDE DEF t
<1>3. snap' = t
  BY Zenon DEF t
<1>4. Sound(snap)' /\ Fresh(snap, snap.Number)' /\ Window(snap)'
  BY Zenon, <1>1, <1>2, <1>3 DEF Sound, TallyOK, VotesOK, VotesOn, Fresh, Window, Limit, Half
<1>5. QED
  BY Zenon, <1>4 DEF IInv, EarlyOnly

LEMMA UnchangedInv ==
  ASSUME IInv, UNCHANGED vars
  PROVE  IInv'
<1>1. QED
  BY Zenon DEF vars, IInv, EarlyOnly, Sound, TallyOK, VotesOK, VotesOn, Fresh, Window, Limit, Half

LEMMA ImportInv ==
  ASSUME IInv, NEW h \in Header(snap), Import(h)
  PROVE  IInv'
<1>1. Sound(snap) /\ Fresh(snap, snap.Number) /\ Window(snap) /\ broken = FALSE
  BY Zenon DEF IInv, Import
<1>2. HeaderOK(h)
  BY Zenon DEF Header, HeaderOK
<1>3. CASE Refused(snap, h)
  <2>1. broken' = TRUE /\ snap' = snap
    BY Zenon, <1>3 DEF Import, Extend
  <2>2. snap.Number + 1 < Limit(snap)
    <3>1. verifyHeader(snap, h)
      BY Zenon DEF Import
    <3>2. QED
      BY Zenon, <1>1, <1>3, <3>1, VerifiedIsTaken
  <2>3. EarlyOnly'
    BY Zenon, <2>1, <2>2 DEF EarlyOnly, Limit, Half
  <2>4. QED
    BY Zenon, <1>1, <2>1, <2>3 DEF IInv, Sound, TallyOK, VotesOK, VotesOn, Fresh, Window, Limit, Half
<1>4. CASE ~Refused(snap, h)
  <2>1. broken' = FALSE /\ snap' = apply(snap, h)
    BY Zenon, <1>1, <1>4 DEF Import, Extend
  <2>2. h.signer \in snap.Signers
    BY Zenon, <1>4 DEF Refused
  <2>3. QED
    BY Zenon, <1>2, <2>1, <2>2, AppliedInv
<1>5. QED
  BY Zenon, <1>3, <1>4

LEMMA Invariance == Spec => []IInv
<1>1. IInv /\ [Next]_vars => IInv'
  BY Zenon, UnchangedInv, ImportInv DEF Next
<1>2. QED
  BY <1>1, InitInv, PTL DEF Spec

-----------------------------------------------------------------------------
(* What a reader should know. *)

\* Snapshot.apply keeps the snapshot well formed.
THEOREM TypeCorrect == Spec => []TypeOK
<1>1. IInv => TypeOK
  BY Zenon DEF IInv, Sound, TypeOK
<1>2. QED
  BY <1>1, Invariance, PTL

\* The cached tally of Snapshot.apply always equals the count of the pending
\* votes, in the right direction.
THEOREM TallyCorrect == Spec => []TallyMatchesVotes
<1>1. IInv => TallyMatchesVotes
  BY Zenon DEF IInv, Sound, TallyOK, TallyMatchesVotes
<1>2. QED
  BY <1>1, Invariance, PTL

\* No stale, foreign or duplicate vote survives a header.
THEOREM VotesLive == Spec => []VotesAreLive
<1>1. IInv => VotesAreLive
  BY Zenon DEF IInv, Sound, VotesOK, Fresh, VotesAreLive
<1>2. QED
  BY <1>1, Invariance, PTL

\* From height Limit - 1 on, a header that passes verification can be applied.
THEOREM VerifiedHeadsApply == Spec => []EarlyOnly
<1>1. IInv => EarlyOnly
  BY Zenon DEF IInv
<1>2. QED
  BY <1>1, Invariance, PTL

\* The recent signers that count are those of the last Limit - 1 blocks.
THEOREM WindowCorrect == Spec => []RecentsWindow
<1>1. ASSUME IInv PROVE RecentsWindow
  <2> DEFINE n == snap.Number
             L == Limit(snap)
             counted == {r \in snap.Recents : r.block + L > n + 1}
  <2>1. n \in Nat /\ \A r \in snap.Recents : r.block \in Nat
    BY Zenon, <1>1 DEF IInv, Sound, Snapshot, Recent
  <2>2. /\ \A r \in snap.Recents : 1 <= r.block /\ r.block <= n /\ r.block + L >= n + 1
        /\ \A m \in 1..n : m + L > n + 1 => \E r \in snap.Recents : r.block = m
        /\ \A q, r \in snap.Recents : q.block = r.block => q = r
    BY Zenon, <1>1 DEF IInv, Window
  <2> HIDE DEF n, L
  <2>3. {r.block : r \in counted} = {m \in 1..n : m + L > n + 1}
    <3>1. ASSUME NEW r \in counted PROVE r.block \in 1..n /\ r.block + L > n + 1
      BY <2>1, <2>2
    <3>2. ASSUME NEW m \in 1..n, m + L > n + 1 PROVE \E r \in counted : r.block = m
      BY Zenon, <2>2, <3>2
    <3> HIDE DEF counted
    <3>3. QED
      BY Zenon, <3>1, <3>2
  <2>4. QED
    BY Zenon, <2>2, <2>3 DEF RecentsWindow, n, L
<1>2. QED
  BY <1>1, Invariance, PTL

LEMMA MaySealFacts ==
  ASSUME NEW s, Sound(s), Window(s), NEW a
  PROVE  MaySeal(s, a) <=> a \in s.Signers /\ ~\E r \in Cleared(s).Recents : r.signer = a
<1> DEFINE n == s.Number + 1
           L == Limit(s)
<1>1. n \in Nat /\ s.Signers \subseteq Address /\ \A r \in s.Recents : r.block \in Nat
  BY DEF Sound, Snapshot, Recent
<1>2. \A r \in s.Recents : 1 <= r.block /\ r.block + L >= n
  BY Zenon DEF Window
<1>3. L \in Nat
  BY Zenon, <1>1, LimitType
<1>4. Cleared(s).Recents = {r \in s.Recents : r.block + L # n}
  BY Zenon, <1>1, ClearedFacts
<1>5. MaySeal(s, a) <=>
        a \in s.Signers /\ \A r \in s.Recents : r.signer = a => ~(n < L \/ r.block > Minus(n, L))
  BY Zenon DEF MaySeal
<1> HIDE DEF n, L
<1>6. \A r \in s.Recents : (n < L \/ r.block > Minus(n, L)) <=> r.block + L # n
  <2> SUFFICES ASSUME NEW r \in s.Recents
               PROVE  (n < L \/ r.block > Minus(n, L)) <=> r.block + L # n
    BY Zenon
  <2>1. r.block \in Nat /\ 1 <= r.block /\ r.block + L >= n
    BY Zenon, <1>1, <1>2
  <2>2. CASE n < L
    BY <1>1, <1>3, <2>1, <2>2
  <2>3. CASE ~(n < L)
    BY <1>1, <1>3, <2>1, <2>3 DEF Minus
  <2>4. QED
    BY Zenon, <2>2, <2>3
<1>7. QED
  BY Zenon, <1>4, <1>5, <1>6

LEMMA SealFacts ==
  ASSUME IInv
  PROVE  SealAgreesWithApply
<1>1. QED
  BY Zenon, MaySealFacts DEF IInv, SealAgreesWithApply

\* Seal waits exactly when apply would refuse the block.
THEOREM SealCorrect == Spec => []SealAgreesWithApply
<1>1. QED
  BY SealFacts, Invariance, PTL

\* The recent-signer rule leaves somebody who may seal: the window has fewer
\* blocks than there are signers.
THEOREM NoLockout == Spec => []SomeoneMaySeal
<1>1. ASSUME IInv PROVE SomeoneMaySeal
  <2> SUFFICES ASSUME snap.Signers # {}, \A a \in snap.Signers : ~MaySeal(snap, a)
               PROVE  FALSE
    BY Zenon DEF SomeoneMaySeal
  <2> DEFINE n == snap.Number
             L == Limit(snap)
             S == snap.Signers
             C == {r \in snap.Recents : r.block + L # n + 1}
             T == (n + 2 - L)..n
             f == [a \in S |-> (CHOOSE r \in C : r.signer = a).block]
  <2>1. Sound(snap) /\ n \in Nat /\ S \subseteq Address /\ \A r \in snap.Recents : r.block \in Nat
    BY Zenon, <1>1 DEF IInv, Sound, Snapshot, Recent
  <2>2. /\ IsFiniteSet(S) /\ Cardinality(S) \in Nat /\ Cardinality(S) # 0
        /\ L = Cardinality(S) \div 2 + 1
    BY Zenon, <2>1, LimitType, FS_EmptySet DEF Limit, Half
  <2>3. Cleared(snap).Recents = C
    BY Zenon, <2>1, ClearedFacts
  <2>4. \A a \in S : \E r \in C : r.signer = a
    BY Zenon, <1>1, <2>1, <2>3, SealFacts DEF SealAgreesWithApply
  <2>5. /\ \A r \in snap.Recents : r.block <= n /\ r.block + L >= n + 1
        /\ \A q, r \in snap.Recents : q.block = r.block => q = r
    BY Zenon, <1>1 DEF IInv, Window
  <2> HIDE DEF n, L, S
  <2>6. IsFiniteSet(T) /\ Cardinality(T) < Cardinality(S)
    <3>1. n + 2 - L \in Int /\ n \in Int /\ L \in Nat
      BY <2>1, <2>2
    <3>2. IsFiniteSet(T) /\ Cardinality(T) = (IF n + 2 - L > n THEN 0 ELSE n - (n + 2 - L) + 1)
      BY Zenon, <3>1, FS_Interval
    <3> HIDE DEF T
    <3>3. QED
      BY <2>1, <2>2, <3>1, <3>2
  <2>7. \A r \in C : r \in snap.Recents /\ r.block \in T
    BY <2>1, <2>2, <2>5
  <2> HIDE DEF C, T
  <2>8. \A a \in S : \E r \in C : r.signer = a /\ f[a] = r.block
    BY Zenon, <2>4
  <2>9. f \in [S -> T]
    <3>1. \A a \in S : f[a] \in T
      BY Zenon, <2>7, <2>8
    <3>2. QED
      BY Zenon, <3>1
  <2> HIDE DEF f
  <2>10. PICK x, y \in S : x # y /\ f[x] = f[y]
    BY Zenon, <2>2, <2>6, <2>9, FS_PigeonHole
  <2>11. QED
    BY <2>5, <2>7, <2>8, <2>10
<1>2. QED
  BY <1>1, Invariance, PTL

LEMMA ChangeHasMajority ==
  ASSUME IInv, NEW h \in Header(snap), Import(h), snap'.Signers # snap.Signers
  PROVE  /\ snap'.Signers \in {snap.Signers \cup {h.coinbase}, snap.Signers \ {h.coinbase}}
         /\ 2 * Cardinality(Supporters(snap, h)) > Cardinality(snap.Signers)
<1> DEFINE n == snap.Number + 1
           c == h.coinbase
           S == snap.Signers
           v == Voted(snap, h)
           u == Settle(v, c, n)
           V == VotesOn(v, c)
           P == Supporters(snap, h)
           f == [x \in V |-> x.Signer]
<1>1. Sound(snap) /\ n \in Nat /\ S \subseteq Address
  BY DEF IInv, Sound, Snapshot
<1>2. HeaderOK(h) /\ c \in Address
  BY Zenon DEF Header, HeaderOK
<1>3. snap' = apply(snap, h) /\ h.signer \in S
  BY Zenon DEF Import, Extend, Refused
<1>4. /\ Sound(v) /\ v.Signers = S
      /\ \A x \in v.Votes :
           \/ x \in snap.Votes /\ n % Epoch # 0 /\ ~(x.Signer = h.signer /\ x.Address = c)
           \/ x.Signer = h.signer /\ validVote(snap, c, Authorizes(h))
  <2>1. v = Voted(snap, h)
    BY Zenon
  <2> HIDE DEF v
  <2>2. /\ Sound(v) /\ v.Signers = S
        /\ \A x \in v.Votes :
             \/ /\ x \in snap.Votes /\ (snap.Number + 1) % Epoch # 0
                /\ ~(x.Signer = h.signer /\ x.Address = h.coinbase)
             \/ /\ x.Block = snap.Number + 1 /\ x.Signer = h.signer
                /\ validVote(snap, h.coinbase, Authorizes(h))
    BY <1>1, <1>2, <1>3, <2>1, VotedFacts
  <2>3. QED
    BY Zenon, <2>2
<1>5. snap' = [u EXCEPT !.Number = n]
  BY Zenon, <1>3 DEF apply
<1> HIDE DEF v
<1>6. u = v \/ Changed(v, c, n, u)
  BY Zenon, <1>1, <1>2, <1>4, SettleFacts
<1> HIDE DEF u
<1>7. u \in Snapshot
  BY Zenon, <1>4, <1>6 DEF Changed, Sound
<1>8. snap'.Signers = u.Signers
  BY Zenon, <1>5, <1>7 DEF Snapshot
<1>9. Changed(v, c, n, u)
  BY Zenon, <1>4, <1>6, <1>8
<1>10. snap'.Signers \in {S \cup {c}, S \ {c}}
  <2>1. u.Signers = v.Signers \cup {c} \/ u.Signers = v.Signers \ {c}
    BY Zenon, <1>9 DEF Changed
  <2> HIDE DEF S, c
  <2>2. u.Signers = S \cup {c} \/ u.Signers = S \ {c}
    BY Zenon, <1>4, <2>1
  <2>3. QED
    BY Zenon, <1>8, <2>2
<1>11. IsFiniteSet(S) /\ Cardinality(S) \in Nat /\ Half(v) = Cardinality(S) \div 2
  BY Zenon, <1>1, <1>4, LimitType DEF Half
<1>12. IsFiniteSet(V) /\ Cardinality(V) \in Nat /\ Cardinality(V) > Half(v)
  <2>1. v.Tally[c].Votes > Half(v)
    BY Zenon, <1>9 DEF Changed, Passed
  <2>2. QED
    BY Zenon, <1>2, <1>4, <2>1, VotesOnFinite DEF Sound, TallyOK
<1>13. P \subseteq S
  BY Zenon DEF Supporters
<1>14. \A x \in V : x.Signer \in P
  <2> SUFFICES ASSUME NEW x \in V PROVE x.Signer \in P
    BY Zenon
  <2>1. x \in v.Votes /\ x.Address = c
    BY Zenon DEF VotesOn
  <2>2. x.Signer \in S
    BY Zenon, <1>4, <2>1 DEF Sound, VotesOK
  <2>3. CASE x.Signer = h.signer
    BY Zenon, <1>4, <2>1, <2>2, <2>3 DEF Supporters
  <2>4. CASE x.Signer # h.signer
    <3>1. x \in VotesOn(snap, c) /\ n % Epoch # 0
      BY Zenon, <1>4, <2>1, <2>4 DEF VotesOn
    <3>2. QED
      BY Zenon, <2>2, <2>4, <3>1 DEF Supporters
  <2>5. QED
    BY Zenon, <2>3, <2>4
<1>15. \A x, y \in V : x.Signer = y.Signer => x = y
  BY Zenon, <1>4 DEF VotesOn, Sound, VotesOK
<1> HIDE DEF V, P, S
<1>16. IsFiniteSet(P) /\ Cardinality(P) \in Nat
  BY Zenon, <1>11, <1>13, FS_Subset, FS_CardinalityType
<1>17. ~(Cardinality(P) < Cardinality(V))
  <2>1. f \in [V -> P]
    BY Zenon, <1>14
  <2>2. \A x \in V : f[x] = x.Signer
    BY Zenon
  <2> HIDE DEF f
  <2>3. ASSUME Cardinality(P) < Cardinality(V) PROVE FALSE
    <3>1. \E x, y \in V : x # y /\ f[x] = f[y]
      BY Zenon, <1>12, <1>16, <2>1, <2>3, FS_PigeonHole
    <3>2. QED
      BY Zenon, <1>15, <2>2, <3>1
  <2>4. QED
    BY Zenon, <2>3
<1>18. 2 * Cardinality(P) > Cardinality(S)
  BY <1>11, <1>12, <1>16, <1>17
<1>19. QED
  BY Zenon, <1>10, <1>18 DEF P, S

\* Only a majority changes the signers, one account at a time.
THEOREM MajorityRules == Spec => MajorityChanges
<1>1. IInv /\ [Next]_vars =>
        [\A h \in Header(snap) : Import(h) /\ snap'.Signers # snap.Signers =>
           /\ snap'.Signers \in {snap.Signers \cup {h.coinbase}, snap.Signers \ {h.coinbase}}
           /\ 2 * Cardinality(Supporters(snap, h)) > Cardinality(snap.Signers)]_vars
  BY Zenon, ChangeHasMajority
<1>2. QED
  BY <1>1, Invariance, PTL DEF Spec, MajorityChanges

-----------------------------------------------------------------------------
(* Turns.  The rank of a signer is the number of the signers below it: the  *)
(* ranks of n signers are 0 to n - 1, each once.                            *)

Rank(S, a) == Cardinality({b \in S : b < a})

LEMMA RankGrows ==
  ASSUME NEW S, S \subseteq Nat, IsFiniteSet(S), NEW a \in S, NEW b \in S, a < b
  PROVE  Rank(S, a) < Rank(S, b)
<1> DEFINE A == {c \in S : c < a}
           B == {c \in S : c < b}
<1>1. a \in Nat /\ b \in Nat
  BY Zenon
<1>2. A \in SUBSET B /\ a \in B /\ a \notin A
  <2>1. \A c \in A : c \in Nat /\ c < b
    BY <1>1
  <2>2. A \in SUBSET B
    BY Zenon, <2>1
  <2>3. a \in B /\ a \notin A
    BY <1>1
  <2>4. QED
    BY Zenon, <2>2, <2>3
<1>3. IsFiniteSet(B) /\ IsFiniteSet(A)
  BY Zenon, FS_Subset
<1> HIDE DEF A, B
<1>4. Cardinality(A) <= Cardinality(B) /\ (Cardinality(B) = Cardinality(A) => B = A)
  BY Zenon, <1>2, <1>3, FS_Subset
<1>5. Cardinality(A) # Cardinality(B)
  BY Zenon, <1>2, <1>4
<1>6. Cardinality(A) \in Nat /\ Cardinality(B) \in Nat
  BY Zenon, <1>3, FS_CardinalityType
<1>7. Cardinality(A) < Cardinality(B)
  BY <1>4, <1>5, <1>6
<1>8. QED
  BY Zenon, <1>7 DEF Rank, A, B

LEMMA RankBelow ==
  ASSUME NEW S, S \subseteq Nat, IsFiniteSet(S), NEW a \in S
  PROVE  Rank(S, a) \in Nat /\ Rank(S, a) < Cardinality(S)
<1> DEFINE A == {c \in S : c < a}
<1>1. A \in SUBSET S /\ a \notin A
  OBVIOUS
<1> HIDE DEF A
<1>2. IsFiniteSet(A) /\ Cardinality(A) <= Cardinality(S) /\ (Cardinality(S) = Cardinality(A) => S = A)
  BY Zenon, <1>1, FS_Subset
<1>3. Cardinality(A) # Cardinality(S)
  BY Zenon, <1>1, <1>2
<1>4. Cardinality(A) \in Nat /\ Cardinality(S) \in Nat
  BY Zenon, <1>2, FS_CardinalityType
<1>5. Cardinality(A) \in Nat /\ Cardinality(A) < Cardinality(S)
  BY <1>2, <1>3, <1>4
<1>6. QED
  BY Zenon, <1>5 DEF Rank, A

\* Every number below the size is the rank of exactly one element: the ranks
\* are an injection between sets of the same size.
LEMMA RanksAreTurns ==
  ASSUME NEW S, S \subseteq Nat, IsFiniteSet(S), NEW k \in 0..(Cardinality(S) - 1)
  PROVE  \E a \in S : Rank(S, a) = k /\ \A b \in S : Rank(S, b) = k => b = a
<1> DEFINE n == Cardinality(S)
           T == 0..(n - 1)
           f == [a \in S |-> Rank(S, a)]
<1>1. n \in Nat
  BY Zenon, FS_CardinalityType
<1>2. f \in [S -> T]
  <2>1. ASSUME NEW a \in S PROVE Rank(S, a) \in 0..(n - 1)
    <3>1. Rank(S, a) \in Nat /\ Rank(S, a) < Cardinality(S)
      BY Zenon, RankBelow
    <3>2. QED
      BY <1>1, <3>1
  <2>2. QED
    BY Zenon, <2>1
<1>3. \A a, b \in S : f[a] = f[b] => a = b
  <2> SUFFICES ASSUME NEW a \in S, NEW b \in S, a # b PROVE f[a] # f[b]
    BY Zenon
  <2>1. Rank(S, a) \in Nat /\ Rank(S, b) \in Nat
    BY Zenon, RankBelow
  <2>2. a \in Nat /\ b \in Nat
    BY Zenon
  <2>3. a < b \/ b < a
    BY <2>2
  <2>4. Rank(S, a) < Rank(S, b) \/ Rank(S, b) < Rank(S, a)
    BY Zenon, <2>3, RankGrows
  <2>5. QED
    BY <2>1, <2>4
<1> HIDE DEF f
<1>4. IsFiniteSet(T) /\ Cardinality(T) = n
  <2>1. 0 \in Int /\ n - 1 \in Int
    BY <1>1
  <2>2. IsFiniteSet(T) /\ Cardinality(T) = IF 0 > n - 1 THEN 0 ELSE n - 1 - 0 + 1
    BY Zenon, <2>1, FS_Interval
  <2>3. QED
    BY <1>1, <2>2
<1>5. f \in Injection(S, T)
  BY Zenon, <1>2, <1>3 DEF Injection, IsInjective
<1> HIDE DEF T
<1>6. Cardinality(S) = Cardinality(T) <=> f \in Surjection(S, T)
  BY Zenon, <1>4, <1>5, FS_Injection
<1>7. f \in Surjection(S, T)
  BY Zenon, <1>4, <1>6
<1>8. k \in T
  BY Zenon DEF T
<1>9. PICK a \in S : f[a] = k
  BY Zenon, <1>7, <1>8 DEF Surjection
<1>10. \A b \in S : f[b] = Rank(S, b)
  BY Zenon DEF f
<1>11. QED
  BY Zenon, <1>3, <1>9, <1>10

\* Among any signers, one is in turn at every height.
THEOREM TurnsUnique == Spec => []OneInTurn
<1>1. ASSUME IInv, snap.Signers # {}
      PROVE  Cardinality({a \in Address : calcDifficulty(snap, a) = diffInTurn}) = 1
  <2>1. PICK S : S = snap.Signers
    BY Zenon
  <2>2. S \subseteq Address /\ S \subseteq Nat /\ snap.Number \in Nat
    BY Zenon, <1>1, <2>1, CliqueAssumption DEF IInv, Sound, Snapshot
  <2>3. IsFiniteSet(S) /\ Cardinality(S) \in Nat
    BY Zenon, <2>1, <2>2, LimitType
  <2>4. Cardinality(S) # 0
    BY Zenon, <1>1, <2>1, <2>3, FS_EmptySet
  <2>5. PICK k : k = (snap.Number + 1) % Cardinality(S)
    BY Zenon
  <2>6. k \in 0..(Cardinality(S) - 1)
    BY <2>2, <2>3, <2>4, <2>5
  <2>7. PICK a \in S : Rank(S, a) = k /\ \A b \in S : Rank(S, b) = k => b = a
    BY Zenon, <2>2, <2>3, <2>6, RanksAreTurns
  <2> DEFINE T == {b \in Address : calcDifficulty(snap, b) = diffInTurn}
  <2>8. T = {b \in Address : b \in S /\ Rank(S, b) = k}
    BY <2>1, <2>5 DEF calcDifficulty, diffInTurn, diffNoTurn, inturn, Rank
  <2>9. T = {a}
    BY Zenon, <2>2, <2>7, <2>8
  <2> HIDE DEF T
  <2>10. Cardinality(T) = 1
    BY Zenon, <2>9, FS_Singleton
  <2>11. QED
    BY Zenon, <2>10 DEF T
<1>2. IInv => OneInTurn
  BY Zenon, <1>1 DEF OneInTurn
<1>3. QED
  BY <1>2, Invariance, PTL

-----------------------------------------------------------------------------
(* The signing node. *)

\* The consensus fields that Prepare fills in, on top of snapshot s.
FieldsOK(s, h) ==
  /\ h.coinbase \in Address /\ h.nonce \in {"auth", "drop"}
  /\ IF (s.Number + 1) % Epoch = 0
     THEN h.coinbase = Zero /\ h.nonce = "drop" /\ h.signers = s.Signers
     ELSE h.signers = {}

WorkOK(w) ==
  /\ Sound(w.parent) /\ Window(w.parent)
  /\ FieldsOK(w.parent, w)
  /\ w.difficulty = calcDifficulty(w.parent, w.by)

SealOK(t) ==
  /\ Sound(t.parent) /\ Window(t.parent)
  /\ FieldsOK(t.parent, t.header) /\ t.header.signer \in Address
  /\ MaySeal(t.parent, t.header.signer)
  /\ t.header.difficulty = calcDifficulty(t.parent, t.by)

NodeInv ==
  /\ IInv
  /\ signer \in Address /\ proposals \in [Address -> {"none", "auth", "drop"}]
  /\ \A w \in work : WorkOK(w)
  /\ \A t \in sealing : SealOK(t)

\* What Seal lets pass, apply takes.
LEMMA SealedIsTaken ==
  ASSUME NEW t, SealOK(t)
  PROVE  ~Refused(t.parent, t.header)
<1>1. PICK s : s = t.parent
  BY Zenon
<1>2. PICK a : a = t.header.signer
  BY Zenon
<1>3. Sound(s) /\ Window(s) /\ MaySeal(s, a) /\ a \in Address /\ t.header.nonce # "other"
  BY Zenon, <1>1, <1>2 DEF SealOK, FieldsOK
<1>4. MaySeal(s, a) <=> a \in s.Signers /\ ~\E r \in Cleared(s).Recents : r.signer = a
  BY Zenon, <1>3, MaySealFacts
<1>5. QED
  BY Zenon, <1>1, <1>2, <1>3, <1>4 DEF Refused

\* What Seal lets pass for the account it was prepared for, others verify.
LEMMA SealedIsVerified ==
  ASSUME NEW t, SealOK(t), t.header.signer = t.by
  PROVE  verifyHeader(t.parent, t.header)
<1>1. PICK s : s = t.parent
  BY Zenon
<1>2. PICK h : h = t.header
  BY Zenon
<1>3. Sound(s) /\ FieldsOK(s, h) /\ MaySeal(s, h.signer) /\ h.difficulty = calcDifficulty(s, h.signer)
  BY Zenon, <1>1, <1>2 DEF SealOK
<1>4. h.difficulty \in {diffInTurn, diffNoTurn}
  BY Zenon, <1>3 DEF calcDifficulty
<1>5. s.Number + 1 \in Nat /\ Limit(s) \in Nat /\ \A r \in s.Recents : r.block \in Nat
  <2>1. s.Signers \subseteq Address
    BY Zenon, <1>3 DEF Sound, Snapshot
  <2>2. QED
    BY <1>3, <2>1, LimitType DEF Sound, Snapshot, Recent
<1>6. ASSUME NEW r \in s.Recents, r.signer = h.signer
      PROVE  r.block <= Minus(s.Number + 1, Limit(s))
  <2>1. ~(s.Number + 1 < Limit(s)) /\ ~(r.block > Minus(s.Number + 1, Limit(s)))
    BY Zenon, <1>3, <1>6 DEF MaySeal
  <2>2. Minus(s.Number + 1, Limit(s)) \in Int /\ r.block \in Nat
    BY <1>5, <2>1 DEF Minus
  <2>3. QED
    BY <2>1, <2>2
<1>7. verifySeal(s, h)
  BY Zenon, <1>3, <1>6 DEF verifySeal, MaySeal
<1>8. verifyHeader(s, h)
  BY Zenon, <1>3, <1>4, <1>7 DEF verifyHeader, FieldsOK
<1>9. QED
  BY Zenon, <1>1, <1>2, <1>8

LEMMA PrepareInv ==
  ASSUME NodeInv, Prepare
  PROVE  \A w \in work' : WorkOK(w)
<1>1. CASE snap.Signers = {}
  BY Zenon, <1>1 DEF Prepare, NodeInv
<1>2. CASE snap.Signers # {}
  <2>1. PICK s : s = snap
    BY Zenon
  <2>2. Sound(s) /\ Window(s)
    BY Zenon, <2>1 DEF NodeInv, IInv
  <2>3. PICK vote \in Choices(s) :
          work' = {[parent |-> s, by |-> signer, coinbase |-> vote.coinbase, nonce |-> vote.nonce,
                    difficulty |-> calcDifficulty(s, signer), signers |-> CheckpointList(s)]}
    BY Zenon, <1>2, <2>1 DEF Prepare
  <2>4. /\ vote.coinbase \in Address /\ vote.nonce \in {"auth", "drop"}
        /\ (s.Number + 1) % Epoch = 0 => vote = NoVote
    <3>1. CASE vote = NoVote
      BY Zenon, <3>1, CliqueAssumption DEF NoVote
    <3>2. CASE vote # NoVote
      <4>1. (s.Number + 1) % Epoch # 0
        BY Zenon, <2>3, <3>2 DEF Choices
      <4>2. PICK a \in Sensible(s) : vote = [coinbase |-> a, nonce |-> proposals[a]]
        BY Zenon, <2>3, <3>2 DEF Choices
      <4>3. a \in Address /\ proposals[a] \in {"auth", "drop"}
        BY Zenon, <4>2 DEF Sensible, NodeInv
      <4>4. QED
        BY Zenon, <4>1, <4>2, <4>3
    <3>3. QED
      BY Zenon, <3>1, <3>2
  <2>5. ASSUME NEW w \in work' PROVE WorkOK(w)
    <3>1. /\ w.parent = s /\ w.coinbase = vote.coinbase /\ w.nonce = vote.nonce
          /\ w.difficulty = calcDifficulty(s, w.by) /\ w.signers = CheckpointList(s)
      BY <2>3, <2>5
    <3>2. FieldsOK(s, w)
      <4>1. CASE (s.Number + 1) % Epoch = 0
        <5>1. vote.coinbase = Zero /\ vote.nonce = "drop"
          BY <2>4, <4>1 DEF NoVote
        <5>2. w.signers = s.Signers
          BY Zenon, <3>1, <4>1 DEF CheckpointList
        <5>3. QED
          BY Zenon, <2>4, <3>1, <4>1, <5>1, <5>2 DEF FieldsOK
      <4>2. CASE (s.Number + 1) % Epoch # 0
        <5>1. w.signers = {}
          BY Zenon, <3>1, <4>2 DEF CheckpointList
        <5>2. QED
          BY Zenon, <2>4, <3>1, <4>2, <5>1 DEF FieldsOK
      <4>3. QED
        BY Zenon, <4>1, <4>2
    <3>3. QED
      BY Zenon, <2>2, <3>1, <3>2 DEF WorkOK
  <2>6. QED
    BY Zenon, <2>5
<1>3. QED
  BY Zenon, <1>1, <1>2

LEMMA SealInv ==
  ASSUME NodeInv, Seal
  PROVE  \A t \in sealing' : SealOK(t)
<1>1. PICK w \in work :
        sealing' = {[parent |-> w.parent, by |-> w.by,
                     header |-> [signer |-> a, coinbase |-> w.coinbase, nonce |-> w.nonce,
                                 difficulty |-> w.difficulty, signers |-> w.signers]] :
                      a \in {b \in {signer} : MaySeal(w.parent, b)}}
  BY Zenon DEF Seal
<1>2. WorkOK(w)
  BY Zenon DEF NodeInv
<1>3. SUFFICES ASSUME NEW t \in sealing' PROVE SealOK(t)
  BY Zenon
<1>4. PICK a \in {b \in {signer} : MaySeal(w.parent, b)} :
        t = [parent |-> w.parent, by |-> w.by,
             header |-> [signer |-> a, coinbase |-> w.coinbase, nonce |-> w.nonce,
                         difficulty |-> w.difficulty, signers |-> w.signers]]
  BY Zenon, <1>1, <1>3
<1>5. a \in Address /\ MaySeal(w.parent, a)
  BY Zenon, <1>4 DEF NodeInv
<1>6. /\ t.parent = w.parent /\ t.by = w.by /\ t.header.signer = a
      /\ t.header.coinbase = w.coinbase /\ t.header.nonce = w.nonce
      /\ t.header.difficulty = w.difficulty /\ t.header.signers = w.signers
  BY Zenon, <1>4
<1>7. FieldsOK(t.parent, t.header)
  BY Zenon, <1>2, <1>6 DEF WorkOK, FieldsOK
<1>8. QED
  BY Zenon, <1>2, <1>5, <1>6, <1>7 DEF WorkOK, SealOK

\* A block that is adopted without verification keeps the snapshot's invariant.
LEMMA PublishInv ==
  ASSUME NodeInv, Publish
  PROVE  IInv'
<1>1. PICK t \in sealing : IF Extends(t) THEN Extend(t.header) ELSE UNCHANGED vars
  BY Zenon DEF Publish
<1>2. CASE ~Extends(t)
  <2>1. UNCHANGED vars
    BY Zenon, <1>1, <1>2
  <2>2. QED
    BY Zenon, <2>1, UnchangedInv DEF NodeInv
<1>3. CASE Extends(t)
  <2>1. SealOK(t) /\ t.parent = snap /\ broken = FALSE
    BY Zenon, <1>3 DEF NodeInv, Extends, IInv
  <2>2. ~Refused(snap, t.header)
    BY Zenon, <2>1, SealedIsTaken
  <2>3. PICK h : h = t.header
    BY Zenon
  <2>4. broken' = FALSE /\ snap' = apply(snap, h)
    BY Zenon, <1>1, <1>3, <2>1, <2>2, <2>3 DEF Extend
  <2>5. HeaderOK(h) /\ h.signer \in snap.Signers
    BY Zenon, <2>1, <2>2, <2>3 DEF SealOK, FieldsOK, HeaderOK, Refused
  <2>6. QED
    BY Zenon, <2>4, <2>5, AppliedInv DEF NodeInv
<1>4. QED
  BY Zenon, <1>2, <1>3

LEMMA NodeInvariance == SealerSpec => []NodeInv
<1>1. SealerInit => NodeInv
  BY Zenon, InitInv DEF SealerInit, NodeInv
<1>2. ASSUME NodeInv, SealerNext PROVE NodeInv'
  <2>1. IInv'
    <3>1. CASE UNCHANGED vars
      BY Zenon, <1>2, <3>1, UnchangedInv DEF NodeInv
    <3>2. CASE Publish
      BY Zenon, <1>2, <3>2, PublishInv
    <3>3. ASSUME NEW h \in Header(snap), ImportBlock(h) PROVE IInv'
      BY Zenon, <1>2, <3>3, ImportInv DEF NodeInv, ImportBlock
    <3>4. QED
      BY Zenon, <1>2, <3>1, <3>2, <3>3 DEF SealerNext, Prepare, Seal, Propose, Discard, Authorize
  <2>2. signer' \in Address /\ proposals' \in [Address -> {"none", "auth", "drop"}]
    BY Zenon, <1>2 DEF SealerNext, NodeInv, Prepare, Seal, Publish, ImportBlock, Propose, Discard, Authorize,
                nodeVars
  <2>3. \A w \in work' : WorkOK(w)
    <3>1. CASE Prepare
      BY Zenon, <1>2, <3>1, PrepareInv
    <3>2. CASE work' = {} \/ work' = work
      BY Zenon, <1>2, <3>2 DEF NodeInv
    <3>3. QED
      BY Zenon, <1>2, <3>1, <3>2
      DEF SealerNext, Seal, Publish, ImportBlock, Propose, Discard, Authorize, nodeVars
  <2>4. \A t \in sealing' : SealOK(t)
    <3>1. CASE Seal
      BY <1>2, <3>1, SealInv
    <3>2. CASE sealing' = {} \/ sealing' = sealing
      BY Zenon, <1>2, <3>2 DEF NodeInv
    <3>3. QED
      BY Zenon, <1>2, <3>1, <3>2
      DEF SealerNext, Prepare, Publish, ImportBlock, Propose, Discard, Authorize, nodeVars
  <2>5. QED
    BY Zenon, <2>1, <2>2, <2>3, <2>4 DEF NodeInv, WorkOK, SealOK
<1>3. ASSUME NodeInv, UNCHANGED sealerVars PROVE NodeInv'
  BY Zenon, <1>3, UnchangedInv DEF NodeInv, sealerVars, nodeVars
<1>4. QED
  BY <1>1, <1>2, <1>3, PTL DEF SealerSpec

\* What Prepare and Seal put together for one account, every node verifies and
\* can build upon.
THEOREM SealedBlocksVerify == SealerSpec => []SealedVerifies
<1>1. NodeInv => SealedVerifies
  BY Zenon, SealedIsTaken, SealedIsVerified DEF NodeInv, SealedVerifies, Valid
<1>2. QED
  BY <1>1, NodeInvariance, PTL

\* The blocks that a node seals and adopts without verification leave the
\* snapshot in the state that verified ones do: tally, votes and recents.
THEOREM OwnBlocksAreSound ==
  SealerSpec => [](TallyMatchesVotes /\ VotesAreLive /\ EarlyOnly)
<1>1. IInv => TallyMatchesVotes /\ VotesAreLive /\ EarlyOnly
  BY Zenon DEF IInv, Sound, TallyOK, VotesOK, Fresh, TallyMatchesVotes, VotesAreLive
<1>2. NodeInv => IInv
  BY Zenon DEF NodeInv
<1>3. QED
  BY <1>1, <1>2, NodeInvariance, PTL
=============================================================================
