------------------------- MODULE CliqueEngineProofs -------------------------
(***************************************************************************)
(* Proofs about CliqueEngine, for any accounts, epoch, intervals, cache    *)
(* size and number of resets: however the engine puts a snapshot together, *)
(* it is the one a replay from genesis yields.                             *)
(***************************************************************************)
EXTENDS CliqueEngine, FiniteSetTheorems, WellFoundedInduction, TLAPS

(* Induction, as the least counterexample. *)

LEMMA Least ==
  ASSUME NEW T \in SUBSET Nat, T # {}
  PROVE  \E n \in T : \A m \in T : n <= m
<1>1. PICK n \in T : \A m \in T : ~(<<m, n>> \in OpToRel(<, Nat))
  BY Zenon, WFMin, NatLessThanWellFounded
<1>2. ASSUME NEW m \in T PROVE n <= m
  <2>1. m \in Nat /\ n \in Nat
    BY Zenon
  <2>2. SUFFICES ASSUME m < n PROVE FALSE
    BY <2>1
  <2>3. <<m, n>> \in Nat \X Nat /\ <<m, n>>[1] < <<m, n>>[2]
    BY <2>1, <2>2
  <2>4. <<m, n>> \in OpToRel(<, Nat)
    BY Zenon, <2>3 DEF OpToRel
  <2>5. QED
    BY Zenon, <1>1, <2>4
<1>3. QED
  BY Zenon, <1>2

LEMMA Induction ==
  ASSUME NEW N \in Nat, NEW T, 0 \in T,
         \A n \in Nat : n < N /\ n \in T => n + 1 \in T
  PROVE  N \in T
<1> DEFINE U == {n \in Nat : n <= N /\ n \notin T}
<1>1. SUFFICES ASSUME U # {} PROVE FALSE
  <2>1. N <= N
    BY SMT
  <2>2. QED
    BY Zenon, <2>1
<1>2. PICK n \in U : \A m \in U : n <= m
  BY Zenon, <1>1, Least
<1>3. n # 0
  BY Zenon
<1>4. n - 1 \in Nat /\ n - 1 < N /\ n - 1 \notin U /\ (n - 1) + 1 = n /\ n - 1 <= N
  BY <1>2, <1>3
<1>5. QED
  BY Zenon, <1>4

-----------------------------------------------------------------------------
(* Applying headers: the recursion of ApplyAll has a solution, and only one. *)

IsFold(f, start, headers, n) ==
  f = [i \in 0..n |-> IF i = 0 THEN start ELSE Advance(f[i - 1], headers[i])]

LEMMA FoldExists ==
  ASSUME NEW start, NEW headers, NEW n \in Nat
  PROVE  \E f : IsFold(f, start, headers, n)
<1> DEFINE T == {m \in Nat : ~\E f : IsFold(f, start, headers, m)}
<1>1. SUFFICES ASSUME T # {} PROVE FALSE
  BY Zenon
<1>2. PICK m \in T : \A j \in T : m <= j
  BY Zenon, <1>1, Least
<1>3. m # 0
  <2> DEFINE f == [i \in 0..0 |-> start]
  <2>1. IsFold(f, start, headers, 0)
    BY DEF IsFold
  <2>2. QED
    BY Zenon, <2>1
<1>4. m - 1 \in Nat /\ m - 1 \notin T
  BY <1>2, <1>3
<1>5. PICK f : IsFold(f, start, headers, m - 1)
  BY Zenon, <1>4
<1> DEFINE g == [i \in 0..m |-> IF i = m THEN Advance(f[m - 1], headers[m]) ELSE f[i]]
<1>6. ASSUME NEW i \in 0..m
      PROVE  g[i] = IF i = 0 THEN start ELSE Advance(g[i - 1], headers[i])
  <2>1. CASE i = m
    BY <1>3, <2>1
  <2>2. CASE i # m
    <3>1. i \in 0..(m - 1) /\ (i # 0 => i - 1 \in 0..m /\ i - 1 # m)
      BY <2>2
    <3>2. g[i] = f[i] /\ (i # 0 => g[i - 1] = f[i - 1])
      BY Zenon, <2>2, <3>1
    <3>3. f[i] = IF i = 0 THEN start ELSE Advance(f[i - 1], headers[i])
      BY Zenon, <1>5, <3>1 DEF IsFold
    <3>4. QED
      BY Zenon, <3>2, <3>3
  <2>3. QED
    BY Zenon, <2>1, <2>2
<1>7. IsFold(g, start, headers, m)
  <2>1. g = [i \in 0..m |-> g[i]]
    BY Zenon
  <2> HIDE DEF g
  <2>2. QED
    BY Zenon, <1>6, <2>1 DEF IsFold
<1>8. QED
  BY Zenon, <1>7

\* Two folds from the same start agree as long as their headers do.
LEMMA FoldUnique ==
  ASSUME NEW start, NEW p, NEW q, NEW n \in Nat, NEW k \in Nat, k <= n,
         NEW f, IsFold(f, start, p, n), NEW g, IsFold(g, start, q, k),
         \A i \in 1..k : p[i] = q[i]
  PROVE  f[k] = g[k]
<1> DEFINE T == {i \in Nat : i <= k /\ f[i] # g[i]}
<1>1. SUFFICES ASSUME T # {} PROVE FALSE
  <2>1. k <= k
    BY SMT
  <2>2. QED
    BY Zenon, <2>1
<1>2. PICK i \in T : \A j \in T : i <= j
  BY Zenon, <1>1, Least
<1>3. i \in 0..n /\ i \in 0..k
  BY <1>2
<1>4. /\ f[i] = IF i = 0 THEN start ELSE Advance(f[i - 1], p[i])
      /\ g[i] = IF i = 0 THEN start ELSE Advance(g[i - 1], q[i])
  BY Zenon, <1>3 DEF IsFold
<1>5. i # 0
  BY Zenon, <1>2, <1>4
<1>6. i - 1 \in Nat /\ i - 1 <= k /\ i - 1 \notin T /\ i \in 1..k
  BY <1>2, <1>5
<1>7. f[i - 1] = g[i - 1] /\ p[i] = q[i]
  BY Zenon, <1>6
<1>8. QED
  BY Zenon, <1>2, <1>4, <1>5, <1>7

LEMMA ApplyAllFold ==
  ASSUME NEW start, NEW q, Len(q) \in Nat
  PROVE  \E f : IsFold(f, start, q, Len(q)) /\ ApplyAll(start, q) = f[Len(q)]
<1>1. \E f : IsFold(f, start, q, Len(q))
  BY Zenon, FoldExists
<1> DEFINE g == CHOOSE f : IsFold(f, start, q, Len(q))
<1>2. IsFold(g, start, q, Len(q))
  BY Zenon, <1>1
<1>3. ApplyAll(start, q) = g[Len(q)]
  BY Zenon DEF ApplyAll, IsFold
<1>4. QED
  BY Zenon, <1>2, <1>3

-----------------------------------------------------------------------------
(* Blocks and their ancestors. *)

LEMMA PrefixFacts ==
  ASSUME NEW H, NEW p \in Seq(H), NEW k \in 0..Len(p)
  PROVE  /\ Prefix(p, k) \in Seq(H) /\ Len(Prefix(p, k)) = k
         /\ \A i \in 1..k : Prefix(p, k)[i] = p[i]
BY DEF Prefix

LEMMA GatheredFacts ==
  ASSUME NEW H, NEW p \in Seq(H), NEW k \in 0..Len(p)
  PROVE  /\ Gathered(p, k) \in Seq(H) /\ Len(Gathered(p, k)) = Len(p) - k
         /\ \A i \in 1..(Len(p) - k) : Gathered(p, k)[i] = p[k + i]
BY DEF Gathered

LEMMA SameSeq ==
  ASSUME NEW H, NEW p \in Seq(H), NEW q \in Seq(H), Len(p) = Len(q),
         \A i \in 1..Len(p) : p[i] = q[i]
  PROVE  p = q
OBVIOUS

LEMMA PrefixAll ==
  ASSUME NEW H, NEW p \in Seq(H)
  PROVE  Prefix(p, Len(p)) = p
<1>1. Len(p) \in 0..Len(p)
  OBVIOUS
<1>2. /\ Prefix(p, Len(p)) \in Seq(H) /\ Len(Prefix(p, Len(p))) = Len(p)
      /\ \A i \in 1..Len(p) : Prefix(p, Len(p))[i] = p[i]
  BY Zenon, <1>1, PrefixFacts
<1>3. QED
  BY <1>2, SameSeq

\* Prefixes of a block and of its ancestors are the same blocks.
LEMMA PrefixSame ==
  ASSUME NEW H, NEW p \in Seq(H), NEW q \in Seq(H), NEW k \in Nat, k <= Len(p), k <= Len(q),
         \A i \in 1..k : p[i] = q[i]
  PROVE  Prefix(p, k) = Prefix(q, k)
<1>1. k \in 0..Len(p) /\ k \in 0..Len(q)
  OBVIOUS
<1>2. /\ Prefix(p, k) \in Seq(H) /\ Len(Prefix(p, k)) = k
      /\ \A i \in 1..k : Prefix(p, k)[i] = p[i]
  BY Zenon, <1>1, PrefixFacts
<1>3. /\ Prefix(q, k) \in Seq(H) /\ Len(Prefix(q, k)) = k
      /\ \A i \in 1..k : Prefix(q, k)[i] = q[i]
  BY Zenon, <1>1, PrefixFacts
<1>4. QED
  BY <1>2, <1>3, SameSeq

LEMMA PrefixPrefix ==
  ASSUME NEW H, NEW p \in Seq(H), NEW k \in 0..Len(p), NEW j \in 0..k
  PROVE  Prefix(Prefix(p, k), j) = Prefix(p, j)
<1>1. Prefix(p, k) \in Seq(H) /\ Len(Prefix(p, k)) = k /\ \A i \in 1..k : Prefix(p, k)[i] = p[i]
  BY Zenon, PrefixFacts
<1>2. j \in Nat /\ j <= k /\ j <= Len(p) /\ \A i \in 1..j : i \in 1..k
  OBVIOUS
<1>3. QED
  BY Zenon, <1>1, <1>2, PrefixSame

-----------------------------------------------------------------------------
(* Applying headers, unfolded at the last one and split in the middle. *)

LEMMA ApplyNone ==
  ASSUME NEW start, NEW q, Len(q) = 0
  PROVE  ApplyAll(start, q) = start
<1>1. PICK f : IsFold(f, start, q, 0) /\ ApplyAll(start, q) = f[0]
  BY Zenon, ApplyAllFold, 0 \in Nat
<1>2. 0 \in 0..0
  OBVIOUS
<1>3. QED
  BY Zenon, <1>1, <1>2 DEF IsFold

LEMMA ApplyLast ==
  ASSUME NEW start, NEW H, NEW q \in Seq(H), NEW n \in Nat, Len(q) = n + 1
  PROVE  ApplyAll(start, q) = Advance(ApplyAll(start, Prefix(q, n)), q[n + 1])
<1>1. n \in 0..Len(q) /\ n + 1 \in Nat /\ n + 1 # 0 /\ n + 1 \in 0..(n + 1) /\ (n + 1) - 1 = n
  OBVIOUS
<1>2. PICK f : IsFold(f, start, q, n + 1) /\ ApplyAll(start, q) = f[n + 1]
  BY Zenon, <1>1, ApplyAllFold
<1>3. Len(Prefix(q, n)) = n /\ \A i \in 1..n : q[i] = Prefix(q, n)[i]
  BY Zenon, <1>1, PrefixFacts
<1>4. PICK g : IsFold(g, start, Prefix(q, n), n) /\ ApplyAll(start, Prefix(q, n)) = g[n]
  BY Zenon, <1>3, ApplyAllFold
<1>5. f[n] = g[n]
  <2>1. n <= n + 1 /\ n + 1 \in Nat
    OBVIOUS
  <2>2. IsFold(f, start, q, n + 1) /\ IsFold(g, start, Prefix(q, n), n)
    BY Zenon, <1>2, <1>4
  <2>3. \A i \in 1..n : q[i] = Prefix(q, n)[i]
    BY Zenon, <1>3
  <2>4. QED
    BY <2>1, <2>2, <2>3, FoldUnique
<1>6. f[n + 1] = IF n + 1 = 0 THEN start ELSE Advance(f[(n + 1) - 1], q[n + 1])
  BY Zenon, <1>1, <1>2 DEF IsFold
<1>7. QED
  BY Zenon, <1>1, <1>2, <1>4, <1>5, <1>6

LEMMA ApplyStep ==
  ASSUME NEW start, NEW H, NEW q \in Seq(H), NEW n \in Nat, n < Len(q)
  PROVE  ApplyAll(start, Prefix(q, n + 1)) = Advance(ApplyAll(start, Prefix(q, n)), q[n + 1])
<1>1. n + 1 \in 0..Len(q) /\ n \in 0..(n + 1) /\ n + 1 \in 1..(n + 1)
  OBVIOUS
<1>2. /\ Prefix(q, n + 1) \in Seq(H) /\ Len(Prefix(q, n + 1)) = n + 1
      /\ Prefix(q, n + 1)[n + 1] = q[n + 1]
  BY Zenon, <1>1, PrefixFacts
<1>3. Prefix(Prefix(q, n + 1), n) = Prefix(q, n)
  BY Zenon, <1>1, PrefixPrefix
<1>4. QED
  BY ZenonT(60), <1>2, <1>3, ApplyLast

LEMMA ApplyZero ==
  ASSUME NEW start, NEW H, NEW q \in Seq(H)
  PROVE  ApplyAll(start, Prefix(q, 0)) = start
<1>1. 0 \in 0..Len(q)
  OBVIOUS
<1>2. Len(Prefix(q, 0)) = 0
  BY Zenon, <1>1, PrefixFacts
<1>3. QED
  BY Zenon, <1>2, ApplyNone

LEMMA ApplySplit ==
  ASSUME NEW start, NEW H, NEW p \in Seq(H), NEW k \in 0..Len(p)
  PROVE  ApplyAll(start, p) = ApplyAll(ApplyAll(start, Prefix(p, k)), Gathered(p, k))
<1> DEFINE g == Gathered(p, k)
           middle == ApplyAll(start, Prefix(p, k))
           T == {n \in Nat : ApplyAll(start, Prefix(p, k + n)) = ApplyAll(middle, Prefix(g, n))}
<1>1. /\ g \in Seq(H) /\ Len(g) = Len(p) - k
      /\ \A i \in 1..(Len(p) - k) : g[i] = p[k + i]
  BY Zenon, GatheredFacts
<1>2. Len(g) \in Nat /\ k \in Nat /\ k + Len(g) = Len(p) /\ k + 0 = k
  BY <1>1
<1> HIDE DEF g
<1>3. 0 \in T
  <2>1. ApplyAll(middle, Prefix(g, 0)) = middle
    BY Zenon, <1>1, ApplyZero
  <2>2. 0 \in Nat
    OBVIOUS
  <2>3. QED
    BY Zenon, <1>2, <2>1, <2>2
<1>4. ASSUME NEW n \in Nat, n < Len(g), n \in T PROVE n + 1 \in T
  <2>1. /\ k + n \in Nat /\ k + n < Len(p) /\ n + 1 \in 1..(Len(p) - k) /\ n + 1 \in Nat
        /\ (k + n) + 1 = k + (n + 1)
    BY <1>2, <1>4
  <2>2. ApplyAll(start, Prefix(p, k + (n + 1)))
          = Advance(ApplyAll(start, Prefix(p, k + n)), p[k + (n + 1)])
    <3>1. ApplyAll(start, Prefix(p, (k + n) + 1))
            = Advance(ApplyAll(start, Prefix(p, k + n)), p[(k + n) + 1])
      BY Zenon, <2>1, ApplyStep
    <3>2. QED
      BY Zenon, <2>1, <3>1
  <2>3. ApplyAll(middle, Prefix(g, n + 1)) = Advance(ApplyAll(middle, Prefix(g, n)), g[n + 1])
    BY Zenon, <1>1, <1>4, ApplyStep
  <2>4. g[n + 1] = p[k + (n + 1)]
    BY Zenon, <1>1, <2>1
  <2>5. QED
    BY Zenon, <1>4, <2>1, <2>2, <2>3, <2>4
<1>5. Len(g) \in T
  BY Zenon, <1>2, <1>3, <1>4, Induction
<1>6. Prefix(p, k + Len(g)) = p /\ Prefix(g, Len(g)) = g
  BY Zenon, <1>1, <1>2, PrefixAll
<1>7. QED
  BY Zenon, <1>5, <1>6 DEF g

-----------------------------------------------------------------------------
(* Snapshot.apply, for snapshots that differ in their recent signers only:   *)
(* no stage reads the recents to decide anything else.                       *)

Shaped(s) ==
  s \in [Number : {s.Number}, Signers : {s.Signers}, Recents : {s.Recents},
         Votes : {s.Votes}, Tally : {s.Tally}]

Agree(t, s) ==
  /\ t.Number = s.Number /\ t.Signers = s.Signers /\ t.Votes = s.Votes /\ t.Tally = s.Tally
  /\ t.Recents \subseteq s.Recents

Pair(t, s) == Shaped(t) /\ Shaped(s) /\ Agree(t, s)

LEMMA ForgetAgree ==
  ASSUME NEW t, NEW s, Pair(t, s), NEW m
  PROVE  Pair(ForgetOldest(t, m), ForgetOldest(s, m))
<1> USE DEF Pair
<1>1. Limit(t) = Limit(s)
  BY Zenon DEF Agree, Limit, Half
<1> DEFINE Fields(x, u) ==
             /\ Shaped(u) /\ u.Number = x.Number /\ u.Signers = x.Signers
             /\ u.Votes = x.Votes /\ u.Tally = x.Tally
             /\ u.Recents = {r \in x.Recents : r.block + Limit(x) # m}
<1>2. ASSUME NEW x, Shaped(x) PROVE Fields(x, ForgetOldest(x, m))
  BY Zenon, <1>2 DEF Shaped, ForgetOldest
<1> HIDE DEF Fields
<1>3. Fields(t, ForgetOldest(t, m)) /\ Fields(s, ForgetOldest(s, m))
  BY Zenon, <1>2
<1>4. QED
  BY Zenon, <1>1, <1>3 DEF Agree, Fields

LEMMA ResetAgree ==
  ASSUME NEW t, NEW s, Pair(t, s), NEW m
  PROVE  Pair(ResetVotes(t, m), ResetVotes(s, m))
<1> USE DEF Pair
<1>1. CASE m % Epoch = 0
  <2> DEFINE Fields(x, u) ==
               /\ Shaped(u) /\ u.Number = x.Number /\ u.Signers = x.Signers
               /\ u.Recents = x.Recents
               /\ u.Votes = {} /\ u.Tally = [a \in Address |-> NoTally]
  <2>1. ASSUME NEW x, Shaped(x) PROVE Fields(x, ResetVotes(x, m))
    <3>1. ResetVotes(x, m) = [x EXCEPT !.Votes = {}, !.Tally = [a \in Address |-> NoTally]]
      BY Zenon, <1>1 DEF ResetVotes
    <3>2. QED
      BY Zenon, <2>1, <3>1 DEF Shaped
  <2> HIDE DEF Fields
  <2>2. Fields(t, ResetVotes(t, m)) /\ Fields(s, ResetVotes(s, m))
    BY Zenon, <2>1
  <2>3. QED
    BY Zenon, <2>2 DEF Agree, Fields
<1>2. CASE m % Epoch # 0
  BY Zenon, <1>2 DEF ResetVotes
<1>3. QED
  BY Zenon, <1>1, <1>2

LEMMA ClearedAgree ==
  ASSUME NEW t, NEW s, Pair(t, s)
  PROVE  Pair(Cleared(t), Cleared(s))
<1>1. t.Number = s.Number
  BY Zenon DEF Pair, Agree
<1>2. QED
  BY Zenon, <1>1, ForgetAgree, ResetAgree DEF Cleared

\* A header the longer memory takes, the shorter one takes.
LEMMA RefusedAgree ==
  ASSUME NEW t, NEW s, Pair(t, s), NEW h, Refused(t, h)
  PROVE  Refused(s, h)
<1>1. Cleared(t).Recents \subseteq Cleared(s).Recents /\ t.Signers = s.Signers
  BY Zenon, ClearedAgree DEF Pair, Agree
<1>2. QED
  BY Zenon, <1>1 DEF Refused

LEMMA SeenAgree ==
  ASSUME NEW t, NEW s, Pair(t, s), NEW h
  PROVE  Pair(Seen(t, h), Seen(s, h))
<1> DEFINE r == [block |-> s.Number + 1, signer |-> h.signer]
<1>1. Pair(Cleared(t), Cleared(s))
  BY Zenon, ClearedAgree
<1>2. /\ Seen(t, h) = [Cleared(t) EXCEPT !.Recents = @ \cup {r}]
      /\ Seen(s, h) = [Cleared(s) EXCEPT !.Recents = @ \cup {r}]
  BY Zenon DEF Seen, Pair, Agree
<1> HIDE DEF r
<1> DEFINE after(x) == [x EXCEPT !.Recents = @ \cup {r}]
           Fields(x, u) ==
             /\ Shaped(u) /\ u.Number = x.Number /\ u.Signers = x.Signers
             /\ u.Votes = x.Votes /\ u.Tally = x.Tally /\ u.Recents = x.Recents \cup {r}
<1>3. ASSUME NEW x, Shaped(x) PROVE Fields(x, after(x))
  BY Zenon, <1>3 DEF Shaped
<1>4. Seen(t, h) = after(Cleared(t)) /\ Seen(s, h) = after(Cleared(s))
  BY Zenon, <1>2
<1> HIDE DEF after, Fields
<1>5. Fields(Cleared(t), Seen(t, h)) /\ Fields(Cleared(s), Seen(s, h))
  BY Zenon, <1>1, <1>3, <1>4 DEF Pair
<1>6. QED
  BY Zenon, <1>1, <1>5 DEF Pair, Agree, Fields

LEMMA DiscardAgree ==
  ASSUME NEW t, NEW s, Pair(t, s), NEW h
  PROVE  Pair(DiscardVote(t, h), DiscardVote(s, h))
<1> DEFINE old(V) == {v \in V : v.Signer = h.signer /\ v.Address = h.coinbase}
           oldest(V) == CHOOSE v \in old(V) : \A w \in old(V) : v.Block <= w.Block
           after(x, vote) ==
             [x EXCEPT !.Votes = @ \ {vote}, !.Tally[h.coinbase] = uncast(@, {vote})]
           Fields(x, u, vote) ==
             /\ Shaped(u) /\ u.Number = x.Number /\ u.Signers = x.Signers
             /\ u.Recents = x.Recents /\ u.Votes = x.Votes \ {vote}
             /\ u.Tally = [x.Tally EXCEPT ![h.coinbase] = uncast(x.Tally[h.coinbase], {vote})]
<1>1. t.Votes = s.Votes
  BY Zenon DEF Pair, Agree
<1>2. ASSUME NEW x
      PROVE  DiscardVote(x, h) = IF old(x.Votes) = {} THEN x ELSE after(x, oldest(x.Votes))
  BY Zenon DEF DiscardVote
<1> HIDE DEF old, oldest
<1>3. ASSUME NEW x, Shaped(x), NEW vote PROVE Fields(x, after(x, vote), vote)
  BY Zenon, <1>3 DEF Shaped
<1> HIDE DEF after, Fields
<1>4. PICK vote : vote = oldest(s.Votes)
  BY Zenon
<1>5. /\ DiscardVote(s, h) = IF old(s.Votes) = {} THEN s ELSE after(s, vote)
      /\ DiscardVote(t, h) = IF old(s.Votes) = {} THEN t ELSE after(t, vote)
  BY Zenon, <1>1, <1>2, <1>4
<1>6. Fields(t, after(t, vote), vote) /\ Fields(s, after(s, vote), vote)
  BY Zenon, <1>3 DEF Pair
<1>7. Pair(after(t, vote), after(s, vote))
  BY Zenon, <1>6 DEF Pair, Agree, Fields
<1>8. QED
  BY Zenon, <1>5, <1>7

LEMMA CastAgree ==
  ASSUME NEW t, NEW s, Pair(t, s), NEW h, NEW m
  PROVE  Pair(cast(t, h, m), cast(s, h, m))
<1> DEFINE valid == validVote(s, h.coinbase, Authorizes(h))
           old == s.Tally[h.coinbase]
           new == IF old.Votes > 0
                  THEN [Authorize |-> old.Authorize, Votes |-> old.Votes + 1]
                  ELSE [Authorize |-> Authorizes(h), Votes |-> 1]
           ballot == [Signer |-> h.signer, Block |-> m,
                      Address |-> h.coinbase, Authorize |-> Authorizes(h)]
           after(x) == [x EXCEPT !.Tally[h.coinbase] = new, !.Votes = @ \cup {ballot}]
<1>1. /\ cast(s, h, m) = IF valid THEN after(s) ELSE s
      /\ cast(t, h, m) = IF valid THEN after(t) ELSE t
  BY Zenon DEF cast, validVote, Pair, Agree
<1> HIDE DEF valid, new, ballot
<1> DEFINE Fields(x, u) ==
             /\ Shaped(u) /\ u.Number = x.Number /\ u.Signers = x.Signers
             /\ u.Recents = x.Recents /\ u.Votes = x.Votes \cup {ballot}
             /\ u.Tally = [x.Tally EXCEPT ![h.coinbase] = new]
<1>2. ASSUME NEW x, Shaped(x) PROVE Fields(x, after(x))
  BY Zenon, <1>2 DEF Shaped
<1> HIDE DEF after, Fields
<1>3. Fields(t, after(t)) /\ Fields(s, after(s))
  BY Zenon, <1>2 DEF Pair
<1>4. Pair(after(t), after(s))
  BY Zenon, <1>3 DEF Pair, Agree, Fields
<1>5. QED
  BY Zenon, <1>1, <1>4

LEMMA VotedAgree ==
  ASSUME NEW t, NEW s, Pair(t, s), NEW h
  PROVE  Pair(Voted(t, h), Voted(s, h))
<1>1. t.Number = s.Number
  BY Zenon DEF Pair, Agree
<1>2. Pair(DiscardVote(Seen(t, h), h), DiscardVote(Seen(s, h), h))
  BY Zenon, SeenAgree, DiscardAgree
<1>3. QED
  BY Zenon, <1>1, <1>2, CastAgree DEF Voted

LEMMA DeauthorizeAgree ==
  ASSUME NEW t, NEW s, Pair(t, s), NEW a, NEW m
  PROVE  Pair(Deauthorize(t, a, m), Deauthorize(s, a, m))
<1> DEFINE on(V, b) == {v \in V : v.Signer = a /\ v.Address = b}
           tally(x) == [b \in Address |-> uncast(x.Tally[b], on(x.Votes, b))]
           after(x) == [x EXCEPT
             !.Signers = @ \ {a},
             !.Votes   = {v \in @ : v.Signer # a},
             !.Tally   = [b \in Address |->
                            uncast(@[b], {v \in x.Votes : v.Signer = a /\ v.Address = b})]]
           Fields(x, u) ==
             /\ Shaped(u) /\ u.Number = x.Number /\ u.Signers = x.Signers \ {a}
             /\ u.Recents = x.Recents /\ u.Votes = {v \in x.Votes : v.Signer # a}
             /\ u.Tally = tally(x)
<1>1. ASSUME NEW x PROVE Deauthorize(x, a, m) = ForgetOldest(after(x), m)
  BY Zenon DEF Deauthorize
<1>2. ASSUME NEW x, Shaped(x) PROVE Fields(x, after(x))
  BY Zenon, <1>2 DEF Shaped
<1>3. tally(t) = tally(s)
  BY Zenon DEF Pair, Agree
<1> HIDE DEF tally, after, Fields
<1>4. Fields(t, after(t)) /\ Fields(s, after(s))
  BY Zenon, <1>2 DEF Pair
<1>5. Pair(after(t), after(s))
  BY Zenon, <1>3, <1>4 DEF Pair, Agree, Fields
<1>6. QED
  BY Zenon, <1>1, <1>5, ForgetAgree

LEMMA SettleAgree ==
  ASSUME NEW t, NEW s, Pair(t, s), NEW a, NEW m
  PROVE  Pair(Settle(t, a, m), Settle(s, a, m))
<1> DEFINE added(x) == [x EXCEPT !.Signers = @ \cup {a}]
           changed(x) == IF x.Tally[a].Authorize THEN added(x) ELSE Deauthorize(x, a, m)
           after(x) == [x EXCEPT !.Votes = {v \in @ : v.Address # a}, !.Tally[a] = NoTally]
           FieldsA(x, u) ==
             /\ Shaped(u) /\ u.Number = x.Number /\ u.Signers = x.Signers \cup {a}
             /\ u.Recents = x.Recents /\ u.Votes = x.Votes /\ u.Tally = x.Tally
           Fields(x, u) ==
             /\ Shaped(u) /\ u.Number = x.Number /\ u.Signers = x.Signers
             /\ u.Recents = x.Recents /\ u.Votes = {v \in x.Votes : v.Address # a}
             /\ u.Tally = [x.Tally EXCEPT ![a] = NoTally]
<1>1. ASSUME NEW x PROVE Settle(x, a, m) = IF ~Passed(x, a) THEN x ELSE after(changed(x))
  BY Zenon DEF Settle
<1>2. ASSUME NEW x, Shaped(x) PROVE FieldsA(x, added(x)) /\ Fields(x, after(x))
  BY Zenon, <1>2 DEF Shaped
<1>3. Passed(t, a) = Passed(s, a) /\ t.Tally = s.Tally
  BY Zenon DEF Passed, Half, Pair, Agree
<1> HIDE DEF added, after, FieldsA, Fields
<1>4. FieldsA(t, added(t)) /\ FieldsA(s, added(s))
  BY Zenon, <1>2 DEF Pair
<1>5. Pair(added(t), added(s))
  BY Zenon, <1>4 DEF Pair, Agree, FieldsA
<1>6. Pair(changed(t), changed(s))
  BY Zenon, <1>3, <1>5, DeauthorizeAgree
<1> HIDE DEF changed
<1>7. Fields(changed(t), after(changed(t))) /\ Fields(changed(s), after(changed(s)))
  BY Zenon, <1>2, <1>6 DEF Pair
<1>8. Pair(after(changed(t)), after(changed(s)))
  BY Zenon, <1>6, <1>7 DEF Pair, Agree, Fields
<1>9. CASE Passed(s, a)
  <2>1. Settle(s, a, m) = after(changed(s)) /\ Settle(t, a, m) = after(changed(t))
    BY Zenon, <1>1, <1>3, <1>9
  <2>2. QED
    BY Zenon, <1>8, <2>1
<1>10. CASE ~Passed(s, a)
  <2>1. Settle(s, a, m) = s /\ Settle(t, a, m) = t
    BY Zenon, <1>1, <1>3, <1>10
  <2>2. QED
    BY Zenon, <2>1
<1>11. QED
  BY Zenon, <1>9, <1>10

LEMMA ApplyAgree ==
  ASSUME NEW t, NEW s, Pair(t, s), NEW h
  PROVE  Pair(apply(t, h), apply(s, h)) /\ apply(s, h).Number = s.Number + 1
<1> DEFINE after(x) == [x EXCEPT !.Number = s.Number + 1]
           settled(x) == Settle(Voted(x, h), h.coinbase, s.Number + 1)
           Fields(x, u) ==
             /\ Shaped(u) /\ u.Number = s.Number + 1 /\ u.Signers = x.Signers
             /\ u.Recents = x.Recents /\ u.Votes = x.Votes /\ u.Tally = x.Tally
<1>1. t.Number = s.Number
  BY Zenon DEF Pair, Agree
<1>2. apply(t, h) = after(settled(t)) /\ apply(s, h) = after(settled(s))
  BY Zenon, <1>1 DEF apply
<1>3. ASSUME NEW x, Shaped(x) PROVE Fields(x, after(x))
  BY Zenon, <1>3 DEF Shaped
<1>4. Pair(settled(t), settled(s))
  BY Zenon, VotedAgree, SettleAgree
<1> HIDE DEF after, settled, Fields
<1>5. Fields(settled(t), apply(t, h)) /\ Fields(settled(s), apply(s, h))
  BY Zenon, <1>2, <1>3, <1>4 DEF Pair
<1>6. QED
  BY Zenon, <1>4, <1>5 DEF Pair, Agree, Fields

-----------------------------------------------------------------------------
(* Nobody is voted on as the zero address, the coinbase of a block without a *)
(* vote.                                                                     *)

HeaderOK(h) == h.coinbase \in Address /\ (h.coinbase = Zero => ~Authorizes(h))

Blank == [a \in Address |-> NoTally]

Fit(s) ==
  /\ Shaped(s)
  /\ s.Signers \in SUBSET Address /\ Zero \notin s.Signers
  /\ s.Tally = [a \in Address |-> s.Tally[a]] /\ s.Tally[Zero] = NoTally
  /\ \A v \in s.Votes : v.Address # Zero

LEMMA HalfType ==
  ASSUME NEW s, Fit(s)
  PROVE  Half(s) \in Nat
<1>1. Cardinality(s.Signers) \in Nat
  BY Zenon, CliqueAssumption, FS_Subset, FS_CardinalityType DEF Fit
<1>2. QED
  BY <1>1 DEF Half

LEMMA UncastNone == uncast(NoTally, {}) = NoTally
<1>1. {v \in {} : v.Authorize = NoTally.Authorize} = {} /\ NoTally.Votes = 0
  BY Zenon DEF NoTally
<1>2. Cardinality({}) = 0 /\ ~(0 > 0)
  BY FS_EmptySet
<1>3. QED
  BY Zenon, <1>1, <1>2 DEF uncast

LEMMA NewFields ==
  ASSUME NEW n, NEW S
  PROVE  /\ Shaped(newSnapshot(n, S)) /\ newSnapshot(n, S).Number = n
         /\ newSnapshot(n, S).Signers = S /\ newSnapshot(n, S).Recents = {}
         /\ newSnapshot(n, S).Votes = {} /\ newSnapshot(n, S).Tally = Blank
BY Zenon DEF newSnapshot, Blank, Shaped

LEMMA BlankFacts == Blank[Zero] = NoTally /\ Blank = [a \in Address |-> Blank[a]]
BY Zenon, CliqueAssumption DEF Blank

LEMMA NewFit ==
  ASSUME NEW n, NEW S \in SUBSET Address, Zero \notin S
  PROVE  Fit(newSnapshot(n, S))
<1> DEFINE s == newSnapshot(n, S)
<1>1. Shaped(s) /\ s.Signers = S /\ s.Votes = {} /\ s.Tally = Blank
  BY Zenon DEF newSnapshot, Blank, Shaped
<1> HIDE DEF s
<1>2. Fit(s)
  BY Zenon, <1>1, BlankFacts DEF Fit
<1>3. QED
  BY Zenon, <1>2 DEF s

LEMMA SeenFit ==
  ASSUME NEW s, Fit(s), NEW h
  PROVE  /\ Fit(Seen(s, h)) /\ Seen(s, h).Signers = s.Signers
         /\ (s.Number + 1) % Epoch = 0 => Seen(s, h).Votes = {} /\ Seen(s, h).Tally = Blank
<1> DEFINE m == s.Number + 1
           x == ResetVotes(s, m)
           y == ForgetOldest(x, m)
           z == [y EXCEPT !.Recents = @ \cup {[block |-> m, signer |-> h.signer]}]
<1>1. Seen(s, h) = z
  BY Zenon DEF Seen, Cleared
<1>2. Fit(x) /\ x.Signers = s.Signers /\ (m % Epoch = 0 => x.Votes = {} /\ x.Tally = Blank)
  <2>1. CASE m % Epoch = 0
    <3>1. x = [s EXCEPT !.Votes = {}, !.Tally = Blank]
      BY Zenon, <2>1 DEF ResetVotes, Blank
    <3>2. Shaped(x) /\ x.Signers = s.Signers /\ x.Votes = {} /\ x.Tally = Blank
      BY Zenon, <3>1 DEF Fit, Shaped
    <3> HIDE DEF x
    <3>3. QED
      BY Zenon, <3>2, BlankFacts DEF Fit
  <2>2. CASE m % Epoch # 0
    BY Zenon, <2>2 DEF ResetVotes
  <2>3. QED
    BY Zenon, <2>1, <2>2
<1> HIDE DEF x
<1>3. Shaped(y) /\ y.Signers = x.Signers /\ y.Votes = x.Votes /\ y.Tally = x.Tally
  BY Zenon, <1>2 DEF ForgetOldest, Fit, Shaped
<1> HIDE DEF y
<1>4. Shaped(z) /\ z.Signers = y.Signers /\ z.Votes = y.Votes /\ z.Tally = y.Tally
  BY Zenon, <1>3 DEF Shaped
<1> HIDE DEF z
<1>5. Fit(z)
  BY Zenon, <1>2, <1>3, <1>4 DEF Fit
<1>6. QED
  BY Zenon, <1>1, <1>2, <1>3, <1>4, <1>5

LEMMA DiscardFit ==
  ASSUME NEW s, Fit(s), NEW h
  PROVE  /\ Fit(DiscardVote(s, h)) /\ DiscardVote(s, h).Signers = s.Signers
         /\ h.coinbase = Zero => DiscardVote(s, h) = s
<1> DEFINE old == {v \in s.Votes : v.Signer = h.signer /\ v.Address = h.coinbase}
           vote == CHOOSE v \in old : \A w \in old : v.Block <= w.Block
           tally == uncast(s.Tally[h.coinbase], {vote})
           after == [s EXCEPT !.Votes = @ \ {vote}, !.Tally[h.coinbase] = uncast(@, {vote})]
<1>1. DiscardVote(s, h) = IF old = {} THEN s ELSE after
  BY Zenon DEF DiscardVote
<1>2. h.coinbase = Zero => old = {}
  BY Zenon DEF Fit
<1> HIDE DEF old, vote
<1>3. /\ Shaped(after) /\ after.Signers = s.Signers /\ after.Votes = s.Votes \ {vote}
      /\ after.Tally = [s.Tally EXCEPT ![h.coinbase] = tally]
  BY Zenon DEF Fit, Shaped
<1> HIDE DEF tally, after
<1>4. CASE old # {}
  <2>1. h.coinbase # Zero
    BY Zenon, <1>2, <1>4
  <2>2. after.Tally[Zero] = NoTally /\ after.Tally = [a \in Address |-> after.Tally[a]]
    BY Zenon, <1>3, <2>1, CliqueAssumption DEF Fit
  <2>3. Fit(after)
    BY Zenon, <1>3, <2>2 DEF Fit
  <2>4. QED
    BY Zenon, <1>1, <1>3, <1>4, <2>1, <2>3
<1>5. CASE old = {}
  BY Zenon, <1>1, <1>5
<1>6. QED
  BY Zenon, <1>4, <1>5

LEMMA CastFit ==
  ASSUME NEW s, Fit(s), NEW h, HeaderOK(h), NEW m
  PROVE  /\ Fit(cast(s, h, m)) /\ cast(s, h, m).Signers = s.Signers
         /\ h.coinbase = Zero => cast(s, h, m) = s
<1> DEFINE valid == validVote(s, h.coinbase, Authorizes(h))
           old == s.Tally[h.coinbase]
           new == IF old.Votes > 0
                  THEN [Authorize |-> old.Authorize, Votes |-> old.Votes + 1]
                  ELSE [Authorize |-> Authorizes(h), Votes |-> 1]
           ballot == [Signer |-> h.signer, Block |-> m,
                      Address |-> h.coinbase, Authorize |-> Authorizes(h)]
           after == [s EXCEPT !.Tally[h.coinbase] = new, !.Votes = @ \cup {ballot}]
<1>1. cast(s, h, m) = IF valid THEN after ELSE s
  BY Zenon DEF cast
<1>2. h.coinbase = Zero => ~valid
  <2>1. SUFFICES ASSUME h.coinbase = Zero PROVE ~valid
    BY Zenon
  <2>2. h.coinbase \notin s.Signers
    BY Zenon, <2>1 DEF Fit
  <2>3. (h.coinbase \in s.Signers) = FALSE
    BY <2>2
  <2>4. Authorizes(h) = FALSE
    BY Zenon, <2>1 DEF HeaderOK, Authorizes
  <2>5. QED
    BY Zenon, <2>3, <2>4 DEF validVote
<1>3. ballot.Address = h.coinbase
  BY Zenon
<1> HIDE DEF valid, new, ballot
<1>4. /\ Shaped(after) /\ after.Signers = s.Signers /\ after.Votes = s.Votes \cup {ballot}
      /\ after.Tally = [s.Tally EXCEPT ![h.coinbase] = new]
  BY Zenon DEF Fit, Shaped
<1> HIDE DEF after
<1>5. CASE valid
  <2>1. h.coinbase # Zero
    BY Zenon, <1>2, <1>5
  <2>2. after.Tally[Zero] = NoTally /\ after.Tally = [a \in Address |-> after.Tally[a]]
    BY Zenon, <1>4, <2>1, CliqueAssumption DEF Fit
  <2>3. \A v \in after.Votes : v.Address # Zero
    BY Zenon, <1>3, <1>4, <2>1 DEF Fit
  <2>4. Fit(after)
    BY Zenon, <1>4, <2>2, <2>3 DEF Fit
  <2>5. QED
    BY Zenon, <1>1, <1>4, <1>5, <2>1, <2>4
<1>6. CASE ~valid
  BY Zenon, <1>1, <1>6
<1>7. QED
  BY Zenon, <1>5, <1>6

LEMMA DeauthorizeFit ==
  ASSUME NEW s, Fit(s), NEW a, NEW m
  PROVE  Fit(Deauthorize(s, a, m))
<1> DEFINE on(b) == {v \in s.Votes : v.Signer = a /\ v.Address = b}
           tally == [b \in Address |-> uncast(s.Tally[b], on(b))]
           x == [s EXCEPT
             !.Signers = @ \ {a},
             !.Votes   = {v \in @ : v.Signer # a},
             !.Tally   = [b \in Address |->
                            uncast(@[b], {v \in s.Votes : v.Signer = a /\ v.Address = b})]]
           y == ForgetOldest(x, m)
<1>1. Deauthorize(s, a, m) = y
  BY Zenon DEF Deauthorize
<1>2. /\ Shaped(x) /\ x.Signers = s.Signers \ {a} /\ x.Votes = {v \in s.Votes : v.Signer # a}
      /\ x.Tally = tally
  BY Zenon DEF Fit, Shaped
<1> HIDE DEF x
<1>3. Shaped(y) /\ y.Signers = x.Signers /\ y.Votes = x.Votes /\ y.Tally = x.Tally
  BY Zenon, <1>2 DEF ForgetOldest, Shaped
<1> HIDE DEF y
<1>4. on(Zero) = {}
  BY Zenon DEF Fit
<1>5. tally[Zero] = NoTally /\ tally = [b \in Address |-> tally[b]]
  BY Zenon, <1>4, UncastNone, CliqueAssumption DEF Fit
<1> HIDE DEF tally
<1>6. QED
  BY Zenon, <1>1, <1>2, <1>3, <1>5 DEF Fit

LEMMA SettleFit ==
  ASSUME NEW s, Fit(s), NEW a \in Address, NEW m
  PROVE  /\ Fit(Settle(s, a, m))
         /\ a = Zero => Settle(s, a, m) = s
<1> DEFINE added == [s EXCEPT !.Signers = @ \cup {a}]
           changed == IF s.Tally[a].Authorize THEN added ELSE Deauthorize(s, a, m)
           after == [changed EXCEPT !.Votes = {v \in @ : v.Address # a}, !.Tally[a] = NoTally]
<1>1. Settle(s, a, m) = IF ~Passed(s, a) THEN s ELSE after
  BY Zenon DEF Settle
<1>2. a = Zero => ~Passed(s, a)
  <2>1. SUFFICES ASSUME a = Zero PROVE ~Passed(s, a)
    BY Zenon
  <2>2. s.Tally[a].Votes = 0
    <3>1. s.Tally[a] = NoTally
      BY Zenon, <2>1 DEF Fit
    <3>2. QED
      BY <3>1 DEF NoTally
  <2>3. Half(s) \in Nat
    BY Zenon, HalfType
  <2>4. ~(0 > Half(s))
    BY <2>3
  <2>5. QED
    BY Zenon, <2>2, <2>4 DEF Passed
<1>3. CASE Passed(s, a)
  <2>1. a # Zero
    BY Zenon, <1>2, <1>3
  <2>2. /\ Shaped(added) /\ added.Signers = s.Signers \cup {a} /\ added.Votes = s.Votes
        /\ added.Tally = s.Tally
    BY Zenon DEF Fit, Shaped
  <2> HIDE DEF added
  <2>3. Fit(added)
    BY Zenon, <2>1, <2>2 DEF Fit
  <2>4. Fit(changed)
    BY Zenon, <2>3, DeauthorizeFit
  <2> HIDE DEF changed
  <2>5. /\ Shaped(after) /\ after.Signers = changed.Signers
        /\ after.Votes = {v \in changed.Votes : v.Address # a}
        /\ after.Tally = [changed.Tally EXCEPT ![a] = NoTally]
    BY Zenon, <2>4 DEF Fit, Shaped
  <2> HIDE DEF after
  <2>6. after.Tally[Zero] = NoTally /\ after.Tally = [b \in Address |-> after.Tally[b]]
    BY Zenon, <2>1, <2>4, <2>5, CliqueAssumption DEF Fit
  <2>7. Fit(after)
    BY Zenon, <2>4, <2>5, <2>6 DEF Fit
  <2>8. QED
    BY Zenon, <1>1, <1>3, <2>1, <2>7
<1>4. CASE ~Passed(s, a)
  BY Zenon, <1>1, <1>4
<1>5. QED
  BY Zenon, <1>3, <1>4

\* A checkpoint block casts no vote and drops the pending ones.
LEMMA ApplyFit ==
  ASSUME NEW s, Fit(s), NEW h, HeaderOK(h)
  PROVE  /\ Fit(apply(s, h))
         /\ (s.Number + 1) % Epoch = 0 /\ h.coinbase = Zero =>
              /\ apply(s, h).Signers = s.Signers
              /\ apply(s, h).Votes = {} /\ apply(s, h).Tally = Blank
<1> DEFINE m == s.Number + 1
           x == Seen(s, h)
           y == DiscardVote(x, h)
           z == cast(y, h, m)
           w == Settle(z, h.coinbase, m)
           u == [w EXCEPT !.Number = m]
<1>1. apply(s, h) = u
  BY Zenon DEF apply, Voted
<1>2. Fit(x) /\ x.Signers = s.Signers /\ (m % Epoch = 0 => x.Votes = {} /\ x.Tally = Blank)
  BY Zenon, SeenFit
<1> HIDE DEF x
<1>3. Fit(y) /\ (h.coinbase = Zero => y = x)
  BY Zenon, <1>2, DiscardFit
<1> HIDE DEF y
<1>4. Fit(z) /\ (h.coinbase = Zero => z = y)
  BY Zenon, <1>3, CastFit
<1> HIDE DEF z
<1>5. Fit(w) /\ (h.coinbase = Zero => w = z)
  BY Zenon, <1>4, SettleFit DEF HeaderOK
<1> HIDE DEF w
<1>6. Shaped(u) /\ u.Signers = w.Signers /\ u.Votes = w.Votes /\ u.Tally = w.Tally
  BY Zenon, <1>5 DEF Fit, Shaped
<1> HIDE DEF u
<1>7. Fit(u)
  BY Zenon, <1>5, <1>6 DEF Fit
<1>8. QED
  BY Zenon, <1>1, <1>2, <1>3, <1>4, <1>5, <1>6, <1>7

-----------------------------------------------------------------------------
(* Replaying headers. *)

LEMMA AdvanceMember ==
  ASSUME NEW S, NEW h, NEW u \in Advance(S, h)
  PROVE  \E s \in S : ~Refused(s, h) /\ u = apply(s, h)
BY Zenon DEF Advance

\* Snapshots that agree still do after the same headers, and those the longer
\* memory takes, the shorter one takes.
LEMMA FoldAgree ==
  ASSUME NEW A, NEW B, NEW H, NEW q \in Seq(H), A # {}, \A t \in A, s \in B : Pair(t, s)
  PROVE  /\ \A t \in ApplyAll(A, q), s \in ApplyAll(B, q) : Pair(t, s)
         /\ ApplyAll(B, q) # {} => ApplyAll(A, q) # {}
<1> DEFINE a(n) == ApplyAll(A, Prefix(q, n))
           b(n) == ApplyAll(B, Prefix(q, n))
           T == {n \in Nat : (\A t \in a(n), s \in b(n) : Pair(t, s)) /\ (b(n) # {} => a(n) # {})}
<1>1. 0 \in Nat /\ Len(q) \in Nat
  OBVIOUS
<1>2. 0 \in T
  <2>1. a(0) = A /\ b(0) = B
    BY Zenon, ApplyZero
  <2>2. QED
    BY Zenon, <1>1, <2>1
<1>3. ASSUME NEW n \in Nat, n < Len(q), n \in T PROVE n + 1 \in T
  <2> DEFINE h == q[n + 1]
  <2>1. a(n + 1) = Advance(a(n), h) /\ b(n + 1) = Advance(b(n), h)
    BY Zenon, <1>3, ApplyStep
  <2>2. n + 1 \in Nat
    OBVIOUS
  <2>3. /\ \A t \in a(n), s \in b(n) : Pair(t, s)
        /\ b(n) # {} => a(n) # {}
    BY Zenon, <1>3
  <2> HIDE DEF a, b, h
  <2>4. ASSUME NEW t \in a(n + 1), NEW s \in b(n + 1) PROVE Pair(t, s)
    <3>1. PICK x \in a(n) : t = apply(x, h)
      BY Zenon, <2>1, <2>4 DEF Advance
    <3>2. PICK y \in b(n) : s = apply(y, h)
      BY Zenon, <2>1, <2>4 DEF Advance
    <3>3. QED
      BY Zenon, <2>3, <3>1, <3>2, ApplyAgree
  <2>5. ASSUME b(n + 1) # {} PROVE a(n + 1) # {}
    <3>1. PICK y \in b(n) : ~Refused(y, h)
      BY Zenon, <2>1, <2>5, AdvanceMember
    <3>2. PICK x \in a(n) : Pair(x, y)
      BY Zenon, <2>3, <3>1
    <3>3. ~Refused(x, h)
      BY Zenon, <3>1, <3>2, RefusedAgree
    <3>4. apply(x, h) \in Advance(a(n), h)
      BY Zenon, <3>3 DEF Advance
    <3>5. QED
      BY Zenon, <2>1, <3>4
  <2>6. QED
    BY Zenon, <2>2, <2>4, <2>5
<1>4. Len(q) \in T
  BY Zenon, <1>1, <1>2, <1>3, Induction
<1>5. Prefix(q, Len(q)) = q
  BY Zenon, PrefixAll
<1>6. QED
  BY Zenon, <1>4, <1>5

LEMMA FoldNumber ==
  ASSUME NEW A, NEW k \in Nat, NEW H, NEW q \in Seq(H),
         \A t \in A : Shaped(t) /\ t.Number = k
  PROVE  \A t \in ApplyAll(A, q) : Shaped(t) /\ t.Number = k + Len(q)
<1> DEFINE a(n) == ApplyAll(A, Prefix(q, n))
           T == {n \in Nat : \A t \in a(n) : Shaped(t) /\ t.Number = k + n}
<1>1. 0 \in Nat /\ Len(q) \in Nat /\ k + 0 = k
  OBVIOUS
<1>2. 0 \in T
  <2>1. a(0) = A
    BY Zenon, ApplyZero
  <2>2. QED
    BY Zenon, <1>1, <2>1
<1>3. ASSUME NEW n \in Nat, n < Len(q), n \in T PROVE n + 1 \in T
  <2>1. a(n + 1) = Advance(a(n), q[n + 1])
    BY Zenon, <1>3, ApplyStep
  <2>2. n + 1 \in Nat /\ (k + n) + 1 = k + (n + 1)
    OBVIOUS
  <2>3. \A t \in a(n) : Shaped(t) /\ t.Number = k + n
    BY Zenon, <1>3
  <2> HIDE DEF a
  <2>4. ASSUME NEW t \in a(n + 1) PROVE Shaped(t) /\ t.Number = k + (n + 1)
    <3>1. PICK x \in a(n) : t = apply(x, q[n + 1])
      BY Zenon, <2>1, <2>4 DEF Advance
    <3>2. Pair(x, x)
      BY Zenon, <2>3 DEF Pair, Agree
    <3>3. Pair(t, t) /\ t.Number = x.Number + 1
      BY Zenon, <3>1, <3>2, ApplyAgree
    <3>4. QED
      BY Zenon, <2>2, <2>3, <3>3 DEF Pair
  <2>5. QED
    BY Zenon, <2>2, <2>4
<1>4. Len(q) \in T
  BY Zenon, <1>1, <1>2, <1>3, Induction
<1>5. Prefix(q, Len(q)) = q
  BY Zenon, PrefixAll
<1>6. QED
  BY Zenon, <1>4, <1>5

LEMMA FoldFit ==
  ASSUME NEW A, NEW H, NEW q \in Seq(H), \A t \in A : Fit(t), \A h \in H : HeaderOK(h)
  PROVE  \A t \in ApplyAll(A, q) : Fit(t)
<1> DEFINE a(n) == ApplyAll(A, Prefix(q, n))
           T == {n \in Nat : \A t \in a(n) : Fit(t)}
<1>1. 0 \in Nat /\ Len(q) \in Nat
  OBVIOUS
<1>2. 0 \in T
  <2>1. a(0) = A
    BY Zenon, ApplyZero
  <2>2. QED
    BY Zenon, <1>1, <2>1
<1>3. ASSUME NEW n \in Nat, n < Len(q), n \in T PROVE n + 1 \in T
  <2>1. a(n + 1) = Advance(a(n), q[n + 1])
    BY Zenon, <1>3, ApplyStep
  <2>2. n + 1 \in Nat /\ q[n + 1] \in H
    BY <1>3
  <2>3. \A t \in a(n) : Fit(t)
    BY Zenon, <1>3
  <2> HIDE DEF a
  <2>4. ASSUME NEW t \in a(n + 1) PROVE Fit(t)
    <3>1. PICK x \in a(n) : t = apply(x, q[n + 1])
      BY Zenon, <2>1, <2>4 DEF Advance
    <3>2. QED
      BY Zenon, <2>2, <2>3, <3>1, ApplyFit
  <2>5. QED
    BY Zenon, <2>2, <2>4
<1>4. Len(q) \in T
  BY Zenon, <1>1, <1>2, <1>3, Induction
<1>5. Prefix(q, Len(q)) = q
  BY Zenon, PrefixAll
<1>6. QED
  BY Zenon, <1>4, <1>5

-----------------------------------------------------------------------------
(* The invariant. *)

Headers ==
  {h \in [signer : GenesisSigners, coinbase : Address, nonce : Nonce,
          difficulty : {diffInTurn, diffNoTurn}, signers : SUBSET GenesisSigners] :
     <<h.coinbase, h.nonce>> \in Ballots}

\* Nobody proposes the zero address, and genesis does not list it.
NoZero == Zero \notin GenesisSigners /\ <<Zero, "auth">> \notin Ballots

\* A snapshot filed under a block's hash.
FiledOK(hash, t) ==
  /\ Shaped(t) /\ t.Number = Len(hash)
  /\ \A s \in Replay(hash) : Pair(t, s)

EntriesOK(entries) == \A e \in entries : FiledOK(e.hash, e.snap)

\* A verified checkpoint lists the signers, and leaves no votes behind.
CheckpointsOK ==
  \A k \in 1..Len(chain) : k % Epoch = 0 =>
    \A s \in Replay(Prefix(chain, k)) :
      s.Signers = chain[k].signers /\ s.Votes = {} /\ s.Tally = Blank

\* The abandoned branch left the chain above its base and not far from its
\* end, so that a checkpoint it trusts is one of the chain.
Forked ==
  side # <<>> =>
    \E c \in 0..Len(side) :
      /\ base <= c /\ c <= Len(chain) /\ Len(side) <= c + FullImmutabilityThreshold
      /\ \A i \in 1..c : side[i] = chain[i]

IInv ==
  /\ chain \in Seq(Headers) /\ side \in Seq(Headers)
  /\ base \in Nat /\ base <= Len(chain) /\ (base = 0 \/ base % Epoch = 0)
  /\ Forked
  /\ CheckpointsOK
  /\ EntriesOK(recents) /\ EntriesOK(stored)

LEMMA HeadersOK ==
  ASSUME NoZero, NEW h \in Headers
  PROVE  HeaderOK(h)
BY Zenon DEF Headers, NoZero, HeaderOK, Authorizes

LEMMA ReplayFacts ==
  ASSUME NoZero, NEW p \in Seq(Headers), NEW s \in Replay(p)
  PROVE  Fit(s) /\ Shaped(s) /\ s.Number = Len(p)
<1> DEFINE g == newSnapshot(0, GenesisSigners)
<1>1. Shaped(g) /\ g.Number = 0 /\ Fit(g)
  BY Zenon, NewFields, NewFit, EngineAssumption DEF NoZero
<1>2. Replay(p) = ApplyAll({g}, p)
  BY Zenon DEF Replay
<1> HIDE DEF g
<1>3. 0 \in Nat /\ 0 + Len(p) = Len(p)
  OBVIOUS
<1>4. \A t \in {g} : Shaped(t) /\ t.Number = 0
  BY Zenon, <1>1
<1>5. \A t \in ApplyAll({g}, p) : Shaped(t) /\ t.Number = 0 + Len(p)
  BY ZenonT(60), <1>3, <1>4, FoldNumber
<1>6. \A t \in {g} : Fit(t)
  BY Zenon, <1>1
<1>7. \A t \in ApplyAll({g}, p) : Fit(t)
  BY Zenon, <1>6, FoldFit, HeadersOK
<1>8. QED
  BY Zenon, <1>2, <1>3, <1>5, <1>7

LEMMA ReplaySplit ==
  ASSUME NEW p \in Seq(Headers), NEW k \in 0..Len(p)
  PROVE  Replay(p) = ApplyAll(Replay(Prefix(p, k)), Gathered(p, k))
BY Zenon, ApplySplit DEF Replay

\* A checkpoint of the chain, taken at its word.
LEMMA CheckpointFiled ==
  ASSUME IInv, NoZero, NEW k \in 0..Len(chain), k = 0 \/ k % Epoch = 0
  PROVE  FiledOK(Prefix(chain, k), Checkpoint(k))
<1>1. chain \in Seq(Headers)
  BY Zenon DEF IInv
<1>2. Prefix(chain, k) \in Seq(Headers) /\ Len(Prefix(chain, k)) = k
  BY Zenon, <1>1, PrefixFacts
<1> DEFINE t == Checkpoint(k)
<1>3. /\ Shaped(t) /\ t.Number = k /\ t.Recents = {} /\ t.Votes = {} /\ t.Tally = Blank
      /\ t.Signers = IF k = 0 THEN GenesisSigners ELSE chain[k].signers
  <2>1. PICK S : S = IF k = 0 THEN GenesisSigners ELSE chain[k].signers
    BY Zenon
  <2>2. t = newSnapshot(k, S)
    BY Zenon, <2>1 DEF Checkpoint
  <2> HIDE DEF t
  <2>3. Shaped(t) /\ t.Number = k /\ t.Recents = {} /\ t.Votes = {} /\ t.Tally = Blank /\ t.Signers = S
    BY Zenon, <2>2 DEF newSnapshot, Blank, Shaped
  <2>4. QED
    BY Zenon, <2>1, <2>3
<1>4. CASE k = 0
  <2>1. Replay(Prefix(chain, 0)) = {newSnapshot(0, GenesisSigners)}
    BY Zenon, <1>1, ApplyZero DEF Replay
  <2>2. t = newSnapshot(0, GenesisSigners)
    BY Zenon, <1>4 DEF Checkpoint
  <2> HIDE DEF t
  <2>3. \A s \in Replay(Prefix(chain, k)) : Pair(t, s)
    BY Zenon, <1>3, <1>4, <2>1, <2>2 DEF Pair, Agree
  <2>4. QED
    BY Zenon, <1>2, <1>3, <2>3 DEF FiledOK, t
<1>5. CASE k # 0
  <2>1. k \in 1..Len(chain) /\ k % Epoch = 0
    BY <1>5
  <2> HIDE DEF t
  <2>2. ASSUME NEW s \in Replay(Prefix(chain, k)) PROVE Pair(t, s)
    <3>1. s.Signers = chain[k].signers /\ s.Votes = {} /\ s.Tally = Blank
      BY Zenon, <2>1, <2>2 DEF IInv, CheckpointsOK
    <3>2. Shaped(s) /\ s.Number = k
      BY Zenon, <1>2, <2>2, ReplayFacts
    <3>3. QED
      BY Zenon, <1>3, <1>5, <3>1, <3>2 DEF Pair, Agree
  <2>3. QED
    BY Zenon, <1>2, <1>3, <2>2 DEF FiledOK, t
<1>6. QED
  BY Zenon, <1>4, <1>5

-----------------------------------------------------------------------------
(* Clique.snapshot. *)

\* A block the engine may be asked about: the checkpoints it trusts below it
\* are ancestors of it.
Known(p) ==
  /\ p \in Seq(Headers)
  /\ \A k \in 0..Len(p) : Trusted(p, k) => Prefix(p, k) = Prefix(chain, k)

LEMMA StartFacts ==
  ASSUME IInv, NEW p \in Seq(Headers)
  PROVE  /\ Start(p) \in 0..Len(p) /\ Found(p, Start(p))
         /\ \A j \in 0..Len(p) : Found(p, j) => j <= Start(p)
<1>1. Len(p) \in Nat /\ Len(chain) \in Nat
  BY DEF IInv
<1>2. Found(p, 0)
  <2>1. 0 <= Len(chain)
    BY <1>1
  <2>2. QED
    BY Zenon, <2>1 DEF Found, Trusted
<1> DEFINE T == {n \in Nat : n <= Len(p) /\ Found(p, Len(p) - n)}
<1>3. Len(p) \in T
  <2>1. Len(p) <= Len(p) /\ Len(p) - Len(p) = 0
    BY <1>1
  <2>2. QED
    BY Zenon, <1>1, <1>2, <2>1
<1>4. PICK n \in T : \A m \in T : n <= m
  BY Zenon, <1>3, Least
<1>5. n \in Nat /\ n <= Len(p) /\ Found(p, Len(p) - n)
  BY Zenon, <1>4
<1>6. ASSUME NEW j \in 0..Len(p), Found(p, j) PROVE j <= Len(p) - n
  <2>1. Len(p) - j \in Nat /\ Len(p) - j <= Len(p) /\ Len(p) - (Len(p) - j) = j
    BY <1>1
  <2>2. n <= Len(p) - j
    BY Zenon, <1>4, <1>6, <2>1
  <2>3. QED
    BY <1>1, <1>5, <2>2
<1>7. Len(p) - n \in 0..Len(p)
  BY <1>1, <1>5
<1>8. QED
  BY Zenon, <1>5, <1>6, <1>7 DEF Start

LEMMA FiledFacts ==
  ASSUME NEW entries, EntriesOK(entries), NEW hash, NEW t \in Filed(entries, hash)
  PROVE  FiledOK(hash, t)
BY Zenon DEF Filed, EntriesOK

\* Where the walk back ends there is a good snapshot.
LEMMA StartFiled ==
  ASSUME IInv, NoZero, NEW p, Known(p), NEW k, k = Start(p)
  PROVE  /\ k \in 0..Len(p)
         /\ StartSnapshot(p, k) # {}
         /\ \A t \in StartSnapshot(p, k) : FiledOK(Prefix(p, k), t)
         /\ FromTrust(p, k) =>
              Prefix(chain, k) = Prefix(p, k) /\ FiledOK(Prefix(chain, k), Checkpoint(k))
<1>1. k \in 0..Len(p) /\ Found(p, k)
  BY Zenon, StartFacts DEF Known
<1>2. ASSUME FromTrust(p, k)
      PROVE  Prefix(chain, k) = Prefix(p, k) /\ FiledOK(Prefix(chain, k), Checkpoint(k))
  <2>1. Trusted(p, k)
    BY Zenon, <1>1, <1>2 DEF FromTrust, Found
  <2>2. k \in 0..Len(chain) /\ (k = 0 \/ k % Epoch = 0)
    <3>1. k <= Len(chain) /\ (k = 0 \/ k % Epoch = 0)
      BY Zenon, <2>1 DEF Trusted
    <3>2. Len(chain) \in Nat
      BY DEF IInv
    <3>3. QED
      BY <1>1, <3>1, <3>2
  <2>3. QED
    BY Zenon, <1>1, <2>1, <2>2, CheckpointFiled DEF Known
<1>3. OnDisk(p, k) \in {{}, Filed(stored, Prefix(p, k))}
  BY Zenon DEF OnDisk
<1>4. StartSnapshot(p, k) # {}
  BY Zenon DEF StartSnapshot
<1>5. ASSUME NEW t \in StartSnapshot(p, k) PROVE FiledOK(Prefix(p, k), t)
  <2>1. CASE Filed(recents, Prefix(p, k)) # {}
    BY Zenon, <1>5, <2>1, FiledFacts DEF StartSnapshot, IInv
  <2>2. CASE Filed(recents, Prefix(p, k)) = {} /\ OnDisk(p, k) # {}
    <3>1. t \in Filed(stored, Prefix(p, k))
      BY Zenon, <1>3, <1>5, <2>2 DEF StartSnapshot
    <3>2. QED
      BY Zenon, <3>1, FiledFacts DEF IInv
  <2>3. CASE Filed(recents, Prefix(p, k)) = {} /\ OnDisk(p, k) = {}
    <3>1. t = Checkpoint(k) /\ FromTrust(p, k)
      BY Zenon, <1>5, <2>3 DEF StartSnapshot, FromTrust
    <3>2. QED
      BY Zenon, <1>2, <3>1
  <2>4. QED
    BY Zenon, <2>1, <2>2, <2>3
<1>6. QED
  BY Zenon, <1>1, <1>2, <1>4, <1>5

\* What the engine answers.
LEMMA SnapshotFacts ==
  ASSUME IInv, NoZero, NEW p, Known(p), NEW k, k = Start(p)
  PROVE  /\ \A t \in SnapshotFrom(p, k) : FiledOK(p, t)
         /\ ~Missing(p, k) /\ Replay(p) # {} => SnapshotFrom(p, k) # {}
<1> DEFINE A == StartSnapshot(p, k)
           B == Replay(Prefix(p, k))
           q == Gathered(p, k)
<1>1. /\ k \in 0..Len(p) /\ A # {}
      /\ \A t \in A : FiledOK(Prefix(p, k), t)
  BY Zenon, StartFiled
<1>2. p \in Seq(Headers) /\ k \in Nat
  BY <1>1 DEF Known
<1>3. q \in Seq(Headers) /\ Len(q) = Len(p) - k /\ Len(Prefix(p, k)) = k
  BY Zenon, <1>1, <1>2, GatheredFacts, PrefixFacts
<1>4. Replay(p) = ApplyAll(B, q)
  BY Zenon, <1>1, <1>2, ReplaySplit
<1>5. SnapshotFrom(p, k) = IF Missing(p, k) THEN {} ELSE ApplyAll(A, q)
  BY Zenon DEF SnapshotFrom
<1> HIDE DEF A, B, q
<1>6. \A t \in A, s \in B : Pair(t, s)
  BY Zenon, <1>1 DEF FiledOK, B
<1>7. /\ \A t \in ApplyAll(A, q), s \in ApplyAll(B, q) : Pair(t, s)
      /\ ApplyAll(B, q) # {} => ApplyAll(A, q) # {}
  BY Zenon, <1>1, <1>3, <1>6, FoldAgree
<1>8. \A t \in A : Shaped(t) /\ t.Number = k
  BY Zenon, <1>1, <1>3 DEF FiledOK
<1>9. \A t \in ApplyAll(A, q) : Shaped(t) /\ t.Number = k + Len(q)
  BY ZenonT(60), <1>2, <1>3, <1>8, FoldNumber
<1>10. k + Len(q) = Len(p)
  BY <1>2, <1>3
<1>11. \A t \in ApplyAll(A, q) : FiledOK(p, t)
  BY Zenon, <1>4, <1>7, <1>9, <1>10 DEF FiledOK
<1>12. QED
  BY Zenon, <1>4, <1>5, <1>7, <1>11

LEMMA PutOK ==
  ASSUME NEW entries, EntriesOK(entries), NEW hash, NEW t, FiledOK(hash, t)
  PROVE  EntriesOK(Put(entries, hash, t))
<1> DEFINE new == [hash |-> hash, snap |-> t]
<1>1. new.hash = hash /\ new.snap = t
  BY Zenon
<1>2. Put(entries, hash, t) = {e \in entries : e.hash # hash} \cup {new}
  BY Zenon DEF Put
<1> HIDE DEF new
<1>3. QED
  BY Zenon, <1>1, <1>2 DEF EntriesOK

LEMMA LookupOK ==
  ASSUME IInv, NoZero, NEW p, Known(p), Lookup(p)
  PROVE  EntriesOK(recents') /\ EntriesOK(stored')
<1>1. PICK k : k = Start(p)
  BY Zenon
<1>2. /\ \A t \in SnapshotFrom(p, k) : FiledOK(p, t)
      /\ FromTrust(p, k) =>
           Prefix(chain, k) = Prefix(p, k) /\ FiledOK(Prefix(chain, k), Checkpoint(k))
      /\ k \in 0..Len(p)
  BY Zenon, <1>1, SnapshotFacts, StartFiled
<1>3. EntriesOK(recents) /\ EntriesOK(stored)
  BY Zenon DEF IInv
<1>4. EntriesOK(StoreTrusted(p, k))
  BY Zenon, <1>2, <1>3, PutOK DEF StoreTrusted
<1>5. CASE SnapshotFrom(p, k) = {}
  <2>1. recents' = recents /\ stored' = StoreTrusted(p, k)
    BY Zenon, <1>1, <1>5 DEF Lookup
  <2>2. QED
    BY Zenon, <1>3, <1>4, <2>1
<1>6. CASE SnapshotFrom(p, k) # {}
  <2>1. PICK s \in SnapshotFrom(p, k) :
          /\ recents' \in AddRecent(SnapshotHash(p, k), s)
          /\ stored' \in {Put(StoreTrusted(p, k), p, s), StoreTrusted(p, k)}
    BY Zenon, <1>1, <1>6 DEF Lookup
  <2>2. FiledOK(p, s)
    BY Zenon, <1>2
  <2>3. SnapshotHash(p, k) = p
    <3>1. Prefix(p, Len(p)) = p
      BY Zenon, PrefixAll DEF Known
    <3>2. QED
      BY Zenon, <1>2, <3>1 DEF SnapshotHash
  <2>4. EntriesOK(stored')
    BY Zenon, <1>4, <2>1, <2>2, PutOK
  <2>5. EntriesOK(Put(recents, p, s))
    BY Zenon, <1>3, <2>2, PutOK
  <2>6. recents' \subseteq Put(recents, p, s)
    BY Zenon, <2>1, <2>3 DEF AddRecent
  <2>7. EntriesOK(recents')
    BY Zenon, <2>5, <2>6 DEF EntriesOK
  <2>8. QED
    BY Zenon, <2>4, <2>7
<1>7. QED
  BY Zenon, <1>5, <1>6

-----------------------------------------------------------------------------
(* The blocks that are looked up. *)

LEMMA ChainKnown ==
  ASSUME IInv, NEW n \in 0..Len(chain)
  PROVE  Known(Prefix(chain, n))
<1>1. chain \in Seq(Headers)
  BY Zenon DEF IInv
<1>2. Prefix(chain, n) \in Seq(Headers) /\ Len(Prefix(chain, n)) = n
  BY Zenon, <1>1, PrefixFacts
<1>3. \A k \in 0..n : Prefix(Prefix(chain, n), k) = Prefix(chain, k)
  BY Zenon, <1>1, PrefixPrefix
<1>4. QED
  BY Zenon, <1>2, <1>3 DEF Known

LEMMA HeadKnown ==
  ASSUME IInv
  PROVE  Known(chain) /\ Prefix(chain, Len(chain)) = chain
<1>1. chain \in Seq(Headers)
  BY Zenon DEF IInv
<1>2. QED
  BY Zenon, <1>1, PrefixAll DEF Known

LEMMA AppendFacts ==
  ASSUME NEW H, NEW p \in Seq(H), NEW h \in H
  PROVE  /\ Append(p, h) \in Seq(H) /\ Len(Append(p, h)) = Len(p) + 1
         /\ Append(p, h)[Len(p) + 1] = h
         /\ \A i \in 1..Len(p) : Append(p, h)[i] = p[i]
         /\ \A k \in 0..Len(p) : Prefix(Append(p, h), k) = Prefix(p, k)
<1>1. /\ Append(p, h) \in Seq(H) /\ Len(Append(p, h)) = Len(p) + 1
      /\ Append(p, h)[Len(p) + 1] = h
      /\ \A i \in 1..Len(p) : Append(p, h)[i] = p[i]
  OBVIOUS
<1>2. ASSUME NEW k \in 0..Len(p) PROVE Prefix(Append(p, h), k) = Prefix(p, k)
  <2>1. k \in Nat /\ k <= Len(p) /\ k <= Len(p) + 1 /\ \A i \in 1..k : i \in 1..Len(p)
    OBVIOUS
  <2>2. QED
    BY Zenon, <1>1, <2>1, PrefixSame
<1>3. QED
  BY Zenon, <1>1, <1>2

LEMMA ParentKnown ==
  ASSUME IInv, NEW h \in Headers
  PROVE  Known(Append(chain, h))
<1>1. chain \in Seq(Headers)
  BY Zenon DEF IInv
<1>2. /\ Append(chain, h) \in Seq(Headers)
      /\ \A k \in 0..Len(chain) : Prefix(Append(chain, h), k) = Prefix(chain, k)
  BY Zenon, <1>1, AppendFacts
<1>3. ASSUME NEW k \in 0..Len(Append(chain, h)), Trusted(Append(chain, h), k)
      PROVE  Prefix(Append(chain, h), k) = Prefix(chain, k)
  <2>1. k <= Len(chain)
    BY Zenon, <1>3 DEF Trusted
  <2>2. k \in 0..Len(chain)
    BY <1>1, <2>1
  <2>3. QED
    BY Zenon, <1>2, <2>2
<1>4. QED
  BY Zenon, <1>2, <1>3 DEF Known

LEMMA SideKnown ==
  ASSUME IInv, NEW n \in 0..Len(side)
  PROVE  Known(Prefix(side, n))
<1> DEFINE p == Prefix(side, n)
<1>1. chain \in Seq(Headers) /\ side \in Seq(Headers) /\ base \in Nat
  BY Zenon DEF IInv
<1>2. p \in Seq(Headers) /\ Len(p) = n
  BY Zenon, <1>1, PrefixFacts
<1>3. \A k \in 0..n : Prefix(p, k) = Prefix(side, k)
  BY Zenon, <1>1, PrefixPrefix
<1> HIDE DEF p
<1>4. ASSUME NEW k \in 0..n, Trusted(p, k) PROVE Prefix(side, k) = Prefix(chain, k)
  <2>1. k \in Nat /\ k <= Len(chain) /\ k <= Len(side)
    <3>1. k <= Len(chain)
      BY Zenon, <1>4 DEF Trusted
    <3>2. QED
      BY <1>1, <3>1
  <2>2. CASE k = 0
    <3>1. \A i \in 1..k : side[i] = chain[i]
      BY <2>2
    <3>2. QED
      BY Zenon, <1>1, <2>1, <3>1, PrefixSame
  <2>3. CASE k # 0
    <3>1. side # <<>>
      BY <1>1, <2>1, <2>3
    <3>2. PICK c \in 0..Len(side) :
            /\ base <= c /\ c <= Len(chain) /\ Len(side) <= c + FullImmutabilityThreshold
            /\ \A i \in 1..c : side[i] = chain[i]
      BY Zenon, <3>1 DEF IInv, Forked
    <3>3. k >= base /\ (n - k > FullImmutabilityThreshold \/ k - 1 < base)
      BY Zenon, <1>2, <1>4, <2>3 DEF Trusted
    <3>4. k <= c
      BY <1>1, <2>1, <3>2, <3>3, EngineAssumption
    <3>5. \A i \in 1..k : side[i] = chain[i]
      BY <2>1, <3>2, <3>4
    <3>6. QED
      BY Zenon, <1>1, <2>1, <3>5, PrefixSame
  <2>4. QED
    BY Zenon, <2>2, <2>3
<1>5. QED
  BY Zenon, <1>2, <1>3, <1>4 DEF Known, p

-----------------------------------------------------------------------------
(* The steps. *)

LEMMA InitInv == Init => IInv
<1>1. SUFFICES ASSUME Init PROVE IInv
  BY Zenon
<1>2. chain = <<>> /\ side = <<>> /\ base = 0 /\ recents = {} /\ stored = {}
  BY Zenon, <1>1 DEF Init
<1>3. chain \in Seq(Headers) /\ side \in Seq(Headers) /\ base \in Nat /\ base <= Len(chain)
  BY <1>2
<1>4. CheckpointsOK
  <2>1. 1..Len(chain) = {}
    BY <1>2
  <2>2. QED
    BY Zenon, <2>1 DEF CheckpointsOK
<1>5. EntriesOK(recents) /\ EntriesOK(stored)
  BY Zenon, <1>2 DEF EntriesOK
<1>6. QED
  BY Zenon, <1>2, <1>3, <1>4, <1>5 DEF IInv, Forked

\* Every checkpoint header was compared with the signers when it came in.
LEMMA InsertInv ==
  ASSUME IInv, NoZero, NEW h \in Headers, Insert(h)
  PROVE  IInv'
<1>1. chain \in Seq(Headers) /\ Len(chain) \in Nat
  BY DEF IInv
<1>2. chain' = Append(chain, h) /\ UNCHANGED <<side, base>>
  BY Zenon DEF Insert
<1>3. /\ chain' \in Seq(Headers) /\ Len(chain') = Len(chain) + 1 /\ chain'[Len(chain) + 1] = h
      /\ \A i \in 1..Len(chain) : chain'[i] = chain[i]
      /\ \A k \in 0..Len(chain) : Prefix(chain', k) = Prefix(chain, k)
  <2> DEFINE c == Append(chain, h)
  <2>1. /\ c \in Seq(Headers) /\ Len(c) = Len(chain) + 1 /\ c[Len(chain) + 1] = h
        /\ \A i \in 1..Len(chain) : c[i] = chain[i]
    BY <1>1
  <2>2. \A k \in 0..Len(chain) : Prefix(c, k) = Prefix(chain, k)
    BY Zenon, <1>1, AppendFacts
  <2>3. chain' = c
    BY Zenon, <1>2
  <2> HIDE DEF c
  <2>4. QED
    BY Zenon, <2>1, <2>2, <2>3
<1>4. EntriesOK(recents') /\ EntriesOK(stored')
  BY Zenon, HeadKnown, LookupOK DEF Insert
<1>5. Forked'
  <2>1. SUFFICES ASSUME side # <<>>
                 PROVE  \E c \in 0..Len(side) :
                          /\ base <= c /\ c <= Len(chain')
                          /\ Len(side) <= c + FullImmutabilityThreshold
                          /\ \A i \in 1..c : side[i] = chain'[i]
    BY Zenon, <1>2 DEF Forked
  <2>2. PICK c \in 0..Len(side) :
          /\ base <= c /\ c <= Len(chain) /\ Len(side) <= c + FullImmutabilityThreshold
          /\ \A i \in 1..c : side[i] = chain[i]
    BY Zenon, <2>1 DEF IInv, Forked
  <2>3. c <= Len(chain') /\ \A i \in 1..c : i \in 1..Len(chain)
    BY <1>1, <1>3, <2>2
  <2>4. \A i \in 1..c : side[i] = chain'[i]
    BY Zenon, <1>3, <2>2, <2>3
  <2>5. QED
    BY Zenon, <2>2, <2>3, <2>4
<1>6. ASSUME NEW k \in 1..Len(chain'), k % Epoch = 0, NEW s \in Replay(Prefix(chain', k))
      PROVE  s.Signers = chain'[k].signers /\ s.Votes = {} /\ s.Tally = Blank
  <2>1. CASE k <= Len(chain)
    <3>1. k \in 1..Len(chain) /\ k \in 0..Len(chain)
      BY <1>1, <1>3, <2>1
    <3>2. Prefix(chain', k) = Prefix(chain, k) /\ chain'[k] = chain[k]
      BY Zenon, <1>3, <3>1
    <3>3. QED
      BY Zenon, <1>6, <3>1, <3>2 DEF IInv, CheckpointsOK
  <2>2. CASE k > Len(chain)
    <3>1. k = Len(chain) + 1
      BY <1>1, <1>3, <2>2
    <3>2. Prefix(chain', k) = chain' /\ chain'[k] = h
      BY Zenon, <1>3, <3>1, PrefixAll
    <3>3. Prefix(chain', Len(chain)) = chain
      <4>1. Len(chain) \in 0..Len(chain)
        BY <1>1
      <4>2. QED
        BY Zenon, <1>3, <4>1, HeadKnown
    <3>4. Replay(chain') = Advance(Replay(chain), h)
      <4>1. PICK c : c = chain'
        BY Zenon
      <4>2. c \in Seq(Headers) /\ Len(c) = Len(chain) + 1 /\ c[Len(chain) + 1] = h
        BY Zenon, <1>3, <4>1
      <4>3. \A S : ApplyAll(S, c) = Advance(ApplyAll(S, Prefix(c, Len(chain))), c[Len(chain) + 1])
        BY Zenon, <1>1, <4>2, ApplyLast
      <4>4. Prefix(c, Len(chain)) = chain
        BY Zenon, <3>3, <4>1
      <4>5. QED
        BY Zenon, <4>1, <4>2, <4>3, <4>4 DEF Replay
    <3>5. PICK x \in Replay(chain) : s = apply(x, h)
      BY Zenon, <1>6, <3>2, <3>4 DEF Advance
    <3>6. Fit(x) /\ x.Number = Len(chain)
      BY Zenon, <1>1, ReplayFacts
    <3>7. PICK t \in snapshot(chain) : verifyHeader(t, h)
      BY Zenon DEF Insert
    <3>8. FiledOK(chain, t)
      BY Zenon, <3>7, HeadKnown, SnapshotFacts DEF snapshot
    <3>9. t.Number = x.Number /\ t.Signers = x.Signers
      BY Zenon, <3>5, <3>8 DEF FiledOK, Pair, Agree
    <3>10. (x.Number + 1) % Epoch = 0
      BY Zenon, <1>6, <3>1, <3>6
    <3>11. h.coinbase = Zero /\ h.signers = x.Signers
      BY Zenon, <3>7, <3>9, <3>10 DEF verifyHeader
    <3>12. HeaderOK(h)
      BY Zenon, HeadersOK
    <3>13. s.Signers = x.Signers /\ s.Votes = {} /\ s.Tally = Blank
      BY Zenon, <3>5, <3>6, <3>10, <3>11, <3>12, ApplyFit
    <3>14. QED
      BY Zenon, <3>2, <3>11, <3>13
  <2>3. QED
    BY SMTT(60), <1>1, <1>3, <2>1, <2>2
<1>7. CheckpointsOK'
  BY Zenon, <1>6 DEF CheckpointsOK
<1>8. /\ side' \in Seq(Headers) /\ base' \in Nat /\ base' <= Len(chain')
      /\ base' = 0 \/ base' % Epoch = 0
  <2>1. base \in Nat /\ base <= Len(chain) /\ side \in Seq(Headers) /\ (base = 0 \/ base % Epoch = 0)
    BY Zenon DEF IInv
  <2>2. base <= Len(chain')
    BY <1>1, <1>3, <2>1
  <2>3. QED
    BY Zenon, <1>2, <2>1, <2>2
<1>9. QED
  BY Zenon, <1>3, <1>4, <1>5, <1>7, <1>8 DEF IInv

LEMMA QueryInv ==
  ASSUME IInv, NoZero, NEW p, Known(p), Lookup(p), UNCHANGED <<chain, side, base>>
  PROVE  IInv'
<1>1. EntriesOK(recents') /\ EntriesOK(stored')
  BY Zenon, LookupOK
<1>2. QED
  BY Zenon, <1>1 DEF IInv, Forked, CheckpointsOK

LEMMA RewindInv ==
  ASSUME IInv, NEW k \in 0..Len(chain), Rewind(k)
  PROVE  IInv'
<1>1. /\ chain \in Seq(Headers) /\ Len(chain) \in Nat /\ base \in Nat
      /\ base = 0 \/ base % Epoch = 0
  BY DEF IInv
<1>2. /\ k >= base /\ Len(chain) - k <= FullImmutabilityThreshold
      /\ chain' = Prefix(chain, k) /\ side' = chain /\ UNCHANGED <<base, recents, stored>>
  BY Zenon DEF Rewind
<1>3. chain' \in Seq(Headers) /\ Len(chain') = k /\ \A i \in 1..k : chain'[i] = chain[i]
  BY Zenon, <1>1, <1>2, PrefixFacts
<1>4. /\ base <= k /\ k <= k /\ Len(chain) <= k + FullImmutabilityThreshold
      /\ \A j \in 1..k : j \in 0..k /\ j \in 1..Len(chain)
  BY <1>1, <1>2, EngineAssumption
<1>5. Forked'
  <2>1. k \in 0..Len(side') /\ base' <= k /\ k <= Len(chain')
    BY Zenon, <1>2, <1>3, <1>4
  <2>2. Len(side') <= k + FullImmutabilityThreshold /\ \A i \in 1..k : side'[i] = chain'[i]
    BY Zenon, <1>2, <1>3, <1>4
  <2>3. QED
    BY Zenon, <2>1, <2>2 DEF Forked
<1>6. CheckpointsOK'
  <2>1. ASSUME NEW j \in 1..Len(chain') PROVE Prefix(chain', j) = Prefix(chain, j)
    BY Zenon, <1>1, <1>2, <1>3, <1>4, <2>1, PrefixPrefix
  <2>2. QED
    BY Zenon, <1>3, <1>4, <2>1 DEF CheckpointsOK, IInv
<1>7. EntriesOK(recents') /\ EntriesOK(stored')
  BY Zenon, <1>2 DEF IInv
<1>8. QED
  BY Zenon, <1>1, <1>2, <1>3, <1>4, <1>5, <1>6, <1>7 DEF IInv

LEMMA ReinitInv ==
  ASSUME IInv, NEW b \in 0..Len(chain), Reinit(b)
  PROVE  IInv'
<1>1. /\ base' = b /\ b % Epoch = 0 /\ side' = <<>> /\ recents' = {} /\ stored' = {}
      /\ chain' = chain
  BY Zenon DEF Reinit
<1>2. b \in Nat /\ b <= Len(chain) /\ <<>> \in Seq(Headers)
  BY DEF IInv
<1>3. EntriesOK({})
  BY Zenon DEF EntriesOK
<1>4. QED
  BY Zenon, <1>1, <1>2, <1>3 DEF IInv, Forked, CheckpointsOK

LEMMA RestartInv ==
  ASSUME IInv, Restart
  PROVE  IInv'
<1>1. recents' = {} /\ UNCHANGED <<chain, side, base, stored>>
  BY Zenon DEF Restart
<1>2. EntriesOK({})
  BY Zenon DEF EntriesOK
<1>3. QED
  BY Zenon, <1>1, <1>2 DEF IInv, Forked, CheckpointsOK

LEMMA NewHeader ==
  ASSUME NEW a \in GenesisSigners, NEW b \in Ballots, NEW d \in {diffInTurn, diffNoTurn},
         NEW l \in SUBSET GenesisSigners
  PROVE  [signer |-> a, coinbase |-> b[1], nonce |-> b[2], difficulty |-> d, signers |-> l] \in Headers
<1>1. b \in Address \X Nonce
  BY Zenon, EngineAssumption
<1>2. b[1] \in Address /\ b[2] \in Nonce /\ b = <<b[1], b[2]>>
  BY <1>1
<1>3. QED
  BY Zenon, <1>2 DEF Headers

LEMMA Invariance == NoZero /\ Spec => []IInv
<1> SUFFICES ASSUME NoZero PROVE Spec => []IInv
  BY Zenon
<1>1. ASSUME IInv, [Next]_vars PROVE IInv'
  <2>1. CASE \E a \in GenesisSigners, b \in Ballots, d \in {diffInTurn, diffNoTurn} :
               \E l \in {{}} \cup SUBSET GenesisSigners :
                 Insert([signer |-> a, coinbase |-> b[1], nonce |-> b[2],
                         difficulty |-> d, signers |-> l])
    <3>1. PICK h \in Headers : Insert(h)
      BY Zenon, <2>1, NewHeader
    <3>2. QED
      BY Zenon, <1>1, <3>1, InsertInv
  <2>2. CASE \E a \in GenesisSigners :
               QueryParent([signer |-> a, coinbase |-> Zero, nonce |-> "drop",
                            difficulty |-> diffNoTurn, signers |-> {}])
    <3>1. PICK a \in GenesisSigners :
            QueryParent([signer |-> a, coinbase |-> Zero, nonce |-> "drop",
                         difficulty |-> diffNoTurn, signers |-> {}])
      BY Zenon, <2>2
    <3> DEFINE h == [signer |-> a, coinbase |-> Zero, nonce |-> "drop",
                     difficulty |-> diffNoTurn, signers |-> {}]
    <3>2. <<Zero, "drop">> \in Ballots
      BY Zenon, <3>1 DEF QueryParent, Candidate
    <3>3. h \in Headers
      BY Zenon, <3>2, CliqueAssumption DEF Headers, Nonce
    <3> HIDE DEF h
    <3>4. QueryParent(h)
      BY Zenon, <3>1 DEF h
    <3>5. QED
      BY Zenon, <1>1, <3>3, <3>4, ParentKnown, QueryInv DEF QueryParent
  <2>3. CASE \E k \in 0..Len(chain) : Query(Prefix(chain, k))
    BY Zenon, <1>1, <2>3, ChainKnown, QueryInv DEF Query
  <2>4. CASE \E k \in 0..Len(side) : Query(Prefix(side, k))
    BY Zenon, <1>1, <2>4, SideKnown, QueryInv DEF Query
  <2>5. CASE \E k \in 0..Len(chain) : Rewind(k)
    BY Zenon, <1>1, <2>5, RewindInv
  <2>6. CASE Restart
    BY Zenon, <1>1, <2>6, RestartInv
  <2>7. CASE \E b \in 0..Len(chain) : Reinit(b)
    BY Zenon, <1>1, <2>7, ReinitInv
  <2>8. CASE UNCHANGED vars
    BY Zenon, <1>1, <2>8 DEF vars, IInv, Forked, CheckpointsOK
  <2>9. QED
    BY Zenon, <1>1, <2>1, <2>2, <2>3, <2>4, <2>5, <2>6, <2>7, <2>8 DEF Next
<1>2. QED
  BY <1>1, InitInv, PTL DEF Spec

\* Whatever Clique.snapshot was asked for, over rewinds, restarts and starts
\* from a checkpoint, its cache and its database hold only snapshots with the
\* signers and the votes of a replay of the whole chain.  The zero address is
\* left alone: were it a signer, a checkpoint header, whose coinbase is zero,
\* would cast a vote on it.
THEOREM SnapshotsCorrect == NoZero /\ Spec => []SnapshotsAgree
<1>1. IInv => SnapshotsAgree
  <2>1. SUFFICES ASSUME IInv, NEW e \in recents \cup stored, NEW s \in Replay(e.hash)
                 PROVE  /\ e.snap.Signers = s.Signers /\ e.snap.Votes = s.Votes
                        /\ e.snap.Tally = s.Tally /\ e.snap.Recents \subseteq s.Recents
    BY Zenon DEF SnapshotsAgree
  <2>2. FiledOK(e.hash, e.snap)
    BY Zenon, <2>1 DEF IInv, EntriesOK
  <2>3. QED
    BY Zenon, <2>2 DEF FiledOK, Pair, Agree
<1>2. QED
  BY <1>1, Invariance, PTL

\* The lookup of a block of the chain succeeds, from wherever it starts.
LookupsResolve ==
  \A k \in base..Len(chain) :
    Replay(Prefix(chain, k)) # {} => snapshot(Prefix(chain, k)) # {}

\* No state of the caches makes Clique.snapshot refuse a block whose headers,
\* from the first one kept on, are there and which a replay from genesis takes:
\* it never walks past the headers, and never remembers a recent signer too
\* many.
THEOREM LookupsSucceed == NoZero /\ Spec => []LookupsResolve
<1> SUFFICES ASSUME NoZero PROVE Spec => []LookupsResolve
  BY Zenon
<1>1. IInv => LookupsResolve
  <2>1. SUFFICES ASSUME IInv, NEW n \in base..Len(chain), Replay(Prefix(chain, n)) # {}
                 PROVE  snapshot(Prefix(chain, n)) # {}
    BY Zenon DEF LookupsResolve
  <2> DEFINE p == Prefix(chain, n)
  <2>2. /\ chain \in Seq(Headers) /\ Len(chain) \in Nat /\ base \in Nat /\ base <= Len(chain)
        /\ base = 0 \/ base % Epoch = 0
    BY <2>1 DEF IInv
  <2>3. n \in 0..Len(chain) /\ base <= n
    BY <2>1, <2>2
  <2>4. Known(p) /\ Len(p) = n
    BY Zenon, <2>1, <2>2, <2>3, ChainKnown, PrefixFacts
  <2> HIDE DEF p
  <2>5. PICK k : k = Start(p)
    BY Zenon
  <2>6. k \in 0..n /\ \A j \in 0..n : Found(p, j) => j <= k
    BY Zenon, <2>1, <2>4, <2>5, StartFacts DEF Known
  <2>7. ~Missing(p, k)
    <3>1. CASE base <= 1
      <4>1. ~(k + 1 < base)
        BY <2>2, <2>3, <2>6, <3>1
      <4>2. QED
        BY Zenon, <4>1 DEF Missing
    <3>2. CASE base > 1
      <4>1. base - 1 < base /\ base # 0 /\ base >= base /\ base \in 0..n
        BY <2>2, <2>3, <3>2
      <4>2. Trusted(p, base)
        BY Zenon, <2>2, <3>2, <4>1 DEF Trusted
      <4>3. base <= k
        BY Zenon, <2>6, <4>1, <4>2 DEF Found
      <4>4. ~(k + 1 < base)
        BY <2>2, <2>6, <4>3
      <4>5. QED
        BY Zenon, <4>4 DEF Missing
    <3>3. QED
      BY <2>2, <3>1, <3>2
  <2>8. snapshot(p) # {}
    <3>1. Replay(p) # {}
      BY Zenon, <2>1 DEF p
    <3>2. QED
      BY Zenon, <2>1, <2>4, <2>5, <2>7, <3>1, SnapshotFacts DEF snapshot
  <2>9. QED
    BY Zenon, <2>8 DEF p
<1>2. QED
  BY <1>1, Invariance, PTL
=============================================================================
