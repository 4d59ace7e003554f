--------------------------- MODULE FreezerProofs ----------------------------
(***************************************************************************)
(* Proofs about the freezer, for any tree of blocks, any number of tables  *)
(* and any number of failures, but with no failure while SetHead truncates *)
(* the tables: first the inductive invariant and the proof that every step *)
(* keeps it, of the block chain, of SetHead, of the freezer, a crash, a    *)
(* restart; then the theorems.                                             *)
(***************************************************************************)
EXTENDS Freezer, TLAPS

\* The types that the proof needs.
TypeInv ==
  /\ status \in {"running", "down", "refused"}
  /\ kv \subseteq Block /\ canon \in [Number -> Block \cup {NoBlock}] /\ head \in Block
  /\ top \in Nat /\ pending \in Block \cup {NoBlock}
  /\ tables \in [Table -> Seq(Block)] /\ safe \in [Table -> Nat] /\ frozen \in Nat
  /\ first \in Nat /\ limit \in Nat /\ ancients \in Seq(Block)
  /\ todo \subseteq Table /\ dangling \subseteq Block
  /\ target \in Number /\ doomed \subseteq Number

\* What is in a table is settled, and is the canonical chain as far as the
\* head goes; there is more only while SetHead truncates.
TableInv ==
  \A t \in Table :
    /\ safe[t] <= Len(tables[t])
    /\ \A n \in Nat : n < Len(tables[t]) =>
         /\ n + threshold <= top
         /\ n <= number(head) => tables[t][n + 1] = Anc(head, n)
         /\ rewind # "delete" => n <= number(head)

Truncating == rewind = "delete" /\ frozen > number(head) + 1

\* How long the tables are.
LengthInv ==
  status = "running" =>
    /\ freezer = "append" =>
         \E k \in Table : /\ todo = {k}
                          /\ \A t \in Table : Len(tables[t]) = IF t < k THEN frozen + 1 ELSE frozen
    /\ freezer # "append" /\ ~Truncating => \A t \in Table : Len(tables[t]) = frozen
    /\ Truncating => \A t \in Table : Len(tables[t]) \in {frozen, number(head) + 1}

\* A round of the freezer: its range is settled, its batch is canonical, and
\* nothing is wiped before all tables are synced.
RoundInv ==
  freezer # "idle" =>
    /\ status = "running"
    /\ limit + threshold <= top /\ limit <= number(head)
    /\ frozen <= limit + 1
    /\ first + Len(ancients) = frozen
    /\ \A i \in 1..Len(ancients) : ancients[i] = Anc(head, first + i - 1)
    /\ rewind # "idle" => limit <= target
    /\ freezer = "append" => frozen <= limit /\ block = Anc(head, frozen)
    /\ freezer = "sync" => \A t \in Table : t \notin todo => safe[t] = Len(tables[t])
    /\ freezer \in {"wipe", "side", "dangling"} => \A t \in Table : safe[t] = Len(tables[t])
    /\ freezer = "side" =>
         \A n \in Nat : first <= n /\ n < frozen /\ n # 0 => Anc(head, n) \notin kv
    /\ freezer = "dangling" => \A b \in dangling : frozen > 0 => b # Anc(head, frozen - 1)

\* The block that is to become the head: it does not fork off in what is
\* settled, and its chain is stored.
PendingInv ==
  /\ writing = "idle" <=> pending = NoBlock
  /\ pending # NoBlock =>
       /\ status = "running" /\ rewind = "idle" /\ Shallow(pending)
       /\ \A n \in Nat : n <= number(pending) =>
            (n <= number(head) /\ Anc(pending, n) = Anc(head, n)) \/ Anc(pending, n) \in kv
       /\ writing = "head" =>
            \A n \in Nat : n < number(pending) =>
              n <= number(head) /\ Anc(pending, n) = Anc(head, n)

\* SetHead only deletes what is above the head.
RewindInv ==
  /\ number(head) <= top
  /\ \A n \in doomed : n > number(head)
  /\ rewind = "idle" => doomed = {}
  /\ rewind # "idle" => status = "running" /\ pending = NoBlock /\ target <= number(head)

\* Every canonical block is in the key-value store or safe in the tables.
StoreInv ==
  /\ canon[0] = genesis
  /\ \A n \in Nat : n <= number(head) =>
       (Anc(head, n) \in kv /\ canon[n] = Anc(head, n)) \/ \A t \in Table : n < safe[t]

IInv ==
  /\ TypeInv /\ TableInv /\ LengthInv /\ RoundInv /\ PendingInv /\ RewindInv /\ StoreInv
  /\ status # "refused"

USE DEF chainVars, tableVars, freezeVars, rewindVars, readVars

-----------------------------------------------------------------------------
(* Blocks and tables. *)

\* The ancestors of a block, without the ranges.
LEMMA Tree ==
  ASSUME NEW b \in Block
  PROVE  /\ number(b) \in Nat /\ number(b) \in Number
         /\ Anc(b, number(b)) = b /\ Anc(b, 0) = genesis
         /\ \A n \in Nat : n <= number(b) =>
              /\ Anc(b, n) \in Block /\ number(Anc(b, n)) = n
              /\ \A m \in Nat : m <= n => Anc(Anc(b, n), m) = Anc(b, m)
BY FreezerAssumption DEF Number

\* The numbers of the constants.
LEMMA Constants ==
  /\ threshold \in Nat /\ freezerBatchLimit \in Nat /\ Tables \in Nat /\ MaxNumber \in Nat
  /\ 1 \in Table /\ Table \subseteq Nat /\ Number \subseteq Nat /\ 0 \in Number
  /\ NoBlock \notin Block /\ genesis \in Block
BY FreezerAssumption DEF Number, Table

\* A table that is cut off keeps its beginning.
LEMMA Cut ==
  ASSUME NEW s \in Seq(Block), NEW n \in Nat
  PROVE  /\ Prefix(s, n) \in Seq(Block)
         /\ Len(Prefix(s, n)) = Min(n, Len(s))
         /\ \A i \in Nat : i < Min(n, Len(s)) => Prefix(s, n)[i + 1] = s[i + 1]
BY DEF Prefix, Min

\* Below the fork, and only there, two chains agree.
LEMMA Forks ==
  ASSUME head \in Block, NEW b \in Block, NEW f \in Nat, f <= number(head), IsFork(b, f)
  PROVE  /\ f <= number(b)
         /\ \A n \in Nat : n <= f => Anc(b, n) = Anc(head, n)
         /\ \A n \in Nat : f < n /\ n <= number(head) /\ n <= number(b) => Anc(b, n) # Anc(head, n)
<1>1. number(head) \in Nat /\ number(b) \in Nat
  BY Zenon, Tree
<1>2. f <= number(b) /\ Anc(b, f) = Anc(head, f)
  BY Zenon DEF IsFork
<1>3. ASSUME NEW n \in Nat, n <= f PROVE Anc(b, n) = Anc(head, n)
  BY <1>2, <1>3, Tree
<1>4. QED
  BY <1>1, <1>2, <1>3 DEF IsFork

\* What is settled on the head's chain is settled on that of a shallow block.
LEMMA Settled ==
  ASSUME TypeInv, NEW b \in Block, Shallow(b), NEW n \in Nat,
         n <= number(head), n + threshold <= top
  PROVE  n <= number(b) /\ Anc(b, n) = Anc(head, n)
BY Tree DEF Shallow, TypeInv

\* In a round of the freezer SetHead does not truncate.
LEMMA Lengths ==
  ASSUME IInv, status = "running"
  PROVE  /\ freezer # "idle" => ~Truncating
         /\ freezer # "append" /\ ~Truncating => \A t \in Table : Len(tables[t]) = frozen
         /\ ~Truncating => \A t \in Table : Len(tables[t]) \in {frozen, frozen + 1}
BY SMTT(60), Tree, Constants DEF IInv, RoundInv, LengthInv, Truncating, TypeInv

\* What RoundInv says of any round in progress, with the types.
LEMMA RoundFacts ==
  ASSUME IInv, freezer # "idle"
  PROVE  /\ first \in Nat /\ frozen \in Nat /\ limit \in Nat /\ top \in Nat /\ head \in Block
         /\ number(head) \in Nat /\ Len(ancients) \in Nat
         /\ limit + threshold <= top /\ limit <= number(head) /\ frozen <= limit + 1
         /\ first + Len(ancients) = frozen
         /\ \A i \in 1..Len(ancients) : ancients[i] = Anc(head, first + i - 1)
<1>1. /\ first \in Nat /\ frozen \in Nat /\ limit \in Nat /\ top \in Nat /\ head \in Block
      /\ ancients \in Seq(Block)
  BY Zenon DEF IInv, TypeInv
<1>2. Len(ancients) \in Nat
  BY <1>1
<1>3. number(head) \in Nat
  BY Zenon, <1>1, Tree
<1>4. /\ limit + threshold <= top /\ limit <= number(head) /\ frozen <= limit + 1
      /\ first + Len(ancients) = frozen
      /\ \A i \in 1..Len(ancients) : ancients[i] = Anc(head, first + i - 1)
  BY Zenon DEF IInv, RoundInv
<1>5. QED
  BY Zenon, <1>1, <1>2, <1>3, <1>4

\* Initially everything is in its place: there is only the genesis.
LEMMA InitInv == Init => IInv
<1>. SUFFICES ASSUME Init PROVE IInv
  BY Zenon
<1>. USE Constants, Tree DEF Init
<1>1. TypeInv
  BY DEF TypeInv
<1>2. TableInv
  BY DEF TableInv
<1>3. LengthInv
  BY Zenon DEF LengthInv, Truncating
<1>4. RoundInv /\ PendingInv
  BY Zenon DEF RoundInv, PendingInv
<1>5. RewindInv
  BY FreezerAssumption DEF RewindInv
<1>6. StoreInv
  BY FreezerAssumption DEF StoreInv
<1>7. QED
  BY Zenon, <1>1, <1>2, <1>3, <1>4, <1>5, <1>6 DEF IInv

-----------------------------------------------------------------------------
(* The block chain. *)

\* A block in the table of hashes is canonical.
LEMMA KnownBlocks ==
  ASSUME IInv, rewind = "idle", NEW b \in Block, Known(b)
  PROVE  b \in kv \/ (number(b) <= number(head) /\ b = Anc(head, number(b)))
BY SMTT(60), Tree, Constants DEF IInv, TableInv, TypeInv, Known, Has, Ancient

\* An import adds to the key-value store only what is not frozen already.
LEMMA ImportInv ==
  ASSUME IInv, NEW b \in Block, NEW fork \in 0..number(head), Import(b, fork)
  PROVE  IInv'
<1>1. /\ status = "running" /\ rewind = "idle" /\ pending = NoBlock /\ writing = "idle"
      /\ head \in Block /\ fork \in Nat /\ fork <= number(head) /\ number(b) \in Nat
      /\ IsFork(b, fork) /\ Shallow(b) /\ Known(parent(b)) /\ number(b) > 0
  BY Tree DEF Import, IInv, TypeInv, PendingInv
<1>2. /\ kv \subseteq kv' /\ (b \in kv' \/ Known(b))
      /\ \A c \in kv' : c \in kv \/ (c = b /\ ~Known(b))
  BY Zenon DEF Import
<1>3. TypeInv'
  BY Zenon DEF IInv, TypeInv, Import
<1>4. TableInv' /\ LengthInv' /\ RewindInv'
  BY Zenon DEF IInv, Import, TableInv, LengthInv, Truncating, RewindInv
<1>5. RoundInv'
  <2>1. ASSUME NEW n \in Nat, freezer = "side", n < frozen, Anc(head, n) = b
        PROVE  Known(b)
    <3>1. n < Len(tables[1])
      BY Zenon, <1>1, <2>1, Lengths, Constants
    <3>2. n <= number(head) /\ tables[1][n + 1] = Anc(head, n)
      BY Zenon, <1>1, <3>1, Constants DEF IInv, TableInv
    <3>3. number(b) = n
      BY Zenon, <1>1, <2>1, <3>2, Tree
    <3>4. QED
      BY Zenon, <2>1, <3>1, <3>2, <3>3 DEF Known, Has, Ancient
  <2>2. QED
    BY Zenon, <1>2, <2>1 DEF IInv, RoundInv, Import
<1>6. PendingInv'
  <2>1. CASE pending' = NoBlock
    BY Zenon, <1>1, <2>1, Constants DEF Import, PendingInv
  <2>2. CASE pending' = b /\ Connected(b, fork) /\ writing' = IF parent(b) = head THEN "head" ELSE "chain"
    <3>1. ASSUME NEW n \in Nat, n <= number(b)
          PROVE  (n <= number(head) /\ Anc(b, n) = Anc(head, n)) \/ Anc(b, n) \in kv'
      <4>1. CASE n <= fork
        BY <1>1, <4>1, Forks, Tree
      <4>2. CASE n > fork /\ n < number(b)
        <5>1. Known(Anc(b, n)) /\ Anc(b, n) \in Block /\ number(Anc(b, n)) = n
          BY <1>1, <2>2, <3>1, <4>2, Tree DEF Connected
        <5>2. QED
          BY Zenon, <1>1, <1>2, <5>1, KnownBlocks
      <4>3. CASE n = number(b)
        BY Zenon, <1>1, <1>2, <4>3, KnownBlocks, Tree
      <4>4. QED
        BY <1>1, <3>1, <4>1, <4>2, <4>3
    <3>2. ASSUME NEW n \in Nat, n < number(b), parent(b) = head
          PROVE  n <= number(head) /\ Anc(b, n) = Anc(head, n)
      BY <1>1, <3>2, Tree DEF parent
    <3>3. UNCHANGED <<status, rewind, head, top>>
      BY Zenon DEF Import
    <3>4. QED
      BY Zenon, <1>1, <2>2, <3>1, <3>2, <3>3, Constants DEF PendingInv, Shallow
  <2>3. QED
    BY Zenon, <1>1, <2>1, <2>2 DEF Import
<1>7. StoreInv'
  BY Zenon, <1>2 DEF IInv, StoreInv, Import
<1>8. QED
  BY Zenon, <1>1, <1>3, <1>4, <1>5, <1>6, <1>7 DEF IInv, Import

\* The head moves to a block h that does not fork off in what is settled.
Moves(h) ==
  /\ head' = h
  /\ canon' = [canon EXCEPT ![number(h)] = h]
  /\ top' = IF number(h) > top THEN number(h) ELSE top
  /\ UNCHANGED <<status, kv, tableVars, freezeVars, rewindVars, readVars, faults, cut>>

\* What the move of the head leaves true, whatever the move is for.
LEMMA HeadMoves ==
  ASSUME IInv, rewind = "idle", NEW h \in Block, Moves(h),
         \A n \in Nat : n <= number(head) /\ n + threshold <= top =>
                          n <= number(h) /\ Anc(h, n) = Anc(head, n)
  PROVE  TableInv' /\ LengthInv' /\ RoundInv' /\ RewindInv'
<1>0. number(head) \in Nat /\ number(h) \in Nat /\ top \in Nat /\ top' \in Nat /\ top <= top'
  BY Tree DEF IInv, TypeInv, Moves
<1>1. TableInv'
  <2>1. ASSUME NEW t \in Table, NEW n \in Nat, n < Len(tables[t])
        PROVE  n + threshold <= top /\ n <= number(head) /\ tables[t][n + 1] = Anc(head, n)
    BY Zenon, <2>1 DEF IInv, TableInv
  <2>2. ASSUME NEW t \in Table, NEW n \in Nat, n < Len(tables[t])
        PROVE  n + threshold <= top' /\ n <= number(h) /\ tables[t][n + 1] = Anc(h, n)
    BY <1>0, <2>1, <2>2, Constants
  <2>3. QED
    BY Zenon, <2>2 DEF IInv, TableInv, Moves
<1>2. LengthInv'
  BY Zenon DEF IInv, LengthInv, Truncating, Moves
<1>3. RoundInv'
  <2>. SUFFICES ASSUME freezer # "idle" PROVE RoundInv'
    BY Zenon DEF RoundInv, Moves
  <2>1. /\ limit \in Nat /\ limit + threshold <= top /\ limit <= number(head)
        /\ frozen \in Nat /\ frozen <= limit + 1 /\ first \in Nat /\ Len(ancients) \in Nat
        /\ first + Len(ancients) = frozen
    BY Zenon, RoundFacts
  <2>2. \A n \in Nat : n <= limit => n <= number(h) /\ Anc(h, n) = Anc(head, n)
    BY <1>0, <2>1, Constants
  <2>3. limit + threshold <= top' /\ limit <= number(h)
    BY <1>0, <2>1, <2>2, Constants
  <2>4. \A i \in 1..Len(ancients) : ancients[i] = Anc(h, first + i - 1)
    BY <2>1, <2>2, RoundFacts
  <2>5. freezer = "append" => frozen <= limit /\ block = Anc(h, frozen)
    BY Zenon, <2>1, <2>2 DEF IInv, RoundInv
  <2>6. freezer = "side" =>
          \A n \in Nat : first <= n /\ n < frozen /\ n # 0 => Anc(h, n) \notin kv
    <3>1. freezer = "side" =>
            \A n \in Nat : first <= n /\ n < frozen /\ n # 0 => Anc(head, n) \notin kv
      BY Zenon DEF IInv, RoundInv
    <3>2. QED
      BY <2>1, <2>2, <3>1
  <2>7. freezer = "dangling" => \A b \in dangling : frozen > 0 => b # Anc(h, frozen - 1)
    <3>1. freezer = "dangling" => \A b \in dangling : frozen > 0 => b # Anc(head, frozen - 1)
      BY Zenon DEF IInv, RoundInv
    <3>2. QED
      BY <2>1, <2>2, <3>1
  <2>8. QED
    BY Zenon, <2>3, <2>4, <2>5, <2>6, <2>7 DEF IInv, RoundInv, Moves
<1>4. RewindInv'
  BY <1>0 DEF IInv, RewindInv, Moves
<1>5. QED
  BY Zenon, <1>1, <1>2, <1>3, <1>4

\* reorg moves the head upwards on the new chain, whose blocks are stored.
LEMMA ReorgBlockInv ==
  ASSUME IInv, NEW fork \in 0..number(head), ReorgBlock(fork)
  PROVE  IInv'
<1>1. /\ status = "running" /\ rewind = "idle" /\ writing = "chain" /\ pending \in Block
      /\ head \in Block /\ number(head) \in Nat /\ fork \in Nat /\ fork <= number(head)
      /\ IsFork(pending, fork) /\ fork + 1 < number(pending) /\ number(pending) \in Nat
      /\ Shallow(pending)
  BY Tree DEF ReorgBlock, IInv, TypeInv, PendingInv
<1>2. PICK h \in Block : h = Anc(pending, fork + 1) /\ number(h) = fork + 1
  BY <1>1, Tree
<1>3. Moves(h) /\ UNCHANGED <<pending, writing>>
  BY Zenon, <1>2 DEF ReorgBlock, writeHeadBlock, Moves
<1>4. \A n \in Nat : n <= fork + 1 => Anc(h, n) = Anc(pending, n)
  BY <1>1, <1>2, Tree
<1>5. \A n \in Nat : n <= fork => Anc(h, n) = Anc(head, n)
  BY <1>1, <1>4, Forks
<1>6. \A n \in Nat : n <= number(head) /\ n <= number(pending) /\ Anc(pending, n) = Anc(head, n) =>
        n <= fork
  BY <1>1, Forks
<1>7. \A n \in Nat : n <= number(head) /\ n + threshold <= top =>
        n <= number(h) /\ Anc(h, n) = Anc(head, n)
  BY <1>1, <1>2, <1>5, <1>6, Settled DEF IInv
<1>8. TypeInv'
  BY Zenon, <1>1, <1>2, <1>3, Tree DEF IInv, TypeInv, Moves
<1>9. TableInv' /\ LengthInv' /\ RoundInv' /\ RewindInv'
  BY Zenon, <1>1, <1>3, <1>7, HeadMoves
<1>10. PendingInv'
  <2>1. \A n \in 0..number(h) : n <= number(pending) /\ Anc(pending, n) = Anc(h, n)
    BY <1>1, <1>2, <1>4
  <2>2. ASSUME NEW n \in Nat, n <= number(pending)
        PROVE  (n <= number(h) /\ Anc(pending, n) = Anc(h, n)) \/ Anc(pending, n) \in kv
    BY <1>1, <1>2, <1>5, <1>6, <2>2, Constants DEF IInv, PendingInv
  <2>3. QED
    BY Zenon, <1>1, <1>3, <2>1, <2>2, Constants DEF PendingInv, Shallow, Moves
<1>11. StoreInv'
  <2>1. h \in kv
    BY <1>1, <1>2, <1>6, Constants DEF IInv, PendingInv
  <2>2. canon'[fork + 1] = h /\ \A n \in Nat : n <= fork => canon'[n] = canon[n]
    BY <1>1, <1>2, <1>3, Tree, Constants DEF IInv, TypeInv, Moves, Number
  <2>3. QED
    BY <1>1, <1>2, <1>3, <1>5, <2>1, <2>2, Tree DEF IInv, StoreInv, Moves
<1>12. QED
  BY Zenon, <1>1, <1>3, <1>8, <1>9, <1>10, <1>11 DEF IInv, Moves

\* What reorg clears is above the head.
LEMMA ReorgIndexesInv ==
  ASSUME IInv, NEW fork \in 0..number(head), ReorgIndexes(fork)
  PROVE  IInv'
<1>1. /\ status = "running" /\ writing = "chain" /\ pending \in Block /\ head \in Block
      /\ number(head) \in Nat /\ number(pending) \in Nat /\ fork \in Nat /\ fork <= number(head)
      /\ IsFork(pending, fork) /\ fork + 1 >= number(pending)
  BY Tree DEF ReorgIndexes, IInv, TypeInv, PendingInv
<1>2. TypeInv'
  BY Zenon, Constants DEF IInv, TypeInv, ReorgIndexes
<1>3. TableInv' /\ LengthInv' /\ RoundInv' /\ RewindInv'
  BY Zenon DEF IInv, ReorgIndexes, TableInv, LengthInv, Truncating, RoundInv, RewindInv
<1>4. PendingInv'
  <2>1. \A n \in Nat : n < number(pending) => n <= number(head) /\ Anc(pending, n) = Anc(head, n)
    BY <1>1, Forks
  <2>2. QED
    BY Zenon, <1>1, <2>1 DEF IInv, PendingInv, Shallow, ReorgIndexes
<1>5. StoreInv'
  <2>1. \A n \in Nat : n <= number(head) => canon'[n] = canon[n]
    BY <1>1, Tree DEF ReorgIndexes, CanonAbove, Number
  <2>2. QED
    BY <1>1, <2>1 DEF IInv, StoreInv, ReorgIndexes
<1>6. QED
  BY Zenon, <1>1, <1>2, <1>3, <1>4, <1>5 DEF IInv, ReorgIndexes

\* The new head is stored, or it was canonical before.
LEMMA NewHeadInv ==
  ASSUME IInv, NewHead
  PROVE  IInv'
<1>1. /\ status = "running" /\ rewind = "idle" /\ writing = "head" /\ pending \in Block
      /\ head \in Block /\ number(head) \in Nat /\ number(pending) \in Nat /\ Shallow(pending)
  BY Zenon, Tree DEF NewHead, IInv, TypeInv, PendingInv
<1>2. Moves(pending) /\ pending' = NoBlock /\ writing' = "idle"
  BY Zenon DEF NewHead, writeHeadBlock, Moves
<1>3. \A n \in Nat : n <= number(head) /\ n + threshold <= top =>
        n <= number(pending) /\ Anc(pending, n) = Anc(head, n)
  BY Zenon, <1>1, Settled DEF IInv
<1>4. TypeInv'
  BY Zenon, <1>1, <1>2, Tree DEF IInv, TypeInv, Moves
<1>5. TableInv' /\ LengthInv' /\ RoundInv' /\ RewindInv'
  BY Zenon, <1>1, <1>2, <1>3, HeadMoves
<1>6. PendingInv'
  BY Zenon, <1>2 DEF PendingInv
<1>7. StoreInv'
  <2>1. \A n \in Nat : n < number(pending) => n <= number(head) /\ Anc(pending, n) = Anc(head, n)
    BY Zenon, <1>1, Constants DEF IInv, PendingInv
  <2>2. pending \in kv \/ (number(pending) <= number(head) /\ pending = Anc(head, number(pending)))
    BY <1>1, Tree, Constants DEF IInv, PendingInv
  <2>3. /\ canon'[number(pending)] = pending
        /\ \A n \in Nat : n < number(pending) => canon'[n] = canon[n]
    BY <1>1, <1>2, Tree, Constants DEF IInv, TypeInv, Moves, Number
  <2>4. canon'[0] = genesis
    BY <1>1, <2>3, Tree DEF IInv, StoreInv
  <2>5. ASSUME NEW n \in Nat, n <= number(pending)
        PROVE  (Anc(pending, n) \in kv /\ canon'[n] = Anc(pending, n)) \/ \A t \in Table : n < safe[t]
    <3>1. CASE n < number(pending)
      BY Zenon, <1>1, <2>1, <2>3, <3>1 DEF IInv, StoreInv
    <3>2. CASE n = number(pending)
      BY Zenon, <1>1, <2>2, <2>3, <3>2, Tree DEF IInv, StoreInv
    <3>3. QED
      BY <1>1, <2>5, <3>1, <3>2
  <2>6. QED
    BY Zenon, <1>2, <2>4, <2>5 DEF StoreInv, Moves
<1>8. QED
  BY Zenon, <1>1, <1>2, <1>4, <1>5, <1>6, <1>7 DEF IInv, Moves

-----------------------------------------------------------------------------
(* SetHead. *)

\* SetHead starts above the range of a running round.
LEMMA SetHeadInv ==
  ASSUME IInv, NEW n \in Number, SetHead(n)
  PROVE  IInv'
<1>1. /\ status = "running" /\ rewind = "idle" /\ pending = NoBlock /\ (freezer = "idle" \/ limit <= n)
      /\ n < number(head) /\ rewind' = "origin" /\ target' = n
      /\ UNCHANGED <<status, kv, canon, head, top, pending, writing, tables, safe, frozen, freezer,
                     first, limit, ancients, block, todo, dangling, doomed>>
  BY Zenon DEF SetHead
<1>2. TypeInv'
  BY Zenon, <1>1 DEF IInv, TypeInv
<1>3. TableInv' /\ LengthInv' /\ RoundInv' /\ StoreInv'
  BY Zenon, <1>1 DEF IInv, TableInv, LengthInv, Truncating, RoundInv, StoreInv
<1>4. PendingInv' /\ RewindInv'
  BY <1>1, Tree, Constants DEF IInv, TypeInv, PendingInv, RewindInv
<1>5. QED
  BY Zenon, <1>1, <1>2, <1>3, <1>4 DEF IInv

\* The head goes down by one, and stays above the range of a running round.
LEMMA RewindMarkerInv ==
  ASSUME IInv, RewindMarker
  PROVE  IInv'
<1>1. /\ status = "running" /\ rewind \in {"origin", "next"} /\ number(head) > target
      /\ head' = parent(head) /\ doomed' = doomed \cup Rewound /\ rewind' = "delete"
      /\ UNCHANGED <<status, kv, canon, top, pending, writing, tables, safe, frozen, freezer, first,
                     limit, ancients, block, todo, dangling, target>>
  BY Zenon DEF RewindMarker
<1>2. /\ head \in Block /\ number(head) \in Nat /\ target \in Nat /\ top \in Nat /\ frozen \in Nat
      /\ pending = NoBlock /\ number(head) <= top /\ limit \in Nat /\ first \in Nat
  BY Zenon, <1>1, Tree, Constants DEF IInv, TypeInv, RewindInv
<1>3. PICK h \in Block : /\ h = head' /\ number(h) = number(head) - 1
                         /\ \A n \in Nat : n <= number(h) => Anc(h, n) = Anc(head, n)
  BY <1>1, <1>2, Tree DEF parent
<1>4. number(h) \in Nat /\ target <= number(h) /\ number(h) <= number(head) /\ ~Truncating
  BY <1>1, <1>2, <1>3 DEF Truncating
<1>5. TypeInv'
  <2>1. Rewound \subseteq Number
    BY <1>2, Tree DEF Rewound, Above
  <2>2. QED
    BY Zenon, <1>1, <1>3, <2>1 DEF IInv, TypeInv
<1>6. TableInv'
  BY Zenon, <1>1, <1>2, <1>3, <1>4 DEF IInv, TableInv, TypeInv
<1>7. LengthInv'
  <2>1. freezer = "append" => ~Truncating'
    BY <1>1, <1>2, <1>3, <1>4 DEF IInv, RoundInv, Truncating
  <2>2. QED
    BY Zenon, <1>1, <1>4, <2>1 DEF IInv, LengthInv
<1>8. RoundInv'
  <2>. SUFFICES ASSUME freezer # "idle" PROVE RoundInv'
    BY Zenon, <1>1 DEF RoundInv
  <2>1. /\ limit <= target /\ frozen <= limit + 1 /\ first + Len(ancients) = frozen
        /\ Len(ancients) \in Nat /\ limit <= number(h)
    <3>1. limit <= target
      BY Zenon, <1>1 DEF IInv, RoundInv
    <3>2. QED
      BY <1>1, <1>2, <1>4, <3>1, RoundFacts
  <2>2. \A n \in Nat : n <= limit => Anc(h, n) = Anc(head, n)
    BY <1>2, <1>3, <1>4, <2>1
  <2>3. \A i \in 1..Len(ancients) : ancients[i] = Anc(h, first + i - 1)
    BY <1>2, <2>1, <2>2, RoundFacts
  <2>4. freezer = "append" => frozen <= limit /\ block = Anc(h, frozen)
    BY Zenon, <1>2, <2>1, <2>2 DEF IInv, RoundInv
  <2>5. freezer = "side" =>
          \A n \in Nat : first <= n /\ n < frozen /\ n # 0 => Anc(h, n) \notin kv
    <3>1. freezer = "side" =>
            \A n \in Nat : first <= n /\ n < frozen /\ n # 0 => Anc(head, n) \notin kv
      BY Zenon DEF IInv, RoundInv
    <3>2. QED
      BY <1>2, <2>1, <2>2, <3>1
  <2>6. freezer = "dangling" => \A b \in dangling : frozen > 0 => b # Anc(h, frozen - 1)
    <3>1. freezer = "dangling" => \A b \in dangling : frozen > 0 => b # Anc(head, frozen - 1)
      BY Zenon DEF IInv, RoundInv
    <3>2. QED
      BY <1>2, <2>1, <2>2, <3>1
  <2>7. QED
    BY Zenon, <1>1, <1>3, <2>1, <2>3, <2>4, <2>5, <2>6 DEF IInv, RoundInv
<1>9. PendingInv'
  BY Zenon, <1>1, <1>2 DEF IInv, PendingInv
<1>10. RewindInv'
  <2>1. \A n \in doomed' : n > number(h)
    BY <1>1, <1>2, <1>3, <1>4, Constants DEF IInv, RewindInv, TypeInv, Rewound, Above
  <2>2. QED
    BY <1>1, <1>2, <1>3, <1>4, <2>1 DEF RewindInv
<1>11. StoreInv'
  BY <1>1, <1>2, <1>3, <1>4 DEF IInv, StoreInv
<1>12. QED
  BY Zenon, <1>1, <1>5, <1>6, <1>7, <1>8, <1>9, <1>10, <1>11 DEF IInv

\* A table is cut off above the head, which no canonical block is.
LEMMA RewindTableInv ==
  ASSUME IInv, NEW t \in Table, RewindTable(t)
  PROVE  IInv'
<1>1. /\ status = "running" /\ rewind = "delete" /\ frozen > number(head) + 1 /\ Beyond(t)
      /\ tables' = [tables EXCEPT ![t] = Prefix(@, number(head) + 1)]
      /\ safe' = [safe EXCEPT ![t] = Min(@, number(head) + 1)]
      /\ UNCHANGED <<status, kv, canon, head, top, pending, writing, frozen, freezer, first, limit,
                     ancients, block, todo, dangling, rewind, target, doomed>>
  BY Zenon DEF RewindTable
<1>2. /\ number(head) \in Nat /\ Truncating /\ freezer = "idle" /\ tables[t] \in Seq(Block)
      /\ Len(tables[t]) \in Nat /\ Len(tables[t]) > number(head) + 1 /\ safe[t] \in Nat
  BY <1>1, Tree, Lengths DEF IInv, TypeInv, Truncating, Beyond
<1>3. PICK s \in Seq(Block) : s = Prefix(tables[t], number(head) + 1)
  BY <1>2, Cut
<1>4. /\ Len(s) = number(head) + 1
      /\ \A i \in Nat : i < number(head) + 1 => s[i + 1] = tables[t][i + 1]
  <2>1. Min(number(head) + 1, Len(tables[t])) = number(head) + 1
    BY Zenon, <1>2 DEF Min
  <2>2. PICK k \in Nat : k = number(head) + 1
    BY <1>2
  <2>3. PICK u \in Seq(Block) : u = tables[t]
    BY Zenon, <1>2
  <2>4. /\ Len(Prefix(u, k)) = Min(k, Len(u))
        /\ \A i \in Nat : i < Min(k, Len(u)) => Prefix(u, k)[i + 1] = u[i + 1]
    BY Zenon, Cut
  <2>5. QED
    BY Zenon, <1>3, <2>1, <2>2, <2>3, <2>4
<1>5. /\ tables' \in [Table -> Seq(Block)] /\ tables'[t] = s
      /\ \A u \in Table : u # t => tables'[u] = tables[u]
  BY Zenon, <1>1, <1>3 DEF IInv, TypeInv
<1>6. Min(safe[t], number(head) + 1) \in Nat /\ Min(safe[t], number(head) + 1) <= number(head) + 1
      /\ \A n \in Nat : n <= number(head) /\ n < safe[t] => n < Min(safe[t], number(head) + 1)
  BY <1>2 DEF Min
<1>7. /\ safe' \in [Table -> Nat] /\ safe'[t] = Min(safe[t], number(head) + 1)
      /\ \A u \in Table : u # t => safe'[u] = safe[u]
  BY Zenon, <1>1, <1>6 DEF IInv, TypeInv
<1>8. TypeInv'
  BY Zenon, <1>1, <1>5, <1>7 DEF IInv, TypeInv
<1>9. TableInv'
  <2>1. ASSUME NEW n \in Nat, n < Len(s)
        PROVE  n + threshold <= top /\ s[n + 1] = Anc(head, n)
    BY <1>2, <1>4, <2>1 DEF IInv, TableInv
  <2>2. safe'[t] <= Len(s)
    BY Zenon, <1>4, <1>6, <1>7
  <2>3. ASSUME NEW u \in Table, u # t
        PROVE  /\ safe'[u] <= Len(tables'[u])
               /\ \A n \in Nat : n < Len(tables'[u]) =>
                    n + threshold <= top /\ (n <= number(head) => tables'[u][n + 1] = Anc(head, n))
    BY Zenon, <1>5, <1>7, <2>3 DEF IInv, TableInv
  <2>4. QED
    BY Zenon, <1>1, <1>5, <2>1, <2>2, <2>3 DEF TableInv
<1>10. LengthInv'
  BY Zenon, <1>1, <1>2, <1>4, <1>5 DEF IInv, LengthInv, Truncating
<1>11. RoundInv' /\ PendingInv' /\ RewindInv'
  BY Zenon, <1>1, <1>2 DEF IInv, RoundInv, PendingInv, Shallow, RewindInv
<1>12. StoreInv'
  <2>1. ASSUME NEW n \in Nat, n <= number(head), \A u \in Table : n < safe[u]
        PROVE  \A u \in Table : n < safe'[u]
    BY Zenon, <1>6, <1>7, <2>1
  <2>2. QED
    BY Zenon, <1>1, <2>1 DEF IInv, StoreInv
<1>13. QED
  BY Zenon, <1>1, <1>8, <1>9, <1>10, <1>11, <1>12 DEF IInv

\* No table is longer than the chain, unless SetHead truncates.
LEMMA TablesEnd ==
  ASSUME IInv, status = "running", ~Truncating, NEW t \in Table, NEW n \in Nat, n < Len(tables[t])
  PROVE  n <= number(head)
<1>1. number(head) \in Nat /\ frozen \in Nat /\ limit \in Nat
  BY Zenon, Tree DEF IInv, TypeInv
<1>2. CASE rewind # "delete"
  BY Zenon, <1>2 DEF IInv, TableInv
<1>3. CASE rewind = "delete" /\ freezer = "append"
  <2>1. frozen <= number(head) /\ Len(tables[t]) \in {frozen, frozen + 1}
    BY <1>1, <1>3, Lengths DEF IInv, RoundInv
  <2>2. QED
    BY <1>1, <2>1
<1>4. CASE rewind = "delete" /\ freezer # "append"
  <2>1. frozen <= number(head) + 1 /\ Len(tables[t]) = frozen
    BY <1>1, <1>4, Lengths DEF Truncating
  <2>2. QED
    BY <1>1, <2>1
<1>5. QED
  BY Zenon, <1>2, <1>3, <1>4

\* When the counter follows, the tables are equally long again.
LEMMA RewindFrozenInv ==
  ASSUME IInv, RewindFrozen
  PROVE  IInv'
<1>1. /\ status = "running" /\ rewind = "delete" /\ rewind' = "next"
      /\ frozen > number(head) + 1 => \A t \in Table : ~Beyond(t)
      /\ frozen' = Min(frozen, number(head) + 1)
      /\ UNCHANGED <<status, kv, canon, head, top, pending, writing, tables, safe, freezer, first,
                     limit, ancients, block, todo, dangling, target, doomed>>
  BY Zenon DEF RewindFrozen
<1>2. number(head) \in Nat /\ frozen \in Nat /\ ~Truncating'
  BY Zenon, <1>1, Tree DEF IInv, TypeInv, Truncating
<1>3. CASE Truncating
  <2>1. /\ freezer = "idle" /\ frozen' = number(head) + 1
        /\ \A t \in Table : Len(tables[t]) = number(head) + 1
    BY <1>1, <1>2, <1>3, Lengths DEF IInv, LengthInv, Truncating, Beyond, Min
  <2>2. TableInv' /\ LengthInv'
    BY <1>1, <1>2, <2>1 DEF IInv, TableInv, LengthInv
  <2>3. TypeInv' /\ RoundInv'
    BY <1>1, <1>2, <2>1 DEF IInv, TypeInv, RoundInv
  <2>4. PendingInv' /\ StoreInv'
    BY Zenon, <1>1 DEF IInv, PendingInv, Shallow, StoreInv
  <2>5. RewindInv'
    BY Zenon, <1>1 DEF IInv, RewindInv
  <2>6. QED
    BY Zenon, <1>1, <2>2, <2>3, <2>4, <2>5 DEF IInv
<1>4. CASE ~Truncating
  <2>1. frozen' = frozen
    BY <1>1, <1>2, <1>4 DEF Truncating, Min
  <2>2. TableInv' /\ LengthInv'
    BY Zenon, <1>1, <1>2, <1>4, <2>1, TablesEnd DEF IInv, TableInv, LengthInv
  <2>3. TypeInv' /\ RoundInv'
    BY Zenon, <1>1, <2>1 DEF IInv, TypeInv, RoundInv
  <2>4. PendingInv' /\ StoreInv'
    BY <1>1 DEF IInv, PendingInv, Shallow, StoreInv
  <2>5. RewindInv'
    BY <1>1 DEF IInv, RewindInv
  <2>6. QED
    BY <1>1, <2>2, <2>3, <2>4, <2>5 DEF IInv
<1>5. QED
  BY Zenon, <1>3, <1>4

\* What is deleted at the end is above the head.
LEMMA RewindFlushInv ==
  ASSUME IInv, RewindFlush
  PROVE  IInv'
<1>1. /\ status = "running" /\ rewind = "next" /\ rewind' = "idle" /\ target' = 0 /\ doomed' = {}
      /\ kv' = {b \in kv : number(b) \notin doomed}
      /\ canon' = [n \in Number |-> IF n \in doomed THEN NoBlock ELSE canon[n]]
      /\ UNCHANGED <<status, head, top, pending, writing, tables, safe, frozen, freezer, first,
                     limit,
                     ancients, block, todo, dangling>>
  BY Zenon DEF RewindFlush
<1>2. /\ pending = NoBlock /\ head \in Block /\ number(head) \in Nat
      /\ \A n \in Nat : n <= number(head) => n \notin doomed /\ number(Anc(head, n)) = n /\ n \in Number
  BY <1>1, Tree, Constants DEF IInv, TypeInv, RewindInv, Number
<1>3. TypeInv'
  BY Zenon, <1>1, Constants DEF IInv, TypeInv
<1>4. TableInv' /\ LengthInv' /\ RoundInv'
  BY Zenon, <1>1 DEF IInv, TableInv, LengthInv, Truncating, RoundInv
<1>5. PendingInv' /\ RewindInv'
  BY Zenon, <1>1, <1>2 DEF IInv, PendingInv, RewindInv
<1>6. StoreInv'
  BY <1>1, <1>2 DEF IInv, StoreInv
<1>7. QED
  BY Zenon, <1>1, <1>3, <1>4, <1>5, <1>6 DEF IInv

-----------------------------------------------------------------------------
(* A round of the freezer. *)

\* The range of a round is settled when it starts.
LEMMA FreezeStartInv ==
  ASSUME IInv, FreezeStart
  PROVE  IInv'
<1>1. /\ status = "running" /\ freezer = "idle" /\ freezer' = "read" /\ number(head) \in Nat
      /\ first' = frozen /\ limit' = Last /\ ancients' = <<>> /\ Due /\ frozen \in Nat /\ top \in Nat
      /\ number(head) <= top /\ (rewind = "idle" \/ Last <= target)
  BY Zenon, Tree DEF FreezeStart, IInv, TypeInv, RewindInv
<1>2. /\ Last \in Nat /\ frozen <= Last + 1 /\ Last + threshold <= top /\ Last <= number(head)
  BY <1>1, Constants DEF Last, Due, Min
<1>3. TypeInv'
  BY <1>1, <1>2 DEF IInv, TypeInv, FreezeStart
<1>4. TableInv' /\ LengthInv' /\ PendingInv' /\ RewindInv' /\ StoreInv'
  BY Zenon, <1>1 DEF IInv, FreezeStart, TableInv, LengthInv, Truncating, PendingInv, Shallow, RewindInv,
              StoreInv
<1>5. RoundInv'
  BY <1>1, <1>2 DEF RoundInv, FreezeStart
<1>6. QED
  BY Zenon, <1>1, <1>3, <1>4, <1>5 DEF IInv, FreezeStart

\* The block that is read is canonical: it cannot be in the tables yet.
LEMMA FreezeReadInv ==
  ASSUME IInv, FreezeRead
  PROVE  IInv'
<1>1. /\ status = "running" /\ freezer = "read" /\ frozen \in Nat /\ limit \in Nat
      /\ number(head) \in Nat /\ limit <= number(head) /\ \A t \in Table : Len(tables[t]) = frozen
  BY Zenon, Tree, Lengths DEF FreezeRead, IInv, TypeInv, RoundInv
<1>2. Freezable => frozen <= limit /\ canon[frozen] = Anc(head, frozen)
  BY <1>1, Constants DEF Freezable, IInv, StoreInv, TableInv, TypeInv
<1>3. TypeInv'
  BY Zenon, Constants DEF IInv, TypeInv, FreezeRead
<1>4. TableInv' /\ PendingInv' /\ RewindInv' /\ StoreInv'
  BY Zenon, <1>1 DEF IInv, FreezeRead, TableInv, PendingInv, Shallow, RewindInv, StoreInv
<1>5. LengthInv'
  <2>1. CASE Freezable
    <3>1. freezer' = "append" /\ todo' = {1} /\ UNCHANGED <<status, tables, frozen, rewind, head>>
      BY Zenon, <2>1 DEF FreezeRead
    <3>2. ~Truncating'
      BY Zenon, <1>1, <3>1, Lengths DEF Truncating
    <3>3. \A t \in Table : Len(tables[t]) = IF t < 1 THEN frozen + 1 ELSE frozen
      BY <1>1, Constants DEF Table
    <3>4. QED
      BY Zenon, <3>1, <3>2, <3>3, Constants DEF LengthInv
  <2>2. CASE ~Freezable
    BY Zenon, <1>1, <2>2, Constants, Lengths DEF FreezeRead, LengthInv, Truncating
  <2>3. QED
    BY Zenon, <2>1, <2>2
<1>6. RoundInv'
  BY Zenon, <1>1, <1>2 DEF IInv, RoundInv, FreezeRead
<1>7. QED
  BY Zenon, <1>1, <1>3, <1>4, <1>5, <1>6 DEF IInv, FreezeRead

\* While a block is appended, the tables before the t-th have it.
LEMMA Appending ==
  ASSUME IInv, freezer = "append", NEW t \in Table, todo = {t}
  PROVE  /\ status = "running" /\ frozen \in Nat /\ limit \in Nat /\ number(head) \in Nat /\ top \in Nat
         /\ frozen <= limit /\ limit <= number(head) /\ limit + threshold <= top
         /\ block = Anc(head, frozen) /\ block \in Block
         /\ \A u \in Table : Len(tables[u]) = IF u < t THEN frozen + 1 ELSE frozen
<1>1. /\ status = "running" /\ frozen \in Nat /\ limit \in Nat /\ number(head) \in Nat /\ top \in Nat
      /\ frozen <= limit /\ limit <= number(head) /\ limit + threshold <= top
      /\ block = Anc(head, frozen)
  BY Zenon, Tree DEF IInv, TypeInv, RoundInv
<1>2. block \in Block
  BY <1>1, Tree DEF IInv, TypeInv
<1>3. PICK k \in Table : /\ todo = {k}
                         /\ \A u \in Table : Len(tables[u]) = IF u < k THEN frozen + 1 ELSE frozen
  BY Zenon, <1>1 DEF IInv, LengthInv
<1>4. k = t
  BY Zenon, <1>3
<1>5. QED
  BY Zenon, <1>1, <1>2, <1>3, <1>4

\* The next item of a table is the canonical block of its number.
LEMMA AppendTableInv ==
  ASSUME IInv, NEW t \in Table, AppendTable(t)
  PROVE  IInv'
<1>1. /\ status = "running" /\ freezer = "append" /\ todo = {t} /\ Len(tables[t]) = frozen
      /\ frozen \in Nat /\ limit \in Nat /\ number(head) \in Nat /\ top \in Nat /\ first \in Nat
      /\ frozen <= limit /\ limit <= number(head) /\ limit + threshold <= top
      /\ block = Anc(head, frozen) /\ block \in Block /\ tables[t] \in Seq(Block)
      /\ ancients \in Seq(Block) /\ first + Len(ancients) = frozen
      /\ \A u \in Table : Len(tables[u]) = IF u < t THEN frozen + 1 ELSE frozen
  <2>1. /\ status = "running" /\ freezer = "append" /\ todo = {t} /\ Len(tables[t]) = frozen
    BY Zenon DEF AppendTable
  <2>2. /\ first \in Nat /\ ancients \in Seq(Block) /\ tables[t] \in Seq(Block)
        /\ first + Len(ancients) = frozen
    BY Zenon, <2>1 DEF IInv, TypeInv, RoundInv
  <2>3. QED
    BY Zenon, <2>1, <2>2, Appending
<1>2. /\ tables' \in [Table -> Seq(Block)] /\ tables'[t] = Append(tables[t], block)
      /\ \A u \in Table : u # t => tables'[u] = tables[u]
  BY <1>1 DEF AppendTable, IInv, TypeInv
<1>3. Len(tables'[t]) = frozen + 1 /\ tables'[t][frozen + 1] = block
      /\ \A n \in Nat : n < frozen => tables'[t][n + 1] = tables[t][n + 1]
  <2>1. PICK s \in Seq(Block) : s = tables[t] /\ Len(s) = frozen
    BY Zenon, <1>1
  <2>2. PICK b \in Block : b = block
    BY Zenon, <1>1
  <2>3. Len(Append(s, b)) = frozen + 1 /\ Append(s, b)[frozen + 1] = b
    BY <1>1, <2>1
  <2>4. \A n \in Nat : n < frozen => Append(s, b)[n + 1] = s[n + 1]
    BY <1>1, <2>1
  <2>5. QED
    BY Zenon, <1>2, <2>1, <2>2, <2>3, <2>4
<1>4. UNCHANGED <<status, kv, canon, head, top, pending, writing, safe, first, limit, block,
                  dangling,
                  rewind, target, doomed>>
  BY Zenon DEF AppendTable
<1>5. \/ /\ t < Tables /\ todo' = {t + 1} /\ UNCHANGED <<frozen, ancients, freezer>>
      \/ /\ ~(t < Tables) /\ frozen' = frozen + 1 /\ ancients' = Append(ancients, block)
         /\ todo' = {} /\ freezer' = "read"
  BY Zenon DEF AppendTable, MoreTables
<1>6. TypeInv'
  <2>1. todo' \subseteq Table
    BY <1>5, Constants DEF Table
  <2>2. frozen' \in Nat /\ ancients' \in Seq(Block)
    <3>1. frozen + 1 \in Nat /\ Append(ancients, block) \in Seq(Block)
      BY <1>1
    <3>2. QED
      BY Zenon, <1>1, <1>5, <3>1
  <2>3. QED
    BY Zenon, <1>2, <1>4, <2>1, <2>2 DEF IInv, TypeInv
<1>7. TableInv'
  <2>1. ASSUME NEW n \in Nat, n < frozen + 1
        PROVE  n + threshold <= top /\ n <= number(head) /\ tables'[t][n + 1] = Anc(head, n)
    <3>1. CASE n = frozen
      BY <1>1, <1>3, <3>1, Constants
    <3>2. CASE n < frozen
      <4>1. n < Len(tables[t]) /\ tables'[t][n + 1] = tables[t][n + 1]
        BY Zenon, <1>1, <1>3, <3>2
      <4>2. n + threshold <= top /\ (n <= number(head) => tables[t][n + 1] = Anc(head, n))
        BY Zenon, <4>1 DEF IInv, TableInv
      <4>3. n <= number(head)
        BY <1>1, <3>2
      <4>4. QED
        BY Zenon, <4>1, <4>2, <4>3
    <3>3. QED
      BY <1>1, <2>1, <3>1, <3>2
  <2>2. safe[t] <= frozen + 1
    BY <1>1, Constants DEF IInv, TableInv, TypeInv
  <2>3. /\ safe'[t] <= Len(tables'[t])
        /\ \A n \in Nat : n < Len(tables'[t]) =>
             /\ n + threshold <= top'
             /\ n <= number(head') /\ tables'[t][n + 1] = Anc(head', n)
    BY Zenon, <1>3, <1>4, <2>1, <2>2
  <2>4. ASSUME NEW u \in Table, u # t
        PROVE  /\ safe'[u] <= Len(tables'[u])
               /\ \A n \in Nat : n < Len(tables'[u]) =>
                    /\ n + threshold <= top'
                    /\ n <= number(head') => tables'[u][n + 1] = Anc(head', n)
                    /\ rewind' # "delete" => n <= number(head')
    <3>1. tables'[u] = tables[u]
      BY Zenon, <1>2, <2>4
    <3>2. QED
      BY Zenon, <1>4, <3>1 DEF IInv, TableInv
  <2>5. QED
    BY Zenon, <2>3, <2>4 DEF TableInv
<1>8. ~Truncating /\ ~Truncating'
  BY <1>1, <1>4, <1>5 DEF Truncating
<1>9. LengthInv'
  <2>1. \A u \in Table : Len(tables'[u]) = IF u < t + 1 THEN frozen + 1 ELSE frozen
    <3>1. ASSUME NEW u \in Table, u # t
          PROVE  Len(tables'[u]) = IF u < t + 1 THEN frozen + 1 ELSE frozen
      <4>1. u \in Nat /\ t \in Nat /\ (u < t + 1 <=> u < t)
        BY <3>1, Constants
      <4>2. QED
        BY Zenon, <1>1, <1>2, <3>1, <4>1
    <3>2. t < t + 1
      BY Constants
    <3>3. QED
      BY Zenon, <1>3, <3>1, <3>2
  <2>2. CASE t < Tables /\ todo' = {t + 1} /\ UNCHANGED <<frozen, ancients, freezer>>
    <3>1. t + 1 \in Table
      BY <2>2, Constants DEF Table
    <3>2. QED
      BY Zenon, <1>1, <1>8, <2>1, <2>2, <3>1 DEF LengthInv
  <2>3. CASE ~(t < Tables) /\ frozen' = frozen + 1 /\ freezer' = "read"
    <3>1. \A u \in Table : u < t + 1
      BY <2>3, Constants DEF Table
    <3>2. QED
      BY Zenon, <1>1, <1>8, <2>1, <2>3, <3>1 DEF LengthInv
  <2>4. QED
    BY Zenon, <1>5, <2>2, <2>3
<1>10. RoundInv'
  <2>1. CASE UNCHANGED <<frozen, ancients, freezer>>
    BY Zenon, <1>1, <1>4, <2>1 DEF IInv, RoundInv
  <2>2. CASE frozen' = frozen + 1 /\ ancients' = Append(ancients, block) /\ freezer' = "read"
    <3>1. first + Len(ancients') = frozen'
      BY SMTT(60), <1>1, <2>2
    <3>2. \A i \in 1..Len(ancients') : ancients'[i] = Anc(head, first + i - 1)
      BY SMTT(60), <1>1, <2>2 DEF IInv, RoundInv
    <3>3. frozen <= limit
      BY Zenon, <1>1 DEF IInv, RoundInv
    <3>4. frozen' <= limit + 1
      BY <1>1, <2>2, <3>3 DEF IInv, TypeInv
    <3>5. QED
      BY Zenon, <1>1, <1>4, <2>2, <3>1, <3>2, <3>4 DEF IInv, RoundInv
  <2>3. QED
    BY Zenon, <1>5, <2>1, <2>2
<1>11. PendingInv' /\ RewindInv' /\ StoreInv'
  BY Zenon, <1>4 DEF IInv, PendingInv, Shallow, RewindInv, StoreInv
<1>12. QED
  BY Zenon, <1>1, <1>4, <1>6, <1>7, <1>9, <1>10, <1>11 DEF IInv

\* Tables cut down to what is safe in all of them lose nothing that counts.
LEMMA Repaired ==
  ASSUME IInv, NEW n \in Nat, repair(n)
  PROVE  /\ tables' \in [Table -> Seq(Block)] /\ safe' \in [Table -> Nat] /\ frozen' = n
         /\ \A t \in Table :
              /\ Len(tables'[t]) = n /\ n <= Len(tables[t]) /\ safe'[t] <= n
              /\ \A m \in Nat : m < n => tables'[t][m + 1] = tables[t][m + 1]
         /\ \E t \in Table : Len(tables[t]) = n
         /\ \A m \in Nat : (\A t \in Table : m < safe[t]) => m < n /\ \A t \in Table : m < safe'[t]
<1>1. /\ frozen' = n /\ TruncateAll(n) /\ \A t \in Table : n <= Len(tables[t])
      /\ \E t \in Table : Len(tables[t]) = n
  BY Zenon DEF repair
<1>2. \A t \in Table : /\ tables[t] \in Seq(Block) /\ safe[t] \in Nat /\ safe[t] <= Len(tables[t])
  BY Zenon DEF IInv, TypeInv, TableInv
<1>3. /\ tables' = [t \in Table |-> Prefix(tables[t], n)]
      /\ safe' = [t \in Table |-> Min(safe[t], n)]
  BY Zenon, <1>1 DEF TruncateAll
<1>4. ASSUME NEW t \in Table
      PROVE  /\ tables'[t] \in Seq(Block) /\ Len(tables'[t]) = n
             /\ \A m \in Nat : m < n => tables'[t][m + 1] = tables[t][m + 1]
  <2>1. Min(n, Len(tables[t])) = n
    BY <1>1, <1>2 DEF Min
  <2>2. QED
    BY ZenonT(60), <1>2, <1>3, <2>1, Cut
<1>5. ASSUME NEW t \in Table
      PROVE  /\ safe'[t] \in Nat /\ safe'[t] <= n
             /\ \A m \in Nat : m < n /\ m < safe[t] => m < safe'[t]
  BY <1>2, <1>3 DEF Min
<1>6. ASSUME NEW m \in Nat, \A t \in Table : m < safe[t] PROVE m < n
  BY <1>1, <1>2, <1>6
<1>7. tables' \in [Table -> Seq(Block)] /\ safe' \in [Table -> Nat]
  BY Zenon, <1>3, <1>4, <1>5
<1>8. QED
  BY Zenon, <1>1, <1>4, <1>5, <1>6, <1>7

\* The conjuncts about the stores after a repair of the tables.
LEMMA RepairKeeps ==
  ASSUME IInv, NEW n \in Nat, repair(n), UNCHANGED <<kv, canon, head, top, rewind>>
  PROVE  TableInv' /\ StoreInv'
<1>1. TableInv'
  <2>1. ASSUME NEW t \in Table, NEW m \in Nat, m < n
        PROVE  /\ m + threshold <= top
               /\ m <= number(head) => tables'[t][m + 1] = Anc(head, m)
               /\ rewind # "delete" => m <= number(head)
    <3>1. m < Len(tables[t]) /\ tables'[t][m + 1] = tables[t][m + 1]
      <4>1. n <= Len(tables[t]) /\ Len(tables[t]) \in Nat
        BY Repaired DEF IInv, TypeInv
      <4>2. m < Len(tables[t])
        BY <2>1, <4>1
      <4>3. \A i \in Nat : i < n => tables'[t][i + 1] = tables[t][i + 1]
        BY ZenonT(60), Repaired
      <4>4. QED
        BY Zenon, <2>1, <4>2, <4>3
    <3>2. QED
      BY Zenon, <3>1 DEF IInv, TableInv
  <2>2. QED
    BY <2>1, Repaired DEF TableInv
<1>2. StoreInv'
  BY Zenon, Repaired DEF IInv, StoreInv
<1>3. QED
  BY Zenon, <1>1, <1>2

\* A failed append leaves the tables as they were before the block.
LEMMA AppendFailsInv ==
  ASSUME IInv, NEW t \in Table, AppendFails(t)
  PROVE  IInv'
<1>1. PICK n \in 0..(MaxNumber + 1) : repair(n)
  BY Zenon DEF AppendFails
<1>2. /\ status = "running" /\ freezer = "append" /\ todo = {t} /\ frozen \in Nat /\ n \in Nat
      /\ \A u \in Table : Len(tables[u]) = IF u < t THEN frozen + 1 ELSE frozen
  <2>1. status = "running" /\ freezer = "append" /\ todo = {t}
    BY Zenon DEF AppendFails
  <2>2. n \in Nat
    BY Constants
  <2>3. QED
    BY Zenon, <2>1, <2>2, Appending
<1>3. /\ freezer' = "sync" /\ todo' = Table
      /\ UNCHANGED <<status, kv, canon, head, top, pending, writing, first, limit, ancients,
                     block, dangling,
                     rewind, target, doomed>>
  BY Zenon DEF AppendFails
<1>4. n = frozen
  <2>1. PICK u \in Table : Len(tables[u]) = n
    BY Zenon, <1>1, <1>2, Repaired
  <2>2. n <= Len(tables[t]) /\ Len(tables[t]) = frozen
    BY SMTT(60), <1>1, <1>2, Repaired, Constants
  <2>3. frozen <= Len(tables[u])
    BY <1>2
  <2>4. QED
    BY <1>2, <2>1, <2>2, <2>3
<1>5. TypeInv'
  BY Zenon, <1>1, <1>2, <1>3, Repaired DEF IInv, TypeInv
<1>6. TableInv' /\ StoreInv'
  BY Zenon, <1>1, <1>2, <1>3, RepairKeeps
<1>7. LengthInv'
  <2>1. ~Truncating'
    BY Zenon, <1>1, <1>2, <1>3, <1>4, Lengths, Repaired DEF Truncating
  <2>2. \A u \in Table : Len(tables'[u]) = frozen'
    BY Zenon, <1>1, <1>2, Repaired
  <2>3. QED
    BY Zenon, <1>3, <2>1, <2>2 DEF LengthInv
<1>8. RoundInv'
  BY Zenon, <1>1, <1>2, <1>3, <1>4, Repaired DEF IInv, RoundInv
<1>9. PendingInv' /\ RewindInv'
  BY Zenon, <1>3 DEF IInv, PendingInv, Shallow, RewindInv
<1>10. QED
  BY Zenon, <1>2, <1>3, <1>5, <1>6, <1>7, <1>8, <1>9 DEF IInv

\* When nothing is left to sync all of every table is safe.
LEMMA SyncTableInv ==
  ASSUME IInv, NEW t \in Table, SyncTable(t)
  PROVE  IInv'
<1>1. /\ status = "running" /\ freezer = "sync" /\ t \in todo /\ todo' = todo \ {t}
      /\ safe' = [safe EXCEPT ![t] = Len(tables[t])]
      /\ freezer' = IF todo' = {} THEN "wipe" ELSE "sync"
  BY Zenon DEF SyncTable, Flushed
<1>2. UNCHANGED <<status, kv, canon, head, top, pending, writing, tables, frozen, first, limit,
                  ancients,
                  block, dangling, rewind, target, doomed>>
  BY Zenon DEF SyncTable
<1>3. /\ safe' \in [Table -> Nat] /\ safe'[t] = Len(tables[t])
      /\ \A u \in Table : u # t => safe'[u] = safe[u]
  BY <1>1 DEF IInv, TypeInv
<1>4. \A u \in Table : safe[u] <= safe'[u] /\ safe'[u] <= Len(tables[u])
  <2>1. \A u \in Table : safe[u] \in Nat /\ tables[u] \in Seq(Block) /\ safe[u] <= Len(tables[u])
    BY Zenon DEF IInv, TypeInv, TableInv
  <2>2. QED
    BY SMTT(60), <1>3, <2>1
<1>5. TypeInv'
  BY Zenon, <1>1, <1>2, <1>3 DEF IInv, TypeInv
<1>6. TableInv'
  BY Zenon, <1>2, <1>4 DEF IInv, TableInv
<1>7. LengthInv' /\ PendingInv' /\ RewindInv'
  BY Zenon, <1>1, <1>2 DEF IInv, LengthInv, Truncating, PendingInv, Shallow, RewindInv
<1>8. RoundInv'
  <2>1. \A u \in Table : u \notin todo' => safe'[u] = Len(tables[u])
    BY Zenon, <1>1, <1>3 DEF IInv, RoundInv
  <2>2. QED
    BY Zenon, <1>1, <1>2, <2>1 DEF IInv, RoundInv
<1>9. StoreInv'
  <2>1. ASSUME NEW m \in Nat, \A u \in Table : m < safe[u] PROVE \A u \in Table : m < safe'[u]
    BY <1>3, <1>4, <2>1 DEF IInv, TypeInv
  <2>2. QED
    BY Zenon, <1>2, <2>1 DEF IInv, StoreInv
<1>10. QED
  BY Zenon, <1>1, <1>2, <1>5, <1>6, <1>7, <1>8, <1>9 DEF IInv

\* What leaves the key-value store is safe in every table by then.
LEMMA WipeCanonicalInv ==
  ASSUME IInv, WipeCanonical
  PROVE  IInv'
<1>1. /\ status = "running" /\ freezer = "wipe" /\ freezer' = "side"
      /\ kv' = kv \ {ancients[i] : i \in Batch}
      /\ canon' = [n \in Number |->
                     IF \E i \in Batch : n = first + i - 1 THEN NoBlock ELSE canon[n]]
      /\ UNCHANGED <<status, head, top, pending, writing, tables, safe, frozen, first, limit,
                     ancients,
                     block, todo, dangling, rewind, target, doomed>>
  BY ZenonT(60) DEF WipeCanonical
<1>2. /\ first \in Nat /\ frozen \in Nat /\ Len(ancients) \in Nat /\ first + Len(ancients) = frozen
      /\ limit \in Nat /\ frozen <= limit + 1 /\ limit <= number(head) /\ number(head) \in Nat
      /\ head \in Block
      /\ \A i \in 1..Len(ancients) : ancients[i] = Anc(head, first + i - 1)
      /\ \A t \in Table : safe[t] = frozen
  <2>1. /\ first + Len(ancients) = frozen /\ frozen <= limit + 1 /\ limit <= number(head)
        /\ \A i \in 1..Len(ancients) : ancients[i] = Anc(head, first + i - 1)
        /\ \A t \in Table : safe[t] = Len(tables[t])
    BY Zenon, <1>1 DEF IInv, RoundInv
  <2>2. \A t \in Table : Len(tables[t]) = frozen
    BY <1>1, Lengths
  <2>3. /\ first \in Nat /\ frozen \in Nat /\ limit \in Nat /\ Len(ancients) \in Nat /\ head \in Block
    BY DEF IInv, TypeInv
  <2>4. number(head) \in Nat
    BY Zenon, <2>3, Tree
  <2>5. QED
    BY Zenon, <2>1, <2>2, <2>3, <2>4
<1>3. \A i \in Batch : /\ first + i - 1 \in Nat /\ first + i - 1 # 0
                       /\ first + i - 1 < frozen /\ first + i - 1 <= number(head)
                       /\ ancients[i] = Anc(head, first + i - 1)
                       /\ number(ancients[i]) = first + i - 1
  BY <1>2, Tree DEF Batch
<1>4. TypeInv'
  BY Zenon, <1>1 DEF IInv, TypeInv
<1>5. TableInv' /\ LengthInv' /\ RewindInv'
  BY Zenon, <1>1 DEF IInv, TableInv, LengthInv, Truncating, RewindInv
<1>6. RoundInv'
  <2>1. ASSUME NEW n \in Nat, first <= n, n < frozen, n # 0 PROVE Anc(head, n) \notin kv'
    <3>1. n - first + 1 \in Batch /\ first + (n - first + 1) - 1 = n
      BY <1>2, <2>1 DEF Batch
    <3>2. ancients[n - first + 1] = Anc(head, n)
      BY Zenon, <1>3, <3>1
    <3>3. QED
      BY Zenon, <1>1, <3>1, <3>2
  <2>2. QED
    BY Zenon, <1>1, <2>1 DEF IInv, RoundInv
<1>7. PendingInv'
  <2>1. ASSUME NEW n \in Nat, pending # NoBlock, n <= number(pending)
        PROVE  (n <= number(head) /\ Anc(pending, n) = Anc(head, n)) \/ Anc(pending, n) \in kv'
    <3>1. pending \in Block /\ number(Anc(pending, n)) = n
      BY Zenon, <2>1, Tree DEF IInv, TypeInv
    <3>2. CASE \E i \in Batch : Anc(pending, n) = ancients[i]
      BY Zenon, <1>3, <3>1, <3>2
    <3>3. CASE ~\E i \in Batch : Anc(pending, n) = ancients[i]
      BY Zenon, <1>1, <2>1, <3>3 DEF IInv, PendingInv
    <3>4. QED
      BY Zenon, <3>2, <3>3
  <2>2. QED
    BY Zenon, <1>1, <2>1 DEF IInv, PendingInv, Shallow
<1>8. StoreInv'
  <2>1. canon'[0] = genesis
    BY Zenon, <1>1, <1>3, Constants DEF IInv, StoreInv
  <2>2. ASSUME NEW n \in Nat, n <= number(head), ~ \A t \in Table : n < safe[t]
        PROVE  Anc(head, n) \in kv' /\ canon'[n] = Anc(head, n)
    <3>1. ~(n < frozen) /\ number(Anc(head, n)) = n /\ n \in Number
      BY <1>2, <2>2, Tree DEF Number
    <3>2. Anc(head, n) \in kv /\ canon[n] = Anc(head, n)
      BY Zenon, <2>2 DEF IInv, StoreInv
    <3>3. \A i \in Batch : n # first + i - 1 /\ Anc(head, n) # ancients[i]
      BY Zenon, <1>2, <1>3, <3>1
    <3>4. QED
      BY Zenon, <1>1, <3>1, <3>2, <3>3
  <2>3. QED
    BY Zenon, <1>1, <2>1, <2>2 DEF StoreInv
<1>9. QED
  BY Zenon, <1>1, <1>4, <1>5, <1>6, <1>7, <1>8 DEF IInv

\* A side block at a frozen number belongs to no chain that can become canonical.
LEMMA WipeSideInv ==
  ASSUME IInv, WipeSide
  PROVE  IInv'
<1>1. /\ status = "running" /\ freezer = "side" /\ freezer' = "dangling"
      /\ kv' = {b \in kv : ~Side(b)} /\ dangling' = Dangling
      /\ UNCHANGED <<status, canon, head, top, pending, writing, tables, safe, frozen, first, limit,
                     ancients, block, todo, rewind, target, doomed>>
  BY Zenon DEF WipeSide
<1>2. /\ first \in Nat /\ frozen \in Nat /\ limit \in Nat /\ frozen <= limit + 1
      /\ limit <= number(head) /\ limit + threshold <= top /\ top \in Nat
      /\ number(head) \in Nat /\ head \in Block
      /\ \A t \in Table : safe[t] = frozen
  BY Zenon, <1>1, Tree, Lengths DEF IInv, TypeInv, RoundInv
<1>3. TypeInv'
  BY Zenon, <1>1 DEF IInv, TypeInv, Dangling, ReadAllHashes
<1>4. TableInv' /\ LengthInv' /\ RewindInv'
  BY Zenon, <1>1 DEF IInv, TableInv, LengthInv, Truncating, RewindInv
<1>5. RoundInv'
  <2>1. ASSUME NEW b \in dangling', frozen > 0 PROVE b # Anc(head, frozen - 1)
    <3>1. b \in kv /\ first <= frozen - 1 /\ frozen - 1 # 0 /\ frozen - 1 \in Nat
      BY <1>1, <1>2, <2>1 DEF Dangling, ReadAllHashes
    <3>2. QED
      BY SMTT(60), <1>1, <1>2, <3>1 DEF IInv, RoundInv
  <2>2. QED
    BY Zenon, <1>1, <2>1 DEF IInv, RoundInv
<1>6. PendingInv'
  <2>1. ASSUME NEW n \in Nat, pending # NoBlock, n <= number(pending)
        PROVE  (n <= number(head) /\ Anc(pending, n) = Anc(head, n)) \/ Anc(pending, n) \in kv'
    <3>1. pending \in Block /\ number(Anc(pending, n)) = n /\ Shallow(pending)
      BY Zenon, <2>1, Tree DEF IInv, TypeInv, PendingInv
    <3>2. CASE n < frozen
      <4>1. n <= number(head) /\ n + threshold <= top
        BY <1>2, <3>2, Constants
      <4>2. QED
        BY Zenon, <3>1, <4>1, Settled DEF IInv
    <3>3. CASE ~(n < frozen)
      BY Zenon, <1>1, <2>1, <3>1, <3>3 DEF IInv, PendingInv, Side
    <3>4. QED
      BY Zenon, <3>2, <3>3
  <2>2. QED
    BY Zenon, <1>1, <2>1 DEF IInv, PendingInv, Shallow
<1>7. StoreInv'
  <2>1. ASSUME NEW n \in Nat, n <= number(head), ~ \A t \in Table : n < safe[t]
        PROVE  Anc(head, n) \in kv' /\ canon[n] = Anc(head, n)
    <3>1. ~(n < frozen) /\ number(Anc(head, n)) = n
      BY Zenon, <1>2, <2>1, Tree
    <3>2. QED
      BY Zenon, <1>1, <2>1, <3>1 DEF IInv, StoreInv, Side
  <2>2. QED
    BY Zenon, <1>1, <2>1 DEF IInv, StoreInv
<1>8. QED
  BY Zenon, <1>1, <1>3, <1>4, <1>5, <1>6, <1>7 DEF IInv

\* Nor does what builds on one.
LEMMA WipeDanglingInv ==
  ASSUME IInv, WipeDangling
  PROVE  IInv'
<1>1. /\ status = "running" /\ freezer = "dangling" /\ freezer' = "idle"
      /\ kv' = (IF frozen > 0 THEN {b \in kv : ~OnDangling(b)} ELSE kv)
      /\ first' = 0 /\ limit' = 0 /\ ancients' = <<>> /\ dangling' = {}
      /\ UNCHANGED <<status, canon, head, top, pending, writing, tables, safe, frozen, todo, rewind,
                     target, doomed>>
  BY Zenon DEF WipeDangling
<1>2. /\ frozen \in Nat /\ limit \in Nat /\ frozen <= limit + 1
      /\ limit <= number(head) /\ limit + threshold <= top /\ top \in Nat
      /\ number(head) \in Nat /\ head \in Block
      /\ frozen > 0 => Anc(head, frozen - 1) \notin dangling
  BY Zenon, <1>1, Tree DEF IInv, TypeInv, RoundInv
<1>3. ASSUME NEW b \in Block, NEW n \in Nat, n <= number(b), Anc(b, n) \in kv, Anc(b, n) \notin kv'
      PROVE  frozen > 0 /\ frozen - 1 <= n /\ Anc(b, frozen - 1) \in dangling
  <2>1. frozen > 0 /\ number(Anc(b, n)) >= frozen /\ Anc(Anc(b, n), frozen - 1) \in dangling
    BY Zenon, <1>1, <1>3 DEF OnDangling
  <2>2. QED
    BY <1>2, <1>3, <2>1, Tree
<1>4. TypeInv'
  BY <1>1 DEF IInv, TypeInv
<1>5. TableInv' /\ LengthInv' /\ RewindInv'
  BY Zenon, <1>1 DEF IInv, TableInv, LengthInv, Truncating, RewindInv
<1>6. RoundInv'
  BY Zenon, <1>1 DEF RoundInv
<1>7. PendingInv'
  <2>1. ASSUME NEW n \in Nat, pending # NoBlock, n <= number(pending)
        PROVE  (n <= number(head) /\ Anc(pending, n) = Anc(head, n)) \/ Anc(pending, n) \in kv'
    <3>1. pending \in Block /\ Shallow(pending)
      BY Zenon, <2>1 DEF IInv, TypeInv, PendingInv
    <3>2. frozen > 0 => Anc(pending, frozen - 1) = Anc(head, frozen - 1)
      BY <1>2, <3>1, Settled, Constants DEF IInv
    <3>3. Anc(pending, n) \in kv => Anc(pending, n) \in kv'
      BY Zenon, <1>2, <1>3, <2>1, <3>1, <3>2
    <3>4. QED
      BY Zenon, <2>1, <3>3 DEF IInv, PendingInv
  <2>2. QED
    BY Zenon, <1>1, <2>1 DEF IInv, PendingInv, Shallow
<1>8. StoreInv'
  <2>1. \A n \in Nat : n <= number(head) /\ Anc(head, n) \in kv => Anc(head, n) \in kv'
    BY Zenon, <1>2, <1>3
  <2>2. QED
    BY Zenon, <1>1, <2>1 DEF IInv, StoreInv
<1>9. QED
  BY Zenon, <1>1, <1>4, <1>5, <1>6, <1>7, <1>8 DEF IInv

-----------------------------------------------------------------------------
(* Failure and restart. *)

\* What a crash leaves of the tables is at least what is safe.
LEMMA CrashInv ==
  ASSUME ~CrashInTruncate, IInv, Crash
  PROVE  IInv'
<1>1. PICK k \in [Table -> 0..(MaxNumber + 1)] :
        /\ \A t \in Table : safe[t] <= k[t] /\ k[t] <= Len(tables[t])
        /\ tables' = [t \in Table |-> Prefix(tables[t], k[t])]
  BY Zenon DEF Crash
<1>2. /\ status = "running" /\ status' = "down" /\ safe' = safe /\ frozen' = 0
      /\ freezer' = "idle" /\ first' = 0 /\ limit' = 0 /\ ancients' = <<>> /\ todo' = {} /\ dangling' = {}
      /\ rewind' = "idle" /\ target' = 0 /\ doomed' = {} /\ pending' = NoBlock /\ writing' = "idle"
      /\ UNCHANGED <<kv, canon, head, top>>
  BY Zenon DEF Crash
<1>3. ~Truncating /\ number(head) \in Nat
  BY Tree DEF Crash, Truncating, IInv, TypeInv
<1>4. ASSUME NEW t \in Table
      PROVE  /\ tables'[t] \in Seq(Block) /\ safe[t] <= Len(tables'[t])
             /\ \A n \in Nat : n < Len(tables'[t]) =>
                  n < Len(tables[t]) /\ tables'[t][n + 1] = tables[t][n + 1]
  <2>1. PICK m \in Nat : m = k[t]
    BY Constants
  <2>2. PICK s \in Seq(Block) : s = tables[t]
    BY Zenon DEF IInv, TypeInv
  <2>3. Len(s) \in Nat /\ Min(m, Len(s)) = m /\ safe[t] <= m /\ m <= Len(s)
    BY <1>1, <2>1, <2>2 DEF Min
  <2>4. tables'[t] = Prefix(s, m)
    BY Zenon, <1>1, <2>1, <2>2
  <2>5. /\ Prefix(s, m) \in Seq(Block) /\ Len(Prefix(s, m)) = m
        /\ \A n \in Nat : n < m => Prefix(s, m)[n + 1] = s[n + 1]
    BY Zenon, <2>3, Cut
  <2>6. \A n \in Nat : n < m => n < Len(s)
    BY <2>3
  <2>7. QED
    BY Zenon, <2>2, <2>3, <2>4, <2>5, <2>6
<1>5. TypeInv'
  <2>1. tables' \in [Table -> Seq(Block)]
    BY Zenon, <1>1, <1>4
  <2>2. QED
    BY <1>2, <2>1, Constants DEF IInv, TypeInv
<1>6. TableInv'
  <2>1. ASSUME NEW t \in Table, NEW n \in Nat, n < Len(tables'[t])
        PROVE  n + threshold <= top /\ n <= number(head) /\ tables'[t][n + 1] = Anc(head, n)
    <3>1. n < Len(tables[t]) /\ tables'[t][n + 1] = tables[t][n + 1]
      BY Zenon, <1>4, <2>1
    <3>2. n <= number(head)
      BY Zenon, <1>2, <1>3, <3>1, TablesEnd
    <3>3. QED
      BY Zenon, <3>1, <3>2 DEF IInv, TableInv
  <2>2. QED
    BY Zenon, <1>2, <1>4, <2>1 DEF TableInv
<1>7. LengthInv' /\ RoundInv' /\ PendingInv'
  BY Zenon, <1>2 DEF LengthInv, RoundInv, PendingInv
<1>8. RewindInv' /\ StoreInv'
  BY Zenon, <1>2 DEF IInv, RewindInv, StoreInv
<1>9. QED
  BY Zenon, <1>2, <1>5, <1>6, <1>7, <1>8 DEF IInv

\* The checks at startup find the genesis and the block after the last one.
LEMMA NotRefused ==
  ASSUME IInv, NEW n \in Nat, repair(n)
  PROVE  ~Refuses(n)
<1>1. /\ canon[0] = genesis /\ genesis # NoBlock /\ head \in Block /\ number(head) \in Nat
      /\ \A t \in Table : n <= Len(tables[t])
  BY Zenon, Tree, Constants, Repaired DEF IInv, StoreInv, TypeInv
<1>2. PICK t \in Table : Len(tables[t]) = n /\ safe[t] \in Nat /\ safe[t] <= n
  <2>1. PICK t \in Table : Len(tables[t]) = n
    BY Zenon, Repaired
  <2>2. QED
    BY Zenon, <2>1 DEF IInv, TypeInv, TableInv
<1>3. ASSUME NEW m \in Nat, n <= m, m <= number(head)
      PROVE  m \in Number /\ canon[m] # NoBlock
  <2>1. canon[m] = Anc(head, m)
    BY <1>2, <1>3 DEF IInv, StoreInv
  <2>2. QED
    BY <1>1, <1>3, <2>1, Tree, Constants DEF Number
<1>4. CASE n > 0
  <2>1. Ancient(1, 0) = genesis
    <3>1. 0 < Len(tables[1])
      BY <1>1, <1>4, Constants DEF IInv, TypeInv
    <3>2. 0 <= number(head) /\ Anc(head, 0) = genesis
      BY <1>1, Tree
    <3>3. tables[1][0 + 1] = Anc(head, 0)
      BY Zenon, <3>1, <3>2, Constants DEF IInv, TableInv
    <3>4. QED
      BY Zenon, <3>2, <3>3 DEF Ancient
  <2>2. ~((n \notin Number \/ canon[n] = NoBlock) /\ number(head) > n - 1)
    BY <1>1, <1>3
  <2>3. QED
    BY Zenon, <1>1, <1>4, <2>1, <2>2 DEF Refuses
<1>5. CASE n = 0
  <2>1. head # genesis => number(head) >= 1
    BY <1>1, Tree
  <2>2. head # genesis => canon[1] # NoBlock
    BY <1>1, <1>3, <1>5, <2>1
  <2>3. QED
    BY <1>5, <2>2 DEF Refuses
<1>6. QED
  BY <1>4, <1>5

\* So the chain opens, with tables of one length.
LEMMA OpenInv ==
  ASSUME IInv, Open
  PROVE  IInv'
<1>1. PICK n \in 0..(MaxNumber + 1) : repair(n) /\ status' = IF Refuses(n) THEN "refused" ELSE "running"
  BY Zenon DEF Open
<1>2. /\ status = "down" /\ n \in Nat
      /\ UNCHANGED <<kv, canon, head, top, pending, writing, freezer, first, limit, ancients,
                     block, todo,
                     dangling, rewind, target, doomed>>
  BY Constants DEF Open
<1>3. status' = "running" /\ freezer = "idle" /\ rewind = "idle" /\ pending = NoBlock
  <2>1. ~Refuses(n)
    BY Zenon, <1>1, <1>2, NotRefused
  <2>2. status' = "running"
    BY Zenon, <1>1, <2>1
  <2>3. freezer = "idle" /\ rewind = "idle" /\ pending = NoBlock
    BY Zenon, <1>2 DEF IInv, RoundInv, RewindInv, PendingInv
  <2>4. QED
    BY Zenon, <2>2, <2>3
<1>4. TypeInv'
  BY Zenon, <1>1, <1>2, <1>3, Repaired DEF IInv, TypeInv
<1>5. TableInv' /\ StoreInv'
  BY Zenon, <1>1, <1>2, RepairKeeps
<1>6. LengthInv'
  <2>1. frozen' = n /\ \A t \in Table : Len(tables'[t]) = n
    BY Zenon, <1>1, <1>2, Repaired
  <2>2. freezer' = "idle" /\ rewind' = "idle" /\ status' = "running"
    BY Zenon, <1>2, <1>3
  <2>3. QED
    BY Zenon, <2>1, <2>2 DEF LengthInv, Truncating
<1>7. RoundInv' /\ PendingInv' /\ RewindInv'
  BY Zenon, <1>2, <1>3 DEF IInv, RoundInv, PendingInv, RewindInv
<1>8. QED
  BY Zenon, <1>3, <1>4, <1>5, <1>6, <1>7 DEF IInv

\* A reader changes nothing.
LEMMA ReadInv ==
  ASSUME IInv, (\E n \in Number : ReadStart(n)) \/ ReadBody \/ UNCHANGED vars
  PROVE  IInv'
<1>1. UNCHANGED <<status, kv, canon, head, top, pending, writing, tables, safe, frozen,
                  freezer, first,
                  limit, ancients, block, todo, dangling, rewind, target, doomed>>
  BY Zenon DEF ReadStart, ReadBody, ReadStep, vars
<1>2. QED
  <2>1. TypeInv' /\ TableInv' /\ LengthInv'
    BY Zenon, <1>1 DEF IInv, TypeInv, TableInv, LengthInv, Truncating
  <2>2. RoundInv' /\ PendingInv' /\ RewindInv' /\ StoreInv'
    BY Zenon, <1>1 DEF IInv, RoundInv, PendingInv, Shallow, RewindInv, StoreInv
  <2>3. QED
    BY Zenon, <1>1, <2>1, <2>2 DEF IInv

-----------------------------------------------------------------------------
(* The theorems. *)

\* IInv is inductive: one lemma for each action.
THEOREM Invariance ==
  ASSUME ~CrashInTruncate
  PROVE  Spec => []IInv
<1>1. IInv /\ [Next]_vars => IInv'
  <2>. SUFFICES ASSUME IInv, [Next]_vars PROVE IInv'
    BY Zenon
  <2>1. CASE \E b \in Block, n \in 0..number(head) : Import(b, n)
    BY Zenon, <2>1, ImportInv
  <2>2. CASE \E n \in 0..number(head) : ReorgBlock(n) \/ ReorgIndexes(n)
    BY Zenon, <2>2, ReorgBlockInv, ReorgIndexesInv
  <2>3. CASE NewHead \/ FreezeStart \/ FreezeRead \/ WipeCanonical \/ WipeSide \/ WipeDangling
    BY Zenon, <2>3, NewHeadInv, FreezeStartInv, FreezeReadInv, WipeCanonicalInv, WipeSideInv,
       WipeDanglingInv
  <2>4. CASE \E t \in Table : AppendTable(t) \/ AppendFails(t) \/ SyncTable(t) \/ RewindTable(t)
    BY Zenon, <2>4, AppendTableInv, AppendFailsInv, SyncTableInv, RewindTableInv
  <2>5. CASE (\E n \in Number : SetHead(n)) \/ RewindMarker \/ RewindFrozen \/ RewindFlush
    BY Zenon, <2>5, SetHeadInv, RewindMarkerInv, RewindFrozenInv, RewindFlushInv
  <2>6. CASE Crash \/ Open
    BY Zenon, <2>6, CrashInv, OpenInv
  <2>7. CASE (\E n \in Number : ReadStart(n)) \/ ReadBody \/ UNCHANGED vars
    BY Zenon, <2>7, ReadInv
  <2>8. QED
    BY Zenon, <2>1, <2>2, <2>3, <2>4, <2>5, <2>6, <2>7 DEF Next
<1>2. QED
  BY InitInv, <1>1, PTL DEF Spec

\* Freezing, rewinding and crashing lose no canonical block: each is in the
\* key-value store or safe in every table of the freezer.
THEOREM NoBlockLost ==
  ASSUME ~CrashInTruncate
  PROVE  Spec => []NothingMissing
<1>1. IInv => NothingMissing
  <2>. SUFFICES ASSUME IInv, NEW n \in 0..number(head),
                       ~(Anc(head, n) \in kv /\ canon[n] = Anc(head, n)), NEW t \in Table
                PROVE  n < safe[t] /\ Ancient(t, n) = Anc(head, n)
    BY Zenon DEF NothingMissing
  <2>1. n \in Nat /\ n <= number(head)
    BY Tree DEF IInv, TypeInv
  <2>2. n < safe[t]
    BY Zenon, <2>1 DEF IInv, StoreInv
  <2>3. n < Len(tables[t])
    BY <2>1, <2>2 DEF IInv, TypeInv, TableInv
  <2>4. QED
    BY Zenon, <2>1, <2>2, <2>3 DEF IInv, TableInv, Ancient
<1>2. QED
  BY <1>1, Invariance, PTL

\* A table of the freezer holds the canonical chain and nothing else.
THEOREM OnlyCanonicalFrozen ==
  ASSUME ~CrashInTruncate
  PROVE  Spec => []AncientsCanonical
<1>1. IInv => AncientsCanonical
  BY Zenon, Constants DEF IInv, TableInv, AncientsCanonical, Has, Ancient
<1>2. QED
  BY <1>1, Invariance, PTL

\* The tables agree on their length outside of an append and a truncation.
THEOREM TablesStayAligned ==
  ASSUME ~CrashInTruncate
  PROVE  Spec => []TablesAligned
<1>1. IInv => TablesAligned
  BY Zenon, Lengths DEF TablesAligned, Truncating
<1>2. QED
  BY <1>1, Invariance, PTL

\* NewDatabaseWithFreezer never refuses the database that a crash left.
THEOREM AlwaysStarts ==
  ASSUME ~CrashInTruncate
  PROVE  Spec => []StartsUp
<1>1. IInv => StartsUp
  BY Zenon DEF IInv, StartsUp
<1>2. QED
  BY <1>1, Invariance, PTL

\* Steps that touch no table.
Untouched == UNCHANGED <<tables, safe>>

\* A repair truncates each of the logs.
LEMMA RepairTruncates ==
  ASSUME IInv, NEW n \in Nat, repair(n), NEW t \in Table
  PROVE  Log(t)!Truncate
<1>1. /\ tables'[t] = Prefix(tables[t], n) /\ safe'[t] = Min(safe[t], n)
      /\ n <= Len(tables[t]) /\ Len(tables[t]) \in Nat /\ safe[t] \in Nat
  BY DEF repair, TruncateAll, IInv, TypeInv
<1>2. Prefix(tables[t], n) = SubSeq(tables[t], 1, n) /\ n \in 0..Len(tables[t])
  BY <1>1 DEF Prefix, Min
<1>3. QED
  BY Zenon, <1>1, <1>2 DEF Log!Truncate, Min

\* The freezer uses its tables as logs: it appends to them, cuts off their end
\* and syncs them, and a crash takes no more than what was not synced.
THEOREM UsesLogs ==
  ASSUME ~CrashInTruncate
  PROVE  Spec => TablesAreLogs
<1>1. Init => \A t \in Table : Log(t)!Init
  BY Zenon DEF Init, Log!Init
<1>2. IInv /\ [Next]_vars => [\A t \in Table : [Log(t)!Next]_<<tables[t], safe[t]>>]_<<tables,
                                                               safe>>
  <2>. SUFFICES ASSUME IInv, [Next]_vars
                PROVE  Untouched \/ \A t \in Table : Log(t)!Next \/ UNCHANGED <<tables[t], safe[t]>>
    BY Zenon DEF Untouched
  <2>1. CASE \/ \E b \in Block, n \in 0..number(head) : Import(b, n)
             \/ \E n \in 0..number(head) : ReorgBlock(n) \/ ReorgIndexes(n)
             \/ NewHead \/ FreezeStart \/ FreezeRead \/ WipeCanonical \/ WipeSide \/ WipeDangling
             \/ (\E n \in Number : SetHead(n)) \/ RewindMarker \/ RewindFrozen \/ RewindFlush
             \/ (\E n \in Number : ReadStart(n)) \/ ReadBody \/ UNCHANGED vars
    BY Zenon, <2>1
       DEF Untouched, Import, ReorgBlock, ReorgIndexes, NewHead, FreezeStart, FreezeRead,
                WipeCanonical, WipeSide, WipeDangling, SetHead, RewindMarker, RewindFrozen, RewindFlush,
                ReadStart, ReadBody, ReadStep, vars
  <2>2. ASSUME NEW t \in Table, AppendTable(t), NEW u \in Table
        PROVE  Log(u)!Next \/ UNCHANGED <<tables[u], safe[u]>>
    <3>1. block \in Block
      BY Zenon, <2>2, Appending DEF AppendTable
    <3>2. tables' = [tables EXCEPT ![t] = Append(@, block)] /\ safe' = safe
      BY Zenon, <2>2 DEF AppendTable
    <3>3. CASE u = t
      BY Zenon, <3>1, <3>2, <3>3 DEF Log!Next, Log!AppendItem, IInv, TypeInv
    <3>4. CASE u # t
      BY Zenon, <3>2, <3>4 DEF IInv, TypeInv
    <3>5. QED
      BY Zenon, <3>3, <3>4
  <2>3. ASSUME NEW n \in 0..(MaxNumber + 1), repair(n), NEW u \in Table PROVE Log(u)!Next
    <3>1. n \in Nat
      BY Constants
    <3>2. QED
      BY Zenon, <2>3, <3>1, RepairTruncates DEF Log!Next
  <2>4. ASSUME NEW t \in Table, SyncTable(t), NEW u \in Table
        PROVE  Log(u)!Next \/ UNCHANGED <<tables[u], safe[u]>>
    <3>1. safe' = [safe EXCEPT ![t] = Len(tables[t])] /\ tables' = tables
      BY Zenon, <2>4 DEF SyncTable, Flushed
    <3>2. CASE u = t
      BY Zenon, <3>1, <3>2 DEF Log!Next, Log!Sync, IInv, TypeInv
    <3>3. CASE u # t
      BY Zenon, <3>1, <3>3 DEF IInv, TypeInv
    <3>4. QED
      BY <3>2, <3>3
  <2>5. ASSUME NEW t \in Table, RewindTable(t), NEW u \in Table
        PROVE  Log(u)!Next \/ UNCHANGED <<tables[u], safe[u]>>
    <3>1. PICK k \in Nat : k = number(head) + 1
      BY SMTT(60), Tree DEF IInv, TypeInv
    <3>2. /\ tables' = [tables EXCEPT ![t] = Prefix(@, k)] /\ safe' = [safe EXCEPT ![t] = Min(@, k)]
          /\ Len(tables[t]) > k /\ Len(tables[t]) \in Nat /\ safe[t] \in Nat
      BY <2>5, <3>1 DEF RewindTable, Beyond, IInv, TypeInv
    <3>3. CASE u = t
      <4>1. Prefix(tables[t], k) = SubSeq(tables[t], 1, k) /\ k \in 0..Len(tables[t])
        BY <3>2 DEF Prefix, Min
      <4>2. tables'[t] = SubSeq(tables[t], 1, k) /\ safe'[t] = Min(safe[t], k)
        BY Zenon, <3>2, <4>1 DEF IInv, TypeInv
      <4>3. QED
        BY Zenon, <3>3, <4>1, <4>2 DEF Log!Next, Log!Truncate, Min
    <3>4. CASE u # t
      BY Zenon, <3>2, <3>4 DEF IInv, TypeInv
    <3>5. QED
      BY Zenon, <3>3, <3>4
  <2>6. ASSUME Crash, NEW u \in Table PROVE Log(u)!Next
    <3>1. PICK k \in [Table -> 0..(MaxNumber + 1)] :
            /\ \A t \in Table : safe[t] <= k[t] /\ k[t] <= Len(tables[t])
            /\ tables' = [t \in Table |-> Prefix(tables[t], k[t])]
      BY Zenon, <2>6 DEF Crash
    <3>2. PICK m \in Nat : m = k[u]
      BY Constants
    <3>3. /\ safe[u] <= m /\ m <= Len(tables[u]) /\ tables'[u] = Prefix(tables[u], m) /\ safe' = safe
          /\ safe[u] \in Nat /\ Len(tables[u]) \in Nat
      BY <2>6, <3>1, <3>2 DEF Crash, IInv, TypeInv
    <3>4. Prefix(tables[u], m) = SubSeq(tables[u], 1, m) /\ m \in safe[u]..Len(tables[u])
      BY <3>3 DEF Prefix, Min
    <3>5. QED
      BY Zenon, <3>3, <3>4 DEF Log!Next, Log!Crash
  <2>7. CASE Open \/ \E t \in Table : AppendFails(t)
    BY Zenon, <2>3, <2>7 DEF Open, AppendFails
  <2>8. QED
    BY Zenon, <2>1, <2>2, <2>4, <2>5, <2>6, <2>7 DEF Next
<1>3. QED
  BY <1>1, <1>2, Invariance, PTL DEF Spec, TablesAreLogs

-----------------------------------------------------------------------------
(* The reader. *)

\* A block in all tables, and one that can no longer become canonical.
InAll(b) == \A t \in Table : number(b) < Len(tables[t]) /\ tables[t][number(b) + 1] = b

Dead(b) ==
  \E n \in Nat : /\ n <= number(b) /\ n <= number(head) /\ n + threshold <= top
                 /\ Anc(b, n) # Anc(head, n)

\* The block that is read is somewhere, unless it is dead, and the lookups that
\* failed have excluded places that it does not return to.
ReaderInv ==
  reader # "idle" =>
    /\ wanted \in Block
    /\ rewind # "idle" => number(wanted) <= target
    /\ wanted \in kv \/ InAll(wanted) \/ Dead(wanted)
    /\ reader = "second" => InAll(wanted) \/ Dead(wanted)
    /\ reader = "missing" => Dead(wanted)

\* A dead block is not canonical, nor does a move of the head revive it.
LEMMA DeadBlocks ==
  ASSUME IInv, NEW b \in Block, Dead(b)
  PROVE  /\ ~(number(b) <= number(head) /\ Anc(head, number(b)) = b)
         /\ \A h \in Block :
              /\ Moves(h)
              /\ \A n \in Nat : n <= number(head) /\ n + threshold <= top =>
                                  n <= number(h) /\ Anc(h, n) = Anc(head, n)
              => Dead(b)'
         /\ top' = top /\ head' \in Block
              /\ (\A n \in Nat : n <= number(b) => n <= number(head') /\ Anc(head', n) = Anc(head, n))
              => Dead(b)'
<1>1. PICK n \in Nat : /\ n <= number(b) /\ n <= number(head) /\ n + threshold <= top
                       /\ Anc(b, n) # Anc(head, n)
  BY Zenon DEF Dead
<1>2. head \in Block /\ number(head) \in Nat /\ number(b) \in Nat /\ top \in Nat
  BY Zenon, Tree DEF IInv, TypeInv
<1>3. ~(number(b) <= number(head) /\ Anc(head, number(b)) = b)
  <2>. SUFFICES ASSUME number(b) <= number(head), Anc(head, number(b)) = b PROVE FALSE
    BY Zenon
  <2>1. Anc(Anc(head, number(b)), n) = Anc(head, n)
    BY <1>1, <1>2, Tree
  <2>2. QED
    BY Zenon, <1>1, <2>1
<1>4. ASSUME NEW h \in Block, Moves(h),
             \A m \in Nat : m <= number(head) /\ m + threshold <= top =>
                              m <= number(h) /\ Anc(h, m) = Anc(head, m)
      PROVE  Dead(b)'
  <2>1. head' = h /\ top' \in Nat /\ top <= top'
    BY <1>2, <1>4, Tree DEF Moves
  <2>2. n <= number(h) /\ Anc(h, n) = Anc(head, n)
    BY Zenon, <1>1, <1>4
  <2>3. n + threshold <= top'
    BY <1>1, <1>2, <2>1, Constants
  <2>4. QED
    BY Zenon, <1>1, <2>1, <2>2, <2>3 DEF Dead
<1>5. ASSUME top' = top, head' \in Block,
             \A m \in Nat : m <= number(b) => m <= number(head') /\ Anc(head', m) = Anc(head, m)
      PROVE  Dead(b)'
  BY Zenon, <1>1, <1>5 DEF Dead
<1>6. QED
  BY Zenon, <1>3, <1>4, <1>5

\* A canonical block is stored, and then the reader's block is, too.
LEMMA Stored ==
  ASSUME IInv, NEW n \in Nat, n <= number(head)
  PROVE  Anc(head, n) \in kv \/ InAll(Anc(head, n))
<1>1. number(Anc(head, n)) = n
  BY Zenon, Tree DEF IInv, TypeInv
<1>2. CASE Anc(head, n) \in kv
  BY Zenon, <1>2
<1>3. CASE \A t \in Table : n < safe[t]
  <2>1. ASSUME NEW t \in Table PROVE n < Len(tables[t])
    BY <1>3, <2>1 DEF IInv, TypeInv, TableInv
  <2>2. QED
    BY Zenon, <1>1, <2>1 DEF InAll, IInv, TableInv
<1>4. QED
  BY Zenon, <1>2, <1>3 DEF IInv, StoreInv

\* A new head of the chain does not fork off in what is settled.
LEMMA Moved ==
  ASSUME IInv, (\E f \in 0..number(head) : ReorgBlock(f)) \/ NewHead
  PROVE  \E h \in Block : /\ Moves(h)
                          /\ \A n \in Nat : n <= number(head) /\ n + threshold <= top =>
                                              n <= number(h) /\ Anc(h, n) = Anc(head, n)
<1>1. /\ pending \in Block /\ head \in Block /\ number(head) \in Nat /\ number(pending) \in Nat
      /\ Shallow(pending)
  BY Zenon, Tree DEF ReorgBlock, NewHead, IInv, TypeInv, PendingInv
<1>2. \A n \in Nat : n <= number(head) /\ n + threshold <= top =>
        n <= number(pending) /\ Anc(pending, n) = Anc(head, n)
  BY Zenon, <1>1, Settled DEF IInv
<1>3. CASE NewHead
  <2>1. Moves(pending)
    BY Zenon, <1>3 DEF NewHead, writeHeadBlock, Moves
  <2>2. QED
    BY Zenon, <1>1, <1>2, <2>1
<1>4. ASSUME NEW f \in 0..number(head), ReorgBlock(f)
      PROVE  /\ Moves(Anc(pending, f + 1)) /\ Anc(pending, f + 1) \in Block
             /\ \A n \in Nat : n <= number(head) /\ n + threshold <= top =>
                  n <= number(Anc(pending, f + 1)) /\ Anc(Anc(pending, f + 1), n) = Anc(head, n)
  <2>1. /\ f \in Nat /\ f <= number(head) /\ IsFork(pending, f) /\ f + 1 <= number(pending)
    BY <1>1, <1>4 DEF ReorgBlock
  <2>2. PICK h \in Block : h = Anc(pending, f + 1) /\ number(h) = f + 1
    BY <1>1, <2>1, Tree
  <2>3. Moves(h)
    BY Zenon, <1>4, <2>2 DEF ReorgBlock, writeHeadBlock, Moves
  <2>4. \A n \in Nat : n <= number(head) /\ n <= number(pending) /\ Anc(pending, n) = Anc(head, n) =>
          n <= f
    BY <1>1, <2>1, Forks
  <2>5. \A n \in Nat : n <= f => n <= number(h) /\ Anc(h, n) = Anc(pending, n)
    BY <1>1, <2>1, <2>2, Tree
  <2>6. QED
    BY Zenon, <1>2, <2>2, <2>3, <2>4, <2>5
<1>5. QED
  BY Zenon, <1>3, <1>4

\* Steps that leave the head where it is and take no block away.
Growing ==
  /\ UNCHANGED <<head, top, reader, wanted, target>> /\ kv \subseteq kv'
  /\ rewind' = rewind \/ (rewind = "delete" /\ rewind' = "next")
  /\ \A t \in Table : \A n \in Nat : n < Len(tables[t]) =>
       n < Len(tables'[t]) /\ tables'[t][n + 1] = tables[t][n + 1]

\* Then the reader's block is still where it was.
LEMMA GrowingReader ==
  ASSUME IInv, ReaderInv, Growing
  PROVE  ReaderInv'
<1>1. ASSUME NEW b \in Block PROVE /\ Dead(b) => Dead(b)'
                                   /\ InAll(b) => InAll(b)'
  <2>1. Dead(b) => Dead(b)'
    BY Zenon DEF Dead, Growing
  <2>2. number(b) \in Nat
    BY Zenon, Tree
  <2>3. QED
    BY Zenon, <2>1, <2>2 DEF InAll, Growing
<1>2. QED
  BY Zenon, <1>1 DEF ReaderInv, Growing

\* Most steps are of this kind.
LEMMA GrowingSteps ==
  ASSUME IInv,
         \/ \E b \in Block, n \in 0..number(head) : Import(b, n)
         \/ \E n \in 0..number(head) : ReorgIndexes(n)
         \/ FreezeStart \/ FreezeRead \/ RewindFrozen \/ UNCHANGED vars
         \/ \E t \in Table : AppendTable(t) \/ SyncTable(t)
  PROVE  Growing
<1>1. CASE \/ \E b \in Block, n \in 0..number(head) : Import(b, n)
           \/ \E n \in 0..number(head) : ReorgIndexes(n)
           \/ FreezeStart \/ FreezeRead \/ RewindFrozen \/ UNCHANGED vars
           \/ \E t \in Table : SyncTable(t)
  BY Zenon, <1>1
     DEF Growing, Import, ReorgIndexes, FreezeStart, FreezeRead, RewindFrozen, SyncTable, vars
<1>2. ASSUME NEW t \in Table, AppendTable(t) PROVE Growing
  <2>1. block \in Block /\ tables' = [tables EXCEPT ![t] = Append(@, block)]
    BY Zenon, <1>2, Appending DEF AppendTable
  <2>2. PICK s \in Seq(Block) : s = tables[t]
    BY Zenon DEF IInv, TypeInv
  <2>3. \A n \in Nat : n < Len(s) => n < Len(Append(s, block)) /\ Append(s, block)[n + 1] = s[n + 1]
    BY <2>1
  <2>4. tables'[t] = Append(s, block) /\ \A u \in Table : u # t => tables'[u] = tables[u]
    BY Zenon, <2>1, <2>2 DEF IInv, TypeInv
  <2>5. \A u \in Table : \A n \in Nat : n < Len(tables[u]) =>
          n < Len(tables'[u]) /\ tables'[u][n + 1] = tables[u][n + 1]
    BY Zenon, <2>2, <2>3, <2>4
  <2>6. QED
    BY Zenon, <1>2, <2>5 DEF Growing, AppendTable
<1>3. QED
  BY Zenon, <1>1, <1>2

\* A block that the freezer takes out of the key-value store is in the tables
\* or dead.
LEMMA Wiped ==
  ASSUME IInv, WipeCanonical \/ WipeSide \/ WipeDangling, NEW b \in kv, b \notin kv'
  PROVE  InAll(b) \/ Dead(b)
<1>1. /\ status = "running" /\ freezer \in {"wipe", "side", "dangling"} /\ b \in Block /\ head \in Block
      /\ number(head) \in Nat /\ number(b) \in Nat /\ Anc(b, number(b)) = b
      /\ frozen \in Nat /\ first \in Nat /\ limit \in Nat /\ Len(ancients) \in Nat
      /\ first + Len(ancients) = frozen /\ frozen <= limit + 1 /\ limit <= number(head)
      /\ limit + threshold <= top /\ top \in Nat
  <2>1. /\ status = "running" /\ freezer \in {"wipe", "side", "dangling"} /\ freezer # "idle"
        /\ b \in Block
    BY Zenon DEF WipeCanonical, WipeSide, WipeDangling, IInv, TypeInv
  <2>2. QED
    BY Zenon, <2>1, Tree, RoundFacts
<1>2. \A t \in Table : Len(tables[t]) = frozen
  BY Zenon, <1>1, Lengths
<1>3. CASE WipeCanonical
  <2>1. PICK i \in Batch : b = ancients[i]
    BY Zenon, <1>3 DEF WipeCanonical
  <2>2. PICK n \in Nat : n = first + i - 1 /\ n < frozen /\ b = Anc(head, n)
    <3>1. /\ i \in 1..Len(ancients) /\ ancients[i] = Anc(head, first + i - 1)
      BY Zenon, <1>1, <2>1, RoundFacts DEF Batch
    <3>2. first + i - 1 \in Nat /\ first + i - 1 < frozen
      BY <1>1, <3>1
    <3>3. QED
      BY Zenon, <2>1, <3>1, <3>2
  <2>3. n <= number(head) /\ number(b) = n
    BY SMTT(60), <1>1, <2>2, Tree
  <2>4. \A t \in Table : tables[t][n + 1] = b
    BY Zenon, <1>2, <2>2, <2>3 DEF IInv, TableInv
  <2>5. QED
    BY Zenon, <1>2, <2>2, <2>3, <2>4 DEF InAll
<1>4. CASE WipeSide
  <2>1. first <= number(b) /\ number(b) < frozen /\ number(b) # 0 /\ freezer = "side"
    BY Zenon, <1>4 DEF WipeSide, Side
  <2>2. Anc(head, number(b)) # b
    BY Zenon, <1>1, <2>1 DEF IInv, RoundInv
  <2>3. number(b) <= number(head) /\ number(b) + threshold <= top
    BY <1>1, <2>1, Constants
  <2>4. QED
    BY <1>1, <2>2, <2>3 DEF Dead
<1>5. CASE WipeDangling
  <2>1. frozen > 0 /\ number(b) >= frozen /\ Anc(b, frozen - 1) \in dangling /\ freezer = "dangling"
    BY Zenon, <1>5 DEF WipeDangling, OnDangling
  <2>2. PICK n \in Nat : n = frozen - 1
    BY <1>1, <2>1
  <2>3. Anc(b, n) # Anc(head, n)
    BY Zenon, <2>1, <2>2 DEF IInv, RoundInv
  <2>4. n <= number(b) /\ n <= number(head) /\ n + threshold <= top
    BY <1>1, <2>1, <2>2, Constants
  <2>5. QED
    BY Zenon, <2>3, <2>4 DEF Dead
<1>6. QED
  BY Zenon, <1>3, <1>4, <1>5

\* So a wipe does not mislead the reader.
LEMMA WipedReader ==
  ASSUME IInv, ReaderInv, WipeCanonical \/ WipeSide \/ WipeDangling
  PROVE  ReaderInv'
<1>1. UNCHANGED <<head, top, tables, reader, wanted, rewind, target>>
  BY Zenon DEF WipeCanonical, WipeSide, WipeDangling
<1>2. \A b \in Block : (Dead(b) => Dead(b)') /\ (InAll(b) => InAll(b)')
  BY Zenon, <1>1 DEF Dead, InAll
<1>3. reader # "idle" /\ wanted \in kv => wanted \in kv' \/ InAll(wanted) \/ Dead(wanted)
  BY Zenon, Wiped
<1>4. QED
  BY Zenon, <1>1, <1>2, <1>3 DEF ReaderInv

\* Nor does a move of the head.
LEMMA MovedReader ==
  ASSUME IInv, ReaderInv, (\E f \in 0..number(head) : ReorgBlock(f)) \/ NewHead
  PROVE  ReaderInv'
<1>1. PICK h \in Block : /\ Moves(h)
                         /\ \A n \in Nat : n <= number(head) /\ n + threshold <= top =>
                                             n <= number(h) /\ Anc(h, n) = Anc(head, n)
  BY Zenon, Moved
<1>2. \A b \in Block : Dead(b) => Dead(b)'
  BY Zenon, <1>1, DeadBlocks
<1>3. \A b \in Block : InAll(b) => InAll(b)'
  BY Zenon, <1>1 DEF Moves, InAll
<1>4. UNCHANGED <<kv, reader, wanted, rewind, target>>
  BY Zenon, <1>1 DEF Moves
<1>5. QED
  BY Zenon, <1>2, <1>3, <1>4 DEF ReaderInv

\* Nor a repair of the tables: what is in all of them stays.
LEMMA RepairedReader ==
  ASSUME IInv, ReaderInv, Open \/ \E t \in Table : AppendFails(t)
  PROVE  ReaderInv'
<1>1. UNCHANGED <<kv, head, top, reader, wanted, rewind, target>>
  BY Zenon DEF Open, AppendFails
<1>2. PICK n \in 0..(MaxNumber + 1) : repair(n)
  BY Zenon DEF Open, AppendFails
<1>3. PICK k \in Nat : k = n /\ repair(k)
  BY <1>2, Constants
<1>4. ASSUME NEW b \in Block, InAll(b) PROVE InAll(b)'
  <2>1. number(b) \in Nat
    BY Zenon, Tree
  <2>2. PICK t \in Table : Len(tables[t]) = k
    BY Zenon, <1>3, Repaired
  <2>3. number(b) < k
    BY Zenon, <1>4, <2>2 DEF InAll
  <2>4. \A u \in Table : Len(tables'[u]) = k /\ tables'[u][number(b) + 1] = tables[u][number(b) + 1]
    BY <1>3, <2>1, <2>3, Repaired
  <2>5. QED
    BY Zenon, <1>4, <2>3, <2>4 DEF InAll
<1>5. \A b \in Block : Dead(b) => Dead(b)'
  BY Zenon, <1>1 DEF Dead
<1>6. QED
  BY Zenon, <1>1, <1>4, <1>5 DEF ReaderInv

\* SetHead drops the reads of what it deletes and leaves alone what is below.
LEMMA RewindReader ==
  ASSUME IInv, ReaderInv,
         (\E n \in Number : SetHead(n)) \/ RewindMarker \/ RewindFlush \/ \E t \in Table : RewindTable(t)
  PROVE  ReaderInv'
<1>1. ASSUME NEW n \in Number, SetHead(n) PROVE ReaderInv'
  <2>1. UNCHANGED <<kv, head, top, tables>> /\ target' = n
    BY Zenon, <1>1 DEF SetHead
  <2>2. \A b \in Block : (Dead(b) => Dead(b)') /\ (InAll(b) => InAll(b)')
    BY Zenon, <2>1 DEF Dead, InAll
  <2>3. CASE reader # "idle" /\ number(wanted) > n
    BY Zenon, <1>1, <2>3 DEF SetHead, ReaderInv
  <2>4. CASE ~(reader # "idle" /\ number(wanted) > n)
    <3>1. UNCHANGED <<reader, wanted>> /\ (reader # "idle" => number(wanted) <= n)
      BY <1>1, <2>4, Tree, Constants DEF SetHead, ReaderInv
    <3>2. QED
      BY Zenon, <2>1, <2>2, <3>1 DEF ReaderInv
  <2>5. QED
    BY Zenon, <2>3, <2>4
<1>2. CASE RewindMarker
  <2>1. /\ head \in Block /\ number(head) \in Nat /\ target \in Nat /\ number(head) > target
        /\ rewind # "idle" /\ head' = Anc(head, number(head) - 1)
        /\ UNCHANGED <<kv, top, tables, reader, wanted, target>>
    BY Zenon, <1>2, Tree, Constants DEF RewindMarker, parent, IInv, TypeInv
  <2>2. PICK h \in Block : /\ h = head' /\ number(h) = number(head) - 1
                           /\ \A n \in Nat : n <= number(h) => Anc(h, n) = Anc(head, n)
    BY <2>1, Tree
  <2>3. ASSUME NEW b \in Block, number(b) <= target, Dead(b) PROVE Dead(b)'
    <3>1. \A n \in Nat : n <= number(b) => n <= number(h) /\ Anc(h, n) = Anc(head, n)
      BY <2>1, <2>2, <2>3, Tree
    <3>2. QED
      BY Zenon, <2>1, <2>2, <2>3, <3>1, DeadBlocks
  <2>4. \A b \in Block : InAll(b) => InAll(b)'
    BY Zenon, <2>1 DEF InAll
  <2>5. QED
    BY Zenon, <2>1, <2>3, <2>4 DEF ReaderInv
<1>3. ASSUME NEW t \in Table, RewindTable(t) PROVE ReaderInv'
  <2>1. /\ number(head) \in Nat /\ target <= number(head) /\ target \in Nat /\ rewind # "idle"
        /\ Len(tables[t]) > number(head) + 1 /\ Len(tables[t]) \in Nat /\ tables[t] \in Seq(Block)
        /\ tables' = [tables EXCEPT ![t] = Prefix(@, number(head) + 1)]
        /\ UNCHANGED <<kv, head, top, reader, wanted, rewind, target>>
    BY SMTT(60), <1>3, Tree, Constants DEF RewindTable, Beyond, IInv, TypeInv, RewindInv
  <2>2. PICK k \in Nat : k = number(head) + 1 /\ Min(k, Len(tables[t])) = k
    BY <2>1 DEF Min
  <2>3. PICK s \in Seq(Block) : s = tables[t]
    BY Zenon, <2>1
  <2>4. Len(Prefix(s, k)) = k /\ \A i \in Nat : i < k => Prefix(s, k)[i + 1] = s[i + 1]
    BY ZenonT(60), <2>2, <2>3, Cut
  <2>5. tables'[t] = Prefix(s, k) /\ \A u \in Table : u # t => tables'[u] = tables[u]
    BY Zenon, <2>1, <2>2, <2>3 DEF IInv, TypeInv
  <2>6. ASSUME NEW b \in Block, number(b) <= target, InAll(b) PROVE InAll(b)'
    <3>1. number(b) \in Nat /\ number(b) < k
      BY <2>1, <2>2, <2>6, Tree
    <3>2. QED
      BY Zenon, <2>3, <2>4, <2>5, <2>6, <3>1 DEF InAll
  <2>7. \A b \in Block : Dead(b) => Dead(b)'
    BY Zenon, <2>1 DEF Dead
  <2>8. QED
    BY Zenon, <2>1, <2>6, <2>7 DEF ReaderInv
<1>4. CASE RewindFlush
  <2>1. /\ rewind # "idle" /\ rewind' = "idle" /\ kv' = {b \in kv : number(b) \notin doomed}
        /\ UNCHANGED <<head, top, tables, reader, wanted>>
    BY Zenon, <1>4 DEF RewindFlush
  <2>2. reader # "idle" => number(wanted) \notin doomed
    BY <2>1, Tree, Constants DEF IInv, TypeInv, RewindInv, ReaderInv
  <2>3. \A b \in Block : (Dead(b) => Dead(b)') /\ (InAll(b) => InAll(b)')
    BY Zenon, <2>1 DEF Dead, InAll
  <2>4. QED
    BY Zenon, <2>1, <2>2, <2>3 DEF ReaderInv
<1>5. QED
  BY Zenon, <1>1, <1>2, <1>3, <1>4

\* The lookups of the reader.
LEMMA ReadingReader ==
  ASSUME IInv, ReaderInv, (\E n \in Number : ReadStart(n)) \/ ReadBody \/ Crash
  PROVE  ReaderInv'
<1>1. CASE Crash
  BY Zenon, <1>1 DEF Crash, ReaderInv
<1>2. ASSUME NEW n \in Number, ReadStart(n) PROVE ReaderInv'
  <2>1. /\ n \in Nat /\ n <= number(head) /\ rewind = "idle" /\ wanted' = Anc(head, n)
        /\ reader' = "first" /\ UNCHANGED <<kv, head, top, tables, rewind, target>>
    BY Zenon, <1>2, Constants DEF ReadStart
  <2>2. PICK b \in Block : b = Anc(head, n)
    BY Zenon, <2>1, Tree DEF IInv, TypeInv
  <2>3. b \in kv \/ InAll(b)
    BY Zenon, <2>1, <2>2, Stored
  <2>4. InAll(b) => InAll(b)'
    BY Zenon, <2>1 DEF InAll
  <2>5. QED
    BY Zenon, <2>1, <2>2, <2>3, <2>4 DEF ReaderInv, InAll
<1>3. CASE ReadBody
  <2>1. UNCHANGED <<kv, head, top, tables, rewind, target>>
    BY Zenon, <1>3 DEF ReadBody, ReadStep
  <2>2. \A b \in Block : (Dead(b) => Dead(b)') /\ (InAll(b) => InAll(b)')
    BY Zenon, <2>1 DEF Dead, InAll
  <2>3. \A b \in Block : InAll(b) => InTables(b)
    BY Zenon, Constants, FreezerAssumption DEF InAll, InTables, Has, Ancient
  <2>4. \/ reader' = "idle"
        \/ reader = "first" /\ reader' = "store" /\ wanted' = wanted
        \/ reader = "store" /\ reader' = "second" /\ wanted' = wanted /\ wanted \notin kv
        \/ reader = "second" /\ reader' = "missing" /\ wanted' = wanted /\ ~InTables(wanted)
    BY Zenon, <1>3 DEF ReadBody, ReadStep
  <2>5. QED
    BY Zenon, <2>1, <2>2, <2>3, <2>4 DEF ReaderInv
<1>4. QED
  BY Zenon, <1>1, <1>2, <1>3

\* ReadBodyRLP, which looks into the tables, the key-value store and the tables
\* again, finds a block that is canonical, wherever the freezer is with it.
THEOREM ReadersFind ==
  ASSUME ~CrashInTruncate
  PROVE  Spec => []ReaderFinds
<1>1. Init => ReaderInv
  BY Zenon DEF Init, ReaderInv
<1>2. IInv /\ ReaderInv /\ [Next]_vars => ReaderInv'
  <2>. SUFFICES ASSUME IInv, ReaderInv, [Next]_vars PROVE ReaderInv'
    BY Zenon
  <2>1. CASE \/ \E b \in Block, n \in 0..number(head) : Import(b, n)
             \/ \E n \in 0..number(head) : ReorgIndexes(n)
             \/ FreezeStart \/ FreezeRead \/ RewindFrozen \/ UNCHANGED vars
             \/ \E t \in Table : AppendTable(t) \/ SyncTable(t)
    BY Zenon, <2>1, GrowingSteps, GrowingReader
  <2>2. CASE WipeCanonical \/ WipeSide \/ WipeDangling
    BY Zenon, <2>2, WipedReader
  <2>3. CASE (\E f \in 0..number(head) : ReorgBlock(f)) \/ NewHead
    BY Zenon, <2>3, MovedReader
  <2>4. CASE Open \/ \E t \in Table : AppendFails(t)
    BY Zenon, <2>4, RepairedReader
  <2>5. CASE \/ (\E n \in Number : SetHead(n)) \/ RewindMarker \/ RewindFlush
             \/ \E t \in Table : RewindTable(t)
    BY Zenon, <2>5, RewindReader
  <2>6. CASE (\E n \in Number : ReadStart(n)) \/ ReadBody \/ Crash
    BY Zenon, <2>6, ReadingReader
  <2>7. QED
    BY Zenon, <2>1, <2>2, <2>3, <2>4, <2>5, <2>6 DEF Next
<1>3. IInv /\ ReaderInv => ReaderFinds
  BY Zenon, DeadBlocks DEF ReaderInv, ReaderFinds
<1>4. QED
  BY <1>1, <1>2, <1>3, Invariance, PTL DEF Spec

-----------------------------------------------------------------------------
(* Parents. *)

\* A block is frozen for good: no failure takes it away.
Archived(b) ==
  /\ number(b) <= number(head)
  /\ \A t \in Table : number(b) < safe[t]
  /\ tables[1][number(b) + 1] = b

\* The parent of b is there, and will be when SetHead is done, or the freezer
\* has taken it away and is about to take b away.
Held(b) ==
  \/ parent(b) \in kv /\ number(parent(b)) \notin doomed
  \/ Archived(parent(b))
  \/ freezer = "dangling" /\ number(b) = frozen /\ parent(b) \in dangling

OrphanInv ==
  /\ rewind \in {"delete", "next"} => number(head) + 1 \in doomed
  /\ ~cut => \A b \in kv : number(b) > 0 /\ number(b) \notin doomed => Held(b)

LEMMA Parents ==
  ASSUME NEW b \in Block, number(b) > 0
  PROVE  /\ number(b) \in Nat /\ number(b) - 1 \in Nat
         /\ parent(b) \in Block /\ number(parent(b)) = number(b) - 1
         /\ \A n \in Nat : n < number(b) => Anc(parent(b), n) = Anc(b, n)
BY Tree DEF parent

\* A canonical block that is in all tables and synced is archived.
LEMMA SyncedBlocks ==
  ASSUME IInv, NEW n \in Nat, n <= number(head), \A t \in Table : n < safe[t]
  PROVE  Archived(Anc(head, n))
<1>1. number(Anc(head, n)) = n
  BY Zenon, Tree DEF IInv, TypeInv
<1>2. n < Len(tables[1])
  BY Constants DEF IInv, TypeInv, TableInv
<1>3. tables[1][n + 1] = Anc(head, n)
  BY Zenon, <1>2, Constants DEF IInv, TableInv
<1>4. QED
  BY Zenon, <1>1, <1>3 DEF Archived

\* What is archived is settled, and in the tables.
LEMMA ArchivedFacts ==
  ASSUME IInv, NEW b \in Block, Archived(b)
  PROVE  /\ number(b) \in Nat /\ number(b) <= number(head) /\ number(b) + threshold <= top
         /\ \A t \in Table : number(b) < safe[t] /\ number(b) < Len(tables[t])
<1>1. number(b) \in Nat /\ number(b) <= number(head)
  BY Zenon, Tree DEF Archived
<1>2. ASSUME NEW t \in Table PROVE number(b) < safe[t] /\ number(b) < Len(tables[t])
  BY <1>1 DEF Archived, IInv, TypeInv, TableInv
<1>3. QED
  BY Zenon, <1>1, <1>2, Constants DEF IInv, TableInv

\* Only SetHead takes an archived block away.
LEMMA ArchivedStays ==
  ASSUME IInv, [Next]_vars, ~RewindMarker, \A t \in Table : ~RewindTable(t), NEW b \in Block, Archived(b)
  PROVE  Archived(b)'
<1>1. /\ number(b) \in Nat /\ number(b) <= number(head) /\ number(b) + threshold <= top
      /\ \A t \in Table : number(b) < safe[t] /\ number(b) < Len(tables[t])
  BY Zenon, ArchivedFacts
<1>2. CASE UNCHANGED <<tables, safe, head>>
  BY Zenon, <1>2 DEF Archived
<1>3. ASSUME NEW t \in Table, AppendTable(t) PROVE Archived(b)'
  <2>1. Growing /\ UNCHANGED <<safe, head>>
    BY Zenon, <1>3, GrowingSteps DEF AppendTable
  <2>2. tables'[1][number(b) + 1] = tables[1][number(b) + 1]
    BY Zenon, <1>1, <2>1, Constants DEF Growing
  <2>3. QED
    BY Zenon, <2>1, <2>2 DEF Archived
<1>4. ASSUME NEW t \in Table, SyncTable(t) PROVE Archived(b)'
  <2>1. UNCHANGED <<tables, head>> /\ safe' = [safe EXCEPT ![t] = Len(tables[t])]
    BY Zenon, <1>4 DEF SyncTable, Flushed
  <2>2. \A u \in Table : number(b) < safe'[u]
    BY Zenon, <1>1, <2>1 DEF IInv, TypeInv
  <2>3. QED
    BY Zenon, <2>1, <2>2 DEF Archived
<1>5. CASE Open \/ \E t \in Table : AppendFails(t)
  <2>1. PICK n \in 0..(MaxNumber + 1) : repair(n)
    BY Zenon, <1>5 DEF Open, AppendFails
  <2>2. PICK k \in Nat : k = n /\ repair(k)
    BY <2>1, Constants
  <2>3. number(b) < k /\ \A t \in Table : number(b) < safe'[t]
    BY Zenon, <1>1, <2>2, Repaired
  <2>4. tables'[1][number(b) + 1] = tables[1][number(b) + 1]
    BY Zenon, <1>1, <2>2, <2>3, Repaired, Constants
  <2>5. head' = head
    BY Zenon, <1>5 DEF Open, AppendFails
  <2>6. QED
    BY Zenon, <2>3, <2>4, <2>5 DEF Archived
<1>6. CASE (\E f \in 0..number(head) : ReorgBlock(f)) \/ NewHead
  <2>1. PICK h \in Block : /\ Moves(h)
                           /\ \A n \in Nat : n <= number(head) /\ n + threshold <= top =>
                                               n <= number(h) /\ Anc(h, n) = Anc(head, n)
    BY Zenon, <1>6, Moved
  <2>2. head' = h /\ number(b) <= number(h)
    BY Zenon, <1>1, <2>1 DEF Moves
  <2>3. UNCHANGED <<tables, safe>>
    BY Zenon, <1>6 DEF ReorgBlock, NewHead
  <2>4. QED
    BY Zenon, <2>2, <2>3 DEF Archived
<1>7. CASE Crash
  <2>1. UNCHANGED <<safe, head>>
    BY Zenon, <1>7 DEF Crash
  <2>2. PICK n \in [Table -> 0..(MaxNumber + 1)] :
          /\ \A t \in Table : safe[t] <= n[t] /\ n[t] <= Len(tables[t])
          /\ tables' = [t \in Table |-> Prefix(tables[t], n[t])]
    BY Zenon, <1>7 DEF Crash
  <2>3. PICK k \in Nat : k = n[1] /\ safe[1] <= k /\ k <= Len(tables[1]) /\ tables'[1] = Prefix(tables[1], k)
    BY <2>2, Constants
  <2>4. PICK s \in Seq(Block) : s = tables[1]
    BY Zenon, Constants DEF IInv, TypeInv
  <2>5. number(b) < k /\ Min(k, Len(s)) = k
    BY <1>1, <2>3, <2>4, Constants DEF Min, IInv, TypeInv
  <2>6. Prefix(s, k)[number(b) + 1] = s[number(b) + 1]
    BY Zenon, <1>1, <2>5, Cut
  <2>7. tables'[1][number(b) + 1] = tables[1][number(b) + 1]
    BY Zenon, <2>3, <2>4, <2>6
  <2>8. QED
    BY Zenon, <2>1, <2>7 DEF Archived
<1>8. QED
  <2>1. CASE \/ \E c \in Block, n \in 0..number(head) : Import(c, n)
             \/ \E n \in 0..number(head) : ReorgIndexes(n)
             \/ FreezeStart \/ FreezeRead \/ WipeCanonical \/ WipeSide \/ WipeDangling
             \/ UNCHANGED vars
    BY Zenon, <1>2, <2>1 DEF Import, ReorgIndexes, FreezeStart, FreezeRead, WipeCanonical, WipeSide,
                             WipeDangling, vars
  <2>2. CASE \/ \E n \in Number : SetHead(n)
             \/ RewindFrozen \/ RewindFlush
             \/ \E n \in Number : ReadStart(n)
             \/ ReadBody
    BY Zenon, <1>2, <2>2 DEF SetHead, RewindFrozen, RewindFlush, ReadStart, ReadBody, ReadStep
  <2>3. QED
    BY Zenon, <1>3, <1>4, <1>5, <1>6, <1>7, <2>1, <2>2 DEF Next

\* Steps that leave the key-value store alone.
LEMMA QuietOrphans ==
  ASSUME OrphanInv, UNCHANGED <<kv, doomed, cut>>, kv \subseteq Block,
         \A b \in Block : Archived(b) => Archived(b)',
         rewind' \in {"delete", "next"} =>
           rewind \in {"delete", "next"} /\ number(head') = number(head),
         freezer = "dangling" => freezer' = "dangling" /\ frozen' = frozen /\ dangling' = dangling
  PROVE  OrphanInv'
<1>1. rewind' \in {"delete", "next"} => number(head') + 1 \in doomed'
  BY Zenon DEF OrphanInv
<1>2. ASSUME ~cut, NEW b \in kv, number(b) > 0, number(b) \notin doomed
      PROVE  Held(b)'
  <2>1. parent(b) \in Block
    BY Zenon, <1>2, Parents
  <2>2. Held(b)
    BY Zenon, <1>2 DEF OrphanInv
  <2>3. parent(b)' = parent(b)
    BY Zenon DEF parent
  <2>4. QED
    BY Zenon, <2>1, <2>2, <2>3 DEF Held
<1>3. QED
  BY Zenon, <1>1, <1>2 DEF OrphanInv

\* An imported block has its parent.
LEMMA ImportOrphans ==
  ASSUME IInv, OrphanInv, NEW c \in Block, NEW f \in 0..number(head), Import(c, f)
  PROVE  OrphanInv'
<1>1. /\ rewind = "idle" /\ doomed = {} /\ number(c) > 0 /\ Known(parent(c)) /\ kv \subseteq Block
      /\ kv' \in {kv, kv \cup {c}}
      /\ UNCHANGED <<cut, head, tables, safe, frozen, freezer, dangling, doomed, rewind>>
  BY Zenon DEF Import, IInv, RewindInv, TypeInv
<1>2. \A b \in Block : Archived(b) => Archived(b)'
  BY Zenon, <1>1 DEF Archived
<1>3. parent(c) \in kv \/ Archived(parent(c))
  <2>1. parent(c) \in Block
    BY Zenon, <1>1, Parents
  <2>2. PICK p \in Block : p = parent(c)
    BY Zenon, <2>1
  <2>3. p \in kv \/ (number(p) \in Nat /\ number(p) <= number(head) /\ p = Anc(head, number(p)))
    BY Zenon, <1>1, <2>2, KnownBlocks, Tree
  <2>4. CASE p \notin kv
    <3>1. PICK n \in Nat : n = number(p) /\ n <= number(head) /\ p = Anc(head, n)
      BY Zenon, <2>3, <2>4
    <3>2. \A t \in Table : n < safe[t]
      BY Zenon, <2>4, <3>1 DEF IInv, StoreInv
    <3>3. QED
      BY Zenon, <2>2, <3>1, <3>2, SyncedBlocks
  <2>5. QED
    BY Zenon, <2>2, <2>4
<1>4. ASSUME ~cut, NEW b \in kv', number(b) > 0 PROVE Held(b)'
  <2>1. b \in Block /\ parent(b) \in Block
    BY Zenon, <1>1, <1>4, Parents
  <2>2. CASE b \in kv
    <3>1. Held(b)
      BY Zenon, <1>1, <1>4, <2>2 DEF OrphanInv
    <3>2. QED
      BY Zenon, <1>1, <1>2, <2>1, <3>1 DEF Held, parent
  <2>3. CASE b = c
    <3>1. parent(b) \in kv' \/ Archived(parent(b))'
      BY Zenon, <1>1, <1>2, <1>3, <2>1, <2>3 DEF parent
    <3>2. QED
      BY Zenon, <1>1, <3>1 DEF Held, parent
  <2>4. QED
    BY Zenon, <1>1, <2>2, <2>3
<1>5. QED
  BY Zenon, <1>1, <1>4 DEF OrphanInv

\* The batch that leaves the key-value store is archived.
LEMMA WipeCanonicalOrphans ==
  ASSUME IInv, OrphanInv, WipeCanonical
  PROVE  OrphanInv'
<1>1. /\ status = "running" /\ freezer = "wipe" /\ freezer' = "side" /\ kv \subseteq Block
      /\ UNCHANGED <<cut, head, tables, safe, frozen, doomed, rewind>>
      /\ kv' = kv \ {ancients[i] : i \in Batch}
  BY Zenon DEF WipeCanonical, IInv, TypeInv
<1>2. \A b \in Block : Archived(b) => Archived(b)'
  BY Zenon, <1>1 DEF Archived
<1>3. ASSUME NEW p \in kv, p \notin kv' PROVE Archived(p)
  <2>1. PICK i \in Batch : p = ancients[i]
    BY ZenonT(60), <1>1, <1>3
  <2>2. /\ first \in Nat /\ frozen \in Nat /\ Len(ancients) \in Nat /\ first + Len(ancients) = frozen
        /\ frozen <= limit + 1 /\ limit <= number(head) /\ limit \in Nat /\ number(head) \in Nat
        /\ \A t \in Table : safe[t] = Len(tables[t])
    <3>1. freezer # "idle"
      BY Zenon, <1>1
    <3>2. \A t \in Table : safe[t] = Len(tables[t])
      BY Zenon, <1>1, <3>1 DEF IInv, RoundInv
    <3>3. QED
      BY Zenon, <3>1, <3>2, RoundFacts
  <2>3. \A t \in Table : Len(tables[t]) = frozen
    BY Zenon, <1>1, Lengths
  <2>4. PICK n \in Nat : n = first + i - 1 /\ n < frozen /\ p = Anc(head, n)
    <3>1. /\ i \in 1..Len(ancients) /\ ancients[i] = Anc(head, first + i - 1)
      BY Zenon, <1>1, <2>1, RoundFacts DEF Batch
    <3>2. first + i - 1 \in Nat /\ first + i - 1 < frozen
      BY <2>2, <3>1
    <3>3. QED
      BY Zenon, <2>1, <3>1, <3>2
  <2>5. n <= number(head)
    BY <2>2, <2>4
  <2>6. \A t \in Table : n < safe[t]
    BY Zenon, <2>2, <2>3, <2>4
  <2>7. QED
    BY Zenon, <2>4, <2>5, <2>6, SyncedBlocks
<1>4. ASSUME ~cut, NEW b \in kv', number(b) > 0, number(b) \notin doomed PROVE Held(b)'
  <2>1. b \in kv /\ b \in Block /\ parent(b) \in Block
    BY Zenon, <1>1, <1>4, Parents
  <2>2. Held(b)
    BY Zenon, <1>4, <2>1 DEF OrphanInv
  <2>3. \/ parent(b) \in kv /\ number(parent(b)) \notin doomed
        \/ Archived(parent(b))
    BY Zenon, <1>1, <2>2 DEF Held
  <2>4. \/ parent(b) \in kv' /\ number(parent(b)) \notin doomed
        \/ Archived(parent(b))
    BY Zenon, <1>3, <2>3
  <2>5. \/ parent(b) \in kv' /\ number(parent(b)) \notin doomed'
        \/ Archived(parent(b))'
    BY Zenon, <1>1, <1>2, <2>1, <2>4 DEF parent
  <2>6. QED
    BY Zenon, <2>5 DEF Held, parent
<1>5. QED
  BY Zenon, <1>1, <1>4 DEF OrphanInv

\* The children of the side blocks that go are on the dangling ones.
LEMMA WipeSideOrphans ==
  ASSUME IInv, OrphanInv, WipeSide
  PROVE  OrphanInv'
<1>1. /\ status = "running" /\ freezer = "side" /\ freezer' = "dangling" /\ kv \subseteq Block
      /\ UNCHANGED <<cut, head, tables, safe, frozen, doomed, rewind>>
      /\ kv' = {b \in kv : ~Side(b)} /\ dangling' = Dangling
      /\ frozen \in Nat /\ first \in Nat
  BY Zenon DEF WipeSide, IInv, TypeInv
<1>2. \A b \in Block : Archived(b) => Archived(b)'
  BY Zenon, <1>1 DEF Archived
<1>3. ASSUME ~cut, NEW b \in kv', number(b) > 0, number(b) \notin doomed PROVE Held(b)'
  <2>1. b \in kv /\ b \in Block /\ ~Side(b)
    BY Zenon, <1>1, <1>3
  <2>2. PICK p \in Block : /\ p = parent(b) /\ number(p) = number(b) - 1
                           /\ number(b) \in Nat /\ number(p) \in Nat
    BY Zenon, <1>3, <2>1, Parents
  <2>3. (p \in kv /\ number(p) \notin doomed) \/ Archived(p)
    BY Zenon, <1>1, <1>3, <2>1, <2>2 DEF OrphanInv, Held
  <2>4. CASE p \in kv /\ Side(p)
    <3>1. number(p) # 0 /\ first <= number(p) /\ number(p) < frozen
      BY Zenon, <2>4 DEF Side
    <3>2. number(b) = frozen /\ frozen > first /\ frozen - 1 # 0 /\ number(p) = frozen - 1
      BY <1>1, <2>1, <2>2, <3>1 DEF Side
    <3>3. p \in dangling'
      BY Zenon, <1>1, <2>4, <3>2 DEF Dangling, ReadAllHashes
    <3>4. QED
      BY Zenon, <1>1, <2>2, <3>2, <3>3 DEF Held, parent
  <2>5. CASE Archived(p)
    BY Zenon, <1>2, <2>2, <2>5 DEF Held, parent
  <2>6. CASE p \in kv /\ ~Side(p) /\ number(p) \notin doomed
    <3>1. p \in kv' /\ number(p) \notin doomed'
      BY Zenon, <1>1, <2>6
    <3>2. QED
      BY Zenon, <2>2, <3>1 DEF Held, parent
  <2>7. QED
    BY Zenon, <2>3, <2>4, <2>5, <2>6
<1>4. QED
  BY Zenon, <1>1, <1>3 DEF OrphanInv

\* And they go with all their descendants.
LEMMA WipeDanglingOrphans ==
  ASSUME IInv, OrphanInv, WipeDangling
  PROVE  OrphanInv'
<1>1. /\ freezer = "dangling" /\ freezer' = "idle" /\ kv \subseteq Block
      /\ UNCHANGED <<cut, head, tables, safe, frozen, doomed, rewind>>
      /\ kv' = IF frozen > 0 THEN {b \in kv : ~OnDangling(b)} ELSE kv
      /\ frozen \in Nat
  BY Zenon DEF WipeDangling, IInv, TypeInv
<1>2. \A b \in Block : Archived(b) => Archived(b)'
  BY Zenon, <1>1 DEF Archived
<1>3. ASSUME ~cut, NEW b \in kv', number(b) > 0, number(b) \notin doomed PROVE Held(b)'
  <2>1. b \in kv /\ b \in Block /\ (frozen > 0 => ~OnDangling(b))
    BY Zenon, <1>1, <1>3
  <2>2. PICK p \in Block : /\ p = parent(b) /\ number(p) = number(b) - 1
                           /\ number(b) \in Nat /\ number(p) \in Nat
                           /\ \A n \in Nat : n < number(b) => Anc(p, n) = Anc(b, n)
    BY Zenon, <1>3, <2>1, Parents
  <2>3. Anc(b, number(b)) = b
    BY Zenon, <2>1, Tree
  <2>4. \/ p \in kv /\ number(p) \notin doomed
        \/ Archived(p)
        \/ number(b) = frozen /\ p \in dangling
    BY Zenon, <1>3, <2>1, <2>2 DEF OrphanInv, Held
  <2>5. ~(number(b) = frozen /\ p \in dangling)
    <3>. SUFFICES ASSUME number(b) = frozen, p \in dangling PROVE FALSE
      BY Zenon
    <3>1. Anc(b, frozen - 1) = p
      BY Zenon, <2>2 DEF parent
    <3>2. \A n \in frozen..number(b) : Anc(b, n) \in kv
      BY <1>1, <2>1, <2>3
    <3>3. QED
      BY <1>1, <1>3, <2>1, <3>1, <3>2 DEF OnDangling
  <2>6. CASE frozen > 0 /\ p \in kv /\ OnDangling(p)
    <3>1. frozen - 1 \in Nat /\ number(p) >= frozen
      BY SMTT(60), <1>1, <2>6 DEF OnDangling
    <3>2. number(b) >= frozen /\ Anc(b, frozen - 1) \in dangling
      BY <1>1, <2>2, <2>6, <3>1 DEF OnDangling
    <3>3. ASSUME NEW n \in frozen..number(b) PROVE Anc(b, n) \in kv
      <4>1. CASE n = number(b)
        BY Zenon, <2>1, <2>3, <4>1
      <4>2. CASE n # number(b)
        <5>1. n \in Nat /\ n < number(b) /\ n \in frozen..number(p)
          BY <1>1, <2>2, <3>3, <4>2
        <5>2. QED
          BY Zenon, <2>2, <2>6, <5>1 DEF OnDangling
      <4>3. QED
        BY Zenon, <4>1, <4>2
    <3>4. QED
      BY Zenon, <2>1, <2>6, <3>2, <3>3 DEF OnDangling
  <2>7. CASE Archived(p)
    BY Zenon, <1>2, <2>2, <2>7 DEF Held, parent
  <2>8. CASE p \in kv /\ number(p) \notin doomed /\ ~(frozen > 0 /\ OnDangling(p))
    <3>1. p \in kv' /\ number(p) \notin doomed'
      BY Zenon, <1>1, <2>8
    <3>2. QED
      BY Zenon, <2>2, <3>1 DEF Held, parent
  <2>9. QED
    BY Zenon, <2>4, <2>5, <2>6, <2>7, <2>8
<1>4. QED
  BY Zenon, <1>1, <1>3 DEF OrphanInv

\* SetHead goes down: what loses its parent is to be deleted as well.
LEMMA RewindMarkerOrphans ==
  ASSUME IInv, OrphanInv, RewindMarker
  PROVE  OrphanInv'
<1>1. /\ kv \subseteq Block /\ number(head) \in Number /\ number(head) > 0 /\ head \in Block
      /\ rewind \in {"origin", "next"}
      /\ head' = parent(head) /\ doomed' = doomed \cup Rewound
      /\ UNCHANGED <<kv, cut, tables, safe, frozen, freezer, dangling>>
  BY Tree DEF RewindMarker, IInv, TypeInv, Number
<1>2. number(head') = number(head) - 1 /\ number(head) \in Nat
  BY Zenon, <1>1, Parents
<1>3. number(head) \in Rewound
  BY <1>1, <1>2 DEF Rewound, Above
<1>4. number(head') + 1 \in doomed'
  BY <1>1, <1>2, <1>3
<1>5. ASSUME NEW b \in kv, number(b) \in Nat, number(b) \in Number, number(b) - 1 \in Rewound \cup {number(head)}
      PROVE  number(b) \in doomed'
  <2>1. number(b) - 1 \in Rewound
    BY Zenon, <1>3, <1>5
  <2>2. CASE rewind = "origin"
    <3>1. number(b) - 1 \in Above /\ number(b) - 1 >= number(head)
      BY Zenon, <2>1, <2>2 DEF Rewound
    <3>2. ReadAllHashes(number(b)) # {}
      BY Zenon, <1>5 DEF ReadAllHashes
    <3>3. ASSUME NEW m \in (number(head) + 1)..number(b) PROVE ReadAllHashes(m) # {}
      <4>1. CASE m = number(b)
        BY Zenon, <3>2, <4>1
      <4>2. CASE m # number(b)
        <5>1. m \in (number(head) + 1)..(number(b) - 1)
          BY SMTT(60), <1>2, <1>5, <4>2
        <5>2. QED
          BY Zenon, <3>1, <5>1 DEF Above
      <4>3. QED
        BY Zenon, <4>1, <4>2
    <3>4. number(b) \in Above /\ number(b) >= number(head)
      BY SMTT(60), <1>2, <1>5, <3>1, <3>3 DEF Above
    <3>5. QED
      BY Zenon, <1>1, <2>2, <3>4 DEF Rewound
  <2>3. CASE rewind = "next"
    <3>1. number(b) - 1 = number(head)
      BY Zenon, <2>1, <2>3 DEF Rewound
    <3>2. number(head) + 1 \in doomed
      BY Zenon, <2>3 DEF OrphanInv
    <3>3. QED
      BY <1>1, <1>2, <1>5, <3>1, <3>2
  <2>4. QED
    BY Zenon, <1>1, <2>2, <2>3
<1>6. ASSUME ~cut, NEW b \in kv, number(b) > 0, number(b) \notin doomed' PROVE Held(b)'
  <2>1. b \in Block /\ number(b) \notin doomed
    BY Zenon, <1>1, <1>6
  <2>2. PICK p \in Block : /\ p = parent(b) /\ number(p) = number(b) - 1
                           /\ number(b) \in Nat /\ number(p) \in Nat
    BY Zenon, <1>6, <2>1, Parents
  <2>3. number(b) \in Number
    BY Zenon, <2>1, Tree DEF Number
  <2>4. number(p) \notin Rewound /\ number(p) # number(head)
    BY Zenon, <1>5, <1>6, <2>2, <2>3
  <2>5. \/ p \in kv /\ number(p) \notin doomed
        \/ Archived(p)
        \/ freezer = "dangling" /\ number(b) = frozen /\ p \in dangling
    BY Zenon, <1>6, <2>1, <2>2 DEF OrphanInv, Held
  <2>6. CASE p \in kv /\ number(p) \notin doomed
    <3>1. p \in kv' /\ number(p) \notin doomed'
      BY Zenon, <1>1, <2>4, <2>6
    <3>2. QED
      BY Zenon, <2>2, <3>1 DEF Held, parent
  <2>7. CASE Archived(p)
    <3>1. number(p) <= number(head')
      BY <1>2, <2>2, <2>4, <2>7 DEF Archived
    <3>2. Archived(p)'
      BY Zenon, <1>1, <2>7, <3>1 DEF Archived
    <3>3. QED
      BY Zenon, <2>2, <3>2 DEF Held, parent
  <2>8. CASE freezer = "dangling" /\ number(b) = frozen /\ p \in dangling
    BY Zenon, <1>1, <2>2, <2>8 DEF Held, parent
  <2>9. QED
    BY Zenon, <2>5, <2>6, <2>7, <2>8
<1>7. QED
  BY Zenon, <1>1, <1>4, <1>6 DEF OrphanInv

\* The tables are cut above the head only.
LEMMA RewindTableOrphans ==
  ASSUME IInv, OrphanInv, NEW t \in Table, RewindTable(t)
  PROVE  OrphanInv'
<1>1. /\ UNCHANGED <<kv, doomed, cut, head, frozen, freezer, dangling, rewind>>
      /\ kv \subseteq Block /\ number(head) \in Nat
      /\ tables' = [tables EXCEPT ![t] = Prefix(@, number(head) + 1)]
      /\ safe' = [safe EXCEPT ![t] = Min(@, number(head) + 1)]
      /\ tables \in [Table -> Seq(Block)] /\ safe \in [Table -> Nat]
  BY Zenon, Tree DEF RewindTable, IInv, TypeInv
<1>2. ASSUME NEW b \in Block, Archived(b) PROVE Archived(b)'
  <2>1. /\ number(b) \in Nat /\ number(b) <= number(head)
        /\ \A u \in Table : number(b) < safe[u] /\ number(b) < Len(tables[u])
    BY Zenon, <1>2, ArchivedFacts
  <2>2. ASSUME NEW u \in Table PROVE number(b) < safe'[u]
    BY <1>1, <2>1 DEF Min
  <2>3. tables'[1][number(b) + 1] = tables[1][number(b) + 1]
    <3>1. CASE t # 1
      BY Zenon, <1>1, <3>1, Constants
    <3>2. CASE t = 1
      <4>1. PICK s \in Seq(Block) : s = tables[1] /\ number(b) < Len(s)
        BY Zenon, <1>1, <2>1, Constants
      <4>2. PICK k \in Nat : k = number(head) + 1 /\ number(b) < k
        BY <1>1, <2>1
      <4>3. tables'[1] = Prefix(s, k)
        BY Zenon, <1>1, <3>2, <4>1, <4>2
      <4>4. number(b) < Min(k, Len(s))
        BY Zenon, <2>1, <4>1, <4>2 DEF Min
      <4>5. Prefix(s, k)[number(b) + 1] = s[number(b) + 1]
        BY Zenon, <2>1, <4>4, Cut
      <4>6. QED
        BY Zenon, <4>1, <4>3, <4>5
    <3>3. QED
      BY Zenon, <3>1, <3>2
  <2>4. QED
    BY Zenon, <1>1, <1>2, <2>2, <2>3 DEF Archived
<1>3. QED
  BY Zenon, <1>1, <1>2, QuietOrphans

\* The deletions happen at once.
LEMMA RewindFlushOrphans ==
  ASSUME IInv, OrphanInv, RewindFlush
  PROVE  OrphanInv'
<1>1. /\ kv \subseteq Block /\ kv' = {b \in kv : number(b) \notin doomed}
      /\ rewind' = "idle" /\ doomed' = {}
      /\ UNCHANGED <<cut, head, tables, safe, frozen, freezer, dangling>>
  BY Zenon DEF RewindFlush, IInv, TypeInv
<1>2. ASSUME ~cut, NEW b \in kv', number(b) > 0 PROVE Held(b)'
  <2>1. b \in kv /\ number(b) \notin doomed
    BY Zenon, <1>1, <1>2
  <2>2. Held(b)
    BY Zenon, <1>2, <2>1 DEF OrphanInv
  <2>3. PICK p : p = parent(b) /\ p = parent(b)'
    BY Zenon DEF parent
  <2>4. CASE p \in kv /\ number(p) \notin doomed
    <3>1. p \in kv' /\ number(p) \notin doomed'
      BY Zenon, <1>1, <2>4
    <3>2. QED
      BY Zenon, <2>3, <3>1 DEF Held
  <2>5. CASE Archived(p)
    <3>1. Archived(p)'
      BY Zenon, <1>1, <2>5 DEF Archived
    <3>2. QED
      BY Zenon, <2>3, <3>1 DEF Held
  <2>6. CASE freezer = "dangling" /\ number(b) = frozen /\ p \in dangling
    BY Zenon, <1>1, <2>3, <2>6 DEF Held
  <2>7. QED
    BY Zenon, <2>2, <2>3, <2>4, <2>5, <2>6 DEF Held
<1>3. QED
  BY Zenon, <1>1, <1>2 DEF OrphanInv

\* A crash between the deletions is recorded in cut.
LEMMA CrashOrphans ==
  ASSUME IInv, OrphanInv, Crash
  PROVE  OrphanInv'
<1>1. /\ kv' = kv /\ kv \subseteq Block /\ rewind' = "idle" /\ doomed' = {}
      /\ cut' = (cut \/ freezer = "dangling" \/ doomed # {})
  BY Zenon DEF Crash, IInv, TypeInv
<1>2. ASSUME NEW b \in Block, Archived(b) PROVE Archived(b)'
  <2>1. [Next]_vars
    BY Zenon DEF Next
  <2>2. ~RewindMarker /\ \A t \in Table : ~RewindTable(t)
    BY Zenon DEF Crash, RewindMarker, RewindTable
  <2>3. QED
    BY Zenon, <1>2, <2>1, <2>2, ArchivedStays
<1>3. ASSUME ~cut', NEW b \in kv, number(b) > 0 PROVE Held(b)'
  <2>1. ~cut /\ freezer # "dangling" /\ doomed = {}
    BY Zenon, <1>1, <1>3
  <2>2. parent(b) \in Block /\ parent(b)' = parent(b)
    BY Zenon, <1>1, <1>3, Parents DEF parent
  <2>3. parent(b) \in kv \/ Archived(parent(b))
    BY Zenon, <1>3, <2>1 DEF OrphanInv, Held
  <2>4. QED
    BY Zenon, <1>1, <1>2, <2>2, <2>3 DEF Held
<1>4. QED
  BY Zenon, <1>1, <1>3 DEF OrphanInv

\* The other steps, none of which touches the key-value store.
LEMMA OtherOrphans ==
  ASSUME IInv, OrphanInv, [Next]_vars, UNCHANGED <<kv, doomed, cut>>,
         ~RewindMarker, \A t \in Table : ~RewindTable(t),
         ~WipeCanonical, ~WipeSide, ~WipeDangling, ~RewindFlush, ~Crash
  PROVE  OrphanInv'
<1>1. kv \subseteq Block /\ frozen \in Nat /\ limit \in Nat /\ number(head) \in Nat
  BY Zenon, Tree DEF IInv, TypeInv
<1>2. \A b \in Block : Archived(b) => Archived(b)'
  BY Zenon, ArchivedStays
<1>3. rewind' \in {"delete", "next"} => rewind \in {"delete", "next"} /\ number(head') = number(head)
  <2>1. CASE \/ \E c \in Block, n \in 0..number(head) : Import(c, n)
             \/ \E n \in 0..number(head) : ReorgIndexes(n)
             \/ FreezeStart \/ FreezeRead
             \/ \E t \in Table : AppendTable(t) \/ AppendFails(t) \/ SyncTable(t)
             \/ UNCHANGED vars \/ Open
    BY Zenon, <2>1 DEF Import, ReorgIndexes, FreezeStart, FreezeRead, AppendTable, AppendFails,
                       SyncTable, Open, vars
  <2>2. CASE (\E n \in Number : SetHead(n) \/ ReadStart(n)) \/ RewindFrozen \/ ReadBody
    BY Zenon, <2>2 DEF SetHead, RewindFrozen, ReadStart, ReadBody, ReadStep
  <2>3. CASE (\E n \in 0..number(head) : ReorgBlock(n)) \/ NewHead
    <3>1. rewind' = rewind
      BY Zenon, <2>3 DEF ReorgBlock, NewHead
    <3>2. rewind = "idle"
      BY Zenon, <2>3 DEF ReorgBlock, NewHead, IInv, PendingInv, RewindInv
    <3>3. QED
      BY Zenon, <3>1, <3>2
  <2>4. QED
    BY Zenon, <2>1, <2>2, <2>3 DEF Next, FreezeRound, Rewind
<1>4. freezer = "dangling" => freezer' = "dangling" /\ frozen' = frozen /\ dangling' = dangling
  <2>. SUFFICES ASSUME freezer = "dangling"
                PROVE  UNCHANGED <<freezer, frozen, dangling>>
    BY Zenon
  <2>1. CASE \/ \E c \in Block, n \in 0..number(head) : Import(c, n)
             \/ \E n \in 0..number(head) : ReorgBlock(n) \/ ReorgIndexes(n)
             \/ NewHead \/ ReadBody
             \/ \E n \in Number : SetHead(n) \/ ReadStart(n)
             \/ UNCHANGED vars
    BY Zenon, <2>1 DEF Import, ReorgBlock, ReorgIndexes, NewHead, SetHead, ReadStart, ReadBody,
                       ReadStep, vars
  <2>2. ~FreezeStart /\ ~FreezeRead /\ ~Open
        /\ \A t \in Table : ~AppendTable(t) /\ ~AppendFails(t) /\ ~SyncTable(t)
    BY Zenon DEF FreezeStart, FreezeRead, AppendTable, AppendFails, SyncTable, Open, IInv, RoundInv
  <2>3. CASE RewindFrozen
    <3>1. frozen <= number(head) + 1
      <4>1. freezer # "idle"
        BY Zenon
      <4>2. /\ frozen \in Nat /\ limit \in Nat /\ number(head) \in Nat
            /\ frozen <= limit + 1 /\ limit <= number(head)
        BY Zenon, <4>1, RoundFacts
      <4>3. QED
        BY <4>2
    <3>2. QED
      BY SMTT(60), <1>1, <2>3, <3>1 DEF RewindFrozen, Min
  <2>4. QED
    BY Zenon, <2>1, <2>2, <2>3 DEF Next, FreezeRound, Rewind
<1>5. QED
  BY Zenon, <1>1, <1>2, <1>3, <1>4, QuietOrphans

\* A round of the freezer, and a rewind, leaves no block in the key-value store
\* whose parent it has deleted: the sweep over the side chains of
\* freezer.freeze takes along what hangs on them, and SetHead what lies above
\* the blocks it deletes.
THEOREM NothingOrphaned ==
  ASSUME ~CrashInTruncate
  PROVE  Spec => []NoOrphans
<1>1. Init => OrphanInv
  <2>. SUFFICES ASSUME Init PROVE OrphanInv
    BY Zenon
  <2>1. rewind = "idle" /\ kv = {genesis} /\ number(genesis) = 0
    BY Zenon, FreezerAssumption DEF Init
  <2>2. QED
    BY <2>1 DEF OrphanInv
<1>2. IInv /\ OrphanInv /\ [Next]_vars => OrphanInv'
  <2>. SUFFICES ASSUME IInv, OrphanInv, [Next]_vars PROVE OrphanInv'
    OBVIOUS
  <2>1. CASE \E c \in Block, n \in 0..number(head) : Import(c, n)
    BY Zenon, <2>1, ImportOrphans
  <2>2. CASE WipeCanonical \/ WipeSide \/ WipeDangling
    BY Zenon, <2>2, WipeCanonicalOrphans, WipeSideOrphans, WipeDanglingOrphans
  <2>3. CASE RewindMarker \/ RewindFlush \/ Crash \/ \E t \in Table : RewindTable(t)
    BY Zenon, <2>3, RewindMarkerOrphans, RewindTableOrphans, RewindFlushOrphans, CrashOrphans
  <2>4. CASE \/ \E n \in 0..number(head) : ReorgBlock(n) \/ ReorgIndexes(n)
             \/ NewHead \/ FreezeStart \/ FreezeRead
             \/ \E t \in Table : AppendTable(t) \/ AppendFails(t) \/ SyncTable(t)
             \/ \E n \in Number : SetHead(n) \/ ReadStart(n)
             \/ RewindFrozen \/ ReadBody \/ Open \/ UNCHANGED vars
    <3>1. UNCHANGED <<kv, doomed, cut>>
      BY Zenon, <2>4 DEF ReorgBlock, ReorgIndexes, NewHead, FreezeStart, FreezeRead, AppendTable,
           AppendFails, SyncTable, SetHead, ReadStart, RewindFrozen, ReadBody, ReadStep, Open, vars
    <3>2. QED
      BY Zenon, <2>2, <2>3, <3>1, OtherOrphans
  <2>5. QED
    BY Zenon, <2>1, <2>2, <2>3, <2>4 DEF Next, FreezeRound, Rewind
<1>3. IInv /\ OrphanInv => NoOrphans
  <2>. SUFFICES ASSUME IInv, OrphanInv, freezer = "idle", rewind = "idle", ~cut,
                       NEW b \in kv, number(b) > 0
                PROVE  Known(parent(b))
    BY Zenon DEF NoOrphans
  <2>1. doomed = {} /\ b \in Block
    BY Zenon DEF IInv, RewindInv, TypeInv
  <2>2. PICK p \in Block : p = parent(b)
    BY Zenon, <2>1, Parents
  <2>3. p \in kv \/ Archived(p)
    BY Zenon, <2>1, <2>2 DEF OrphanInv, Held
  <2>4. CASE Archived(p)
    <3>1. number(p) < Len(tables[1]) /\ tables[1][number(p) + 1] = p
      BY Zenon, <2>4, ArchivedFacts, Constants DEF Archived
    <3>2. QED
      BY Zenon, <2>2, <3>1 DEF Known, Has, Ancient
  <2>5. QED
    BY Zenon, <2>2, <2>3, <2>4 DEF Known
<1>4. QED
  BY <1>1, <1>2, <1>3, Invariance, PTL DEF Spec

=============================================================================
