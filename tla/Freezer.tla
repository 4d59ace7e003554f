------------------------------ MODULE Freezer -------------------------------
(***************************************************************************)
(* The freezer (core/rawdb/freezer.go): a goroutine that moves the old end *)
(* of the canonical chain from the key-value store into append-only        *)
(* tables, while the chain grows and is reorganised, is rewound by SetHead *)
(* (core/blockchain.go, core/headerchain.go) and is read, and the machine  *)
(* fails and restarts (core/rawdb/database.go).                            *)
(*                                                                         *)
(* Abstractions.  A table is the log that FreezerTable implements: safe is *)
(* what a power failure leaves of it for sure.  The header, body, receipts *)
(* and difficulty of a block are in the key-value store or not together:   *)
(* they are written and deleted in one batch, and a batch is atomic and    *)
(* durable.  Every block has its state, so that a rewind ends where it is  *)
(* told to and the markers of the head header, fast block and full block   *)
(* are the same.                                                           *)
(***************************************************************************)
EXTENDS Naturals, Sequences, FiniteSets

CONSTANTS
  Block,
  genesis,
  NoBlock,
  number(_),          \* the number of a block
  td(_),              \* its total difficulty
  Anc(_, _),          \* the ancestor of a block with a given number
  MaxNumber,          \* bound: the highest block
  Tables,             \* the tables, in the order of AppendAncient: hashes first
  Bodies,             \* the table of the bodies
  threshold,          \* recent blocks that are not frozen
  freezerBatchLimit,
  MaxFaults,          \* bound: crashes and failed appends
  CrashInTruncate     \* the machine may fail while SetHead truncates the tables

Number == 0..MaxNumber
Table == 1..Tables

ASSUME FreezerAssumption ==
  /\ MaxNumber \in Nat /\ Tables \in Nat /\ 1 \in Table /\ Bodies \in Table
  /\ threshold \in Nat /\ freezerBatchLimit \in Nat /\ MaxFaults \in Nat
  /\ genesis \in Block /\ number(genesis) = 0 /\ NoBlock \notin Block
  /\ \A b \in Block :
       /\ number(b) \in Number /\ Anc(b, number(b)) = b
       /\ \A n \in 0..number(b) :
            /\ Anc(b, n) \in Block /\ number(Anc(b, n)) = n
            /\ \A m \in 0..n : Anc(Anc(b, n), m) = Anc(b, m)
       /\ Anc(b, 0) = genesis /\ td(b) \in Nat
  /\ CrashInTruncate \in BOOLEAN

VARIABLES
  status,    \* "running", "down", or "refused" to start
  kv,        \* the blocks in the key-value store
  canon,     \* its canonical hashes, by number
  head,      \* the head block
  top,       \* history: the highest number of a head
  pending,   \* the block that is to become the head
  writing,   \* where the import of it is: its chain, its head, or "idle"
  tables,    \* the blocks in each table
  safe,      \* how many of them are on the disk for sure
  frozen,
  freezer,   \* where the freeze goroutine is
  first,     \* the first block of its batch
  limit,     \* the last block it may freeze
  ancients,  \* the blocks of the batch that are frozen
  block,     \* the block AppendAncient is called with
  todo,      \* the table it appends to next, or those to sync
  dangling,  \* side blocks deleted at the end of the batch
  rewind,    \* where SetHead is
  target,    \* the number to rewind to
  doomed,    \* what its batch is going to delete
  reader,    \* where a ReadBodyRLP is
  wanted,    \* the block it is to find
  faults,    \* history: how often something failed
  cut        \* history: a failure cut off the clean-up of a batch

chainVars == <<kv, canon, head, top, pending, writing>>
tableVars == <<tables, safe, frozen>>
freezeVars == <<freezer, first, limit, ancients, block, todo, dangling>>
rewindVars == <<rewind, target, doomed>>
readVars == <<reader, wanted>>
vars == <<status, chainVars, tableVars, freezeVars, rewindVars, readVars, faults, cut>>

-----------------------------------------------------------------------------

Min(a, b) == IF a < b THEN a ELSE b
Prefix(s, n) == SubSeq(s, 1, Min(n, Len(s)))
parent(b) == Anc(b, number(b) - 1)

Has(t, n) == n < Len(tables[t])
Ancient(t, n) == tables[t][n + 1]

\* Every table cut to n items.
TruncateAllM(n) ==
  /\ tables' = [t \in Table |-> Prefix(tables[t], n)]
  /\ safe' = safe
TruncateAll(n) ==
  /\ tables' = [t \in Table |-> Prefix(tables[t], n)]
  /\ safe' = [t \in Table |-> Min(safe[t], n)]

\* repair truncates all tables to the n items of the shortest.
repairM(n) ==
  /\ n \in {Len(tables[t]) : t \in Table} /\ \A t \in Table : n <= Len(tables[t])
  /\ frozen' = n /\ UNCHANGED <<tables, safe>>
repair(n) ==
  /\ n \in {Len(tables[t]) : t \in Table} /\ \A t \in Table : n <= Len(tables[t])
  /\ TruncateAll(n)
  /\ frozen' = n

Init ==
  /\ status = "running"
  /\ kv = {genesis} /\ canon = [n \in Number |-> IF n = 0 THEN genesis ELSE NoBlock]
  /\ head = genesis /\ top = 0 /\ pending = NoBlock /\ writing = "idle"
  /\ tables = [t \in Table |-> <<>>] /\ safe = [t \in Table |-> 0] /\ frozen = 0
  /\ freezer = "idle" /\ first = 0 /\ limit = 0 /\ ancients = <<>> /\ block = NoBlock
  /\ todo = {} /\ dangling = {}
  /\ rewind = "idle" /\ target = 0 /\ doomed = {}
  /\ reader = "idle" /\ wanted = NoBlock
  /\ faults = 0 /\ cut = FALSE

-----------------------------------------------------------------------------
(* The block chain. *)

Known(b) == b \in kv \/ (Has(1, number(b)) /\ Ancient(1, number(b)) = b)

\* No chain forks off further than threshold blocks below the highest block
\* that was the head so far (the downloader looks for a common ancestor no
\* deeper).
Shallow(b) ==
  \A n \in 0..number(head) :
    n + threshold <= top => n <= number(b) /\ Anc(b, n) = Anc(head, n)

\* The last common block of b and the head has number n.
IsFork(b, n) ==
  /\ n <= number(b) /\ Anc(b, n) = Anc(head, n)
  /\ \A m \in (n + 1)..number(head) : m <= number(b) => Anc(b, m) # Anc(head, m)

\* reorg finds all blocks of the new chain, which starts above fork.
Connected(b, fork) == \A n \in (fork + 1)..(number(b) - 1) : Known(Anc(b, n))

\* A block is stored, as a side block or to become the head.  Between blocks
\* of the same weight the shorter chain wins, then the miner's own or chance.
Import(b, fork) ==
  /\ status = "running" /\ rewind = "idle" /\ pending = NoBlock
  /\ number(b) > 0 /\ Known(parent(b)) /\ Shallow(b)
  /\ Known(b) => td(b) > td(head)
  /\ IsFork(b, fork)
  /\ kv' = IF Known(b) THEN kv ELSE kv \cup {b}
  /\ \/ /\ td(b) > td(head) \/ (td(b) = td(head) /\ number(b) <= number(head))
        /\ Connected(b, fork)
        /\ pending' = b
        /\ writing' = IF parent(b) = head THEN "head" ELSE "chain"
     \/ /\ \/ td(b) < td(head) \/ (td(b) = td(head) /\ number(b) >= number(head))
           \/ ~Connected(b, fork)
        /\ UNCHANGED <<pending, writing>>
  /\ UNCHANGED <<status, canon, head, top, tableVars, freezeVars, rewindVars, readVars,
                 faults, cut>>

writeHeadBlock(b) ==
  /\ head' = b
  /\ canon' = [canon EXCEPT ![number(b)] = b]
  /\ top' = IF number(b) > top THEN number(b) ELSE top

\* reorg makes the new chain canonical upwards, except for its head,
ReorgBlock(fork) ==
  /\ status = "running" /\ writing = "chain"
  /\ IsFork(pending, fork) /\ fork + 1 < number(pending)
  /\ writeHeadBlock(Anc(pending, fork + 1))
  /\ UNCHANGED <<status, kv, pending, writing, tableVars, freezeVars, rewindVars,
                 readVars, faults, cut>>

\* and clears the canonical hashes above the head it finds then.
CanonAbove ==
  {n \in Number : n > number(head) /\ \A m \in (number(head) + 1)..n : canon[m] # NoBlock}

ReorgIndexes(fork) ==
  /\ status = "running" /\ writing = "chain"
  /\ IsFork(pending, fork) /\ fork + 1 >= number(pending)
  /\ canon' = [n \in Number |-> IF n \in CanonAbove THEN NoBlock ELSE canon[n]]
  /\ writing' = "head"
  /\ UNCHANGED <<status, kv, head, top, pending, tableVars, freezeVars, rewindVars,
                 readVars, faults, cut>>

NewHead ==
  /\ status = "running" /\ writing = "head"
  /\ writeHeadBlock(pending)
  /\ pending' = NoBlock /\ writing' = "idle"
  /\ UNCHANGED <<status, kv, tableVars, freezeVars, rewindVars, readVars, faults, cut>>

-----------------------------------------------------------------------------
(* One round of freeze. *)

DueM == number(head) >= threshold /\ number(head) - threshold > frozen + 1
Due == number(head) >= threshold /\ number(head) - threshold > frozen
LastM == Min(number(head), frozen + freezerBatchLimit)
Last == Min(number(head) - threshold, frozen + freezerBatchLimit)

FreezeStart ==
  /\ status = "running" /\ freezer = "idle"
  /\ Due
  /\ rewind = "idle" \/ Last <= target
  /\ first' = frozen
  /\ limit' = Last
  /\ ancients' = <<>>
  /\ freezer' = "read"
  /\ UNCHANGED <<status, chainVars, tableVars, block, todo, dangling, rewindVars,
                 readVars, faults, cut>>

\* The components of the next canonical block are read from the key-value
\* store, if the batch is not complete and they are there.
Freezable == frozen <= limit /\ frozen <= MaxNumber /\ canon[frozen] \in kv

FreezeRead ==
  /\ status = "running" /\ freezer = "read"
  /\ IF Freezable
     THEN freezer' = "append" /\ block' = canon[frozen] /\ todo' = {1}
     ELSE freezer' = "sync" /\ block' = block /\ todo' = Table
  /\ UNCHANGED <<status, chainVars, tableVars, first, limit, ancients, dangling,
                 rewindVars, readVars, faults, cut>>

\* AppendAncient, one table after the other.  The table insists on its next
\* item; when an append fails all tables are truncated to the shortest.
MoreTables(t) == t < Tables

AppendTable(t) ==
  /\ status = "running" /\ freezer = "append" /\ todo = {t}
  /\ Len(tables[t]) = frozen
  /\ tables' = [tables EXCEPT ![t] = Append(@, block)]
  /\ IF MoreTables(t)
     THEN /\ todo' = {t + 1}
          /\ UNCHANGED <<frozen, ancients, freezer>>
     ELSE /\ frozen' = frozen + 1 /\ ancients' = Append(ancients, block)
          /\ todo' = {} /\ freezer' = "read"
  /\ UNCHANGED <<status, chainVars, safe, first, limit, block, dangling, rewindVars,
                 readVars, faults, cut>>

AppendFails(t) ==
  /\ status = "running" /\ freezer = "append" /\ todo = {t}
  /\ Len(tables[t]) # frozen \/ faults < MaxFaults
  /\ \E n \in 0..(MaxNumber + 1) : repair(n)
  /\ freezer' = "sync" /\ todo' = Table
  /\ faults' = Min(faults + 1, MaxFaults)
  /\ UNCHANGED <<status, chainVars, first, limit, ancients, block, dangling, rewindVars,
                 readVars, cut>>

\* Sync flushes the tables, before anything is deleted.
FlushedM(t) == safe[t]
Flushed(t) == Len(tables[t])

SyncTable(t) ==
  /\ status = "running" /\ freezer = "sync" /\ t \in todo
  /\ safe' = [safe EXCEPT ![t] = Flushed(t)]
  /\ todo' = todo \ {t}
  /\ freezer' = IF todo' = {} THEN "wipe" ELSE "sync"
  /\ UNCHANGED <<status, chainVars, tables, frozen, first, limit, ancients, block,
                 dangling, rewindVars, readVars, faults, cut>>

\* The frozen blocks leave the key-value store, except for the genesis.
Batch == {i \in 1..Len(ancients) : first + i - 1 # 0}

WipeCanonical ==
  /\ status = "running" /\ freezer = "wipe"
  /\ kv' = kv \ {ancients[i] : i \in Batch}
  /\ canon' = [n \in Number |-> IF \E i \in Batch : n = first + i - 1 THEN NoBlock ELSE canon[n]]
  /\ freezer' = "side"
  /\ UNCHANGED <<status, head, top, pending, writing, tableVars, first, limit, ancients,
                 block, todo, dangling, rewindVars, readVars, faults, cut>>

ReadAllHashes(n) == {b \in kv : number(b) = n}

\* The side blocks at the same numbers go, too.
DanglingM == IF frozen > first /\ frozen - 1 # 0 THEN ReadAllHashes(first) ELSE {}
Dangling == IF frozen > first /\ frozen - 1 # 0 THEN ReadAllHashes(frozen - 1) ELSE {}
SideM(b) == number(b) # 0 /\ first <= number(b) /\ number(b) <= frozen
Side(b) == number(b) # 0 /\ first <= number(b) /\ number(b) < frozen

WipeSide ==
  /\ status = "running" /\ freezer = "side"
  /\ kv' = {b \in kv : ~Side(b)}
  /\ dangling' = Dangling
  /\ freezer' = "dangling"
  /\ UNCHANGED <<status, canon, head, top, pending, writing, tableVars, first, limit,
                 ancients, block, todo, rewindVars, readVars, faults, cut>>

\* And so do the blocks on top of the last of them, one number at a time.
OnDangling(b) ==
  /\ number(b) >= frozen /\ Anc(b, frozen - 1) \in dangling
  /\ \A n \in frozen..number(b) : Anc(b, n) \in kv

WipeDangling ==
  /\ status = "running" /\ freezer = "dangling"
  /\ kv' = IF frozen > 0 THEN {b \in kv : ~OnDangling(b)} ELSE kv
  /\ freezer' = "idle" /\ first' = 0 /\ limit' = 0 /\ ancients' = <<>> /\ block' = NoBlock
  /\ dangling' = {}
  /\ UNCHANGED <<status, canon, head, top, pending, writing, tableVars, todo, rewindVars,
                 readVars, faults, cut>>

-----------------------------------------------------------------------------
(* SetHead.  It is assumed not to go below the blocks that are being        *)
(* frozen at the same time.  A read of a block that it deletes is dropped.  *)

SetHead(n) ==
  /\ status = "running" /\ rewind = "idle" /\ pending = NoBlock
  /\ freezer = "idle" \/ limit <= n
  /\ n < number(head)
  /\ rewind' = "origin" /\ target' = n
  /\ IF reader # "idle" /\ number(wanted) > n
     THEN reader' = "idle" /\ wanted' = NoBlock ELSE UNCHANGED readVars
  /\ UNCHANGED <<status, chainVars, tableVars, freezeVars, doomed, faults, cut>>

\* The numbers whose blocks are deleted with the head: in the first round also
\* those above it, as far as they go on.
Above == {n \in Number : \A m \in (number(head) + 1)..n : ReadAllHashes(m) # {}}
Rewound == {n \in (IF rewind = "origin" THEN Above ELSE {number(head)}) : n >= number(head)}

\* The markers go down first, then the data.
RewindMarker ==
  /\ status = "running" /\ rewind \in {"origin", "next"} /\ number(head) > target
  /\ head' = parent(head)
  /\ doomed' = doomed \cup Rewound
  /\ rewind' = "delete"
  /\ UNCHANGED <<status, kv, canon, top, pending, writing, tableVars, freezeVars, target,
                 readVars, faults, cut>>

\* TruncateAncients, one table after the other, and the counter at last.
Beyond(t) == Len(tables[t]) > number(head) + 1

RewindTable(t) ==
  /\ status = "running" /\ rewind = "delete"
  /\ frozen > number(head) + 1 /\ Beyond(t)
  /\ tables' = [tables EXCEPT ![t] = Prefix(@, number(head) + 1)]
  /\ safe' = [safe EXCEPT ![t] = Min(@, number(head) + 1)]
  /\ UNCHANGED <<status, chainVars, frozen, freezeVars, rewindVars, readVars, faults,
                 cut>>

RewindFrozen ==
  /\ status = "running" /\ rewind = "delete"
  /\ frozen > number(head) + 1 => \A t \in Table : ~Beyond(t)
  /\ frozen' = Min(frozen, number(head) + 1)
  /\ rewind' = "next"
  /\ UNCHANGED <<status, chainVars, tables, safe, freezeVars, target, doomed, readVars,
                 faults, cut>>

RewindFlush ==
  /\ status = "running" /\ rewind = "next" /\ number(head) <= target
  /\ kv' = {b \in kv : number(b) \notin doomed}
  /\ canon' = [n \in Number |-> IF n \in doomed THEN NoBlock ELSE canon[n]]
  /\ rewind' = "idle" /\ target' = 0 /\ doomed' = {}
  /\ UNCHANGED <<status, head, top, pending, writing, tableVars, freezeVars, readVars,
                 faults, cut>>

-----------------------------------------------------------------------------
(* ReadBodyRLP: the tables, the key-value store, and the tables again.  *)

InTables(b) == Has(Bodies, number(b)) /\ Has(1, number(b)) /\ Ancient(1, number(b)) = b

ReadStart(n) ==
  /\ status = "running" /\ reader \in {"idle", "missing"} /\ rewind = "idle"
  /\ n <= number(head)
  /\ wanted' = Anc(head, n) /\ reader' = "first"
  /\ UNCHANGED <<status, chainVars, tableVars, freezeVars, rewindVars, faults, cut>>

ReadStepM(found, next) ==
  /\ reader' = IF found THEN "idle" ELSE IF next = "second" THEN "missing" ELSE next
  /\ wanted' = IF found THEN NoBlock ELSE wanted
  /\ UNCHANGED <<status, chainVars, tableVars, freezeVars, rewindVars, faults, cut>>
ReadStep(found, next) ==
  /\ reader' = IF found THEN "idle" ELSE next
  /\ wanted' = IF found THEN NoBlock ELSE wanted
  /\ UNCHANGED <<status, chainVars, tableVars, freezeVars, rewindVars, faults, cut>>

ReadBody ==
  /\ status = "running"
  /\ \/ reader = "first" /\ ReadStep(InTables(wanted), "store")
     \/ reader = "store" /\ ReadStep(wanted \in kv, "second")
     \/ reader = "second" /\ ReadStep(InTables(wanted), "missing")

-----------------------------------------------------------------------------
(* Failure and restart. *)

Crash ==
  /\ status = "running" /\ faults < MaxFaults
  /\ rewind # "delete" \/ frozen <= number(head) + 1 \/ (CrashInTruncate /\ head # genesis)
  /\ status' = "down"
  /\ \E n \in [Table -> 0..(MaxNumber + 1)] :
       /\ \A t \in Table : safe[t] <= n[t] /\ n[t] <= Len(tables[t])
       /\ tables' = [t \in Table |-> Prefix(tables[t], n[t])]
  /\ safe' = safe
  /\ frozen' = 0
  /\ freezer' = "idle" /\ first' = 0 /\ limit' = 0 /\ ancients' = <<>> /\ block' = NoBlock
  /\ todo' = {} /\ dangling' = {}
  /\ rewind' = "idle" /\ target' = 0 /\ doomed' = {}
  /\ reader' = "idle" /\ wanted' = NoBlock
  /\ faults' = faults + 1
  /\ cut' = (cut \/ freezer = "dangling" \/ doomed # {})
  /\ pending' = NoBlock /\ writing' = "idle"
  /\ UNCHANGED <<kv, canon, head, top>>

\* NewDatabaseWithFreezer's check that n frozen blocks fit the key-value store.
Refuses(n) ==
  /\ canon[0] # NoBlock
  /\ IF n > 0
     THEN \/ Ancient(1, 0) # canon[0]
          \/ (n \notin Number \/ canon[n] = NoBlock) /\ number(head) > n - 1
     ELSE head # genesis /\ canon[1] = NoBlock

\* newFreezer and NewDatabaseWithFreezer.  NewBlockChain calls SetHead for the
\* number of its head if there are frozen blocks above it, and the loop over
\* the headers above the head's number is empty.
Open ==
  /\ status = "down"
  /\ \E n \in 0..(MaxNumber + 1) :
       repair(n) /\ status' = IF Refuses(n) THEN "refused" ELSE "running"
  /\ UNCHANGED <<chainVars, freezeVars, rewindVars, readVars, faults, cut>>

FreezeRound ==
  \/ FreezeStart \/ FreezeRead \/ WipeCanonical \/ WipeSide \/ WipeDangling
  \/ \E t \in Table : AppendTable(t) \/ AppendFails(t) \/ SyncTable(t)

Rewind == RewindMarker \/ RewindFrozen \/ RewindFlush \/ \E t \in Table : RewindTable(t)

Next ==
  \/ \E b \in Block, n \in 0..number(head) : Import(b, n)
  \/ \E n \in 0..number(head) : ReorgBlock(n)
  \/ \E n \in 0..number(head) : ReorgIndexes(n)
  \/ NewHead
  \/ FreezeStart \/ FreezeRead \/ WipeCanonical \/ WipeSide \/ WipeDangling
  \/ \E t \in Table : AppendTable(t) \/ AppendFails(t) \/ SyncTable(t)
  \/ \E n \in Number : SetHead(n)
  \/ RewindMarker \/ RewindFrozen \/ RewindFlush
  \/ \E t \in Table : RewindTable(t)
  \/ \E n \in Number : ReadStart(n)
  \/ ReadBody
  \/ Crash \/ Open

Spec == Init /\ [][Next]_vars
FairSpec == Spec /\ SF_vars(FreezeRound) /\ WF_vars(Rewind) /\ WF_vars(Open)

-----------------------------------------------------------------------------
(* Properties. *)

\* The stores, the counters and the places of the goroutines are what they
\* should be: no table or number is out of range.
TypeOK ==
  /\ status \in {"running", "down", "refused"}
  /\ kv \subseteq Block /\ canon \in [Number -> Block \cup {NoBlock}] /\ head \in Block
  /\ top \in Nat /\ pending \in Block \cup {NoBlock} /\ writing \in {"idle", "chain", "head"}
  /\ tables \in [Table -> Seq(Block)] /\ safe \in [Table -> Nat] /\ frozen \in Nat
  /\ freezer \in {"idle", "read", "append", "sync", "wipe", "side", "dangling"}
  /\ first \in Nat /\ limit \in Nat /\ ancients \in Seq(Block) /\ block \in Block \cup {NoBlock}
  /\ todo \subseteq Table /\ dangling \subseteq Block
  /\ rewind \in {"idle", "origin", "next", "delete"} /\ target \in Number /\ doomed \subseteq Number
  /\ reader \in {"idle", "first", "store", "second", "missing"} /\ wanted \in Block \cup {NoBlock}
  /\ faults \in 0..MaxFaults /\ cut \in BOOLEAN

\* The freezer relies on no more of its tables than what a table promises.
Log(t) == INSTANCE AncientLog WITH Blob <- Block, log <- tables[t], synced <- safe[t]
TablesAreLogs ==
  /\ \A t \in Table : Log(t)!Init
  /\ [][\A t \in Table : [Log(t)!Next]_<<tables[t], safe[t]>>]_<<tables, safe>>

\* No block of the canonical chain is ever out of reach, or would be after a
\* power failure: it is in the key-value store under its number, or safe in
\* every table.
NothingMissing ==
  \A n \in 0..number(head) :
    \/ Anc(head, n) \in kv /\ canon[n] = Anc(head, n)
    \/ \A t \in Table : n < safe[t] /\ Ancient(t, n) = Anc(head, n)

\* Item n of each table belongs to the canonical block n: no reorganisation,
\* rewind or crash leaves another block there.
AncientsCanonical ==
  status = "running" /\ rewind # "delete" =>
    \A t \in Table : \A n \in Number :
      Has(t, n) => n <= number(head) /\ Ancient(t, n) = Anc(head, n)

\* Outside of an append and a truncation the tables are equally long, whatever
\* failed before.
TablesAligned ==
  status = "running" /\ freezer # "append" /\ rewind # "delete" =>
    \A t \in Table : Len(tables[t]) = frozen

\* The checks at startup accept whatever a crash left behind.
StartsUp == status # "refused"

\* ReadBodyRLP finds a canonical block that is being moved between the stores,
\* or whose chain is reorganised, while it looks.
ReaderFinds ==
  reader = "missing" => ~(number(wanted) <= number(head) /\ Anc(head, number(wanted)) = wanted)

\* A round of the freezer, or a rewind, leaves no block behind whose parent it
\* has deleted, unless a failure cut it off.
NoOrphans ==
  status = "running" /\ freezer = "idle" /\ rewind = "idle" /\ ~cut =>
    \A b \in kv : number(b) > 0 => Known(parent(b))

\* What is old enough is frozen in the end, however often the machine fails
\* before, unless SetHead takes the head back.
EventuallyFrozen ==
  \A n \in Number : number(head) > n + threshold ~> frozen > n \/ number(head) <= n + threshold

\* "Ensure that a previous crash in SetHead doesn't leave extra ancients"
\* (core/blockchain.go:289): once the chain is open, no frozen block is above
\* the head.
NoExtraAncients ==
  status = "running" /\ rewind # "delete" /\ head # genesis => frozen <= number(head) + 1
=============================================================================
