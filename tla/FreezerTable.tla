---------------------------- MODULE FreezerTable ----------------------------
(***************************************************************************)
(* A table of the freezer (core/rawdb/freezer_table.go): an index file and *)
(* numbered data files, appended to and truncated by two goroutines that   *)
(* hold the table's lock for a part of the time only, and repaired after   *)
(* the process or the machine stopped at any point.                        *)
(*                                                                         *)
(* Abstractions.  A blob is the bytes that are written, compressed or not. *)
(* The index is a file of entries, because repair cuts off a partial one.  *)
(* The code never deletes from the tail, so tailId and itemOffset are 0.   *)
(*                                                                         *)
(* The file system is external.  Creating, truncating and removing a file  *)
(* is journalled; bytes that were appended since the last fsync of a file  *)
(* may be missing after a power failure, from any point on.                *)
(***************************************************************************)
EXTENDS Naturals, Sequences, FiniteSets

CONSTANTS
  Blob,                \* what can be appended, sequences of bytes
  maxFileSize,
  MaxItems,            \* bound: items of the table
  ClosedFilesDurable   \* a full data file reaches the disk without an fsync

Byte == UNION {{b[i] : i \in 1..Len(b)} : b \in Blob}
Files == 0..MaxItems

ASSUME TableAssumption ==
  /\ Blob \subseteq Seq(Byte) /\ maxFileSize \in Nat /\ MaxItems \in Nat
  /\ \A b \in Blob : Len(b) \in 1..maxFileSize
  /\ ClosedFilesDurable \in BOOLEAN

VARIABLES
  index,      \* the index file
  data,       \* the data files, by number
  status,     \* "down", "repair", "open", or "failed" to open
  items, headId, headBytes,
  files,      \* the open data files
  appender,   \* the goroutine that appends and syncs
  truncater,  \* the goroutine that truncates
  promised    \* history: items that a Sync has returned for

diskVars == <<index, data>>
tableVars == <<items, headId, headBytes, files>>
vars == <<diskVars, tableVars, status, appender, truncater, promised>>

-----------------------------------------------------------------------------
(* Files: what they contain, and how much of it survives a power failure. *)

Missing == [exists |-> FALSE, bytes |-> <<>>, safe |-> 0]
Empty == [exists |-> TRUE, bytes |-> <<>>, safe |-> 0]
Min(a, b) == IF a < b THEN a ELSE b

Created(f) == IF f.exists THEN f ELSE Empty
Written(f, b) == [f EXCEPT !.bytes = @ \o b]
Truncated(f, n) == [f EXCEPT !.bytes = SubSeq(@, 1, n), !.safe = Min(@, n)]
Synced(f) == [f EXCEPT !.safe = Len(f.bytes)]
Closed(f) == IF ClosedFilesDurable THEN Synced(f) ELSE f

\* f after a power failure that n of its bytes survived.
Survived(f, n) == [f EXCEPT !.bytes = SubSeq(@, 1, n), !.safe = n]

Zero == [filenum |-> 0, offset |-> 0]
Entry(n) == index.bytes[n + 1]
Entries == Len(index.bytes)
LastIndex == index.bytes[Entries]

Idle == [pc |-> "idle"]

Init ==
  /\ index = Missing
  /\ data = [f \in Files |-> Missing]
  /\ status = "down"
  /\ items = 0 /\ headId = 0 /\ headBytes = 0 /\ files = {}
  /\ appender = Idle /\ truncater = Idle
  /\ promised = 0

-----------------------------------------------------------------------------
(* Opening the table: newCustomTable and repair. *)

Open ==
  /\ status = "down"
  /\ status' = "repair"
  /\ index' = IF Entries = 0 THEN Written(Created(index), <<Zero>>) ELSE index
  /\ UNCHANGED <<data, tableVars, appender, truncater, promised>>

HeadFile == Created(data[LastIndex.filenum])

\* One round of the loop that brings the index and the head file in sync.
DanglingIndex == LastIndex.offset > Len(HeadFile.bytes)
DanglingHead == LastIndex.offset < Len(HeadFile.bytes)

ShortenedM == index
Shortened == Truncated(index, Entries - 1)

RepairIndex ==
  /\ status = "repair" /\ DanglingIndex
  /\ index' = Shortened
  /\ data' = [data EXCEPT ![LastIndex.filenum] = HeadFile]
  /\ UNCHANGED <<status, tableVars, appender, truncater, promised>>

RepairHead ==
  /\ status = "repair" /\ DanglingHead
  /\ data' = [data EXCEPT ![LastIndex.filenum] = Truncated(HeadFile, LastIndex.offset)]
  /\ UNCHANGED <<index, status, tableVars, appender, truncater, promised>>

\* They are: fsync both, set the counters and open all files (preopen).
ItemCount == Entries - 1

RepairDone ==
  /\ status = "repair" /\ ~DanglingIndex /\ ~DanglingHead
  /\ index' = Synced(index)
  /\ data' = [data EXCEPT ![LastIndex.filenum] = Synced(HeadFile)]
  /\ items' = ItemCount
  /\ headId' = LastIndex.filenum
  /\ headBytes' = LastIndex.offset
  /\ files' = 0..LastIndex.filenum
  /\ status' = IF \A f \in 0..LastIndex.filenum : data'[f].exists THEN "open" ELSE "failed"
  /\ promised' = items'
  /\ UNCHANGED <<appender, truncater>>

-----------------------------------------------------------------------------
(* Append.  It holds the lock for reading, but gives it up to take it for   *)
(* writing when it needs a new file, and once more afterwards.              *)

Unlocked(pc) == pc \in {"idle", "lock", "relock", "sync"}

AppendItem(blob) ==
  /\ status = "open" /\ appender = Idle /\ truncater = Idle
  /\ items < MaxItems
  /\ appender' = [pc   |-> IF headBytes + Len(blob) > maxFileSize THEN "lock" ELSE "write",
                  blob |-> blob]
  /\ UNCHANGED <<diskVars, tableVars, status, truncater, promised>>

\* openFile for a file that is to be started over.
OpenTruncatedM(f) == Created(data[f])
OpenTruncated(f) == IF f \in files THEN data[f] ELSE Empty

NewHead ==
  /\ status = "open" /\ appender.pc = "lock" /\ truncater = Idle
  /\ data' = [data EXCEPT ![headId + 1] = OpenTruncated(headId + 1), ![headId] = Closed(@)]
  /\ files' = files \cup {headId, headId + 1}
  /\ headBytes' = 0
  /\ headId' = headId + 1
  /\ appender' = [appender EXCEPT !.pc = "relock"]
  /\ UNCHANGED <<index, items, status, truncater, promised>>

WriteBlob ==
  /\ status = "open"
  /\ appender.pc = "write" \/ (appender.pc = "relock" /\ truncater = Idle)
  /\ data' = [data EXCEPT ![headId] = Written(@, appender.blob)]
  /\ headBytes' = headBytes + Len(appender.blob)
  /\ appender' = [pc |-> "entry"]
  /\ UNCHANGED <<index, items, headId, files, status, truncater, promised>>

WriteEntry ==
  /\ status = "open" /\ appender.pc = "entry"
  /\ index' = Written(index, <<[filenum |-> headId, offset |-> headBytes]>>)
  /\ items' = items + 1
  /\ appender' = Idle
  /\ UNCHANGED <<data, headId, headBytes, files, status, truncater, promised>>

-----------------------------------------------------------------------------
(* Sync, which takes no lock. *)

SyncIndex ==
  /\ status = "open" /\ appender = Idle
  /\ index' = Synced(index)
  /\ appender' = [pc |-> "sync"]
  /\ UNCHANGED <<data, tableVars, status, truncater, promised>>

SyncedHeadM == data
SyncedHead == [data EXCEPT ![headId] = Synced(@)]
SyncHead ==
  /\ status = "open" /\ appender.pc = "sync"
  /\ data' = SyncedHead
  /\ promised' = Entries - 1
  /\ appender' = Idle
  /\ UNCHANGED <<index, tableVars, status, truncater>>

-----------------------------------------------------------------------------
(* truncate, under the lock: the index, then the files, then the counters. *)

TruncateIndex(n) ==
  /\ status = "open" /\ truncater = Idle /\ Unlocked(appender.pc)
  /\ n < items
  /\ index' = Truncated(index, n + 1)
  /\ promised' = Min(promised, n)
  /\ truncater' = [pc |-> IF Entry(n).filenum = headId THEN "head" ELSE "files", items |-> n]
  /\ UNCHANGED <<data, tableVars, status, appender>>

LaterMM(f) == {g \in files : g # f}
LaterM(f) == {g \in files : g >= f}
Later(f) == {g \in files : g > f}

TruncateFiles ==
  /\ status = "open" /\ truncater.pc = "files"
  /\ LET f == Entry(truncater.items).filenum
     IN  /\ data' = [g \in Files |-> IF g = f THEN Created(data[f])
                                     ELSE IF g \in Later(f) THEN Missing ELSE data[g]]
         /\ files' = (files \cup {f}) \ Later(f)
         /\ headId' = f
  /\ truncater' = [truncater EXCEPT !.pc = "head"]
  /\ UNCHANGED <<index, items, headBytes, status, appender, promised>>

TruncateHead ==
  /\ status = "open" /\ truncater.pc = "head"
  /\ data' = [data EXCEPT ![headId] = Truncated(@, Entry(truncater.items).offset)]
  /\ items' = truncater.items
  /\ headBytes' = Entry(truncater.items).offset
  /\ truncater' = Idle
  /\ UNCHANGED <<index, headId, files, status, appender, promised>>

-----------------------------------------------------------------------------

Down ==
  /\ status' = "down"
  /\ items' = 0 /\ headId' = 0 /\ headBytes' = 0 /\ files' = {}
  /\ appender' = Idle /\ truncater' = Idle
  /\ promised' = promised

\* The process ends at any point, or closes the table; the files are as they are.
Stop ==
  /\ status \in {"open", "repair"}
  /\ Down
  /\ UNCHANGED diskVars

Lengths(f) == f.safe..Len(f.bytes)

Unsynced == {f \in Files : data[f].safe < Len(data[f].bytes)}

PowerFailure ==
  /\ status # "failed"
  /\ \E n \in Lengths(index) : index' = Survived(index, n)
  /\ \E n \in [Unsynced -> 0..(maxFileSize * 2)] :
       /\ \A f \in Unsynced : n[f] \in Lengths(data[f])
       /\ data' = [f \in Files |-> IF f \in Unsynced THEN Survived(data[f], n[f]) ELSE data[f]]
  /\ Down

Next ==
  \/ Open \/ RepairIndex \/ RepairHead \/ RepairDone
  \/ \E b \in Blob : AppendItem(b)
  \/ NewHead \/ WriteBlob \/ WriteEntry
  \/ SyncIndex \/ SyncHead
  \/ \E n \in 0..(MaxItems - 1) : TruncateIndex(n)
  \/ TruncateFiles \/ TruncateHead
  \/ Stop \/ PowerFailure

Spec == Init /\ [][Next]_vars
FairSpec == Spec /\ WF_vars(Open \/ RepairIndex \/ RepairHead \/ RepairDone)

-----------------------------------------------------------------------------
(* Properties. *)

File(Content) == [exists : BOOLEAN, bytes : Seq(Content), safe : Nat]

\* The table's fields, and the files on the disk, hold what they should.
TypeOK ==
  /\ index \in File([filenum : Files, offset : Nat])
  /\ data \in [Files -> File(Byte)]
  /\ status \in {"down", "repair", "open", "failed"}
  /\ items \in 0..MaxItems /\ headId \in Files /\ headBytes \in Nat
  /\ files \subseteq Files
  /\ promised \in 0..MaxItems

\* getBounds and the read of Retrieve.
Start(i) == IF i # 0 /\ Entry(i).filenum = Entry(i + 1).filenum THEN Entry(i).offset ELSE 0
Retrieve(i) == SubSeq(data[Entry(i + 1).filenum].bytes, Start(i) + 1, Entry(i + 1).offset)

\* The items that repair finds, or would find now.
Found ==
  {n \in 0..(Entries - 1) : Entry(n).offset <= Len(data[Entry(n).filenum].bytes)}
Count == IF Found = {} THEN 0 ELSE CHOOSE n \in Found : \A m \in Found : m <= n

\* The table is a log of blobs: whatever was appended is read back, a
\* truncation takes the end, and what a Sync returned for survives a crash.
Log == INSTANCE AncientLog WITH log <- [i \in 1..Count |-> Retrieve(i - 1)], synced <- promised
ImplementsLog == Log!Spec

\* Retrieve, which shares the lock with Append, serves every item that the
\* counter admits: its entry is there, its file is open and long enough.
Retrievable ==
  status = "open" /\ truncater = Idle =>
    \A i \in 0..(items - 1) :
      /\ i + 1 < Entries
      /\ Entry(i + 1).filenum \in files
      /\ Entry(i + 1).offset <= Len(data[Entry(i + 1).filenum].bytes)
      /\ Retrieve(i) \in Blob

\* No crash leaves the table in a state that repair cannot mend.
AlwaysOpens == status # "failed"

\* Repair comes to an end.
RepairEnds == status = "repair" ~> status # "repair"
=============================================================================
