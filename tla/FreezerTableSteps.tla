------------------------- MODULE FreezerTableSteps --------------------------
(***************************************************************************)
(* The inductive invariant of FreezerTable, and the proof that failures,   *)
(* repair and Append keep it.                                              *)
(***************************************************************************)
EXTENDS FreezerTable, TLAPS

USE DEF diskVars, tableVars

-----------------------------------------------------------------------------
(* The inductive invariant. *)

\* Entry n of the index: its item is in its file, and would be after a power
\* failure.
Ok(n) == Entry(n).offset <= Len(data[Entry(n).filenum].bytes)
Durable(n) == Entry(n).offset <= data[Entry(n).filenum].safe

\* Files hold what they are told, and one that is not there holds nothing.
FileInv ==
  /\ index.safe <= Entries
  /\ \A f \in Files : data[f].safe <= Len(data[f].bytes) /\ (~data[f].exists => data[f] = Missing)

\* The index goes up, and takes no more files than it has items.
IndexInv ==
  \A k \in Nat : k < Entries =>
    /\ k = 0 => Entry(k) = Zero
    /\ Entry(k).filenum <= k /\ k <= MaxItems
    /\ \A j \in Nat : j < k =>
         \/ Entry(j).filenum < Entry(k).filenum
         \/ Entry(j).filenum = Entry(k).filenum /\ Entry(j).offset <= Entry(k).offset

\* The files before the last are there and complete; an item whose bytes are
\* there is a blob.
ItemInv ==
  \A k \in Nat : k < Entries =>
    /\ \A f \in Files : f < Entry(k).filenum => data[f].exists
    /\ \A j \in Nat : j < Entries /\ Entry(j).filenum < Entry(k).filenum => Durable(j)
    /\ k > 0 /\ Ok(k) => Retrieve(k - 1) \in Blob

\* What was promised is safe.
PromiseInv ==
  /\ promised > 0 => promised < index.safe
  /\ \A k \in Nat : k < Entries /\ k <= promised => Durable(k)

\* Where the last item ends in the head file.
Base == IF headId = LastIndex.filenum THEN LastIndex.offset ELSE 0

ProcessInv ==
  /\ \/ appender = Idle \/ appender = [pc |-> "entry"] \/ appender = [pc |-> "sync"]
     \/ appender \in [pc : {"lock", "relock", "write"}, blob : Blob]
  /\ truncater = Idle \/ truncater \in [pc : {"files", "head"}, items : Nat]
  /\ status # "open" => appender = Idle /\ truncater = Idle

\* The table while it is open: the index is served, the files up to the head
\* are open, and the head ends where the table believes.
OpenInv ==
  /\ \A k \in Nat : k < Entries => Ok(k) /\ (Entry(k).filenum < headId => Durable(k))
  /\ \A f \in Files : f <= headId => data[f].exists
  /\ files = 0..headId
  /\ LastIndex.filenum <= headId
  /\ appender.pc \in {"lock", "relock", "write", "entry"} => items < MaxItems
  /\ appender.pc = "sync" => index.safe = Entries
  /\ truncater # Idle =>
       /\ truncater.items + 1 = Entries /\ truncater.items < items /\ Unlocked(appender.pc)
       /\ truncater.pc = "head" => headId = LastIndex.filenum
  /\ truncater = Idle =>
       /\ items + 1 = Entries
       /\ headBytes = Len(data[headId].bytes)
       /\ appender.pc \notin {"relock", "entry"} => headId = LastIndex.filenum
       /\ headId <= LastIndex.filenum + 1
       /\ appender.pc # "entry" => headBytes = Base
       /\ appender.pc = "entry" =>
            Base <= headBytes /\ SubSeq(data[headId].bytes, Base + 1, headBytes) \in Blob

IInv ==
  /\ TypeOK /\ FileInv /\ IndexInv /\ ItemInv /\ PromiseInv /\ ProcessInv
  /\ status # "failed"
  /\ status \in {"repair", "open"} => Entries > 0
  /\ status = "open" => OpenInv

-----------------------------------------------------------------------------
(* Files. *)

Pointer == [filenum : Files, offset : Nat]

\* What the operations on files do to their fields.
LEMMA WrittenFile ==
  ASSUME NEW S, NEW f \in File(S), NEW b \in Seq(S)
  PROVE  /\ Written(f, b) \in File(S) /\ Written(f, b).bytes = f.bytes \o b
         /\ Written(f, b).safe = f.safe /\ Written(f, b).exists = f.exists
<1>1. f.bytes \in Seq(S) /\ f.safe \in Nat /\ f.exists \in BOOLEAN
  BY Zenon DEF File
<1>2. f.bytes \o b \in Seq(S)
  BY <1>1
<1>3. QED
  BY Zenon, <1>2 DEF Written, File

LEMMA CutFile ==
  ASSUME NEW S, NEW f \in File(S), NEW n \in Nat, n <= Len(f.bytes)
  PROVE  /\ Truncated(f, n) \in File(S) /\ Truncated(f, n).bytes = SubSeq(f.bytes, 1, n)
         /\ Truncated(f, n).safe = Min(f.safe, n) /\ Truncated(f, n).exists = f.exists
         /\ Survived(f, n) \in File(S) /\ Survived(f, n).bytes = SubSeq(f.bytes, 1, n)
         /\ Survived(f, n).safe = n /\ Survived(f, n).exists = f.exists
<1>1. f.bytes \in Seq(S) /\ f.safe \in Nat /\ f.exists \in BOOLEAN
  BY Zenon DEF File
<1>2. SubSeq(f.bytes, 1, n) \in Seq(S)
  BY <1>1
<1>3. Min(f.safe, n) \in Nat
  BY Zenon, <1>1 DEF Min
<1>4. /\ Truncated(f, n) \in File(S) /\ Truncated(f, n).bytes = SubSeq(f.bytes, 1, n)
      /\ Truncated(f, n).safe = Min(f.safe, n) /\ Truncated(f, n).exists = f.exists
  BY Zenon, <1>2, <1>3 DEF Truncated, File
<1>5. /\ Survived(f, n) \in File(S) /\ Survived(f, n).bytes = SubSeq(f.bytes, 1, n)
      /\ Survived(f, n).safe = n /\ Survived(f, n).exists = f.exists
  BY Zenon, <1>2 DEF Survived, File
<1>6. QED
  BY Zenon, <1>4, <1>5

LEMMA SyncedFile ==
  ASSUME NEW S, NEW f \in File(S)
  PROVE  /\ Synced(f) \in File(S) /\ Synced(f).bytes = f.bytes
         /\ Synced(f).safe = Len(f.bytes) /\ Synced(f).exists = f.exists
<1>1. f.bytes \in Seq(S) /\ Len(f.bytes) \in Nat
  BY DEF File
<1>2. QED
  BY Zenon, <1>1 DEF Synced, File

\* A file that is opened for writing is there, and otherwise as before.
LEMMA OpenedFile ==
  ASSUME NEW S, NEW f \in File(S), ~f.exists => f = Missing
  PROVE  /\ Created(f) \in File(S) /\ Created(f).exists
         /\ Created(f).bytes = f.bytes /\ Created(f).safe = f.safe
BY DEF Created, File, Missing, Empty

\* A file that is started over.
LEMMA NewFile ==
  ASSUME NEW S
  PROVE  Empty \in File(S) /\ Missing \in File(S) /\ Empty.exists /\ Empty.bytes = <<>>
         /\ Empty.safe = 0 /\ Missing.bytes = <<>> /\ Missing.safe = 0
BY DEF Empty, Missing, File

\* A part of a file depends on nothing beyond its end.
LEMMA SamePart ==
  ASSUME NEW S, NEW b \in Seq(S), NEW c \in Seq(S), NEW s \in Nat, NEW e \in Nat,
         e <= Len(b), e <= Len(c), \A i \in Nat : 0 < i /\ i <= e => b[i] = c[i]
  PROVE  SubSeq(b, s + 1, e) = SubSeq(c, s + 1, e)
<1>1. CASE e <= s
  <2>1. SubSeq(b, s + 1, e) = <<>> /\ SubSeq(c, s + 1, e) = <<>>
    BY <1>1
  <2>2. QED
    BY Zenon, <2>1
<1>2. CASE s < e
  <2>1. PICK x, y : x = SubSeq(b, s + 1, e) /\ y = SubSeq(c, s + 1, e)
    BY Zenon
  <2>2. x \in Seq(S) /\ y \in Seq(S)
    BY <1>2, <2>1
  <2>3. Len(x) = e - s /\ Len(y) = e - s
    BY <1>2, <2>1
  <2>4. ASSUME NEW i \in 1..(e - s) PROVE x[i] = y[i]
    <3>1. x[i] = b[s + i] /\ y[i] = c[s + i]
      BY <1>2, <2>1, <2>4
    <3>2. QED
      BY <1>2, <2>4, <3>1
  <2>5. x = y
    BY <1>2, <2>2, <2>3, <2>4
  <2>6. QED
    BY Zenon, <2>1, <2>5
<1>3. e <= s \/ s < e
  OBVIOUS
<1>4. QED
  BY Zenon, <1>1, <1>2, <1>3

\* The beginning of a file.
LEMMA Beginning ==
  ASSUME NEW S, NEW b \in Seq(S), NEW n \in Nat, n <= Len(b)
  PROVE  /\ SubSeq(b, 1, n) \in Seq(S) /\ Len(SubSeq(b, 1, n)) = n
         /\ \A i \in Nat : 0 < i /\ i <= n => SubSeq(b, 1, n)[i] = b[i]
OBVIOUS

\* An index that is appended to.
LEMMA Joined ==
  ASSUME NEW S, NEW b \in Seq(S), NEW c \in Seq(S)
  PROVE  /\ b \o c \in Seq(S) /\ Len(b \o c) = Len(b) + Len(c)
         /\ \A i \in Nat : 0 < i /\ i <= Len(b) => (b \o c)[i] = b[i]
         /\ \A i \in Nat : 0 < i /\ i <= Len(c) => (b \o c)[Len(b) + i] = c[i]
OBVIOUS

\* The fields' types.
TypeFacts ==
  /\ index.bytes \in Seq(Pointer) /\ index.safe \in Nat /\ Entries \in Nat
  /\ \A k \in Nat : k < Entries =>
       /\ Entry(k) \in Pointer /\ Entry(k).filenum \in Files /\ Entry(k).filenum \in Nat
       /\ Entry(k).offset \in Nat
  /\ \A f \in Files : /\ data[f] \in File(Byte) /\ data[f].bytes \in Seq(Byte)
                      /\ Len(data[f].bytes) \in Nat /\ data[f].safe \in Nat
                      /\ data[f].exists \in BOOLEAN
  /\ Files \subseteq Nat /\ MaxItems \in Nat
  /\ headId \in Nat /\ headBytes \in Nat /\ items \in Nat /\ promised \in Nat
  /\ Entries > 0 => LastIndex = Entry(Entries - 1)

LEMMA Types == TypeOK => TypeFacts
<1>. SUFFICES ASSUME TypeOK PROVE TypeFacts
  BY Zenon
<1>1. index.bytes \in Seq(Pointer) /\ index.safe \in Nat
  BY Zenon DEF TypeOK, File, Pointer
<1>2. Entries \in Nat
  BY <1>1 DEF Entries
<1>3. Files \subseteq Nat /\ MaxItems \in Nat
  BY TableAssumption DEF Files
<1>4. ASSUME NEW k \in Nat, k < Entries
      PROVE  /\ Entry(k) \in Pointer /\ Entry(k).filenum \in Files /\ Entry(k).filenum \in Nat
             /\ Entry(k).offset \in Nat
  <2>1. Entry(k) \in Pointer
    BY <1>1, <1>4 DEF Entry, Entries
  <2>2. QED
    BY Zenon, <1>3, <2>1 DEF Pointer
<1>5. ASSUME NEW f \in Files
      PROVE  /\ data[f] \in File(Byte) /\ data[f].bytes \in Seq(Byte)
             /\ Len(data[f].bytes) \in Nat /\ data[f].safe \in Nat
             /\ data[f].exists \in BOOLEAN
  <2>1. data[f] \in File(Byte)
    BY Zenon DEF TypeOK
  <2>2. QED
    BY <2>1 DEF File
<1>6. Entries > 0 => LastIndex = Entry(Entries - 1)
  BY <1>2 DEF LastIndex, Entry
<1>7. headId \in Nat /\ headBytes \in Nat /\ items \in Nat /\ promised \in Nat
  BY <1>3 DEF TypeOK
<1>8. QED
  BY Zenon, <1>1, <1>2, <1>3, <1>4, <1>5, <1>6, <1>7 DEF TypeFacts

LEMMA TypesNext == TypeOK' => TypeFacts'
BY Types, PTL

-----------------------------------------------------------------------------
(* Steps that keep a beginning of the index, and the bytes it refers to. *)

\* Entry k is as before, refers to the same bytes if it refers to any, and is
\* as safe as before.
KeptEntry(k) ==
  /\ Entry(k)' = Entry(k)
  /\ Ok(k)' => /\ Ok(k)
               /\ \A i \in Nat : 0 < i /\ i <= Entry(k).offset =>
                    data'[Entry(k).filenum].bytes[i] = data[Entry(k).filenum].bytes[i]
  /\ Durable(k) => Durable(k)'
  /\ \A f \in Files : f < Entry(k).filenum /\ data[f].exists => data'[f].exists

Kept ==
  /\ Entries' <= Entries
  /\ \A k \in Nat : k < Entries' => KeptEntry(k)

\* They serve the items that are left unchanged.
LEMMA KeptItems ==
  ASSUME TypeOK, TypeOK', Kept, NEW i \in Nat, i + 1 < Entries', Ok(i + 1)'
  PROVE  Retrieve(i)' = Retrieve(i)
<1>1. Entries \in Nat /\ Entries' \in Nat
  BY Zenon, Types, TypesNext DEF TypeFacts
<1>2. i + 1 < Entries /\ i < Entries' /\ i < Entries /\ i + 1 \in Nat
  BY <1>1 DEF Kept
<1>3. Entry(i)' = Entry(i) /\ Entry(i + 1)' = Entry(i + 1)
  BY Zenon, <1>2 DEF Kept, KeptEntry
<1>4. Start(i)' = Start(i)
  BY Zenon, <1>3 DEF Start
<1>5. PICK g \in Files, e \in Nat : g = Entry(i + 1).filenum /\ e = Entry(i + 1).offset
  BY Zenon, <1>2, Types DEF TypeFacts
<1>6. PICK s \in Nat : s = Start(i)
  BY Zenon, <1>2, Types DEF Start, TypeFacts
<1>7. PICK b \in Seq(Byte), c \in Seq(Byte) : b = data[g].bytes /\ c = data'[g].bytes
  BY Zenon, Types, TypesNext DEF TypeFacts
<1>8. e <= Len(c) /\ e <= Len(b) /\ \A j \in Nat : 0 < j /\ j <= e => c[j] = b[j]
  BY Zenon, <1>2, <1>3, <1>5, <1>7 DEF Kept, KeptEntry, Ok
<1>9. SubSeq(c, s + 1, e) = SubSeq(b, s + 1, e)
  BY <1>8, SamePart
<1>10. Retrieve(i) = SubSeq(b, s + 1, e)
  BY Zenon, <1>5, <1>6, <1>7 DEF Retrieve
<1>11. Retrieve(i)' = SubSeq(c, s + 1, e)
  BY Zenon, <1>3, <1>4, <1>5, <1>6, <1>7 DEF Retrieve
<1>12. QED
  BY Zenon, <1>9, <1>10, <1>11

\* They preserve what the invariant says of the disk.
LEMMA KeptInv ==
  ASSUME TypeOK, TypeOK', IndexInv, ItemInv, Kept
  PROVE  IndexInv' /\ ItemInv'
<1>1. Entries \in Nat /\ Entries' \in Nat /\ Entries' <= Entries
  BY Zenon, Types, TypesNext DEF Kept, TypeFacts
<1>2. \A k \in Nat : k < Entries' => k < Entries /\ Entry(k)' = Entry(k)
  BY <1>1 DEF Kept, KeptEntry
<1>3. IndexInv'
  <2>. SUFFICES ASSUME NEW k \in Nat, k < Entries'
                PROVE  /\ k = 0 => Entry(k)' = Zero
                       /\ Entry(k)'.filenum <= k /\ k <= MaxItems
                       /\ \A j \in Nat : j < k =>
                            \/ Entry(j)'.filenum < Entry(k)'.filenum
                            \/ Entry(j)'.filenum = Entry(k)'.filenum /\ Entry(j)'.offset <= Entry(k)'.offset
    BY Zenon DEF IndexInv, Zero
  <2>1. k < Entries /\ Entry(k)' = Entry(k)
    BY Zenon, <1>2
  <2>2. \A j \in Nat : j < k => Entry(j)' = Entry(j)
    BY <1>1, <1>2
  <2>3. QED
    BY Zenon, <2>1, <2>2 DEF IndexInv
<1>4. ItemInv'
  <2>. SUFFICES ASSUME NEW k \in Nat, k < Entries'
                PROVE  /\ \A f \in Files : f < Entry(k)'.filenum => data'[f].exists
                       /\ \A j \in Nat : j < Entries' /\ Entry(j)'.filenum < Entry(k)'.filenum => Durable(j)'
                       /\ k > 0 /\ Ok(k)' => Retrieve(k - 1)' \in Blob
    BY Zenon DEF ItemInv, Files
  <2>1. k < Entries /\ Entry(k)' = Entry(k) /\ KeptEntry(k)
    BY Zenon, <1>2 DEF Kept
  <2>2. \A f \in Files : f < Entry(k)'.filenum => data'[f].exists
    BY Zenon, <2>1 DEF KeptEntry, ItemInv
  <2>3. ASSUME NEW j \in Nat, j < Entries', Entry(j)'.filenum < Entry(k)'.filenum PROVE Durable(j)'
    <3>1. j < Entries /\ Entry(j)' = Entry(j) /\ KeptEntry(j)
      BY Zenon, <1>2, <2>3 DEF Kept
    <3>2. Durable(j)
      BY Zenon, <2>1, <2>3, <3>1 DEF ItemInv
    <3>3. QED
      BY Zenon, <3>1, <3>2 DEF KeptEntry
  <2>4. ASSUME k > 0, Ok(k)' PROVE Retrieve(k - 1)' \in Blob
    <3>1. PICK i \in Nat : i = k - 1 /\ k = i + 1
      BY <2>4
    <3>2. Retrieve(i)' = Retrieve(i)
      BY Zenon, <2>4, <3>1, KeptItems
    <3>3. Ok(k)
      BY Zenon, <2>1, <2>4 DEF KeptEntry
    <3>4. QED
      BY Zenon, <2>1, <2>4, <3>1, <3>2, <3>3 DEF ItemInv
  <2>5. QED
    BY Zenon, <2>2, <2>3, <2>4
<1>5. QED
  BY Zenon, <1>3, <1>4

\* The same, for the files only.
KeptBytes(k) ==
  /\ Entry(k).offset <= Len(data'[Entry(k).filenum].bytes) =>
       /\ Entry(k).offset <= Len(data[Entry(k).filenum].bytes)
       /\ \A i \in Nat : 0 < i /\ i <= Entry(k).offset =>
            data'[Entry(k).filenum].bytes[i] = data[Entry(k).filenum].bytes[i]
  /\ Entry(k).offset <= data[Entry(k).filenum].safe =>
       Entry(k).offset <= data'[Entry(k).filenum].safe
  /\ \A f \in Files : f < Entry(k).filenum /\ data[f].exists => data'[f].exists

LEMMA KeptStep ==
  ASSUME TypeOK, NEW m \in Nat, m <= Entries, index'.bytes = SubSeq(index.bytes, 1, m),
         \A k \in Nat : k < m => KeptBytes(k)
  PROVE  Kept /\ Entries' = m
<1>1. PICK b \in Seq(Pointer) : b = index.bytes /\ m <= Len(b)
  BY Zenon, Types DEF TypeFacts, Entries
<1>2. /\ Len(SubSeq(b, 1, m)) = m
      /\ \A i \in Nat : 0 < i /\ i <= m => SubSeq(b, 1, m)[i] = b[i]
  BY Zenon, <1>1, Beginning
<1>3. Entries' = m
  BY Zenon, <1>1, <1>2 DEF Entries
<1>4. ASSUME NEW k \in Nat, k < m PROVE KeptEntry(k)
  <2>1. k + 1 \in Nat /\ 0 < k + 1 /\ k + 1 <= m
    BY <1>4
  <2>2. Entry(k)' = Entry(k)
    BY Zenon, <1>1, <1>2, <2>1 DEF Entry
  <2>3. KeptBytes(k)
    BY Zenon, <1>4
  <2>4. QED
    BY Zenon, <2>2, <2>3 DEF KeptEntry, KeptBytes, Ok, Durable
<1>5. QED
  BY Zenon, <1>3, <1>4 DEF Kept

\* An index that is left alone.
LEMMA KeptIndex ==
  ASSUME TypeOK, index'.bytes = index.bytes, \A k \in Nat : k < Entries => KeptBytes(k)
  PROVE  Kept /\ Entries' = Entries
<1>1. Entries \in Nat /\ index.bytes = SubSeq(index.bytes, 1, Entries)
  BY Types DEF TypeFacts, Entries
<1>2. QED
  BY <1>1, KeptStep

\* Files that are left alone, created or synced.
SameFile(f) ==
  /\ data'[f].bytes = data[f].bytes /\ data[f].safe <= data'[f].safe
  /\ data[f].exists => data'[f].exists

LEMMA SameFiles ==
  ASSUME TypeOK, TypeOK', \A f \in Files : SameFile(f), NEW k \in Nat, k < Entries
  PROVE  KeptBytes(k)
<1>1. PICK g \in Files, e \in Nat : g = Entry(k).filenum /\ e = Entry(k).offset
  BY Zenon, Types DEF TypeFacts
<1>2. data[g].safe \in Nat /\ data'[g].safe \in Nat
  BY Zenon, Types, TypesNext DEF TypeFacts
<1>3. SameFile(g)
  BY Zenon
<1>4. QED
  BY <1>1, <1>2, <1>3 DEF KeptBytes, SameFile

\* No more is promised than before.
LEMMA KeptPromise ==
  ASSUME TypeOK, TypeOK', Kept, PromiseInv, promised' <= promised,
         promised' > 0 => promised' < index'.safe
  PROVE  PromiseInv'
<1>1. promised \in Nat /\ promised' \in Nat /\ Entries \in Nat /\ Entries' \in Nat
  BY Zenon, Types, TypesNext DEF TypeFacts
<1>2. ASSUME NEW k \in Nat, k < Entries', k <= promised' PROVE Durable(k)'
  <2>1. k < Entries /\ k <= promised
    BY <1>1, <1>2 DEF Kept
  <2>2. QED
    BY Zenon, <1>2, <2>1 DEF PromiseInv, Kept, KeptEntry
<1>3. QED
  BY Zenon, <1>2 DEF PromiseInv

\* The last entry is the highest.
LEMMA Last ==
  ASSUME TypeOK, IndexInv, Entries > 0
  PROVE  /\ LastIndex.filenum \in Files /\ LastIndex.filenum \in Nat /\ LastIndex.offset \in Nat
         /\ Entries - 1 \in Nat /\ Entries - 1 < Entries
         /\ LastIndex = Entry(Entries - 1)
         /\ LastIndex.filenum <= Entries - 1
         /\ \A k \in Nat : k < Entries =>
              /\ Entry(k).filenum <= LastIndex.filenum
              /\ Entry(k).filenum = LastIndex.filenum => Entry(k).offset <= LastIndex.offset
<1>1. PICK l \in Nat : l = Entries - 1 /\ l < Entries /\ LastIndex = Entry(l)
  BY Types DEF TypeFacts
<1>2. Entry(l).filenum \in Files /\ Entry(l).filenum \in Nat /\ Entry(l).offset \in Nat
  BY Zenon, <1>1, Types DEF TypeFacts
<1>3. Entry(l).filenum <= l
  BY Zenon, <1>1 DEF IndexInv
<1>4. ASSUME NEW k \in Nat, k < Entries
      PROVE  /\ Entry(k).filenum <= Entry(l).filenum
             /\ Entry(k).filenum = Entry(l).filenum => Entry(k).offset <= Entry(l).offset
  <2>1. CASE k = l
    BY <1>2, <2>1
  <2>2. CASE k # l
    <3>1. k < l /\ Entry(k).filenum \in Nat
      BY <1>1, <1>4, <2>2, Types DEF TypeFacts
    <3>2. QED
      BY <1>1, <1>2, <3>1 DEF IndexInv
  <2>3. QED
    BY Zenon, <2>1, <2>2
<1>5. QED
  BY Zenon, <1>1, <1>2, <1>3, <1>4

\* Steps that touch neither the files nor what is promised.
LEMMA QuietDisk ==
  ASSUME IInv, TypeOK', UNCHANGED <<index, data, promised>>
  PROVE  /\ Kept /\ FileInv' /\ IndexInv' /\ ItemInv' /\ PromiseInv'
         /\ Entries' = Entries /\ LastIndex' = LastIndex
         /\ \A k \in Nat : Entry(k)' = Entry(k) /\ (Ok(k) => Ok(k)') /\ (Durable(k) => Durable(k)')
<1>1. TypeOK
  BY Zenon DEF IInv
<1>2. /\ Entries' = Entries /\ LastIndex' = LastIndex
      /\ \A k \in Nat : Entry(k)' = Entry(k) /\ (Ok(k) => Ok(k)') /\ (Durable(k) => Durable(k)')
  BY Zenon DEF Entries, LastIndex, Entry, Ok, Durable
<1>3. Kept
  <2>1. \A f \in Files : SameFile(f)
    BY <1>1, Types DEF SameFile, TypeFacts
  <2>2. QED
    BY Zenon, <1>1, <2>1, SameFiles, KeptIndex
<1>4. FileInv'
  BY Zenon, <1>2 DEF IInv, FileInv
<1>5. IndexInv' /\ ItemInv'
  BY Zenon, <1>1, <1>3, KeptInv DEF IInv
<1>6. PromiseInv'
  BY Zenon, <1>2 DEF IInv, PromiseInv
<1>7. QED
  BY Zenon, <1>2, <1>3, <1>4, <1>5, <1>6

-----------------------------------------------------------------------------
(* Failure. *)

LEMMA StopInv ==
  ASSUME IInv, Stop
  PROVE  IInv' /\ Kept
<1>1. /\ TypeOK /\ UNCHANGED <<index, data, promised>> /\ status' = "down"
      /\ items' = 0 /\ headId' = 0 /\ headBytes' = 0 /\ files' = {}
      /\ appender' = Idle /\ truncater' = Idle
  BY Zenon DEF Stop, Down, IInv
<1>2. TypeOK'
  BY <1>1, TableAssumption DEF TypeOK, Files
<1>3. Kept /\ FileInv' /\ IndexInv' /\ ItemInv' /\ PromiseInv'
  BY Zenon, <1>1, <1>2, QuietDisk
<1>4. ProcessInv'
  BY Zenon, <1>1 DEF ProcessInv
<1>5. QED
  BY Zenon, <1>1, <1>2, <1>3, <1>4 DEF IInv

LEMMA PowerFailureInv ==
  ASSUME IInv, PowerFailure
  PROVE  IInv' /\ Kept
<1>1. /\ TypeOK /\ promised' = promised /\ status' = "down"
      /\ items' = 0 /\ headId' = 0 /\ headBytes' = 0 /\ files' = {}
      /\ appender' = Idle /\ truncater' = Idle
  BY Zenon DEF PowerFailure, Down, IInv
<1>2. PICK m \in Nat : m >= index.safe /\ m <= Entries /\ index' = Survived(index, m)
  BY <1>1, Types DEF PowerFailure, Lengths, TypeFacts, Entries
<1>3. /\ index' \in File(Pointer) /\ index'.bytes = SubSeq(index.bytes, 1, m) /\ index'.safe = m
  <2>1. index \in File(Pointer) /\ m <= Len(index.bytes)
    BY Zenon, <1>1, <1>2 DEF TypeOK, Pointer, Entries
  <2>2. QED
    BY Zenon, <1>2, <2>1, CutFile
<1>4. PICK n \in [Unsynced -> 0..(maxFileSize * 2)] :
        /\ \A f \in Unsynced : n[f] \in Lengths(data[f])
        /\ data' = [f \in Files |-> IF f \in Unsynced THEN Survived(data[f], n[f]) ELSE data[f]]
  BY Zenon DEF PowerFailure
<1>5. ASSUME NEW f \in Files
      PROVE  /\ data'[f] \in File(Byte) /\ data'[f].exists = data[f].exists
             /\ data'[f].safe = Len(data'[f].bytes) /\ data[f].safe <= data'[f].safe
             /\ Len(data'[f].bytes) <= Len(data[f].bytes)
             /\ \A i \in Nat : 0 < i /\ i <= Len(data'[f].bytes) => data'[f].bytes[i] = data[f].bytes[i]
             /\ ~data[f].exists => data'[f] = data[f]
  <2>1. PICK d \in File(Byte) : /\ d = data[f] /\ d.bytes \in Seq(Byte) /\ d.safe \in Nat
                                /\ Len(d.bytes) \in Nat /\ d.safe <= Len(d.bytes)
                                /\ ~d.exists => d = Missing
    BY Zenon, <1>1, Types DEF TypeFacts, IInv, FileInv
  <2>2. CASE f \in Unsynced
    <3>1. PICK l \in Nat : l = n[f] /\ d.safe <= l /\ l <= Len(d.bytes) /\ data'[f] = Survived(d, l)
      BY <1>4, <2>1, <2>2 DEF Lengths
    <3>2. /\ Survived(d, l) \in File(Byte) /\ Survived(d, l).bytes = SubSeq(d.bytes, 1, l)
          /\ Survived(d, l).safe = l /\ Survived(d, l).exists = d.exists
      BY <3>1, CutFile
    <3>3. /\ Len(SubSeq(d.bytes, 1, l)) = l
          /\ \A i \in Nat : 0 < i /\ i <= l => SubSeq(d.bytes, 1, l)[i] = d.bytes[i]
      BY SMTT(60), <2>1, <3>1, Beginning
    <3>4. d.exists
      BY <2>1, <2>2 DEF Unsynced, Missing
    <3>5. QED
      BY <2>1, <3>1, <3>2, <3>3, <3>4
  <2>3. CASE f \notin Unsynced
    <3>1. data'[f] = d /\ d.safe = Len(d.bytes)
      BY <1>4, <2>1, <2>3 DEF Unsynced
    <3>2. QED
      BY Zenon, <2>1, <3>1
  <2>4. QED
    BY Zenon, <2>2, <2>3
<1>6. TypeOK'
  <2>1. data' \in [Files -> File(Byte)]
    BY Zenon, <1>4, <1>5
  <2>2. QED
    BY <1>1, <1>3, <2>1, TableAssumption DEF TypeOK, Files, Pointer
<1>7. ASSUME NEW k \in Nat, k < m PROVE KeptBytes(k)
  <2>1. PICK g \in Files, e \in Nat : g = Entry(k).filenum /\ e = Entry(k).offset
    <3>1. Entries \in Nat
      BY Zenon, <1>1, Types DEF TypeFacts
    <3>2. k < Entries
      BY <1>2, <1>7, <3>1
    <3>3. QED
      BY Zenon, <1>1, <3>2, Types DEF TypeFacts
  <2>2. /\ data[g].safe \in Nat /\ data'[g].safe \in Nat
        /\ Len(data[g].bytes) \in Nat /\ Len(data'[g].bytes) \in Nat
    BY Zenon, <1>1, <1>6, Types, TypesNext DEF TypeFacts
  <2>3. /\ data[g].safe <= data'[g].safe /\ Len(data'[g].bytes) <= Len(data[g].bytes)
        /\ \A i \in Nat : 0 < i /\ i <= Len(data'[g].bytes) => data'[g].bytes[i] = data[g].bytes[i]
    BY Zenon, <1>5
  <2>4. \A f \in Files : data[f].exists => data'[f].exists
    BY Zenon, <1>5
  <2>5. ASSUME e <= Len(data'[g].bytes)
        PROVE  /\ e <= Len(data[g].bytes)
               /\ \A i \in Nat : 0 < i /\ i <= e => data'[g].bytes[i] = data[g].bytes[i]
    BY <2>2, <2>3, <2>5
  <2>6. e <= data[g].safe => e <= data'[g].safe
    BY <2>2, <2>3
  <2>7. QED
    BY Zenon, <2>1, <2>4, <2>5, <2>6 DEF KeptBytes
<1>8. Kept /\ Entries' = m
  BY Zenon, <1>1, <1>2, <1>3, <1>7, KeptStep
<1>9. FileInv'
  <2>1. index'.safe <= Entries'
    BY <1>3, <1>8
  <2>2. ASSUME NEW f \in Files
        PROVE  data'[f].safe <= Len(data'[f].bytes) /\ (~data'[f].exists => data'[f] = Missing)
    <3>1. data'[f].safe \in Nat
      BY Zenon, <1>6, TypesNext DEF TypeFacts
    <3>2. /\ data'[f].safe = Len(data'[f].bytes) /\ data'[f].exists = data[f].exists
          /\ ~data[f].exists => data'[f] = data[f]
      BY Zenon, <1>5
    <3>3. ~data[f].exists => data[f] = Missing
      BY Zenon DEF IInv, FileInv
    <3>4. QED
      BY <3>1, <3>2, <3>3
  <2>3. QED
    BY Zenon, <2>1, <2>2 DEF FileInv, Missing
<1>10. PromiseInv'
  <2>1. promised' <= promised /\ (promised' > 0 => promised' < index'.safe)
    BY <1>1, <1>2, <1>3, Types DEF IInv, PromiseInv, TypeFacts
  <2>2. QED
    BY Zenon, <1>1, <1>6, <1>8, <2>1, KeptPromise DEF IInv
<1>11. IndexInv' /\ ItemInv'
  BY Zenon, <1>1, <1>6, <1>8, KeptInv DEF IInv
<1>12. ProcessInv'
  BY Zenon, <1>1 DEF ProcessInv
<1>13. QED
  BY Zenon, <1>1, <1>6, <1>8, <1>9, <1>10, <1>11, <1>12 DEF IInv

-----------------------------------------------------------------------------
(* Opening. *)

\* A new index, or none that could be used.
LEMMA OpenStepInv ==
  ASSUME IInv, Open
  PROVE  IInv' /\ promised' = promised /\ (Kept \/ (Entries = 0 /\ Entries' = 1))
<1>1. /\ TypeOK /\ UNCHANGED <<data, items, headId, headBytes, files, appender, truncater, promised>>
      /\ status = "down" /\ status' = "repair"
      /\ index' = IF Entries = 0 THEN Written(Created(index), <<Zero>>) ELSE index
  BY Zenon DEF Open, IInv
<1>2. ProcessInv'
  BY Zenon, <1>1 DEF IInv, ProcessInv
<1>3. CASE Entries # 0
  <2>1. index' = index /\ Entries > 0
    BY <1>1, <1>3, Types DEF TypeFacts
  <2>2. TypeOK' /\ Entries' = Entries
    BY Zenon, <1>1, <2>1 DEF TypeOK, Entries
  <2>3. Kept /\ FileInv' /\ IndexInv' /\ ItemInv' /\ PromiseInv'
    BY Zenon, <1>1, <2>1, <2>2, QuietDisk
  <2>4. QED
    BY Zenon, <1>1, <1>2, <2>1, <2>2, <2>3 DEF IInv
<1>4. CASE Entries = 0
  <2>1. index.bytes = <<>> /\ index.safe = 0 /\ promised = 0
    <3>1. index.bytes \in Seq(Pointer) /\ index.safe \in Nat /\ promised \in Nat
      BY Zenon, <1>1, Types DEF TypeFacts
    <3>2. QED
      BY <1>4, <3>1 DEF IInv, FileInv, PromiseInv, Entries
  <2>2. 0 \in Files /\ <<Zero>> \in Seq(Pointer) /\ Zero.filenum = 0 /\ Zero.offset = 0
    BY TableAssumption DEF Files, Zero, Pointer
  <2>3. Created(index) \in File(Pointer) /\ Created(index).bytes = <<>> /\ Created(index).safe = 0
    BY Zenon, <1>1, <2>1, NewFile DEF Created, TypeOK, Pointer
  <2>4. /\ index' \in File(Pointer) /\ index'.bytes = <<>> \o <<Zero>> /\ index'.safe = 0
    BY Zenon, <1>1, <1>4, <2>2, <2>3, WrittenFile
  <2>5. index'.bytes = <<Zero>>
    BY <2>2, <2>4
  <2>6. TypeOK'
    BY Zenon, <1>1, <2>4 DEF TypeOK, Pointer
  <2>7. Entries' = 1 /\ Entry(0)' = Zero
    BY <2>5 DEF Entries, Entry
  <2>8. FileInv'
    BY <1>1, <2>4, <2>7 DEF IInv, FileInv
  <2>9. \A k \in Nat : k < Entries' => k = 0
    BY <2>7
  <2>10. IndexInv'
    BY <2>2, <2>7, <2>9, TableAssumption DEF IndexInv
  <2>11. Durable(0)'
    BY <1>1, <2>2, <2>7, Types DEF Durable, TypeFacts
  <2>12. ItemInv'
    BY <2>2, <2>7, <2>9, TableAssumption DEF ItemInv, Files
  <2>13. PromiseInv'
    BY <1>1, <2>1, <2>9, <2>11 DEF PromiseInv
  <2>14. QED
    BY <1>1, <1>2, <1>4, <2>6, <2>7, <2>8, <2>10, <2>12, <2>13 DEF IInv
<1>5. QED
  BY Zenon, <1>3, <1>4

\* The head file, which repair creates if it is not there.
LEMMA HeadFacts ==
  ASSUME IInv, Entries > 0
  PROVE  /\ HeadFile \in File(Byte) /\ HeadFile.exists
         /\ HeadFile.bytes = data[LastIndex.filenum].bytes
         /\ HeadFile.safe = data[LastIndex.filenum].safe
         /\ HeadFile.safe <= Len(HeadFile.bytes) /\ HeadFile.bytes \in Seq(Byte)
         /\ HeadFile.safe \in Nat
<1>1. TypeOK /\ LastIndex.filenum \in Files
  BY Zenon, Last DEF IInv
<1>2. PICK d \in File(Byte) : /\ d = data[LastIndex.filenum] /\ d.safe <= Len(d.bytes)
                              /\ ~d.exists => d = Missing
                              /\ d.bytes \in Seq(Byte) /\ d.safe \in Nat
  BY Zenon, <1>1, Types DEF TypeFacts, IInv, FileInv
<1>3. /\ Created(d) \in File(Byte) /\ Created(d).exists
      /\ Created(d).bytes = d.bytes /\ Created(d).safe = d.safe
  BY Zenon, <1>2, OpenedFile
<1>4. QED
  BY Zenon, <1>2, <1>3 DEF HeadFile

LEMMA RepairIndexInv ==
  ASSUME IInv, RepairIndex
  PROVE  IInv' /\ Kept
<1>1. /\ TypeOK /\ UNCHANGED <<items, headId, headBytes, files, status, appender, truncater, promised>>
      /\ status = "repair" /\ Entries > 0
      /\ LastIndex.offset > Len(HeadFile.bytes)
      /\ index' = Truncated(index, Entries - 1)
      /\ data' = [data EXCEPT ![LastIndex.filenum] = HeadFile]
  BY Zenon DEF RepairIndex, DanglingIndex, Shortened, IInv
<1>2. PICK l \in Nat, g \in Files : /\ l = Entries - 1 /\ l < Entries /\ LastIndex = Entry(l)
                                    /\ g = LastIndex.filenum /\ LastIndex.offset \in Nat
  BY Zenon, <1>1, Last DEF IInv
<1>3. /\ HeadFile \in File(Byte) /\ HeadFile.exists /\ HeadFile.bytes = data[g].bytes
      /\ HeadFile.safe = data[g].safe /\ HeadFile.safe <= Len(HeadFile.bytes)
      /\ HeadFile.bytes \in Seq(Byte) /\ HeadFile.safe \in Nat
  BY Zenon, <1>1, <1>2, HeadFacts
<1>4. ~Durable(l)
  BY <1>1, <1>2, <1>3 DEF Durable
<1>5. l > 0
  <2>1. l = 0 => LastIndex.offset = 0
    BY <1>2 DEF IInv, IndexInv, Zero
  <2>2. Len(HeadFile.bytes) \in Nat
    BY <1>3
  <2>3. QED
    BY <1>1, <2>1, <2>2
<1>6. index \in File(Pointer) /\ index.safe \in Nat /\ promised \in Nat /\ Entries \in Nat
      /\ l <= Len(index.bytes)
  BY <1>1, <1>2, Types DEF TypeOK, TypeFacts, Pointer, Entries
<1>7. index' \in File(Pointer) /\ index'.bytes = SubSeq(index.bytes, 1, l) /\ index'.safe = Min(index.safe, l)
  BY <1>1, <1>2, <1>6, CutFile
<1>8. TypeOK'
  <2>1. data' \in [Files -> File(Byte)]
    BY Zenon, <1>1, <1>2, <1>3 DEF TypeOK
  <2>2. QED
    BY Zenon, <1>1, <1>7, <2>1 DEF TypeOK, Pointer
<1>9. ASSUME NEW f \in Files PROVE SameFile(f) /\ data'[f].safe = data[f].safe
  <2>1. data'[f] = IF f = g THEN HeadFile ELSE data[f]
    BY Zenon, <1>1, <1>2 DEF TypeOK
  <2>2. data[f].safe \in Nat
    BY Zenon, <1>1, Types DEF TypeFacts
  <2>3. QED
    BY <1>3, <2>1, <2>2 DEF SameFile
<1>10. Kept /\ Entries' = l
  <2>1. \A k \in Nat : k < l => k < Entries /\ KeptBytes(k)
    BY <1>1, <1>2, <1>6, <1>8, <1>9, SameFiles
  <2>2. l <= Entries
    BY <1>2, <1>6
  <2>3. QED
    BY Zenon, <1>1, <1>7, <2>1, <2>2, KeptStep
<1>11. FileInv'
  <2>1. index'.safe <= Entries'
    BY <1>6, <1>7, <1>10 DEF Min
  <2>2. ASSUME NEW f \in Files
        PROVE  data'[f].safe <= Len(data'[f].bytes) /\ (~data'[f].exists => data'[f] = Missing)
    <3>1. data'[f] = IF f = g THEN HeadFile ELSE data[f]
      BY <1>1, <1>2 DEF TypeOK
    <3>2. QED
      BY Zenon, <1>3, <3>1 DEF IInv, FileInv
  <2>3. QED
    BY Zenon, <2>1, <2>2 DEF FileInv, Missing
<1>12. PromiseInv'
  <2>1. promised > 0 => promised < index.safe /\ promised < l
    BY <1>2, <1>4, <1>5, <1>6 DEF IInv, PromiseInv, FileInv
  <2>2. promised' <= promised /\ (promised' > 0 => promised' < index'.safe)
    BY <1>1, <1>6, <1>7, <2>1 DEF Min
  <2>3. QED
    BY Zenon, <1>1, <1>8, <1>10, <2>2, KeptPromise DEF IInv
<1>13. IndexInv' /\ ItemInv'
  BY Zenon, <1>1, <1>8, <1>10, KeptInv DEF IInv
<1>14. ProcessInv'
  BY Zenon, <1>1 DEF IInv, ProcessInv
<1>15. QED
  BY Zenon, <1>1, <1>5, <1>8, <1>10, <1>11, <1>12, <1>13, <1>14 DEF IInv

LEMMA RepairHeadInv ==
  ASSUME IInv, RepairHead
  PROVE  IInv' /\ Kept
<1>1. /\ TypeOK /\ UNCHANGED <<index, items, headId, headBytes, files, status, appender, truncater, promised>>
      /\ status = "repair" /\ Entries > 0
      /\ LastIndex.offset < Len(HeadFile.bytes)
      /\ data' = [data EXCEPT ![LastIndex.filenum] = Truncated(HeadFile, LastIndex.offset)]
  BY Zenon DEF RepairHead, DanglingHead, IInv
<1>2. PICK g \in Files, e \in Nat : /\ g = LastIndex.filenum /\ e = LastIndex.offset
                                    /\ \A k \in Nat : k < Entries =>
                                         Entry(k).filenum <= g /\ (Entry(k).filenum = g => Entry(k).offset <= e)
  BY Zenon, <1>1, Last DEF IInv
<1>3. PICK h \in File(Byte) : /\ h = HeadFile /\ h.exists /\ h.bytes = data[g].bytes
                              /\ h.safe = data[g].safe /\ h.safe <= Len(h.bytes)
                              /\ h.bytes \in Seq(Byte) /\ h.safe \in Nat /\ e < Len(h.bytes)
                              /\ Len(h.bytes) \in Nat
  BY <1>1, <1>2, HeadFacts
<1>4. PICK d \in File(Byte) : /\ d = Truncated(h, e) /\ d.exists /\ d.bytes = SubSeq(h.bytes, 1, e)
                              /\ d.safe = Min(h.safe, e)
  BY <1>3, CutFile
<1>5. Len(d.bytes) = e /\ \A i \in Nat : 0 < i /\ i <= e => d.bytes[i] = h.bytes[i]
  BY <1>3, <1>4, Beginning
<1>6. \A f \in Files : data'[f] = IF f = g THEN d ELSE data[f]
  BY Zenon, <1>1, <1>2, <1>3, <1>4 DEF TypeOK
<1>7. TypeOK'
  <2>1. data' \in [Files -> File(Byte)]
    BY Zenon, <1>1, <1>2, <1>3, <1>4 DEF TypeOK
  <2>2. QED
    BY Zenon, <1>1, <2>1 DEF TypeOK
<1>8. ASSUME NEW k \in Nat, k < Entries PROVE KeptBytes(k)
  <2>1. PICK q \in Files, o \in Nat : q = Entry(k).filenum /\ o = Entry(k).offset /\ (q = g => o <= e)
    BY Zenon, <1>1, <1>2, <1>8, Types DEF TypeFacts
  <2>2. \A f \in Files : data[f].exists => data'[f].exists
    BY Zenon, <1>4, <1>6
  <2>3. CASE q = g
    <3>1. o <= Len(h.bytes) /\ (o <= h.safe => o <= d.safe)
      BY <1>3, <1>4, <2>1, <2>3 DEF Min
    <3>2. QED
      BY <1>3, <1>5, <1>6, <2>1, <2>2, <2>3, <3>1 DEF KeptBytes
  <2>4. CASE q # g
    BY Zenon, <1>6, <2>1, <2>2, <2>4 DEF KeptBytes
  <2>5. QED
    BY Zenon, <2>3, <2>4
<1>9. Kept /\ Entries' = Entries
  BY Zenon, <1>1, <1>8, KeptIndex
<1>10. FileInv'
  <2>1. d.safe <= Len(d.bytes)
    BY <1>3, <1>4, <1>5 DEF Min
  <2>2. ASSUME NEW f \in Files
        PROVE  data'[f].safe <= Len(data'[f].bytes) /\ (~data'[f].exists => data'[f] = Missing)
    BY Zenon, <1>4, <1>6, <2>1 DEF IInv, FileInv
  <2>3. QED
    BY Zenon, <1>1, <1>9, <2>2 DEF IInv, FileInv, Missing
<1>11. PromiseInv'
  <2>1. promised' <= promised /\ (promised' > 0 => promised' < index'.safe)
    BY <1>1, Types DEF IInv, PromiseInv, TypeFacts
  <2>2. QED
    BY Zenon, <1>1, <1>7, <1>9, <2>1, KeptPromise DEF IInv
<1>12. IndexInv' /\ ItemInv'
  BY Zenon, <1>1, <1>7, <1>9, KeptInv DEF IInv
<1>13. ProcessInv'
  BY Zenon, <1>1 DEF IInv, ProcessInv
<1>14. QED
  BY Zenon, <1>1, <1>7, <1>9, <1>10, <1>11, <1>12, <1>13 DEF IInv

LEMMA RepairDoneInv ==
  ASSUME IInv, RepairDone
  PROVE  IInv' /\ Kept /\ promised' = Entries - 1 /\ \A k \in Nat : k < Entries => Ok(k)
<1>1. /\ TypeOK /\ UNCHANGED <<appender, truncater>> /\ appender = Idle /\ truncater = Idle
      /\ status = "repair" /\ Entries > 0
      /\ ~(LastIndex.offset > Len(HeadFile.bytes)) /\ ~(LastIndex.offset < Len(HeadFile.bytes))
      /\ index' = Synced(index)
      /\ data' = [data EXCEPT ![LastIndex.filenum] = Synced(HeadFile)]
      /\ items' = Entries - 1 /\ headId' = LastIndex.filenum /\ headBytes' = LastIndex.offset
      /\ files' = 0..LastIndex.filenum /\ promised' = Entries - 1
      /\ status' = IF \A f \in 0..LastIndex.filenum : data'[f].exists THEN "open" ELSE "failed"
  BY Zenon DEF RepairDone, DanglingHead, DanglingIndex, ItemCount, IInv, ProcessInv
<1>2. PICK g \in Files, e \in Nat, l \in Nat :
        /\ g = LastIndex.filenum /\ e = LastIndex.offset /\ l = Entries - 1 /\ l < Entries
        /\ LastIndex = Entry(l) /\ g \in Nat
        /\ \A k \in Nat : k < Entries =>
             Entry(k).filenum <= g /\ (Entry(k).filenum = g => Entry(k).offset <= e)
  BY Zenon, <1>1, Last DEF IInv
<1>3. PICK h \in File(Byte) : /\ h = HeadFile /\ h.exists /\ h.bytes = data[g].bytes
                              /\ h.safe = data[g].safe /\ h.safe <= Len(h.bytes)
                              /\ h.bytes \in Seq(Byte) /\ h.safe \in Nat /\ e = Len(h.bytes)
  <2>1. Len(HeadFile.bytes) \in Nat
    BY <1>1, HeadFacts
  <2>2. e = Len(HeadFile.bytes)
    BY <1>1, <1>2, <2>1
  <2>3. QED
    BY Zenon, <1>1, <1>2, <2>2, HeadFacts
<1>4. PICK d \in File(Byte) : d = Synced(h) /\ d.exists /\ d.bytes = h.bytes /\ d.safe = e
  BY <1>3, SyncedFile
<1>5. \A f \in Files : data'[f] = IF f = g THEN d ELSE data[f]
  BY Zenon, <1>1, <1>2, <1>3, <1>4 DEF TypeOK
<1>6. index' \in File(Pointer) /\ index'.bytes = index.bytes /\ index'.safe = Entries
  <2>1. index \in File(Pointer)
    BY Zenon, <1>1 DEF TypeOK, Pointer
  <2>2. QED
    BY Zenon, <1>1, <2>1, SyncedFile DEF Entries
<1>7. Entries' = Entries /\ LastIndex' = LastIndex /\ \A k \in Nat : Entry(k)' = Entry(k)
  BY Zenon, <1>6 DEF Entries, LastIndex, Entry
<1>8. TypeOK'
  <2>1. data' \in [Files -> File(Byte)]
    BY Zenon, <1>1, <1>2, <1>3, <1>4 DEF TypeOK
  <2>2. l \in 0..MaxItems
    BY <1>2, TableAssumption DEF IInv, IndexInv
  <2>3. 0..g \subseteq Files
    BY <1>2, TableAssumption DEF Files
  <2>4. QED
    BY Zenon, <1>1, <1>2, <1>6, <2>1, <2>2, <2>3 DEF TypeOK, Pointer
<1>9. ASSUME NEW f \in Files PROVE SameFile(f)
  <2>1. data[f].safe \in Nat
    BY Zenon, <1>1, Types DEF TypeFacts
  <2>2. QED
    BY <1>3, <1>4, <1>5, <2>1 DEF SameFile
<1>10. Kept
  BY Zenon, <1>1, <1>6, <1>8, <1>9, SameFiles, KeptIndex
<1>11. FileInv'
  <2>1. ASSUME NEW f \in Files
        PROVE  data'[f].safe <= Len(data'[f].bytes) /\ (~data'[f].exists => data'[f] = Missing)
    BY <1>3, <1>4, <1>5 DEF IInv, FileInv
  <2>2. index'.safe <= Entries'
    BY <1>6, <1>7, Types, <1>1 DEF TypeFacts
  <2>3. QED
    BY Zenon, <2>1, <2>2 DEF FileInv, Missing
<1>12. ASSUME NEW k \in Nat, k < Entries PROVE Durable(k)' /\ Ok(k)' /\ Ok(k)
  <2>1. PICK q \in Files, o \in Nat : /\ q = Entry(k).filenum /\ o = Entry(k).offset /\ q \in Nat
                                      /\ q <= g /\ (q = g => o <= e)
    BY Zenon, <1>1, <1>2, <1>12, Types DEF TypeFacts
  <2>2. CASE q = g
    BY Zenon, <1>3, <1>4, <1>5, <1>7, <2>1, <2>2 DEF Durable, Ok
  <2>3. CASE q # g
    <3>1. Durable(k)
      BY <1>2, <1>12, <2>1, <2>3 DEF IInv, ItemInv
    <3>2. /\ data'[q] = data[q] /\ data[q].safe <= Len(data[q].bytes)
          /\ data[q].safe \in Nat /\ Len(data[q].bytes) \in Nat
      BY Zenon, <1>1, <1>5, <2>3, Types DEF TypeFacts, IInv, FileInv
    <3>3. o <= data[q].safe /\ o <= Len(data[q].bytes)
      BY <2>1, <3>1, <3>2 DEF Durable
    <3>4. QED
      BY Zenon, <1>7, <2>1, <3>2, <3>3 DEF Durable, Ok
  <2>4. QED
    BY Zenon, <2>2, <2>3
<1>13. PromiseInv'
  <2>1. promised' < index'.safe
    BY Zenon, <1>1, <1>2, <1>6
  <2>2. QED
    BY Zenon, <1>7, <1>12, <2>1 DEF PromiseInv
<1>14. IndexInv' /\ ItemInv'
  BY Zenon, <1>1, <1>8, <1>10, KeptInv DEF IInv
<1>15. ProcessInv'
  BY Zenon, <1>1 DEF IInv, ProcessInv
<1>16. \A f \in Files : f <= g => data'[f].exists
  <2>. SUFFICES ASSUME NEW f \in Files, f <= g PROVE data'[f].exists
    BY Zenon
  <2>1. CASE f = g
    BY Zenon, <1>4, <1>5, <2>1
  <2>2. CASE f # g
    <3>1. f < g /\ data[f].exists
      BY <1>2, <2>2, TableAssumption DEF IInv, ItemInv, Files
    <3>2. QED
      BY Zenon, <1>5, <2>2, <3>1
  <2>3. QED
    BY Zenon, <2>1, <2>2
<1>17. status' = "open"
  <2>1. \A f \in 0..g : f \in Files /\ f <= g
    BY <1>2, TableAssumption DEF Files
  <2>2. QED
    BY Zenon, <1>1, <1>2, <1>16, <2>1
<1>18. OpenInv'
  <2>1. Base' = e /\ headId' = g /\ LastIndex'.filenum = g
    BY Zenon, <1>1, <1>2, <1>7 DEF Base
  <2>2. headBytes' = e /\ Len(data'[g].bytes) = e
    BY <1>1, <1>2, <1>3, <1>4, <1>5
  <2>3. appender'.pc = "idle" /\ truncater' = Idle
    BY Zenon, <1>1 DEF Idle
  <2>4. items' + 1 = Entries'
    <3>1. Entries \in Nat
      BY Zenon, <1>1, Types DEF TypeFacts
    <3>2. QED
      BY <1>1, <1>2, <1>7, <3>1
  <2>5. QED
    BY SMTT(60), <1>1, <1>2, <1>7, <1>12, <1>16, <2>1, <2>2, <2>3, <2>4 DEF OpenInv
<1>19. QED
  BY Zenon, <1>1, <1>7, <1>8, <1>10, <1>11, <1>12, <1>13, <1>14, <1>15, <1>17, <1>18 DEF IInv

-----------------------------------------------------------------------------
(* Append. *)

LEMMA AppendItemInv ==
  ASSUME IInv, NEW b \in Blob, AppendItem(b)
  PROVE  IInv' /\ Kept
<1>1. /\ TypeOK /\ UNCHANGED <<index, data, items, headId, headBytes, files, status, truncater, promised>>
      /\ status = "open" /\ appender = Idle /\ truncater = Idle /\ items < MaxItems /\ OpenInv
      /\ appender' \in [pc : {"lock", "write"}, blob : Blob]
  BY Zenon DEF AppendItem, IInv
<1>2. TypeOK'
  BY Zenon, <1>1 DEF TypeOK
<1>3. /\ Kept /\ FileInv' /\ IndexInv' /\ ItemInv' /\ PromiseInv'
      /\ Entries' = Entries /\ LastIndex' = LastIndex
      /\ \A k \in Nat : Entry(k)' = Entry(k) /\ (Ok(k) => Ok(k)') /\ (Durable(k) => Durable(k)')
  BY Zenon, <1>1, <1>2, QuietDisk
<1>4. ProcessInv'
  BY Zenon, <1>1 DEF ProcessInv, IInv
<1>5. OpenInv'
  <2>1. appender'.pc \in {"lock", "write"} /\ appender.pc = "idle" /\ truncater' = Idle
    BY Zenon, <1>1 DEF Idle
  <2>2. Base' = Base
    BY Zenon, <1>1, <1>3 DEF Base
  <2>3. \A k \in Nat : k < Entries' => Ok(k)' /\ (Entry(k)'.filenum < headId' => Durable(k)')
    BY Zenon, <1>1, <1>3 DEF OpenInv
  <2>4. QED
    BY Zenon, <1>1, <1>3, <2>1, <2>2, <2>3 DEF OpenInv
<1>6. QED
  BY Zenon, <1>1, <1>2, <1>3, <1>4, <1>5 DEF IInv

\* Blob of an appender on its way.
LEMMA Appender ==
  ASSUME IInv, appender.pc \in {"lock", "relock", "write"}
  PROVE  /\ appender \in [pc : {"lock", "relock", "write"}, blob : Blob]
         /\ appender.blob \in Blob /\ appender.blob \in Seq(Byte)
         /\ Len(appender.blob) \in Nat /\ Len(appender.blob) > 0
<1>1. appender \in [pc : {"lock", "relock", "write"}, blob : Blob]
  BY DEF IInv, ProcessInv, Idle
<1>2. appender.blob \in Blob
  BY Zenon, <1>1
<1>3. appender.blob \in Seq(Byte) /\ Len(appender.blob) \in 1..maxFileSize /\ maxFileSize \in Nat
  BY Zenon, <1>2, TableAssumption
<1>4. QED
  BY <1>1, <1>2, <1>3

LEMMA NewHeadInv ==
  ASSUME ClosedFilesDurable, IInv, NewHead
  PROVE  IInv' /\ Kept
<1>1. /\ TypeOK /\ UNCHANGED <<index, items, status, truncater, promised>>
      /\ status = "open" /\ appender.pc = "lock" /\ truncater = Idle /\ OpenInv /\ Entries > 0
      /\ data' = [data EXCEPT ![headId + 1] = OpenTruncated(headId + 1), ![headId] = Closed(@)]
      /\ files' = files \cup {headId, headId + 1}
      /\ headBytes' = 0 /\ headId' = headId + 1
      /\ appender' = [appender EXCEPT !.pc = "relock"]
  BY Zenon DEF NewHead, IInv
<1>2. PICK h \in Files, n \in Files :
        /\ h = headId /\ n = headId + 1 /\ h \in Nat /\ h # n /\ h = LastIndex.filenum
        /\ items < MaxItems /\ items + 1 = Entries /\ files = 0..h
        /\ \A k \in Nat : k < Entries => Entry(k).filenum <= h
  <2>1. items < MaxItems /\ items + 1 = Entries /\ files = 0..headId /\ headId = LastIndex.filenum
    BY Zenon, <1>1 DEF OpenInv
  <2>2. headId \in Files /\ headId \in Nat /\ items \in Nat /\ MaxItems \in Nat
    BY Zenon, <1>1, Types DEF TypeOK, TypeFacts
  <2>3. LastIndex.filenum <= Entries - 1
    BY Zenon, <1>1, Last DEF IInv
  <2>4. headId + 1 \in Files
    BY <2>1, <2>2, <2>3 DEF Files
  <2>5. QED
    BY <1>1, <2>1, <2>2, <2>4, Last DEF IInv
<1>3. OpenTruncated(n) = Empty
  BY <1>2 DEF OpenTruncated
<1>4. PICK d \in File(Byte) : /\ d = Closed(data[h]) /\ d = Synced(data[h])
                              /\ d.bytes = data[h].bytes /\ d.safe = Len(d.bytes)
                              /\ d.exists = data[h].exists
  <2>1. data[h] \in File(Byte)
    BY Zenon, <1>1 DEF TypeOK
  <2>2. QED
    BY <2>1, SyncedFile DEF Closed
<1>5. \A f \in Files : data'[f] = IF f = h THEN d ELSE IF f = n THEN Empty ELSE data[f]
  BY Zenon, <1>1, <1>2, <1>3, <1>4 DEF TypeOK
<1>6. Empty \in File(Byte) /\ Empty.exists /\ Empty.bytes = <<>> /\ Empty.safe = 0
  BY Zenon, NewFile
<1>7. TypeOK'
  <2>1. data' \in [Files -> File(Byte)]
    BY Zenon, <1>1, <1>2, <1>3, <1>4, <1>6 DEF TypeOK
  <2>2. files' \subseteq Files
    BY Zenon, <1>1, <1>2 DEF TypeOK
  <2>3. QED
    BY Zenon, <1>1, <1>2, <2>1, <2>2 DEF TypeOK
<1>8. ASSUME NEW k \in Nat, k < Entries
      PROVE  KeptBytes(k) /\ Ok(k) /\ Entry(k).offset <= data'[Entry(k).filenum].safe
             /\ data'[Entry(k).filenum].bytes = data[Entry(k).filenum].bytes
  <2>1. PICK q \in Files, o \in Nat : q = Entry(k).filenum /\ o = Entry(k).offset /\ q <= h /\ q \in Nat
    BY Zenon, <1>1, <1>2, <1>8, Types DEF TypeFacts
  <2>2. q # n
    BY <1>2, <2>1
  <2>3. Ok(k) /\ (q < h => Durable(k))
    BY Zenon, <1>1, <1>2, <1>8, <2>1 DEF OpenInv
  <2>4. data'[q].bytes = data[q].bytes
    BY Zenon, <1>4, <1>5, <2>2
  <2>5. o <= data'[q].safe
    <3>1. CASE q = h
      BY <1>4, <1>5, <2>1, <2>3, <3>1 DEF Ok
    <3>2. CASE q # h
      <4>1. q < h /\ data'[q] = data[q]
        BY <1>2, <1>5, <2>1, <2>2, <3>2
      <4>2. QED
        BY Zenon, <2>1, <2>3, <4>1 DEF Durable
    <3>3. QED
      BY Zenon, <3>1, <3>2
  <2>6. \A f \in Files : data[f].exists => data'[f].exists
    BY Zenon, <1>4, <1>5, <1>6
  <2>7. QED
    BY Zenon, <2>1, <2>3, <2>4, <2>5, <2>6 DEF KeptBytes, Ok
<1>9. Kept /\ Entries' = Entries
  BY Zenon, <1>1, <1>8, KeptIndex
<1>10. LastIndex' = LastIndex /\ \A k \in Nat : Entry(k)' = Entry(k)
  BY Zenon, <1>1, <1>9 DEF LastIndex, Entry
<1>11. FileInv'
  <2>1. ASSUME NEW f \in Files
        PROVE  data'[f].safe <= Len(data'[f].bytes) /\ (~data'[f].exists => data'[f] = Missing)
    <3>1. CASE f = h
      <4>1. data[h].exists /\ Len(d.bytes) \in Nat
        BY Zenon, <1>1, <1>2, <1>4 DEF OpenInv, File
      <4>2. data'[f] = d
        BY Zenon, <1>5, <3>1
      <4>3. d.exists
        BY Zenon, <1>4, <4>1
      <4>4. data'[f].safe <= Len(data'[f].bytes)
        BY <1>4, <4>1, <4>2
      <4>5. QED
        BY Zenon, <4>2, <4>3, <4>4
    <3>2. CASE f = n
      <4>1. data'[f] = Empty
        BY Zenon, <1>2, <1>5, <3>2
      <4>2. QED
        BY <1>6, <4>1
    <3>3. CASE f # h /\ f # n
      BY Zenon, <1>5, <3>3 DEF IInv, FileInv
    <3>4. QED
      BY Zenon, <3>1, <3>2, <3>3
  <2>2. QED
    BY Zenon, <1>1, <1>9, <2>1 DEF IInv, FileInv, Missing
<1>12. PromiseInv'
  <2>1. promised' <= promised /\ (promised' > 0 => promised' < index'.safe)
    BY <1>1, Types DEF IInv, PromiseInv, TypeFacts
  <2>2. QED
    BY Zenon, <1>1, <1>7, <1>9, <2>1, KeptPromise DEF IInv
<1>13. IndexInv' /\ ItemInv'
  BY Zenon, <1>1, <1>7, <1>9, KeptInv DEF IInv
<1>14. appender' \in [pc : {"lock", "relock", "write"}, blob : Blob] /\ appender'.pc = "relock"
  BY Zenon, <1>1, Appender
<1>15. ProcessInv'
  BY Zenon, <1>1, <1>14 DEF ProcessInv, IInv
<1>16. OpenInv'
  <2>1. \A k \in Nat : k < Entries' => Ok(k)' /\ (Entry(k)'.filenum < headId' => Durable(k)')
    BY Zenon, <1>8, <1>9, <1>10 DEF Ok, Durable
  <2>2. \A f \in Files : f <= headId' => data'[f].exists
    <3>. SUFFICES ASSUME NEW f \in Files, f <= n PROVE data'[f].exists
      BY Zenon, <1>1, <1>2
    <3>1. f # n => data[f].exists
      BY <1>1, <1>2, TableAssumption DEF OpenInv, Files
    <3>2. QED
      BY Zenon, <1>2, <1>4, <1>5, <1>6, <3>1
  <2>3. files' = 0..headId'
    BY <1>1, <1>2
  <2>4. Base' = 0 /\ Len(data'[headId'].bytes) = 0
    <3>1. headId' = n /\ n # LastIndex'.filenum
      BY Zenon, <1>1, <1>2, <1>10
    <3>2. data'[n] = Empty
      BY Zenon, <1>2, <1>5
    <3>3. QED
      BY <1>6, <3>1, <3>2 DEF Base
  <2>5. truncater' = Idle /\ LastIndex'.filenum <= headId' /\ headId' <= LastIndex'.filenum + 1
    BY <1>1, <1>2, <1>10
  <2>6. items' < MaxItems /\ items' + 1 = Entries'
    BY Zenon, <1>1, <1>2, <1>9
  <2>7. QED
    BY Zenon, <1>1, <1>14, <2>1, <2>2, <2>3, <2>4, <2>5, <2>6 DEF OpenInv
<1>17. QED
  BY Zenon, <1>1, <1>7, <1>9, <1>11, <1>12, <1>13, <1>15, <1>16 DEF IInv

\* The end of a file that was appended to.
LEMMA Appended ==
  ASSUME NEW S, NEW b \in Seq(S), NEW c \in Seq(S)
  PROVE  SubSeq(b \o c, Len(b) + 1, Len(b) + Len(c)) = c
OBVIOUS

LEMMA WriteBlobInv ==
  ASSUME IInv, WriteBlob
  PROVE  IInv' /\ Kept
<1>1. /\ TypeOK /\ UNCHANGED <<index, items, headId, files, status, truncater, promised>>
      /\ status = "open" /\ OpenInv /\ Entries > 0 /\ appender.pc \in {"write", "relock"}
      /\ data' = [data EXCEPT ![headId] = Written(@, appender.blob)]
      /\ headBytes' = headBytes + Len(appender.blob)
      /\ appender' = [pc |-> "entry"]
  BY Zenon DEF WriteBlob, IInv
<1>2. truncater = Idle
  BY Zenon DEF WriteBlob, IInv, OpenInv, Unlocked
<1>3. PICK c \in Seq(Byte) : c = appender.blob /\ c \in Blob /\ Len(c) \in Nat
  BY Zenon, <1>1, Appender
<1>4. PICK h \in Files, o \in File(Byte) :
        /\ h = headId /\ o = data[h] /\ o.exists /\ o.bytes \in Seq(Byte) /\ o.safe \in Nat
        /\ o.safe <= Len(o.bytes) /\ Len(o.bytes) \in Nat /\ headBytes = Len(o.bytes) /\ Base = Len(o.bytes)
  <2>1. headId \in Files /\ headId <= headId
    BY <1>1, Types DEF TypeOK, TypeFacts
  <2>2. headBytes = Len(data[headId].bytes) /\ headBytes = Base /\ data[headId].exists
    BY Zenon, <1>1, <1>2, <2>1 DEF OpenInv
  <2>3. QED
    BY Zenon, <1>1, <2>1, <2>2, Types DEF TypeFacts, IInv, FileInv
<1>5. PICK d \in File(Byte) : d = Written(o, c) /\ d.bytes = o.bytes \o c /\ d.safe = o.safe /\ d.exists
  BY Zenon, <1>3, <1>4, WrittenFile
<1>6. /\ Len(d.bytes) = Len(o.bytes) + Len(c)
      /\ \A i \in Nat : 0 < i /\ i <= Len(o.bytes) => d.bytes[i] = o.bytes[i]
      /\ SubSeq(d.bytes, Len(o.bytes) + 1, Len(o.bytes) + Len(c)) = c
  <2>1. PICK y \in Seq(Byte) : y = o.bytes
    BY Zenon, <1>4
  <2>2. /\ Len(y \o c) = Len(y) + Len(c)
        /\ \A i \in Nat : 0 < i /\ i <= Len(y) => (y \o c)[i] = y[i]
    BY Joined
  <2>3. SubSeq(y \o c, Len(y) + 1, Len(y) + Len(c)) = c
    BY Zenon, Appended
  <2>4. QED
    BY Zenon, <1>5, <2>1, <2>2, <2>3
<1>7. \A f \in Files : data'[f] = IF f = h THEN d ELSE data[f]
  BY Zenon, <1>1, <1>3, <1>4, <1>5 DEF TypeOK
<1>8. TypeOK'
  <2>1. data' \in [Files -> File(Byte)]
    BY Zenon, <1>1, <1>3, <1>4, <1>5 DEF TypeOK
  <2>2. QED
    BY <1>1, <1>3, <2>1 DEF TypeOK
<1>9. ASSUME NEW k \in Nat, k < Entries
      PROVE  KeptBytes(k) /\ Entry(k).offset <= Len(data'[Entry(k).filenum].bytes)
             /\ data'[Entry(k).filenum].safe = data[Entry(k).filenum].safe
  <2>1. PICK q \in Files, e \in Nat : q = Entry(k).filenum /\ e = Entry(k).offset
    BY Zenon, <1>1, <1>9, Types DEF TypeFacts
  <2>2. e <= Len(data[q].bytes)
    BY Zenon, <1>1, <1>9, <2>1 DEF OpenInv, Ok
  <2>3. \A f \in Files : data[f].exists => data'[f].exists
    BY Zenon, <1>5, <1>7
  <2>4. CASE q = h
    <3>1. e <= Len(o.bytes) /\ e <= Len(d.bytes)
      <4>1. e <= Len(o.bytes)
        BY Zenon, <1>4, <2>2, <2>4
      <4>2. Len(d.bytes) = Len(o.bytes) + Len(c) /\ Len(o.bytes) \in Nat /\ Len(c) \in Nat
        BY Zenon, <1>3, <1>4, <1>6
      <4>3. QED
        BY <4>1, <4>2
    <3>2. \A i \in Nat : 0 < i /\ i <= e => d.bytes[i] = o.bytes[i]
      <4>1. Len(o.bytes) \in Nat
        BY Zenon, <1>4
      <4>2. QED
        BY <1>6, <3>1, <4>1
    <3>3. data[q] = o /\ data'[q] = d /\ d.safe = o.safe
      BY Zenon, <1>4, <1>5, <1>7, <2>4
    <3>4. QED
      BY Zenon, <2>1, <2>3, <3>1, <3>2, <3>3 DEF KeptBytes
  <2>5. CASE q # h
    BY Zenon, <1>7, <2>1, <2>2, <2>3, <2>5 DEF KeptBytes
  <2>6. QED
    BY Zenon, <2>4, <2>5
<1>10. Kept /\ Entries' = Entries
  BY Zenon, <1>1, <1>9, KeptIndex
<1>11. LastIndex' = LastIndex /\ \A k \in Nat : Entry(k)' = Entry(k)
  BY Zenon, <1>1, <1>10 DEF LastIndex, Entry
<1>12. FileInv'
  <2>1. d.safe <= Len(d.bytes)
    <3>1. Len(d.bytes) = Len(o.bytes) + Len(c) /\ Len(o.bytes) \in Nat /\ Len(c) \in Nat
      BY Zenon, <1>3, <1>4, <1>6
    <3>2. o.safe \in Nat /\ o.safe <= Len(o.bytes) /\ d.safe = o.safe
      BY Zenon, <1>4, <1>5
    <3>3. QED
      BY <3>1, <3>2
  <2>2. ASSUME NEW f \in Files
        PROVE  data'[f].safe <= Len(data'[f].bytes) /\ (~data'[f].exists => data'[f] = Missing)
    BY Zenon, <1>5, <1>7, <2>1 DEF IInv, FileInv
  <2>3. QED
    BY Zenon, <1>1, <1>10, <2>2 DEF IInv, FileInv, Missing
<1>13. PromiseInv'
  <2>1. promised' <= promised /\ (promised' > 0 => promised' < index'.safe)
    BY <1>1, Types DEF IInv, PromiseInv, TypeFacts
  <2>2. QED
    BY Zenon, <1>1, <1>8, <1>10, <2>1, KeptPromise DEF IInv
<1>14. IndexInv' /\ ItemInv'
  BY Zenon, <1>1, <1>8, <1>10, KeptInv DEF IInv
<1>15. ProcessInv'
  BY Zenon, <1>1 DEF ProcessInv, IInv
<1>16. OpenInv'
  <2>1. \A k \in Nat : k < Entries' => Ok(k)' /\ (Entry(k)'.filenum < headId' => Durable(k)')
    <3>. SUFFICES ASSUME NEW k \in Nat, k < Entries
                  PROVE  Ok(k)' /\ (Entry(k).filenum < headId => Durable(k)')
      BY Zenon, <1>1, <1>10, <1>11
    <3>1. Ok(k)'
      BY Zenon, <1>9, <1>11 DEF Ok
    <3>2. Entry(k).filenum < headId => Durable(k)
      BY Zenon, <1>1 DEF OpenInv
    <3>3. Durable(k) => Durable(k)'
      BY Zenon, <1>10 DEF Kept, KeptEntry
    <3>4. QED
      BY Zenon, <3>1, <3>2, <3>3
  <2>2. \A f \in Files : f <= headId' => data'[f].exists
    BY Zenon, <1>1, <1>5, <1>7 DEF OpenInv
  <2>3. Base' = Base
    BY Zenon, <1>1, <1>11 DEF Base
  <2>4. headBytes' = Len(o.bytes) + Len(c) /\ data'[headId'] = d /\ Base' = Len(o.bytes)
    BY Zenon, <1>1, <1>3, <1>4, <1>7, <2>3
  <2>5. /\ headBytes' = Len(data'[headId'].bytes)
        /\ Base' <= headBytes' /\ SubSeq(data'[headId'].bytes, Base' + 1, headBytes') \in Blob
    <3>1. Len(d.bytes) = Len(o.bytes) + Len(c) /\ Len(o.bytes) \in Nat /\ Len(c) \in Nat
      BY <1>3, <1>4, <1>6
    <3>2. Base' <= headBytes'
      BY <2>4, <3>1
    <3>3. SubSeq(data'[headId'].bytes, Base' + 1, headBytes') = c
      BY Zenon, <1>6, <2>4
    <3>4. QED
      BY Zenon, <1>3, <2>4, <3>1, <3>2, <3>3
  <2>6. appender'.pc = "entry" /\ truncater' = Idle /\ items' < MaxItems
    BY Zenon, <1>1, <1>2 DEF OpenInv
  <2>7. QED
    BY Zenon, <1>1, <1>2, <1>10, <1>11, <2>1, <2>2, <2>5, <2>6 DEF OpenInv
<1>17. QED
  BY Zenon, <1>1, <1>8, <1>10, <1>12, <1>13, <1>14, <1>15, <1>16 DEF IInv

LEMMA WriteEntryInv ==
  ASSUME IInv, WriteEntry
  PROVE  /\ IInv' /\ data' = data /\ promised' = promised /\ Entries > 0 /\ Entries' = Entries + 1
         /\ \A k \in Nat : k < Entries => Ok(k) /\ (k > 0 => Retrieve(k - 1)' = Retrieve(k - 1))
         /\ \A k \in Nat : k < Entries' => Ok(k)'
<1>1. /\ TypeOK /\ UNCHANGED <<data, headId, headBytes, files, status, truncater, promised>>
      /\ status = "open" /\ OpenInv /\ Entries > 0 /\ appender.pc = "entry"
      /\ index' = Written(index, <<[filenum |-> headId, offset |-> headBytes]>>)
      /\ items' = items + 1 /\ appender' = Idle
  BY Zenon DEF WriteEntry, IInv
<1>2. truncater = Idle
  BY Zenon, <1>1 DEF OpenInv, Unlocked
<1>3. PICK p \in Pointer : p = [filenum |-> headId, offset |-> headBytes]
                           /\ p.filenum = headId /\ p.offset = headBytes
  BY <1>1 DEF TypeOK, Pointer
<1>4. PICK N \in Nat, x \in Seq(Pointer) : N = Entries /\ x = index.bytes /\ N = Len(x) /\ N > 0
  BY Zenon, <1>1, Types DEF TypeFacts, Entries
<1>5. index' \in File(Pointer) /\ index'.bytes = x \o <<p>> /\ index'.safe = index.safe
  <2>1. index \in File(Pointer) /\ <<p>> \in Seq(Pointer)
    BY <1>1 DEF TypeOK, Pointer
  <2>2. QED
    BY Zenon, <1>1, <1>3, <1>4, <2>1, WrittenFile
<1>6. /\ Len(x \o <<p>>) = N + 1 /\ (x \o <<p>>)[N + 1] = p
      /\ \A i \in Nat : 0 < i /\ i <= N => (x \o <<p>>)[i] = x[i]
  BY <1>4
<1>7. Entries' = N + 1 /\ Entry(N)' = p
  BY Zenon, <1>5, <1>6 DEF Entries, Entry
<1>8. ASSUME NEW k \in Nat, k < N PROVE Entry(k)' = Entry(k)
  <2>1. k + 1 \in Nat /\ 0 < k + 1 /\ k + 1 <= N
    BY <1>4, <1>8
  <2>2. QED
    BY Zenon, <1>4, <1>5, <1>6, <2>1 DEF Entry
<1>9. LastIndex' = p
  BY Zenon, <1>5, <1>6, <1>7 DEF LastIndex
<1>10. /\ items < MaxItems /\ items + 1 = N /\ headBytes = Len(data[headId].bytes)
       /\ headId <= LastIndex.filenum + 1 /\ LastIndex.filenum <= headId
       /\ Base <= headBytes /\ SubSeq(data[headId].bytes, Base + 1, headBytes) \in Blob
       /\ \A f \in Files : f <= headId => data[f].exists
       /\ \A k \in Nat : k < N => Ok(k) /\ (Entry(k).filenum < headId => Durable(k))
  BY Zenon, <1>1, <1>2, <1>4 DEF OpenInv
<1>11. PICK l \in Nat : /\ l = N - 1 /\ l < N /\ LastIndex = Entry(l) /\ LastIndex.filenum <= l
                        /\ LastIndex.filenum \in Nat /\ LastIndex.offset \in Nat
                        /\ \A k \in Nat : k < N =>
                             /\ Entry(k).filenum <= LastIndex.filenum
                             /\ Entry(k).filenum = LastIndex.filenum => Entry(k).offset <= LastIndex.offset
  BY Zenon, <1>1, <1>4, Last DEF IInv
<1>12. headId \in Nat /\ headId \in Files /\ headBytes \in Nat /\ items \in Nat /\ MaxItems \in Nat
       /\ promised \in Nat /\ index.safe \in Nat
  BY Zenon, <1>1, Types DEF TypeFacts, TypeOK
<1>13. TypeOK'
  <2>1. items' \in 0..MaxItems
    BY <1>1, <1>10, <1>12
  <2>2. QED
    BY Zenon, <1>1, <1>5, <2>1 DEF TypeOK, Pointer
<1>14. FileInv'
  <2>1. index'.safe <= Entries'
    BY <1>4, <1>5, <1>7, <1>12 DEF IInv, FileInv
  <2>2. QED
    BY Zenon, <1>1, <2>1 DEF IInv, FileInv
<1>15. ASSUME NEW j \in Nat, j < N
       PROVE  /\ Entry(j).filenum \in Nat /\ Entry(j).offset \in Nat /\ Entry(j).filenum \in Files
              /\ Entry(j).filenum <= headId
              /\ Entry(j).filenum = headId => Entry(j).offset <= headBytes
  <2>1. Entry(j).filenum \in Nat /\ Entry(j).offset \in Nat /\ Entry(j).filenum \in Files
    BY Zenon, <1>1, <1>4, <1>15, Types DEF TypeFacts
  <2>2. Entry(j).filenum <= headId
    BY <1>10, <1>11, <1>12, <1>15, <2>1
  <2>3. ASSUME Entry(j).filenum = headId PROVE Entry(j).offset <= headBytes
    <3>1. LastIndex.filenum = headId
      BY SMTT(60), <1>10, <1>11, <1>12, <1>15, <2>1, <2>3
    <3>2. Base = LastIndex.offset /\ Entry(j).offset <= LastIndex.offset
      BY Zenon, <1>11, <1>15, <2>3, <3>1 DEF Base
    <3>3. QED
      <4>1. LastIndex.offset \in Nat /\ headBytes \in Nat /\ Base <= headBytes
        BY Zenon, <1>10, <1>11, <1>12
      <4>2. QED
        BY <2>1, <3>2, <4>1
  <2>4. QED
    BY Zenon, <2>1, <2>2, <2>3
<1>16. IndexInv'
  <2>. SUFFICES ASSUME NEW k \in Nat, k < Entries'
                PROVE  /\ k = 0 => Entry(k)' = Zero
                       /\ Entry(k)'.filenum <= k /\ k <= MaxItems
                       /\ \A j \in Nat : j < k =>
                            \/ Entry(j)'.filenum < Entry(k)'.filenum
                            \/ Entry(j)'.filenum = Entry(k)'.filenum /\ Entry(j)'.offset <= Entry(k)'.offset
    BY Zenon DEF IndexInv, Zero
  <2>1. CASE k < N
    <3>1. \A j \in Nat : j < k => Entry(j)' = Entry(j)
      BY <1>4, <1>8, <2>1
    <3>2. Entry(k)' = Entry(k)
      BY Zenon, <1>8, <2>1
    <3>3. QED
      BY <1>4, <2>1, <3>1, <3>2 DEF IInv, IndexInv
  <2>2. CASE k = N
    <3>1. Entry(k)' = p /\ k # 0 /\ p.filenum <= k /\ k <= MaxItems
      BY SMTT(60), <1>3, <1>4, <1>7, <1>10, <1>11, <1>12, <2>2
    <3>2. ASSUME NEW j \in Nat, j < k
          PROVE  \/ Entry(j)'.filenum < Entry(k)'.filenum
                 \/ Entry(j)'.filenum = Entry(k)'.filenum /\ Entry(j)'.offset <= Entry(k)'.offset
      <4>1. Entry(j)' = Entry(j)
        BY Zenon, <1>8, <2>2, <3>2
      <4>2. QED
        BY <1>3, <1>12, <1>15, <2>2, <3>1, <3>2, <4>1
    <3>3. QED
      BY Zenon, <3>1, <3>2
  <2>3. QED
    BY <1>4, <1>7, <2>1, <2>2
<1>17. ASSUME NEW k \in Nat, k < N
       PROVE  Ok(k)' /\ (Durable(k) => Durable(k)') /\ (k > 0 => Retrieve(k - 1)' = Retrieve(k - 1))
  <2>1. Entry(k)' = Entry(k) /\ Ok(k)
    BY Zenon, <1>8, <1>10, <1>17
  <2>2. Ok(k)' /\ (Durable(k) => Durable(k)')
    BY Zenon, <1>1, <2>1 DEF Ok, Durable
  <2>3. ASSUME k > 0 PROVE Retrieve(k - 1)' = Retrieve(k - 1)
    <3>1. PICK i \in Nat : i = k - 1 /\ i + 1 = k /\ i < N
      BY <1>4, <1>17, <2>3
    <3>2. Entry(i)' = Entry(i) /\ Entry(i + 1)' = Entry(i + 1)
      BY Zenon, <1>8, <2>1, <3>1
    <3>3. Retrieve(i)' = Retrieve(i)
      BY Zenon, <1>1, <3>2 DEF Retrieve, Start
    <3>4. QED
      BY Zenon, <3>1, <3>3
  <2>4. QED
    BY Zenon, <2>2, <2>3
<1>18. Ok(N)' /\ Retrieve(l)' \in Blob
  <2>1. Ok(N)'
    BY <1>1, <1>3, <1>7, <1>10, <1>12, Types DEF Ok, TypeFacts
  <2>2. Entry(l)' = Entry(l) /\ l + 1 = N /\ Entry(l + 1)' = p
    BY <1>7, <1>8, <1>11
  <2>3. Start(l)' = Base
    <3>1. CASE l = 0
      <4>1. Entry(l) = Zero
        BY Zenon, <1>4, <1>11, <3>1 DEF IInv, IndexInv
      <4>2. Base = 0
        BY <1>11, <4>1 DEF Base, Zero
      <4>3. QED
        BY Zenon, <3>1, <4>2 DEF Start
    <3>2. CASE l # 0
      BY Zenon, <1>3, <1>11, <2>2, <3>2 DEF Start, Base
    <3>3. QED
      BY Zenon, <3>1, <3>2
  <2>4. Retrieve(l)' = SubSeq(data[headId].bytes, Base + 1, headBytes)
    BY Zenon, <1>1, <1>3, <2>2, <2>3 DEF Retrieve
  <2>5. QED
    BY Zenon, <1>10, <2>1, <2>4
<1>19. ItemInv'
  <2>. SUFFICES ASSUME NEW k \in Nat, k < Entries'
                PROVE  /\ \A f \in Files : f < Entry(k)'.filenum => data'[f].exists
                       /\ \A j \in Nat : j < Entries' /\ Entry(j)'.filenum < Entry(k)'.filenum => Durable(j)'
                       /\ k > 0 /\ Ok(k)' => Retrieve(k - 1)' \in Blob
    BY Zenon DEF ItemInv, Files
  <2>1. Entry(k)'.filenum \in Nat /\ Entry(k)'.filenum <= headId
    BY <1>3, <1>4, <1>7, <1>8, <1>12, <1>15
  <2>2. ASSUME NEW f \in Files, f < Entry(k)'.filenum PROVE data'[f].exists
    BY SMTT(60), <1>1, <1>10, <1>12, <2>1, <2>2, TableAssumption DEF Files
  <2>3. ASSUME NEW j \in Nat, j < Entries', Entry(j)'.filenum < Entry(k)'.filenum PROVE Durable(j)'
    <3>1. j # N
      BY <1>3, <1>7, <1>12, <2>1, <2>3
    <3>2. j < N /\ Entry(j)' = Entry(j)
      BY <1>4, <1>7, <1>8, <2>3, <3>1
    <3>3. Entry(j).filenum < headId
      BY <1>12, <1>15, <2>1, <2>3, <3>2
    <3>4. QED
      BY Zenon, <1>10, <1>17, <3>2, <3>3
  <2>4. ASSUME k > 0, Ok(k)' PROVE Retrieve(k - 1)' \in Blob
    <3>1. CASE k = N
      BY Zenon, <1>11, <1>18, <3>1
    <3>2. CASE k < N
      <4>1. Ok(k) /\ Retrieve(k - 1)' = Retrieve(k - 1)
        BY Zenon, <1>10, <1>17, <2>4, <3>2
      <4>2. QED
        BY Zenon, <1>4, <2>4, <3>2, <4>1 DEF IInv, ItemInv
    <3>3. QED
      BY <1>4, <1>7, <3>1, <3>2
  <2>5. QED
    BY Zenon, <2>2, <2>3, <2>4
<1>20. PromiseInv'
  <2>1. ASSUME NEW k \in Nat, k < Entries', k <= promised PROVE Durable(k)'
    <3>1. k < N
      BY <1>4, <1>12, <2>1 DEF IInv, PromiseInv, FileInv
    <3>2. Durable(k)
      BY Zenon, <1>4, <2>1, <3>1 DEF IInv, PromiseInv
    <3>3. QED
      BY Zenon, <1>17, <3>1, <3>2
  <2>2. QED
    BY Zenon, <1>1, <1>5, <2>1 DEF IInv, PromiseInv
<1>21. ProcessInv'
  BY Zenon, <1>1 DEF ProcessInv, IInv
<1>22. \A k \in Nat : k < Entries' => Ok(k)' /\ (Entry(k)'.filenum < headId' => Durable(k)')
  <2>. SUFFICES ASSUME NEW k \in Nat, k < Entries'
                PROVE  Ok(k)' /\ (Entry(k)'.filenum < headId => Durable(k)')
    BY Zenon, <1>1
  <2>1. CASE k = N
    BY <1>3, <1>7, <1>12, <1>18, <2>1
  <2>2. CASE k < N
    BY Zenon, <1>8, <1>10, <1>17, <2>2
  <2>3. QED
    BY <1>4, <1>7, <2>1, <2>2
<1>23. OpenInv'
  <2>1. appender'.pc = "idle" /\ truncater' = Idle
    BY Zenon, <1>1, <1>2 DEF Idle
  <2>2. Base' = headBytes
    BY Zenon, <1>1, <1>3, <1>9 DEF Base
  <2>3. items' + 1 = Entries' /\ LastIndex'.filenum = headId' /\ headId' <= headId' + 1
    BY SMTT(60), <1>1, <1>3, <1>4, <1>7, <1>9, <1>10, <1>12
  <2>4. headBytes' = Len(data'[headId'].bytes) /\ headBytes' = Base' /\ headId' <= headId'
    BY <1>1, <1>10, <1>12, <2>2
  <2>5. files' = 0..headId' /\ \A f \in Files : f <= headId' => data'[f].exists
    BY Zenon, <1>1 DEF OpenInv
  <2>6. QED
    BY Zenon, <1>22, <2>1, <2>3, <2>4, <2>5 DEF OpenInv
<1>24. QED
  BY <1>1, <1>4, <1>7, <1>10, <1>13, <1>14, <1>16, <1>17, <1>19, <1>20, <1>21, <1>22, <1>23 DEF IInv

=============================================================================
