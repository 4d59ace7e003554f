------------------------- MODULE FreezerTableProofs -------------------------
(***************************************************************************)
(* A table of the freezer serves all its items, opens after every crash,   *)
(* and is the log that AncientLog promises, for any blobs, file sizes and  *)
(* numbers of items, if full files reach the disk (ClosedFilesDurable).    *)
(***************************************************************************)
EXTENDS FreezerTableSteps, FiniteSetTheorems

USE DEF diskVars, tableVars

-----------------------------------------------------------------------------
(* Sync and truncate. *)

\* The index does not point beyond the head.
LEMMA UpToHead ==
  ASSUME IInv, status = "open"
  PROVE  /\ TypeOK /\ OpenInv /\ Entries > 0 /\ headId \in Files /\ headId \in Nat
         /\ LastIndex.filenum <= headId
         /\ \A k \in Nat : k < Entries => Entry(k).filenum <= headId
<1>1. TypeOK /\ OpenInv /\ Entries > 0 /\ headId \in Files /\ headId \in Nat /\ LastIndex.filenum <= headId
  BY Zenon, Types DEF IInv, TypeOK, TypeFacts, OpenInv
<1>2. ASSUME NEW k \in Nat, k < Entries PROVE Entry(k).filenum <= headId
  <2>1. Entry(k).filenum <= LastIndex.filenum /\ LastIndex.filenum \in Nat
    BY Zenon, <1>1, <1>2, Last DEF IInv
  <2>2. Entry(k).filenum \in Nat
    BY Zenon, <1>1, <1>2, Types DEF TypeFacts
  <2>3. QED
    BY <1>1, <2>1, <2>2
<1>3. QED
  BY Zenon, <1>1, <1>2

LEMMA SyncIndexInv ==
  ASSUME IInv, SyncIndex
  PROVE  IInv' /\ Kept
<1>1. /\ TypeOK /\ UNCHANGED <<data, items, headId, headBytes, files, status, truncater, promised>>
      /\ status = "open" /\ appender = Idle /\ OpenInv /\ Entries > 0
      /\ index' = Synced(index) /\ appender' = [pc |-> "sync"]
  BY Zenon DEF SyncIndex, IInv
<1>2. index' \in File(Pointer) /\ index'.bytes = index.bytes /\ index'.safe = Entries
  <2>1. index \in File(Pointer)
    BY Zenon, <1>1 DEF TypeOK, Pointer
  <2>2. QED
    BY Zenon, <1>1, <2>1, SyncedFile DEF Entries
<1>3. TypeOK'
  BY Zenon, <1>1, <1>2 DEF TypeOK, Pointer
<1>4. /\ Entries' = Entries /\ LastIndex' = LastIndex
      /\ \A k \in Nat : Entry(k)' = Entry(k) /\ (Ok(k) => Ok(k)') /\ (Durable(k) => Durable(k)')
  BY Zenon, <1>1, <1>2 DEF Entries, LastIndex, Entry, Ok, Durable
<1>5. Kept
  <2>1. \A f \in Files : SameFile(f)
    <3>1. \A f \in Files : data[f].safe \in Nat
      BY Zenon, <1>1, Types DEF TypeFacts
    <3>2. \A f \in Files : data[f].safe <= data[f].safe
      BY <3>1
    <3>3. QED
      BY Zenon, <1>1, <3>2 DEF SameFile
  <2>2. QED
    BY Zenon, <1>1, <1>2, <1>3, <2>1, SameFiles, KeptIndex
<1>6. FileInv'
  <2>1. index'.safe <= Entries'
    BY <1>1, <1>2, <1>4, Types DEF TypeFacts
  <2>2. QED
    BY Zenon, <1>1, <2>1 DEF IInv, FileInv
<1>7. IndexInv' /\ ItemInv'
  BY Zenon, <1>1, <1>3, <1>5, KeptInv DEF IInv
<1>8. PromiseInv'
  <2>1. promised' <= promised /\ (promised' > 0 => promised' < index'.safe)
    BY <1>1, <1>2, Types DEF IInv, PromiseInv, FileInv, TypeFacts
  <2>2. QED
    BY Zenon, <1>1, <1>3, <1>5, <2>1, KeptPromise DEF IInv
<1>9. ProcessInv'
  BY Zenon, <1>1 DEF ProcessInv, IInv
<1>10. OpenInv'
  <2>1. \A k \in Nat : k < Entries' => Ok(k)' /\ (Entry(k)'.filenum < headId' => Durable(k)')
    BY Zenon, <1>1, <1>4 DEF OpenInv
  <2>2. Base' = Base
    BY Zenon, <1>1, <1>4 DEF Base
  <2>3. appender'.pc = "sync" /\ appender.pc = "idle" /\ Unlocked(appender'.pc)
    BY Zenon, <1>1 DEF Idle, Unlocked
  <2>4. QED
    BY Zenon, <1>1, <1>2, <1>4, <2>1, <2>2, <2>3 DEF OpenInv
<1>11. QED
  BY SMTT(60), <1>1, <1>3, <1>4, <1>5, <1>6, <1>7, <1>8, <1>9, <1>10 DEF IInv

LEMMA SyncHeadInv ==
  ASSUME IInv, SyncHead
  PROVE  IInv' /\ Kept /\ promised' = Entries - 1 /\ \A k \in Nat : k < Entries => Ok(k)
<1>1. /\ UNCHANGED <<index, items, headId, headBytes, files, status, truncater>>
      /\ status = "open" /\ appender.pc = "sync"
      /\ data' = [data EXCEPT ![headId] = Synced(@)]
      /\ promised' = Entries - 1 /\ appender' = Idle
  BY Zenon DEF SyncHead, SyncedHead
<1>2. /\ TypeOK /\ OpenInv /\ Entries > 0 /\ headId \in Files /\ headId \in Nat
      /\ LastIndex.filenum <= headId
      /\ \A k \in Nat : k < Entries => Entry(k).filenum <= headId
  BY Zenon, <1>1, UpToHead
<1>3. PICK h \in Files, d \in File(Byte) :
        /\ h = headId /\ d = Synced(data[h]) /\ d.bytes = data[h].bytes /\ d.safe = Len(d.bytes)
        /\ d.exists /\ d.safe \in Nat
  <2>1. data[headId] \in File(Byte) /\ data[headId].exists
    BY <1>2 DEF TypeOK, OpenInv
  <2>2. QED
    BY <1>2, <2>1, SyncedFile DEF File
<1>4. \A f \in Files : data'[f] = IF f = h THEN d ELSE data[f]
  BY Zenon, <1>1, <1>2, <1>3 DEF TypeOK
<1>5. Entries' = Entries /\ LastIndex' = LastIndex /\ \A k \in Nat : Entry(k)' = Entry(k)
  BY Zenon, <1>1 DEF Entries, LastIndex, Entry
<1>6. TypeOK'
  <2>1. data' \in [Files -> File(Byte)]
    BY Zenon, <1>1, <1>2, <1>3 DEF TypeOK
  <2>2. promised' \in 0..MaxItems
    BY <1>1, <1>2, Last, TableAssumption DEF IInv, IndexInv
  <2>3. QED
    BY Zenon, <1>1, <1>2, <2>1, <2>2 DEF TypeOK
<1>7. ASSUME NEW f \in Files PROVE SameFile(f)
  <2>1. data[f].safe \in Nat /\ data[f].safe <= Len(data[f].bytes)
    BY Zenon, <1>2, Types DEF TypeFacts, IInv, FileInv
  <2>2. QED
    BY <1>3, <1>4, <2>1 DEF SameFile
<1>8. Kept
  BY Zenon, <1>1, <1>2, <1>6, <1>7, SameFiles, KeptIndex
<1>9. FileInv'
  <2>1. ASSUME NEW f \in Files
        PROVE  data'[f].safe <= Len(data'[f].bytes) /\ (~data'[f].exists => data'[f] = Missing)
    BY <1>3, <1>4 DEF IInv, FileInv
  <2>2. QED
    BY Zenon, <1>1, <1>5, <2>1 DEF IInv, FileInv, Missing
<1>10. IndexInv' /\ ItemInv'
  BY Zenon, <1>2, <1>6, <1>8, KeptInv DEF IInv
<1>11. ASSUME NEW k \in Nat, k < Entries PROVE Ok(k) /\ Ok(k)' /\ Durable(k)'
  <2>1. PICK q \in Files, o \in Nat : q = Entry(k).filenum /\ o = Entry(k).offset /\ q <= h /\ q \in Nat
    BY Zenon, <1>2, <1>3, <1>11, Types DEF TypeFacts
  <2>2. Ok(k) /\ (q < h => Durable(k))
    BY Zenon, <1>2, <1>3, <1>11, <2>1 DEF OpenInv
  <2>3. Ok(k)'
    BY Zenon, <1>5, <1>7, <2>1, <2>2 DEF Ok, SameFile
  <2>4. Durable(k)'
    <3>1. CASE q = h
      <4>1. o <= Len(d.bytes)
        BY Zenon, <1>3, <2>1, <2>2, <3>1 DEF Ok
      <4>2. data'[q] = d /\ d.safe = Len(d.bytes) /\ Entry(k)' = Entry(k)
        BY Zenon, <1>3, <1>4, <1>5, <3>1
      <4>3. QED
        BY Zenon, <2>1, <4>1, <4>2 DEF Durable
    <3>2. CASE q # h
      <4>1. q < h
        BY <1>2, <1>3, <2>1, <3>2
      <4>2. QED
        BY Zenon, <1>8, <1>5, <1>11, <2>2, <4>1 DEF Kept, KeptEntry
    <3>3. QED
      BY Zenon, <3>1, <3>2
  <2>5. QED
    BY Zenon, <2>2, <2>3, <2>4
<1>12. PromiseInv'
  <2>1. promised' < index'.safe
    BY <1>1, <1>2, Types DEF OpenInv, TypeFacts
  <2>2. QED
    BY Zenon, <1>5, <1>11, <2>1 DEF PromiseInv
<1>13. ProcessInv'
  BY Zenon, <1>1 DEF ProcessInv, IInv
<1>14. OpenInv'
  <2>1. \A k \in Nat : k < Entries' => Ok(k)' /\ (Entry(k)'.filenum < headId' => Durable(k)')
    BY Zenon, <1>5, <1>11
  <2>2. Base' = Base
    BY Zenon, <1>1, <1>5 DEF Base
  <2>3. appender'.pc = "idle" /\ Unlocked(appender'.pc)
    BY Zenon, <1>1 DEF Idle, Unlocked
  <2>4. \A f \in Files : f <= headId' => data'[f].exists
    BY Zenon, <1>1, <1>2, <1>3, <1>4 DEF OpenInv
  <2>5. Len(data'[headId'].bytes) = Len(data[headId].bytes)
    BY ZenonT(60), <1>1, <1>3, <1>4
  <2>6. QED
    BY Zenon, <1>1, <1>2, <1>5, <2>1, <2>2, <2>3, <2>4, <2>5 DEF OpenInv
<1>15. QED
  BY Zenon, <1>1, <1>2, <1>5, <1>6, <1>8, <1>9, <1>10, <1>11, <1>12, <1>13, <1>14 DEF IInv

LEMMA TruncateIndexInv ==
  ASSUME IInv, NEW n \in 0..(MaxItems - 1), TruncateIndex(n)
  PROVE  /\ IInv' /\ Kept /\ n \in Nat /\ Entries' = n + 1 /\ n + 1 < Entries
         /\ promised' = Min(promised, n) /\ \A k \in Nat : k < Entries => Ok(k)
<1>1. /\ UNCHANGED <<data, items, headId, headBytes, files, status, appender>>
      /\ status = "open" /\ truncater = Idle /\ Unlocked(appender.pc) /\ n < items
      /\ index' = Truncated(index, n + 1) /\ promised' = Min(promised, n)
      /\ truncater' = [pc |-> IF Entry(n).filenum = headId THEN "head" ELSE "files", items |-> n]
  BY Zenon DEF TruncateIndex
<1>2. /\ TypeOK /\ OpenInv /\ Entries > 0 /\ headId \in Files /\ headId \in Nat
      /\ LastIndex.filenum <= headId
      /\ \A k \in Nat : k < Entries => Entry(k).filenum <= headId
  BY Zenon, <1>1, UpToHead
<1>3. /\ n \in Nat /\ items + 1 = Entries /\ items \in Nat /\ n + 1 \in Nat /\ n + 1 < Entries
      /\ index.safe \in Nat /\ promised \in Nat /\ MaxItems \in Nat
  <2>1. n \in Nat /\ MaxItems \in Nat
    BY TableAssumption
  <2>2. items + 1 = Entries /\ items \in Nat /\ index.safe \in Nat /\ promised \in Nat
    BY Zenon, <1>1, <1>2, Types DEF OpenInv, TypeFacts
  <2>3. QED
    BY <1>1, <2>1, <2>2
<1>4. /\ index' \in File(Pointer) /\ index'.bytes = SubSeq(index.bytes, 1, n + 1)
      /\ index'.safe = Min(index.safe, n + 1)
  <2>1. index \in File(Pointer) /\ n + 1 <= Len(index.bytes)
    BY <1>2, <1>3, Types DEF TypeOK, Pointer, Entries, TypeFacts
  <2>2. QED
    BY Zenon, <1>1, <1>3, <2>1, CutFile
<1>5. TypeOK'
  <2>1. promised' \in 0..MaxItems
    BY <1>1, <1>2, <1>3 DEF Min, TypeOK
  <2>2. QED
    BY Zenon, <1>1, <1>2, <1>4, <2>1 DEF TypeOK, Pointer
<1>6. Kept /\ Entries' = n + 1
  <2>1. \A f \in Files : SameFile(f)
    <3>1. \A f \in Files : data[f].safe \in Nat
      BY Zenon, <1>1, <1>2, Types DEF TypeFacts
    <3>2. \A f \in Files : data[f].safe <= data[f].safe
      BY <3>1
    <3>3. QED
      BY Zenon, <1>1, <3>2 DEF SameFile
  <2>2. \A k \in Nat : k < n + 1 => k < Entries /\ KeptBytes(k)
    BY <1>2, <1>3, <1>5, <2>1, SameFiles
  <2>3. n + 1 <= Entries
    BY <1>2, <1>3, Types DEF TypeFacts
  <2>4. QED
    BY Zenon, <1>2, <1>3, <1>4, <2>2, <2>3, KeptStep
<1>7. FileInv'
  <2>1. index'.safe <= Entries'
    BY <1>3, <1>4, <1>6 DEF Min
  <2>2. QED
    BY Zenon, <1>1, <2>1 DEF IInv, FileInv
<1>8. IndexInv' /\ ItemInv'
  BY Zenon, <1>2, <1>5, <1>6, KeptInv DEF IInv
<1>9. PromiseInv'
  <2>1. promised' <= promised /\ (promised' > 0 => promised' < index'.safe)
    BY <1>1, <1>3, <1>4 DEF IInv, PromiseInv, Min
  <2>2. QED
    BY Zenon, <1>2, <1>5, <1>6, <2>1, KeptPromise DEF IInv
<1>10. truncater' \in [pc : {"files", "head"}, items : Nat] /\ truncater' # Idle /\ truncater'.items = n
       /\ (truncater'.pc = "head" => headId = Entry(n).filenum)
  BY Zenon, <1>1, <1>3 DEF Idle
<1>11. ProcessInv'
  BY Zenon, <1>1, <1>10 DEF ProcessInv, IInv
<1>12. OpenInv'
  <2>1. \A k \in Nat : k < Entries' => k < Entries /\ Entry(k)' = Entry(k)
    BY <1>2, <1>3, <1>6, Types DEF Kept, KeptEntry, TypeFacts
  <2>2. \A k \in Nat : k < Entries' => Ok(k)' /\ (Entry(k)'.filenum < headId' => Durable(k)')
    BY Zenon, <1>1, <1>2, <2>1 DEF OpenInv, Ok, Durable
  <2>3. LastIndex' = Entry(n)'
    BY Zenon, <1>3, <1>6 DEF LastIndex, Entry
  <2>4. LastIndex' = Entry(n) /\ Entry(n).filenum <= headId
    BY SMTT(60), <1>2, <1>3, <1>6, <2>1, <2>3
  <2>5. appender.pc = "sync" => index'.safe = Entries'
    BY <1>2, <1>3, <1>4, <1>6 DEF OpenInv, Min
  <2>6. QED
    BY Zenon, <1>1, <1>2, <1>6, <1>10, <2>2, <2>4, <2>5 DEF OpenInv
<1>13. QED
  BY SMTT(60), <1>1, <1>2, <1>3, <1>5, <1>6, <1>7, <1>8, <1>9, <1>11, <1>12 DEF IInv, OpenInv

LEMMA TruncateFilesInv ==
  ASSUME IInv, TruncateFiles
  PROVE  IInv' /\ Kept
<1>1. status = "open" /\ truncater.pc = "files" /\ truncater # Idle
  BY DEF TruncateFiles, Idle
<1>2. /\ TypeOK /\ OpenInv /\ Entries > 0 /\ headId \in Files /\ headId \in Nat
      /\ LastIndex.filenum <= headId
      /\ \A k \in Nat : k < Entries => Entry(k).filenum <= headId
  BY Zenon, <1>1, UpToHead
<1>3. PICK g \in Files, l \in Nat :
        /\ g = LastIndex.filenum /\ l = truncater.items /\ l + 1 = Entries /\ LastIndex = Entry(l)
        /\ g \in Nat /\ g <= headId /\ l < items /\ l < Entries /\ Unlocked(appender.pc)
        /\ \A k \in Nat : k < Entries => Entry(k).filenum <= g
  <2>1. truncater.items + 1 = Entries /\ truncater.items < items /\ Unlocked(appender.pc)
    BY Zenon, <1>1, <1>2 DEF OpenInv
  <2>2. truncater \in [pc : {"files", "head"}, items : Nat]
    BY Zenon, <1>1 DEF IInv, ProcessInv
  <2>3. truncater.items \in Nat /\ truncater.items = Entries - 1
    BY <1>2, <2>1, <2>2, Types DEF TypeFacts
  <2>4. QED
    BY Zenon, <1>2, <2>1, <2>3, Last DEF IInv
<1>4. /\ data' = [x \in Files |-> IF x = g THEN Created(data[g])
                                  ELSE IF x \in Later(g) THEN Missing ELSE data[x]]
      /\ files' = (files \cup {g}) \ Later(g) /\ headId' = g
      /\ truncater' = [truncater EXCEPT !.pc = "head"]
      /\ UNCHANGED <<index, items, headBytes, status, appender, promised>>
  BY Zenon, <1>3 DEF TruncateFiles
<1>5. PICK d \in File(Byte) : /\ d = Created(data[g]) /\ d.bytes = data[g].bytes
                              /\ d.safe = data[g].safe /\ d.exists
  BY Zenon, <1>2, OpenedFile DEF TypeOK, IInv, FileInv
<1>6. ASSUME NEW f \in Files
      PROVE  /\ f = g => data'[f] = d
             /\ f < g => data'[f] = data[f]
             /\ data'[f] \in {d, Missing, data[f]}
  <2>1. f \in Nat /\ data'[f] = IF f = g THEN d ELSE IF f \in Later(g) THEN Missing ELSE data[f]
    BY Zenon, <1>2, <1>4, <1>5, Types DEF TypeFacts
  <2>2. f < g => f # g /\ f \notin Later(g)
    BY <1>3, <2>1 DEF Later
  <2>3. QED
    BY Zenon, <2>1, <2>2
<1>7. TypeOK'
  <2>1. data' \in [Files -> File(Byte)]
    BY Zenon, <1>2, <1>4, <1>5, NewFile DEF TypeOK
  <2>2. files' \subseteq Files
    BY Zenon, <1>2, <1>4 DEF TypeOK
  <2>3. QED
    BY Zenon, <1>2, <1>4, <2>1, <2>2 DEF TypeOK
<1>8. ASSUME NEW k \in Nat, k < Entries
      PROVE  /\ KeptBytes(k) /\ data'[Entry(k).filenum].bytes = data[Entry(k).filenum].bytes
             /\ data'[Entry(k).filenum].safe = data[Entry(k).filenum].safe
  <2>1. PICK q \in Files, o \in Nat : q = Entry(k).filenum /\ o = Entry(k).offset /\ q <= g /\ q \in Nat
    BY Zenon, <1>2, <1>3, <1>8, Types DEF TypeFacts
  <2>2. data'[q].bytes = data[q].bytes /\ data'[q].safe = data[q].safe
    <3>1. CASE q = g
      BY Zenon, <1>5, <1>6, <3>1
    <3>2. CASE q # g
      <4>1. q < g
        BY <1>3, <2>1, <3>2
      <4>2. QED
        BY Zenon, <1>6, <4>1
    <3>3. QED
      BY Zenon, <3>1, <3>2
  <2>3. ASSUME NEW f \in Files, f < q, data[f].exists PROVE data'[f].exists
    <3>1. f < g
      BY <1>3, <2>1, <2>3, TableAssumption DEF Files
    <3>2. QED
      BY Zenon, <1>6, <2>3, <3>1
  <2>4. QED
    BY Zenon, <2>1, <2>2, <2>3 DEF KeptBytes
<1>9. Kept /\ Entries' = Entries
  BY Zenon, <1>2, <1>4, <1>8, KeptIndex
<1>10. LastIndex' = LastIndex /\ \A k \in Nat : Entry(k)' = Entry(k)
  BY Zenon, <1>4, <1>9 DEF LastIndex, Entry
<1>11. FileInv'
  <2>1. d.safe <= Len(d.bytes)
    BY Zenon, <1>5 DEF IInv, FileInv
  <2>2. Missing.safe <= Len(Missing.bytes)
    BY DEF Missing
  <2>3. ASSUME NEW f \in Files
        PROVE  data'[f].safe <= Len(data'[f].bytes) /\ (~data'[f].exists => data'[f] = Missing)
    BY Zenon, <1>5, <1>6, <2>1, <2>2 DEF IInv, FileInv
  <2>4. QED
    BY Zenon, <1>4, <1>9, <2>3 DEF IInv, FileInv, Missing
<1>12. PromiseInv'
  <2>1. promised' <= promised /\ (promised' > 0 => promised' < index'.safe)
    BY SMTT(60), <1>2, <1>4, Types DEF IInv, PromiseInv, TypeFacts
  <2>2. QED
    BY Zenon, <1>2, <1>7, <1>9, <2>1, KeptPromise DEF IInv
<1>13. IndexInv' /\ ItemInv'
  BY Zenon, <1>2, <1>7, <1>9, KeptInv DEF IInv
<1>14. /\ truncater' \in [pc : {"files", "head"}, items : Nat] /\ truncater'.pc = "head"
       /\ truncater'.items = truncater.items /\ truncater' # Idle
  <2>1. truncater \in [pc : {"files", "head"}, items : Nat]
    BY Zenon, <1>1 DEF IInv, ProcessInv
  <2>2. QED
    BY Zenon, <1>4, <2>1 DEF Idle
<1>15. ProcessInv'
  BY Zenon, <1>1, <1>4, <1>14 DEF ProcessInv, IInv
<1>16. OpenInv'
  <2>1. ASSUME NEW k \in Nat, k < Entries PROVE Ok(k)' /\ (Entry(k).filenum < g => Durable(k)')
    <3>1. Ok(k)
      BY Zenon, <1>2, <2>1 DEF OpenInv
    <3>2. Ok(k)'
      BY Zenon, <1>8, <1>10, <2>1, <3>1 DEF Ok
    <3>3. ASSUME Entry(k).filenum < g PROVE Durable(k)'
      <4>1. Durable(k)
        BY Zenon, <1>3, <2>1, <3>3 DEF IInv, ItemInv
      <4>2. QED
        BY Zenon, <1>8, <1>10, <2>1, <4>1 DEF Durable
    <3>4. QED
      BY Zenon, <3>2, <3>3
  <2>2. \A k \in Nat : k < Entries' => Ok(k)' /\ (Entry(k)'.filenum < headId' => Durable(k)')
    BY Zenon, <1>4, <1>9, <1>10, <2>1
  <2>3. \A f \in Files : f <= headId' => data'[f].exists
    <3>. SUFFICES ASSUME NEW f \in Files, f <= g PROVE data'[f].exists
      BY Zenon, <1>4
    <3>1. f = g \/ (f < g /\ f <= headId)
      BY <1>2, <1>3, TableAssumption DEF Files
    <3>2. QED
      BY Zenon, <1>2, <1>5, <1>6, <3>1 DEF OpenInv
  <2>4. files' = 0..g
    <3>1. files = 0..headId
      BY Zenon, <1>2 DEF OpenInv
    <3>2. QED
      BY <1>2, <1>3, <1>4, <3>1 DEF Later
  <2>5. QED
    BY Zenon, <1>2, <1>3, <1>4, <1>9, <1>10, <1>14, <2>2, <2>3, <2>4 DEF OpenInv
<1>17. QED
  BY Zenon, <1>1, <1>2, <1>4, <1>7, <1>9, <1>11, <1>12, <1>13, <1>15, <1>16 DEF IInv

LEMMA TruncateHeadInv ==
  ASSUME IInv, TruncateHead
  PROVE  IInv' /\ Kept
<1>1. /\ status = "open" /\ truncater.pc = "head" /\ truncater # Idle
      /\ data' = [data EXCEPT ![headId] = Truncated(@, Entry(truncater.items).offset)]
      /\ items' = truncater.items /\ headBytes' = Entry(truncater.items).offset /\ truncater' = Idle
      /\ UNCHANGED <<index, headId, files, status, appender, promised>>
  BY DEF TruncateHead, Idle
<1>2. /\ TypeOK /\ OpenInv /\ Entries > 0 /\ headId \in Files /\ headId \in Nat
      /\ LastIndex.filenum <= headId
      /\ \A k \in Nat : k < Entries => Entry(k).filenum <= headId
  BY Zenon, <1>1, UpToHead
<1>3. PICK g \in Files, e \in Nat, l \in Nat :
        /\ g = headId /\ g = LastIndex.filenum /\ e = LastIndex.offset
        /\ l = truncater.items /\ l + 1 = Entries /\ LastIndex = Entry(l) /\ l < Entries
        /\ l < items /\ Unlocked(appender.pc)
        /\ \A k \in Nat : k < Entries => (Entry(k).filenum = g => Entry(k).offset <= e)
  <2>1. /\ truncater.items + 1 = Entries /\ truncater.items < items /\ Unlocked(appender.pc)
        /\ headId = LastIndex.filenum
    BY Zenon, <1>1, <1>2 DEF OpenInv
  <2>2. truncater \in [pc : {"files", "head"}, items : Nat]
    BY Zenon, <1>1 DEF IInv, ProcessInv
  <2>3. truncater.items \in Nat /\ truncater.items = Entries - 1
    BY SMTT(60), <1>2, <2>1, <2>2, Types DEF TypeFacts
  <2>4. QED
    BY Zenon, <1>2, <2>1, <2>3, Last DEF IInv
<1>4. PICK h \in File(Byte) : /\ h = data[g] /\ h.exists /\ h.safe <= Len(h.bytes) /\ h.safe \in Nat
                              /\ h.bytes \in Seq(Byte) /\ Len(h.bytes) \in Nat /\ e <= Len(h.bytes)
  <2>1. e <= Len(data[g].bytes)
    BY Zenon, <1>2, <1>3 DEF OpenInv, Ok
  <2>2. data[g].exists
    BY Zenon, <1>2, <1>3 DEF OpenInv
  <2>3. QED
    BY Zenon, <1>2, <2>1, <2>2, Types DEF TypeFacts, IInv, FileInv
<1>5. PICK d \in File(Byte) : /\ d = Truncated(h, e) /\ d.exists /\ d.bytes = SubSeq(h.bytes, 1, e)
                              /\ d.safe = Min(h.safe, e)
  <2>1. e <= Len(h.bytes)
    BY Zenon, <1>4
  <2>2. Truncated(h, e) \in File(Byte)
    BY Zenon, <2>1, CutFile
  <2>3. Truncated(h, e).bytes = SubSeq(h.bytes, 1, e) /\ Truncated(h, e).safe = Min(h.safe, e)
    BY Zenon, <2>1, CutFile
  <2>4. Truncated(h, e).exists
    BY ZenonT(60), <1>4, <2>1, CutFile
  <2>5. QED
    BY Zenon, <2>2, <2>3, <2>4
<1>6. Len(d.bytes) = e /\ \A i \in Nat : 0 < i /\ i <= e => d.bytes[i] = h.bytes[i]
  BY <1>4, <1>5, Beginning
<1>7. \A f \in Files : data'[f] = IF f = g THEN d ELSE data[f]
  BY Zenon, <1>1, <1>2, <1>3, <1>4, <1>5 DEF TypeOK
<1>8. TypeOK'
  <2>1. data' \in [Files -> File(Byte)]
    BY ZenonT(60), <1>1, <1>2, <1>3, <1>4, <1>5 DEF TypeOK
  <2>2. items' \in 0..MaxItems
    BY <1>1, <1>2, <1>3, TableAssumption DEF TypeOK
  <2>3. QED
    BY Zenon, <1>1, <1>2, <1>3, <2>1, <2>2 DEF TypeOK
<1>9. ASSUME NEW k \in Nat, k < Entries
      PROVE  KeptBytes(k) /\ Entry(k).offset <= Len(data'[Entry(k).filenum].bytes)
  <2>1. PICK q \in Files, o \in Nat : q = Entry(k).filenum /\ o = Entry(k).offset /\ (q = g => o <= e)
    BY Zenon, <1>2, <1>3, <1>9, Types DEF TypeFacts
  <2>2. \A f \in Files : data[f].exists => data'[f].exists
    BY Zenon, <1>5, <1>7
  <2>3. CASE q = g
    <3>1. o <= Len(h.bytes) /\ (o <= h.safe => o <= d.safe)
      BY <1>4, <1>5, <2>1, <2>3 DEF Min
    <3>2. QED
      BY SMTT(60), <1>4, <1>6, <1>7, <2>1, <2>2, <2>3, <3>1 DEF KeptBytes
  <2>4. CASE q # g
    BY Zenon, <1>2, <1>7, <1>9, <2>1, <2>2, <2>4 DEF KeptBytes, OpenInv, Ok
  <2>5. QED
    BY Zenon, <2>3, <2>4
<1>10. Kept /\ Entries' = Entries
  BY Zenon, <1>1, <1>2, <1>9, KeptIndex
<1>11. LastIndex' = LastIndex /\ \A k \in Nat : Entry(k)' = Entry(k)
  BY Zenon, <1>1, <1>10 DEF LastIndex, Entry
<1>12. FileInv'
  <2>1. d.safe <= Len(d.bytes)
    BY SMTT(60), <1>4, <1>5, <1>6 DEF Min
  <2>2. ASSUME NEW f \in Files
        PROVE  data'[f].safe <= Len(data'[f].bytes) /\ (~data'[f].exists => data'[f] = Missing)
    BY Zenon, <1>5, <1>7, <2>1 DEF IInv, FileInv
  <2>3. QED
    BY Zenon, <1>1, <1>10, <2>2 DEF IInv, FileInv, Missing
<1>13. PromiseInv'
  <2>1. promised' <= promised /\ (promised' > 0 => promised' < index'.safe)
    BY <1>1, <1>2, Types DEF IInv, PromiseInv, TypeFacts
  <2>2. QED
    BY Zenon, <1>2, <1>8, <1>10, <2>1, KeptPromise DEF IInv
<1>14. IndexInv' /\ ItemInv'
  BY Zenon, <1>2, <1>8, <1>10, KeptInv DEF IInv
<1>15. ProcessInv'
  BY Zenon, <1>1 DEF ProcessInv, IInv
<1>16. OpenInv'
  <2>1. \A k \in Nat : k < Entries' => Ok(k)' /\ (Entry(k)'.filenum < headId' => Durable(k)')
    <3>. SUFFICES ASSUME NEW k \in Nat, k < Entries
                  PROVE  Ok(k)' /\ (Entry(k).filenum < headId => Durable(k)')
      BY Zenon, <1>1, <1>10, <1>11
    <3>1. Ok(k)'
      BY Zenon, <1>9, <1>11 DEF Ok
    <3>2. Entry(k).filenum < headId => Durable(k)
      BY Zenon, <1>2 DEF OpenInv
    <3>3. Durable(k) => Durable(k)'
      BY Zenon, <1>10 DEF Kept, KeptEntry
    <3>4. QED
      BY Zenon, <3>1, <3>2, <3>3
  <2>2. \A f \in Files : f <= headId' => data'[f].exists
    BY Zenon, <1>1, <1>2, <1>5, <1>7 DEF OpenInv
  <2>3. Base' = e /\ headBytes' = e /\ Len(data'[headId'].bytes) = e
    BY Zenon, <1>1, <1>3, <1>6, <1>7, <1>11 DEF Base
  <2>4. items' + 1 = Entries' /\ headId' = LastIndex'.filenum /\ headId' <= LastIndex'.filenum + 1
        /\ LastIndex'.filenum <= headId'
    BY SMTT(60), <1>1, <1>2, <1>3, <1>10, <1>11
  <2>5. appender'.pc \in {"lock", "relock", "write", "entry"} => items' < MaxItems
    BY <1>1, <1>2, <1>3, Types DEF OpenInv, TypeFacts
  <2>6. appender'.pc # "entry" /\ (appender'.pc = "sync" => index'.safe = Entries') /\ files' = 0..headId'
    BY Zenon, <1>1, <1>2, <1>3, <1>10 DEF Unlocked, OpenInv
  <2>7. QED
    BY Zenon, <1>1, <2>1, <2>2, <2>3, <2>4, <2>5, <2>6 DEF OpenInv
<1>17. QED
  BY Zenon, <1>1, <1>2, <1>8, <1>10, <1>12, <1>13, <1>14, <1>15, <1>16 DEF IInv

-----------------------------------------------------------------------------
(* What the invariant is for. *)

LEMMA Unmoved ==
  ASSUME IInv, UNCHANGED vars
  PROVE  IInv' /\ Kept
<1>1. /\ UNCHANGED <<index, data, promised>>
      /\ UNCHANGED <<items, headId, headBytes, files, status, appender, truncater>>
  BY Zenon DEF vars
<1>2. TypeOK'
  BY Zenon, <1>1 DEF IInv, TypeOK
<1>3. /\ Kept /\ FileInv' /\ IndexInv' /\ ItemInv' /\ PromiseInv'
      /\ Entries' = Entries /\ LastIndex' = LastIndex
      /\ \A k \in Nat : Entry(k)' = Entry(k) /\ (Ok(k) => Ok(k)') /\ (Durable(k) => Durable(k)')
  BY Zenon, <1>1, <1>2, QuietDisk
<1>4. ProcessInv'
  BY Zenon, <1>1 DEF IInv, ProcessInv
<1>5. OpenInv => OpenInv'
  <2>1. Base' = Base
    BY Zenon, <1>1, <1>3 DEF Base
  <2>2. OpenInv => \A k \in Nat : k < Entries' => Ok(k)' /\ (Entry(k)'.filenum < headId' => Durable(k)')
    BY Zenon, <1>1, <1>3 DEF OpenInv
  <2>3. QED
    BY Zenon, <1>1, <1>3, <2>1, <2>2 DEF OpenInv
<1>6. QED
  BY Zenon, <1>1, <1>2, <1>3, <1>4, <1>5 DEF IInv

\* The inductive invariant: what the files hold, how the index grows, where the
\* items are, what is promised, and where the goroutines are.
THEOREM Invariance ==
  ASSUME ClosedFilesDurable
  PROVE  Spec => []IInv
<1>1. Init => IInv
  <2>. SUFFICES ASSUME Init PROVE IInv
    BY Zenon
  <2>1. TypeOK
    BY TableAssumption, NewFile DEF Init, TypeOK, Files
  <2>2. Entries = 0 /\ index.safe = 0
    BY Zenon DEF Init, Entries, Missing
  <2>3. FileInv
    BY <2>2 DEF Init, FileInv, Missing
  <2>4. IndexInv /\ ItemInv /\ PromiseInv
    BY <2>2 DEF Init, IndexInv, ItemInv, PromiseInv
  <2>5. ProcessInv /\ status = "down"
    BY Zenon DEF Init, ProcessInv
  <2>6. QED
    BY Zenon, <2>1, <2>3, <2>4, <2>5 DEF IInv
<1>2. IInv /\ [Next]_vars => IInv'
  <2>. SUFFICES ASSUME IInv, [Next]_vars PROVE IInv'
    BY Zenon
  <2>1. CASE Next
    <3>1. CASE Open \/ RepairIndex \/ RepairHead \/ RepairDone
      BY Zenon, <3>1, OpenStepInv, RepairIndexInv, RepairHeadInv, RepairDoneInv
    <3>2. CASE (\E b \in Blob : AppendItem(b)) \/ NewHead \/ WriteBlob \/ WriteEntry
      BY Zenon, <3>2, AppendItemInv, NewHeadInv, WriteBlobInv, WriteEntryInv
    <3>3. CASE SyncIndex \/ SyncHead \/ TruncateFiles \/ TruncateHead
      BY Zenon, <3>3, SyncIndexInv, SyncHeadInv, TruncateFilesInv, TruncateHeadInv
    <3>4. CASE \E n \in 0..(MaxItems - 1) : TruncateIndex(n)
      BY Zenon, <3>4, TruncateIndexInv
    <3>5. CASE Stop \/ PowerFailure
      BY Zenon, <3>5, StopInv, PowerFailureInv
    <3>6. QED
      BY Zenon, <2>1, <3>1, <3>2, <3>3, <3>4, <3>5 DEF Next
  <2>2. CASE UNCHANGED vars
    BY Zenon, Unmoved, <2>2
  <2>3. QED
    BY Zenon, <2>1, <2>2
<1>3. QED
  BY <1>1, <1>2, PTL DEF Spec

\* Retrieve serves every item that the table counts, also while an Append has
\* given up the lock and a truncation has run in between.
THEOREM ItemsAreServed ==
  ASSUME ClosedFilesDurable
  PROVE  Spec => []Retrievable
<1>1. IInv => Retrievable
  <2>. SUFFICES ASSUME IInv, status = "open", truncater = Idle, NEW i \in 0..(items - 1)
                PROVE  /\ i + 1 < Entries
                       /\ Entry(i + 1).filenum \in files
                       /\ Entry(i + 1).offset <= Len(data[Entry(i + 1).filenum].bytes)
                       /\ Retrieve(i) \in Blob
    BY Zenon DEF Retrievable
  <2>1. /\ TypeOK /\ OpenInv /\ headId \in Nat
        /\ \A k \in Nat : k < Entries => Entry(k).filenum <= headId
    BY Zenon, UpToHead
  <2>2. PICK k \in Nat : k = i + 1 /\ k > 0 /\ k < Entries /\ i = k - 1
    BY SMTT(60), <2>1, Types DEF OpenInv, TypeFacts
  <2>3. Ok(k) /\ files = 0..headId
    BY Zenon, <2>1, <2>2 DEF OpenInv
  <2>4. Entry(k).filenum \in Nat
    BY Zenon, <2>1, <2>2, Types DEF TypeFacts
  <2>5. Retrieve(k - 1) \in Blob
    BY Zenon, <2>2, <2>3 DEF IInv, ItemInv
  <2>6. QED
    BY SMTT(60), <2>1, <2>2, <2>3, <2>4, <2>5 DEF Ok
<1>2. QED
  BY <1>1, Invariance, PTL

\* Repair mends whatever a process or a machine that stopped has left: preopen
\* finds all files that the index names.
THEOREM TableAlwaysOpens ==
  ASSUME ClosedFilesDurable
  PROVE  Spec => []AlwaysOpens
<1>1. IInv => AlwaysOpens
  BY Zenon DEF IInv, AlwaysOpens
<1>2. QED
  BY <1>1, Invariance, PTL

-----------------------------------------------------------------------------
(* The table is a log. *)

\* A set of numbers that has no gap has a greatest element.
LEMMA Greatest ==
  ASSUME NEW F, NEW n \in Nat, F \subseteq 0..n, 0 \in F,
         \A j, k \in Nat : k \in F /\ j < k => j \in F
  PROVE  \E m \in F : \A k \in F : k <= m
<1>1. IsFiniteSet(0..n)
  BY FS_Interval
<1>2. IsFiniteSet(F) /\ Cardinality(F) \in Nat
  BY Zenon, <1>1, FS_Subset, FS_CardinalityType
<1>3. PICK c \in Nat : c = Cardinality(F)
  BY Zenon, <1>2
<1>4. ASSUME NEW k \in F PROVE k \in Nat /\ k < c
  <2>1. k \in Nat
    BY <1>4
  <2>2. 0..k \in SUBSET F
    BY <1>4, <2>1
  <2>3. Cardinality(0..k) = k + 1
    BY <2>1, FS_Interval
  <2>4. Cardinality(0..k) <= Cardinality(F)
    BY Zenon, <1>2, <2>2, FS_Subset
  <2>5. QED
    BY <1>3, <2>1, <2>3, <2>4
<1>5. c > 0 /\ c - 1 \in Nat
  BY <1>4
<1>6. c - 1 \in F
  <2>. SUFFICES ASSUME c - 1 \notin F PROVE FALSE
    BY Zenon
  <2>1. ASSUME NEW k \in F PROVE k \in 1..(c - 1) \/ k = 0
    BY <1>4, <2>1
  <2>2. c - 1 # 0 /\ c - 2 \in Nat
    BY <1>5
  <2>3. F \in SUBSET (0..(c - 2))
    BY SMTT(60), <1>4, <1>5, <2>2
  <2>4. IsFiniteSet(0..(c - 2)) /\ Cardinality(0..(c - 2)) = c - 1
    BY SMTT(60), <2>2, FS_Interval
  <2>5. Cardinality(F) <= c - 1
    <3>1. Cardinality(F) <= Cardinality(0..(c - 2))
      BY Zenon, <2>3, <2>4, FS_Subset
    <3>2. QED
      BY Zenon, <2>4, <3>1
  <2>6. QED
    BY <1>3, <2>5
<1>7. QED
  BY <1>4, <1>5, <1>6

\* Count is the number of the last entry whose item is there.
CountFacts ==
  /\ Count \in Nat
  /\ Entries = 0 => Count = 0
  /\ Entries > 0 => Count < Entries /\ \A k \in Nat : k < Entries => (Ok(k) <=> k <= Count)

LEMMA Counts == IInv => CountFacts
<1>. SUFFICES ASSUME IInv PROVE CountFacts
  BY Zenon
<1>1. TypeOK /\ Entries \in Nat
  BY Zenon, Types DEF IInv, TypeFacts
<1>2. CASE Entries = 0
  <2>1. Found = {}
    BY <1>2 DEF Found
  <2>2. QED
    BY <1>2, <2>1 DEF Count, CountFacts
<1>3. CASE Entries > 0
  <2>1. PICK n \in Nat : n = Entries - 1
    BY <1>1, <1>3
  <2>2. Found \subseteq 0..n /\ \A k \in Nat : k < Entries => (k \in Found <=> Ok(k))
    BY <1>1, <2>1 DEF Found, Ok
  <2>3. 0 \in Found
    <3>1. Entry(0) = Zero /\ 0 \in Files
      BY <1>3, TableAssumption DEF IInv, IndexInv, Files
    <3>2. Len(data[0].bytes) \in Nat
      BY Zenon, <1>1, <3>1, Types DEF TypeFacts
    <3>3. Ok(0)
      BY <3>1, <3>2 DEF Ok, Zero
    <3>4. QED
      BY Zenon, <1>3, <2>2, <3>3
  <2>4. ASSUME NEW j \in Nat, NEW k \in Nat, k \in Found, j < k PROVE j \in Found
    <3>1. k < Entries /\ j < Entries /\ Ok(k)
      BY <1>1, <2>1, <2>2, <2>4
    <3>2. PICK q \in Files, o \in Nat : q = Entry(j).filenum /\ o = Entry(j).offset
      BY Zenon, <1>1, <3>1, Types DEF TypeFacts
    <3>3. /\ data[q].safe <= Len(data[q].bytes) /\ data[q].safe \in Nat /\ Len(data[q].bytes) \in Nat
          /\ Entry(k).offset \in Nat
      BY Zenon, <1>1, <3>1, Types DEF IInv, FileInv, TypeFacts
    <3>4. q < Entry(k).filenum \/ (q = Entry(k).filenum /\ o <= Entry(k).offset)
      BY Zenon, <2>4, <3>1, <3>2 DEF IInv, IndexInv
    <3>5. CASE q < Entry(k).filenum
      <4>1. Durable(j)
        BY Zenon, <3>1, <3>2, <3>5 DEF IInv, ItemInv
      <4>2. Ok(j)
        BY SMTT(60), <3>2, <3>3, <4>1 DEF Durable, Ok
      <4>3. QED
        BY Zenon, <2>2, <3>1, <4>2
    <3>6. CASE q = Entry(k).filenum /\ o <= Entry(k).offset
      <4>1. Ok(j)
        BY SMTT(60), <3>1, <3>2, <3>3, <3>6 DEF Ok
      <4>2. QED
        BY <2>2, <3>1, <4>1
    <3>7. QED
      BY Zenon, <3>4, <3>5, <3>6
  <2>5. \E m \in Found : \A k \in Found : k <= m
    BY Zenon, <2>1, <2>2, <2>3, <2>4, Greatest
  <2>6. Count \in Found /\ \A k \in Found : k <= Count
    BY Zenon, <2>3, <2>5 DEF Count
  <2>7. Count \in Nat /\ Count < Entries
    BY SMTT(60), <1>1, <2>1, <2>2, <2>6
  <2>8. ASSUME NEW k \in Nat, k < Entries PROVE Ok(k) <=> k <= Count
    <3>1. k < Count => k \in Found
      BY Zenon, <2>4, <2>6, <2>7
    <3>2. k <= Count => k \in Found
      BY <2>6, <2>7, <3>1
    <3>3. QED
      BY Zenon, <2>2, <2>6, <2>8, <3>2
  <2>9. QED
    BY <1>3, <2>7, <2>8 DEF CountFacts
<1>4. QED
  BY <1>1, <1>2, <1>3

LEMMA CountsNext == IInv' => CountFacts'
BY Counts, PTL

\* What is promised is there.
LEMMA PromiseKept ==
  ASSUME IInv
  PROVE  promised \in Nat /\ promised <= Count
<1>1. TypeOK /\ promised \in Nat /\ Entries \in Nat /\ index.safe \in Nat
  BY Zenon, Types DEF IInv, TypeFacts
<1>2. CountFacts
  BY Zenon, Counts
<1>3. CASE promised = 0
  BY <1>2, <1>3 DEF CountFacts
<1>4. CASE promised > 0
  <2>1. promised < Entries /\ Durable(promised)
    BY <1>1, <1>4 DEF IInv, PromiseInv, FileInv
  <2>2. PICK q \in Files, o \in Nat : q = Entry(promised).filenum /\ o = Entry(promised).offset
    BY Zenon, <1>1, <2>1, Types DEF TypeFacts
  <2>3. data[q].safe <= Len(data[q].bytes) /\ data[q].safe \in Nat /\ Len(data[q].bytes) \in Nat
    BY Zenon, <1>1, Types DEF IInv, FileInv, TypeFacts
  <2>4. Ok(promised)
    BY SMTT(60), <2>1, <2>2, <2>3 DEF Durable, Ok
  <2>5. QED
    BY <1>1, <1>2, <2>1, <2>4 DEF CountFacts
<1>5. QED
  BY <1>1, <1>3, <1>4

PromiseFacts == promised \in Nat /\ promised <= Count

LEMMA PromiseKeptNext == IInv' => PromiseFacts'
<1>1. IInv => PromiseFacts
  BY Zenon, PromiseKept DEF PromiseFacts
<1>2. QED
  BY <1>1, PTL

\* The log, and what is read of it.
Items == [i \in 1..Count |-> Retrieve(i - 1)]

LEMMA ItemsAreBlobs ==
  ASSUME IInv
  PROVE  Items \in Seq(Blob) /\ Len(Items) = Count /\ Count \in Nat
<1>1. CountFacts /\ Entries \in Nat
  BY Zenon, Counts, Types DEF IInv, TypeFacts
<1>2. Count \in Nat
  BY Zenon, <1>1 DEF CountFacts
<1>3. ASSUME NEW i \in 1..Count PROVE Retrieve(i - 1) \in Blob
  <2>1. i \in Nat /\ i > 0 /\ i < Entries /\ Ok(i)
    BY <1>1, <1>2 DEF CountFacts
  <2>2. QED
    BY Zenon, <2>1 DEF IInv, ItemInv
<1>4. QED
  BY <1>2, <1>3 DEF Items

\* The beginning of a log.
LEMMA LogPrefix ==
  ASSUME NEW S, NEW s \in Seq(S), NEW c \in Nat, c <= Len(s),
         NEW t, t = [i \in 1..c |-> s[i]]
  PROVE  t = SubSeq(s, 1, c)
OBVIOUS

\* A step that keeps a beginning of the index keeps a beginning of the log.
LEMMA KeptLog ==
  ASSUME IInv, IInv', Kept
  PROVE  Count' \in Nat /\ Count' <= Count /\ Items' = SubSeq(Items, 1, Count')
<1>1. TypeOK /\ TypeOK' /\ Entries \in Nat /\ Entries' \in Nat /\ Entries' <= Entries
  BY Zenon, Types, TypesNext DEF IInv, TypeFacts, Kept
<1>2. CountFacts /\ CountFacts'
  BY Zenon, Counts, CountsNext
<1>3. Count \in Nat /\ Count' \in Nat
  BY Zenon, <1>2 DEF CountFacts
<1>4. \A k \in Nat : k < Entries' => (Ok(k)' <=> k <= Count')
  BY <1>1, <1>2 DEF CountFacts
<1>5. Count' <= Count
  <2>1. CASE Entries' = 0
    BY SMTT(60), <1>2, <1>3, <2>1 DEF CountFacts
  <2>2. CASE Entries' > 0
    <3>1. PICK c \in Nat : c = Count' /\ c < Entries' /\ c < Entries
      BY SMTT(60), <1>1, <1>2, <1>3, <2>2 DEF CountFacts
    <3>2. Ok(c)'
      BY <1>4, <3>1
    <3>3. Ok(c)
      BY Zenon, <3>1, <3>2 DEF Kept, KeptEntry
    <3>4. QED
      BY <1>1, <1>2, <3>1, <3>3 DEF CountFacts
  <2>3. QED
    BY <1>1, <2>1, <2>2
<1>6. ASSUME NEW i \in 1..Count' PROVE Retrieve(i - 1)' = Items[i]
  <2>1. PICK j \in Nat : j = i - 1 /\ j + 1 = i /\ i \in Nat
    BY <1>3
  <2>2. i < Entries' /\ Ok(i)'
    BY SMTT(60), <1>1, <1>2, <1>3, <1>4, <2>1 DEF CountFacts
  <2>3. Retrieve(j)' = Retrieve(j)
    BY ZenonT(60), <1>1, <2>1, <2>2, KeptItems
  <2>4. i \in 1..Count
    BY <1>3, <1>5
  <2>5. QED
    BY Zenon, <2>1, <2>3, <2>4 DEF Items
<1>7. Items' = [i \in 1..Count' |-> Items[i]]
  BY Zenon, <1>6 DEF Items
<1>8. PICK s \in Seq(Blob), c \in Nat : s = Items /\ c = Count' /\ c <= Len(s)
  BY Zenon, <1>3, <1>5, ItemsAreBlobs
<1>9. PICK t : t = Items'
  BY Zenon
<1>10. t = [i \in 1..c |-> s[i]]
  BY Zenon, <1>7, <1>8, <1>9
<1>11. t = SubSeq(s, 1, c)
  BY Zenon, <1>8, <1>10, LogPrefix
<1>12. QED
  BY Zenon, <1>3, <1>5, <1>8, <1>9, <1>11

\* Steps that promise nothing: at most, they lose items that were not promised.
LEMMA LosingStep ==
  ASSUME IInv, IInv', Kept, promised' = promised
  PROVE  \E n \in promised..Len(Items) : Items' = SubSeq(Items, 1, n)
<1>1. Count' \in Nat /\ Count' <= Count /\ Items' = SubSeq(Items, 1, Count')
  BY Zenon, KeptLog
<1>2. promised' \in Nat /\ promised' <= Count'
  BY Zenon, PromiseKeptNext DEF PromiseFacts
<1>3. Len(Items) = Count /\ Count \in Nat
  BY Zenon, ItemsAreBlobs
<1>4. Count' \in promised..Len(Items)
  BY <1>1, <1>2, <1>3
<1>5. QED
  BY Zenon, <1>1, <1>4

\* All items are there.
LEMMA AllThere ==
  ASSUME IInv, Entries > 0, \A k \in Nat : k < Entries => Ok(k)
  PROVE  Count = Entries - 1
<1>1. CountFacts /\ Entries \in Nat
  BY Zenon, Counts, Types DEF IInv, TypeFacts
<1>2. Ok(Entries - 1) /\ Entries - 1 \in Nat
  BY <1>1
<1>3. QED
  BY <1>1, <1>2 DEF CountFacts

\* A step that promises all items.
LEMMA SyncStep ==
  ASSUME IInv, IInv', Kept, Entries > 0, promised' = Entries - 1,
         \A k \in Nat : k < Entries => Ok(k)
  PROVE  promised' = Len(Items) /\ Items' = Items
<1>1. Count = Entries - 1
  BY Zenon, AllThere
<1>2. Count' \in Nat /\ Count' <= Count /\ Items' = SubSeq(Items, 1, Count')
  BY Zenon, KeptLog
<1>3. promised' \in Nat /\ promised' <= Count'
  BY Zenon, PromiseKeptNext DEF PromiseFacts
<1>4. Items \in Seq(Blob) /\ Len(Items) = Count /\ Count \in Nat
  BY Zenon, ItemsAreBlobs
<1>5. Count' = Count
  BY <1>1, <1>2, <1>3, <1>4
<1>6. SubSeq(Items, 1, Count) = Items
  BY <1>4
<1>7. QED
  BY Zenon, <1>1, <1>2, <1>4, <1>5, <1>6

\* truncate.
LEMMA TruncateStep ==
  ASSUME IInv, NEW n \in 0..(MaxItems - 1), TruncateIndex(n)
  PROVE  /\ n \in 0..Len(Items) /\ Items' = SubSeq(Items, 1, n)
         /\ promised' = IF promised < n THEN promised ELSE n
<1>1. /\ IInv' /\ Kept /\ n \in Nat /\ Entries' = n + 1 /\ n + 1 < Entries
      /\ promised' = Min(promised, n) /\ \A k \in Nat : k < Entries => Ok(k)
  BY Zenon, TruncateIndexInv
<1>2. Entries \in Nat /\ status' = "open" /\ Entries > 0
  BY Zenon, <1>1, Types DEF IInv, TypeFacts, TruncateIndex
<1>3. Count = Entries - 1
  BY Zenon, <1>1, <1>2, AllThere
<1>4. Count' \in Nat /\ Count' <= Count /\ Items' = SubSeq(Items, 1, Count')
  BY Zenon, <1>1, KeptLog
<1>5. Count' = n
  <2>1. CountFacts'
    BY Zenon, <1>1, CountsNext
  <2>2. Ok(n)'
    BY SMTT(60), <1>1, <1>2 DEF IInv, OpenInv
  <2>3. QED
    BY SMTT(60), <1>1, <1>4, <2>1, <2>2 DEF CountFacts
<1>6. Len(Items) = Count
  BY Zenon, ItemsAreBlobs
<1>7. QED
  BY SMTT(60), <1>1, <1>2, <1>3, <1>4, <1>5, <1>6 DEF Min

\* One more item.
LEMMA LogAppend ==
  ASSUME NEW S, NEW s \in Seq(S), NEW c \in Nat, c = Len(s), NEW b \in S
  PROVE  Append(s, b) = [i \in 1..(c + 1) |-> IF i <= c THEN s[i] ELSE b]
<1>1. PICK a : a = Append(s, b)
  BY Zenon
<1>2. a \in Seq(S) /\ Len(a) = c + 1
  BY <1>1
<1>3. ASSUME NEW i \in 1..(c + 1) PROVE a[i] = IF i <= c THEN s[i] ELSE b
  BY <1>1, <1>3
<1>4. a = [i \in 1..(c + 1) |-> a[i]]
  BY <1>2
<1>5. QED
  BY Zenon, <1>1, <1>3, <1>4

LEMMA AppendStep ==
  ASSUME IInv, WriteEntry
  PROVE  promised' = promised /\ \E b \in Blob : Items' = Append(Items, b)
<1>1. /\ IInv' /\ data' = data /\ promised' = promised /\ Entries > 0 /\ Entries' = Entries + 1
      /\ \A k \in Nat : k < Entries => Ok(k) /\ (k > 0 => Retrieve(k - 1)' = Retrieve(k - 1))
      /\ \A k \in Nat : k < Entries' => Ok(k)'
  BY Zenon, WriteEntryInv
<1>2. Entries \in Nat
  BY Zenon, Types DEF IInv, TypeFacts
<1>3. PICK c \in Nat : c = Count /\ c + 1 = Entries
  BY SMTT(60), <1>1, <1>2, AllThere
<1>4. Count' = c + 1
  <2>1. CountFacts'
    BY Zenon, <1>1, CountsNext
  <2>2. c + 1 \in Nat /\ c + 1 < Entries' /\ Entries' = c + 2
    BY <1>1, <1>2, <1>3
  <2>3. Ok(c + 1)'
    BY Zenon, <1>1, <2>2
  <2>4. Count' \in Nat /\ Count' < Entries' /\ c + 1 <= Count'
    BY <2>1, <2>2, <2>3 DEF CountFacts
  <2>5. QED
    BY <2>2, <2>4
<1>5. PICK b \in Blob : b = Retrieve(c)'
  <2>1. Ok(c + 1)' /\ c + 1 < Entries' /\ c + 1 > 0 /\ c + 1 \in Nat /\ (c + 1) - 1 = c
    BY <1>1, <1>2, <1>3
  <2>2. Retrieve((c + 1) - 1)' \in Blob
    BY Zenon, <1>1, <2>1 DEF IInv, ItemInv
  <2>3. QED
    BY Zenon, <2>1, <2>2
<1>6. PICK s \in Seq(Blob) : s = Items /\ c = Len(s)
  BY Zenon, <1>3, ItemsAreBlobs
<1>7. ASSUME NEW i \in 1..(c + 1) PROVE Retrieve(i - 1)' = IF i <= c THEN s[i] ELSE b
  <2>1. CASE i <= c
    <3>1. i \in Nat /\ i > 0 /\ i < Entries /\ i \in 1..Count
      BY <1>2, <1>3, <2>1
    <3>2. Retrieve(i - 1)' = Retrieve(i - 1) /\ Items[i] = Retrieve(i - 1)
      BY Zenon, <1>1, <3>1 DEF Items
    <3>3. QED
      BY Zenon, <1>6, <2>1, <3>2
  <2>2. CASE ~(i <= c)
    <3>1. i - 1 = c
      BY <2>2
    <3>2. QED
      BY Zenon, <1>5, <2>2, <3>1
  <2>3. QED
    BY Zenon, <2>1, <2>2
<1>8. PICK t : t = Items'
  BY Zenon
<1>9. t = [i \in 1..(c + 1) |-> IF i <= c THEN s[i] ELSE b]
  BY Zenon, <1>4, <1>7, <1>8 DEF Items
<1>10. t = Append(s, b)
  <2>1. Append(s, b) = [i \in 1..(c + 1) |-> IF i <= c THEN s[i] ELSE b]
    BY ONLY SMTT(60), <1>6, LogAppend, c \in Nat, s \in Seq(Blob), b \in Blob
  <2>2. QED
    BY Zenon, <1>9, <2>1
<1>11. QED
  BY Zenon, <1>1, <1>6, <1>8, <1>10

\* A new index.
LEMMA OpenStep ==
  ASSUME IInv, Open
  PROVE  /\ promised' = promised
         /\ Items' = Items \/ \E n \in promised..Len(Items) : Items' = SubSeq(Items, 1, n)
<1>1. IInv' /\ promised' = promised /\ (Kept \/ (Entries = 0 /\ Entries' = 1))
  BY Zenon, OpenStepInv
<1>2. CASE Kept
  BY Zenon, <1>1, <1>2, LosingStep
<1>3. CASE Entries = 0 /\ Entries' = 1
  <2>1. CountFacts /\ CountFacts'
    BY Zenon, <1>1, Counts, CountsNext
  <2>2. Count = 0 /\ Count' = 0
    BY <1>3, <2>1 DEF CountFacts
  <2>3. QED
    BY SMTT(60), <1>1, <2>2 DEF Items
<1>4. QED
  BY Zenon, <1>1, <1>2, <1>3

\* The index and its files are the log that AncientLog specifies: what Append
\* wrote is read back, truncate takes the end, and a crash takes nothing that a
\* Sync has returned for.
THEOREM TableIsLog ==
  ASSUME ClosedFilesDurable
  PROVE  Spec => ImplementsLog
<1>1. Init => Log!Init
  <2>. SUFFICES ASSUME Init PROVE Log!Init
    OBVIOUS
  <2>1. Found = {} /\ promised = 0
    BY DEF Init, Found, Entries, Missing
  <2>2. Count = 0
    BY Zenon, <2>1 DEF Count
  <2>3. QED
    BY <2>1, <2>2 DEF Log!Init
<1>2. IInv /\ IInv' /\ [Next]_vars => [Log!Next]_Log!logVars
  <2>. SUFFICES ASSUME IInv, IInv', [Next]_vars
                PROVE  \/ promised' = promised /\ Items' = Items
                       \/ promised' = promised /\ \E b \in Blob : Items' = Append(Items, b)
                       \/ \E n \in 0..Len(Items) : /\ Items' = SubSeq(Items, 1, n)
                                                   /\ promised' = IF promised < n THEN promised ELSE n
                       \/ promised' = Len(Items) /\ Items' = Items
                       \/ /\ \E n \in promised..Len(Items) : Items' = SubSeq(Items, 1, n)
                          /\ promised' = promised
    BY Zenon DEF Log!Next, Log!AppendItem, Log!Truncate, Log!Sync, Log!Crash, Log!logVars, Items
  <2>1. CASE Open
    BY Zenon, <2>1, OpenStep
  <2>2. CASE \/ RepairIndex \/ RepairHead \/ NewHead \/ WriteBlob
             \/ (\E b \in Blob : AppendItem(b)) \/ SyncIndex \/ TruncateFiles \/ TruncateHead
             \/ Stop \/ PowerFailure \/ UNCHANGED vars
    <3>1. Kept
      <4>1. CASE RepairIndex \/ RepairHead \/ SyncIndex \/ TruncateFiles
        BY Zenon, <4>1, RepairIndexInv, RepairHeadInv, SyncIndexInv, TruncateFilesInv
      <4>2. CASE NewHead \/ WriteBlob \/ (\E b \in Blob : AppendItem(b)) \/ TruncateHead
        BY <4>2, NewHeadInv, WriteBlobInv, AppendItemInv, TruncateHeadInv
      <4>3. CASE Stop \/ PowerFailure \/ UNCHANGED vars
        BY Zenon, <4>3, StopInv, PowerFailureInv, Unmoved
      <4>4. QED
        BY Zenon, <2>2, <4>1, <4>2, <4>3
    <3>2. promised' = promised
      BY Zenon, <2>2 DEF RepairIndex, RepairHead, NewHead, WriteBlob, AppendItem, SyncIndex,
           TruncateFiles, TruncateHead, Stop, PowerFailure, Down, vars
    <3>3. QED
      BY Zenon, <3>1, <3>2, LosingStep
  <2>3. CASE WriteEntry
    BY Zenon, <2>3, AppendStep
  <2>4. CASE RepairDone \/ SyncHead
    <3>1. /\ Kept /\ promised' = Entries - 1 /\ \A k \in Nat : k < Entries => Ok(k)
      BY Zenon, <2>4, RepairDoneInv, SyncHeadInv
    <3>2. Entries > 0
      BY Zenon, <2>4 DEF RepairDone, SyncHead, IInv
    <3>3. QED
      BY Zenon, <3>1, <3>2, SyncStep
  <2>5. CASE \E n \in 0..(MaxItems - 1) : TruncateIndex(n)
    BY Zenon, <2>5, TruncateStep
  <2>6. QED
    BY Zenon, <2>1, <2>2, <2>3, <2>4, <2>5 DEF Next
<1>3. QED
  BY <1>1, <1>2, Invariance, PTL DEF Spec, ImplementsLog, Log!Spec

=============================================================================
