----------------------------- MODULE AncientLog -----------------------------
(***************************************************************************)
(* What a table of the freezer promises (core/rawdb/freezer_table.go): a   *)
(* log of blobs that grows and shrinks at its end only, and of which a     *)
(* crash takes nothing that was there at the last Sync.                    *)
(***************************************************************************)
EXTENDS Naturals, Sequences

CONSTANT Blob

VARIABLES
  log,    \* the blobs that can be retrieved
  synced  \* how many of them are safe

logVars == <<log, synced>>

Init == log = <<>> /\ synced = 0

AppendItem ==
  /\ \E b \in Blob : log' = Append(log, b)
  /\ synced' = synced

Truncate ==
  \E n \in 0..Len(log) :
    /\ log' = SubSeq(log, 1, n)
    /\ synced' = IF synced < n THEN synced ELSE n

Sync == synced' = Len(log) /\ log' = log

Crash ==
  /\ \E n \in synced..Len(log) : log' = SubSeq(log, 1, n)
  /\ synced' = synced

Next == AppendItem \/ Truncate \/ Sync \/ Crash

Spec == Init /\ [][Next]_logVars
=============================================================================
