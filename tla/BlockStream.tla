----------------------------- MODULE BlockStream ----------------------------
(***************************************************************************)
(* What the content half of a synchronisation cycle promises the block     *)
(* processor (Results of mxt/downloader/queue.go): the blocks of the       *)
(* scheduled chain in order, each once and complete, in batches, until the *)
(* queue is closed.                                                        *)
(***************************************************************************)
EXTENDS Naturals, Sequences

CONSTANTS MaxNumber, maxResultsProcess, WithBody, WithReceipts

VARIABLES
  mode,       \* "full" or "fast"
  head,       \* the last block scheduled
  delivered,  \* the results handed over
  closed,
  ended       \* the processor got nothing, and stops

streamVars == <<mode, head, delivered, closed, ended>>

\* The finished result of block n: a part holds the number of the block it
\* belongs to, or 0 when the block or the mode has none.
Complete(n, m) ==
  [header  |-> n,
   pending |-> {},
   data    |-> [k \in {"body", "receipt"} |->
                  IF n \in (IF k = "body" THEN WithBody
                            ELSE IF m = "fast" THEN WithReceipts ELSE {})
                  THEN n ELSE 0]]

Init ==
  /\ mode \in {"full", "fast"} /\ head = 0
  /\ delivered = <<>> /\ closed = FALSE /\ ended = FALSE

Extend ==
  /\ \E n \in (head + 1)..MaxNumber : head' = n
  /\ UNCHANGED <<mode, delivered, closed, ended>>

HandOver ==
  /\ ~ended
  /\ \E limit \in 1..maxResultsProcess :
       /\ Len(delivered) + limit <= head
       /\ delivered' = delivered \o [j \in 1..limit |-> Complete(Len(delivered) + j, mode)]
  /\ UNCHANGED <<mode, head, closed, ended>>

CloseStream ==
  /\ ~closed /\ closed' = TRUE
  /\ UNCHANGED <<mode, head, delivered, ended>>

End ==
  /\ closed /\ ended' = TRUE
  /\ UNCHANGED <<mode, head, delivered, closed>>

Next == Extend \/ HandOver \/ CloseStream \/ End

Spec == Init /\ [][Next]_streamVars
=============================================================================
