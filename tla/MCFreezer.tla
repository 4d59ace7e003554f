----------------------------- MODULE MCFreezer ------------------------------
(* A block is the path that leads to it from the genesis: the difficulties. *)
EXTENDS Freezer
MCBlock == {<<>>, <<1>>, <<1, 1>>, <<1, 1, 2>>, <<2>>, <<2, 1>>, <<1, 2>>}
MCgenesis == <<>>
MCnumber(b) == Len(b)
MCAnc(b, n) == SubSeq(b, 1, n)
MCtd(b) == Cardinality({i \in 1..Len(b) : b[i] = 1}) + 2 * Cardinality({i \in 1..Len(b) : b[i] = 2})
=============================================================================
