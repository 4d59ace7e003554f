---------------------------- MODULE MCTxFetcher ----------------------------
(* TxFetcher on small instances.  Hashes and peers are interchangeable. *)
EXTENDS TxFetcher, TLC

Symmetry == Permutations(Hash) \cup Permutations(Peer)
=============================================================================
