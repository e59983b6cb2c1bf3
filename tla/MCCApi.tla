------------------------------- MODULE MCCApi -------------------------------
(* CApi for TLC: handles and threads of one kind are interchangeable. *)
EXTENDS CApi, TLC

Symmetry == Permutations(Threads) \cup Permutations(Pipes) \cup Permutations(Batches)
=============================================================================
