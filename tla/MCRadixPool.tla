---------------------------- MODULE MCRadixPool -----------------------------
(* Small instances of RadixPool for TLC. *)
EXTENDS RadixPool, TLC

CONSTANTS t1, t2, n1, n2, n3, n4, b1, b2

\* Threads and addresses are only compared for equality.
PoolSymmetry == Permutations(Threads) \cup Permutations(Nodes) \cup Permutations(Bitmaps)
=============================================================================
