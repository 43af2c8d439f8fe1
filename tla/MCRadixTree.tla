----------------------------- MODULE MCRadixTree ----------------------------
(* Small instances of RadixTree for TLC; the configurations give the sizes.  *)
EXTENDS RadixTree, TLC

CONSTANTS n1, n2, n3, n4, n5, a, x, r1, r2

\* Node addresses are only compared for equality, so they are symmetric.
NodeSymmetry == Permutations(Nodes)
=============================================================================
