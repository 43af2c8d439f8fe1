----------------------------- MODULE MCRadixIter ----------------------------
(* Small instances of RadixIter and Idr for TLC; the configurations give the *)
(* sizes.                                                                  *)
EXTENDS Idr, TLC

CONSTANTS n1, n2, n3, n4, n5, a, b, r1

NodeSymmetry == Permutations(Nodes)

\* The other threads insert and delete; loops set and clear the tags.
ChurnCalls == {o \in Calls : o.kind = "insert" \/ (o.kind = "delete" /\ o.item = NULL)}
AllKinds == {{}, {"contig"}, {"tagged"}}
=============================================================================
