------------------------------ MODULE MCRbTree ------------------------------
(* Small instances of RbTree for TLC; the configurations give the sizes.     *)
EXTENDS RbTree, TLC

CONSTANTS r1, Twins

\* The last Twins elements have the keys of the first ones.
TwinKey ==
    LET size == Cardinality(Nodes) - Twins
    IN  [n \in Nodes |-> IF n > size THEN n - size ELSE n]
=============================================================================
