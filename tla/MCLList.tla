------------------------------ MODULE MCLList -------------------------------
(* Small instances of LList for TLC. *)
EXTENDS LList, TLC

CONSTANTS t1, t2, t3, e1, e2, e3

\* Entries are only compared for equality, and so are the producers.
ListSymmetry == Permutations(Entries) \cup Permutations(Threads \ {Consumer})
=============================================================================
