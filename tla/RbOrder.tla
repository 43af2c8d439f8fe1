------------------------------- MODULE RbOrder ------------------------------
(***************************************************************************)
(* What a red-black tree promises its (single) writer: the elements in an  *)
(* order that its callers' comparison gives them.  Larger keys come first, *)
(* as myrbtree.h descends, and equal keys stay in the order they came in.  *)
(***************************************************************************)
EXTENDS Integers, Sequences, SequencesExt

CONSTANTS
    Nodes, \* the elements
    Key,   \* the key of each
    NULL

VARIABLES
    seq,   \* the elements in the tree, in its order
    op     \* the call in progress, or NULL

Inserts  == [kind : {"insert"}, node : Nodes]
Erases   == [kind : {"erase"}, node : Nodes]
Replaces == [kind : {"replace"}, victim : Nodes, node : Nodes]
Calls == Inserts \cup Erases \cup Replaces

Present == ToSet(seq)

\* The preconditions of the API: an element is in one tree at a time.
Callable(o) ==
    CASE o.kind = "insert"  -> o.node \notin Present
      [] o.kind = "erase"   -> o.node \in Present
      [] o.kind = "replace" -> /\ o.victim \in Present /\ o.node \notin Present
                               /\ Key[o.victim] = Key[o.node]

Init == seq = <<>> /\ op = NULL

Invoke(o) == op = NULL /\ Callable(o) /\ op' = o /\ UNCHANGED seq

Respond(kind) == op # NULL /\ op.kind = kind /\ op' = NULL

\* Behind everything that is not smaller.
Insert ==
    /\ Respond("insert")
    /\ \E i \in 0 .. Len(seq) :
         /\ \A j \in 1 .. i : Key[seq[j]] >= Key[op.node]
         /\ \A j \in (i + 1) .. Len(seq) : Key[seq[j]] < Key[op.node]
         /\ seq' = InsertAt(seq, i + 1, op.node)

Erase == Respond("erase") /\ seq' = Remove(seq, op.node)

Replace == Respond("replace") /\ seq' = ReplaceAll(seq, op.victim, op.node)

Next == (\E o \in Calls : Invoke(o)) \/ Insert \/ Erase \/ Replace

Spec == Init /\ [][Next]_<<seq, op>>
=============================================================================
