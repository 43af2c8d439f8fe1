------------------------------- MODULE IdrMap -------------------------------
(***************************************************************************)
(* What an IDR promises: it hands out the least free id from a start on,   *)
(* and keeps a pointer, which may be NULL, for each id handed out.         *)
(***************************************************************************)
EXTENDS Integers

CONSTANTS Ops,  \* the calls, with their arguments
          NULL

VARIABLES ids,  \* the pointer of each id in use (its domain)
          op,   \* the call in progress
          ret   \* what the last completed call returned

Call(o) == op = NULL /\ op' = o /\ ret' = NULL /\ UNCHANGED ids

ENOMEM == 12
ENOSPC == 28

Answer(kind, r, f) == op.kind = kind /\ op' = NULL /\ ret' = r /\ ids' = f

FreeIds == (op.from .. op.max) \ DOMAIN ids
With(i, p) == [j \in DOMAIN ids \cup {i} |-> IF j = i THEN p ELSE ids[j]]
Without(i) == [j \in DOMAIN ids \ {i} |-> ids[j]]

Alloc ==
    \/ \E i \in FreeIds : /\ \A j \in FreeIds : i <= j
                          /\ Answer("alloc", i, With(i, op.item))
    \/ FreeIds = {} /\ Answer("alloc", -ENOSPC, ids)
    \/ Answer("alloc", -ENOMEM, ids)

Remove == IF op.from \in DOMAIN ids THEN Answer("delete", ids[op.from], Without(op.from))
          ELSE Answer("delete", NULL, ids)
Replace == IF op.from \in DOMAIN ids THEN Answer("replace", "ok", With(op.from, op.item))
           ELSE Answer("replace", NULL, ids)
Destroy == Answer("destroy", "ok", [i \in {} |-> NULL])

Init == ids = [i \in {} |-> NULL] /\ op = NULL /\ ret = NULL
Next == (\E o \in Ops : Call(o)) \/ (op # NULL /\ (Alloc \/ Remove \/ Replace \/ Destroy))
Spec == Init /\ [][Next]_<<ids, op, ret>>
=============================================================================
