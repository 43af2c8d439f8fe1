----------------------------- MODULE LListStack -----------------------------
(***************************************************************************)
(* What a lock-less list promises the threads that share it: a stack.  An  *)
(* entry is in the stack or with the one thread that holds it; each call   *)
(* takes its whole effect at one instant.                                  *)
(***************************************************************************)
EXTENDS Naturals, Sequences, SequencesExt

CONSTANTS Threads, Entries, NULL

VARIABLES
    stack,  \* the entries in the list, newest first
    holder, \* the thread that holds an entry, NULL while it is in the stack
    ret     \* of each thread's last call: was the list empty, what was delivered

Members(s) == {s[k] : k \in DOMAIN s}
Distinct(s) == \A j, k \in DOMAIN s : j # k => s[j] # s[k]

Returned(t, got) == ret' = [ret EXCEPT ![t] = [empty |-> stack = <<>>, got |-> got]]
Given(es, t) == holder' = [e \in Entries |-> IF e \in es THEN t ELSE holder[e]]

\* A chain of one or more entries goes on top.
Push(t, s) ==
    /\ Members(s) \subseteq {e \in Entries : holder[e] = t} /\ Distinct(s)
    /\ stack' = s \o stack
    /\ Given(Members(s), NULL)
    /\ Returned(t, <<>>)

Pop(t) ==
    /\ IF stack = <<>>
       THEN UNCHANGED <<stack, holder>> /\ Returned(t, <<>>)
       ELSE /\ stack' = Tail(stack)
            /\ Given({Head(stack)}, t)
            /\ Returned(t, <<Head(stack)>>)

PopAll(t) ==
    /\ stack' = <<>>
    /\ Given(Members(stack), t)
    /\ Returned(t, stack)

Init == /\ stack = <<>>
        /\ holder \in [Entries -> Threads]
        /\ ret = [t \in Threads |-> [empty |-> TRUE, got |-> <<>>]]

\* The pushed chains are enumerated as the arrangements of small sets.
Next == \E t \in Threads :
          \/ Pop(t)
          \/ PopAll(t)
          \/ \E S \in (SUBSET Entries) \ {{}} : \E s \in SetToSeqs(S) : Push(t, s)

Spec == Init /\ [][Next]_<<stack, holder, ret>>
=============================================================================
