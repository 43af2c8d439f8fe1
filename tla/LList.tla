------------------------------- MODULE LList --------------------------------
(***************************************************************************)
(* llist.c: producers add entries, or chains of entries, to a lock-less    *)
(* list while consumers delete the first entry or all of them, then        *)
(* reverse the deleted chain if they like and walk it.  One memory access  *)
(* per step; a compare-and-exchange is a load and a store, during which    *)
(* the memory bus is locked if the instruction is atomic.  Memory is       *)
(* sequentially consistent.                                                *)
(***************************************************************************)
EXTENDS Naturals, Sequences, FiniteSets

CONSTANTS
    Threads,
    Entries,
    NULL,
    Consumer, \* the thread that deletes when there is to be a single consumer
    Modes,    \* which of the disciplines of llist.h:24-30 the threads may follow
    Atomic    \* do cmpxchg and xchg lock the bus, or not

ASSUME ThreadAssumption == Consumer \in Threads /\ NULL \notin Threads \cup Entries
ASSUME FiniteAssumption == IsFiniteSet(Entries)
ASSUME AtomicAssumption == Atomic \in BOOLEAN
ASSUME ModeAssumption == Modes \subseteq {"one_consumer", "drainers", "locked"}

VARIABLES
    first,  \* the list head
    next,   \* every entry's llist_node.next
    lock,   \* the consumers' lock, where the discipline has one
    bus,    \* the thread inside an atomic read-modify-write
    mode,   \* the discipline
    th,     \* the threads' place and local variables
    holder, \* history: the thread that holds an entry, NULL if it is in the list
    ret     \* history: what each thread's last call delivered

vars == <<first, next, lock, bus, mode, th, holder, ret>>

-----------------------------------------------------------------------------
(* Chains.                                                                 *)

\* s holds the entries from e on, through the next pointers to the end.
Follows(s, e) ==
    /\ e = IF s = <<>> THEN NULL ELSE s[1]
    /\ \A k \in DOMAIN s : next[s[k]] = IF k < Len(s) THEN s[k + 1] ELSE NULL

Lists == UNION {[1 .. n -> Entries] : n \in 0 .. Cardinality(Entries)}
ChainFrom(e) == IF \E s \in Lists : Follows(s, e) THEN CHOOSE s \in Lists : Follows(s, e)
                ELSE <<>>

Members(s) == {s[k] : k \in DOMAIN s}
Mine(t) == {e \in Entries : holder[e] = t}

\* What llist_add and llist_add_batch are called with: one entry, or a chain.
Batches(t) == {<<e>> : e \in Mine(t)} \cup
              {s \in [{1, 2} -> Mine(t)] : s[1] # s[2]}

-----------------------------------------------------------------------------
Local == [pc |-> "idle", new |-> NULL, last |-> NULL, old |-> NULL, nxt |-> NULL,
          prev |-> NULL, rev |-> FALSE, out |-> <<>>, moved |-> FALSE]

At(t, pc) == th[t].pc = pc /\ bus \in {NULL, t}

\* Thread t goes on to state l; moved tells it whether the head has been stored
\* to since it last read it.
Goto(t, l) == th' = [th EXCEPT ![t] = l]
StoreFirst(t, e, l) ==
    /\ first' = e
    /\ th' = [u \in Threads |-> IF u = t THEN l ELSE [th[u] EXCEPT !.moved = TRUE]]

\* The load of an atomic instruction takes the bus, its store gives it back.
LoadLocked(t, pc) ==
    /\ bus' = IF Atomic THEN t ELSE NULL
    /\ Goto(t, [th[t] EXCEPT !.pc = pc, !.prev = first])
    /\ UNCHANGED <<first, next, lock, mode, holder, ret>>
Unlocked == bus' = NULL

Deliver(t, empty, got) == ret' = [ret EXCEPT ![t] = [empty |-> empty, got |-> got]]
Given(es, t) == holder' = [e \in Entries |-> IF e \in es THEN t ELSE holder[e]]

-----------------------------------------------------------------------------
(* llist_add_batch; llist_add is a batch of one.                           *)

Add(t, s) ==
    /\ At(t, "idle")
    /\ next' = [e \in Entries |-> IF e = s[1] /\ Len(s) = 2 THEN s[2] ELSE next[e]]
    /\ Goto(t, [Local EXCEPT !.pc = "add_load", !.new = s[1], !.last = s[Len(s)]])
    /\ UNCHANGED <<first, lock, bus, mode, holder, ret>>

\* Mutant: a retry goes by the head the first attempt read.
AddLoadOnce(t) ==
    /\ At(t, "add_load")
    /\ Goto(t, [th[t] EXCEPT !.pc = "add_link",
                             !.old = IF th[t].prev = NULL THEN first ELSE @, !.moved = FALSE])
    /\ UNCHANGED <<first, next, lock, bus, mode, holder, ret>>

AddLoad(t) ==
    /\ At(t, "add_load")
    /\ Goto(t, [th[t] EXCEPT !.pc = "add_link", !.old = first, !.moved = FALSE])
    /\ UNCHANGED <<first, next, lock, bus, mode, holder, ret>>

\* Mutant: the first entry of the chain is linked to the list, not the last.
AddLinkFirst(t) ==
    /\ At(t, "add_link")
    /\ next' = [next EXCEPT ![th[t].new] = th[t].old]
    /\ Goto(t, [th[t] EXCEPT !.pc = "add_cmp"])
    /\ UNCHANGED <<first, lock, bus, mode, holder, ret>>

AddLink(t) ==
    /\ At(t, "add_link")
    /\ next' = [next EXCEPT ![th[t].last] = th[t].old]
    /\ Goto(t, [th[t] EXCEPT !.pc = "add_cmp"])
    /\ UNCHANGED <<first, lock, bus, mode, holder, ret>>

AddCompare(t) == At(t, "add_cmp") /\ LoadLocked(t, "add_xchg")

AddExchange(t) ==
    /\ At(t, "add_xchg")
    /\ Unlocked
    /\ IF th[t].prev = th[t].old
       THEN /\ StoreFirst(t, th[t].new, Local)
            /\ Deliver(t, th[t].old = NULL, <<>>)
            /\ Given({th[t].new, th[t].last}, NULL)
       ELSE /\ Goto(t, [th[t] EXCEPT !.pc = "add_load"])
            /\ UNCHANGED <<first, holder, ret>>
    /\ UNCHANGED <<next, lock, mode>>

-----------------------------------------------------------------------------
(* The consumers' lock: where several consumers delete and one of them     *)
(* uses llist_del_first, all of them take it.                              *)

MayDelFirst(t) == mode = "locked" \/ (mode = "one_consumer" /\ t = Consumer)
MayDelAll(t) == mode \in {"locked", "drainers"}

Enter(t) == IF mode = "locked" THEN lock = NULL /\ lock' = t ELSE UNCHANGED lock
Leave == lock' = NULL

-----------------------------------------------------------------------------
(* llist_del_first                                                         *)

\* The list was seen empty.
DelNothing(t) ==
    /\ Goto(t, Local)
    /\ Deliver(t, TRUE, <<>>)
    /\ Leave

DelFirst(t) ==
    /\ At(t, "idle")
    /\ MayDelFirst(t)
    /\ Enter(t)
    /\ Goto(t, [Local EXCEPT !.pc = "del_load"])
    /\ UNCHANGED <<first, next, bus, mode, holder, ret>>

DelLoad(t) ==
    /\ At(t, "del_load")
    /\ IF first = NULL
       THEN DelNothing(t)
       ELSE /\ Goto(t, [th[t] EXCEPT !.pc = "del_next", !.old = first, !.moved = FALSE])
            /\ UNCHANGED <<lock, ret>>
    /\ UNCHANGED <<first, next, bus, mode, holder>>

DelNext(t) ==
    /\ At(t, "del_next")
    /\ Goto(t, [th[t] EXCEPT !.pc = "del_cmp", !.nxt = next[th[t].old]])
    /\ UNCHANGED <<first, next, lock, bus, mode, holder, ret>>

\* The compare's load is the retry's reading of the head.
DelCompare(t) == At(t, "del_cmp") /\ LoadLocked(t, "del_xchg")

DelExchange(t) ==
    /\ At(t, "del_xchg")
    /\ Unlocked
    /\ IF th[t].prev = th[t].old
       THEN /\ StoreFirst(t, th[t].nxt, Local)
            /\ Deliver(t, FALSE, <<th[t].old>>)
            /\ Given({th[t].old}, t)
            /\ Leave
       ELSE /\ IF th[t].prev = NULL
               THEN DelNothing(t)
               ELSE /\ Goto(t, [th[t] EXCEPT !.pc = "del_next", !.old = th[t].prev,
                                             !.moved = FALSE])
                    /\ UNCHANGED <<lock, ret>>
            /\ UNCHANGED <<first, holder>>
    /\ UNCHANGED <<next, mode>>

-----------------------------------------------------------------------------
(* llist_del_all, llist_reverse_order and llist_for_each on what it gave.  *)

DelAll(t, rev) ==
    /\ At(t, "idle")
    /\ MayDelAll(t)
    /\ Enter(t)
    /\ Goto(t, [Local EXCEPT !.pc = "all_load", !.rev = rev])
    /\ UNCHANGED <<first, next, bus, mode, holder, ret>>

\* Mutant: the head is read and then cleared, not exchanged.
AllLoadPlain(t) ==
    /\ At(t, "all_load")
    /\ Goto(t, [th[t] EXCEPT !.pc = "all_store", !.prev = first])
    /\ UNCHANGED <<first, next, lock, bus, mode, holder, ret>>

AllLoad(t) == At(t, "all_load") /\ LoadLocked(t, "all_store")

AllStore(t) ==
    /\ At(t, "all_store")
    /\ Unlocked
    /\ LET got == ChainFrom(th[t].prev)
       IN  /\ Deliver(t, th[t].prev = NULL, got)
           /\ Given(Members(got), t)
    /\ StoreFirst(t, NULL, [th[t] EXCEPT !.pc = IF th[t].rev THEN "reverse" ELSE "walk",
                                         !.old = th[t].prev])
    /\ Leave
    /\ UNCHANGED <<next, mode>>

\* Mutant: the entry keeps its old successor.
ReverseStepKept(t) ==
    /\ At(t, "reverse")
    /\ th[t].old # NULL
    /\ Goto(t, [th[t] EXCEPT !.old = next[th[t].old], !.new = th[t].old])
    /\ UNCHANGED <<first, next, lock, bus, mode, holder, ret>>

\* One turn of the loop: head (old) moves to the front of new_head (new).
ReverseStep(t) ==
    /\ At(t, "reverse")
    /\ th[t].old # NULL
    /\ next' = [next EXCEPT ![th[t].old] = th[t].new]
    /\ Goto(t, [th[t] EXCEPT !.old = next[th[t].old], !.new = th[t].old])
    /\ UNCHANGED <<first, lock, bus, mode, holder, ret>>

ReverseEnd(t) ==
    /\ At(t, "reverse")
    /\ th[t].old = NULL
    /\ Goto(t, [th[t] EXCEPT !.pc = "walk", !.old = th[t].new])
    /\ UNCHANGED <<first, next, lock, bus, mode, holder, ret>>

\* Mutant: the walk takes in the terminator.
WalkStepPast(t) ==
    /\ At(t, "walk")
    /\ Goto(t, [th[t] EXCEPT !.out = Append(@, th[t].old),
                             !.old = IF @ = NULL THEN NULL ELSE next[@]])
    /\ UNCHANGED <<first, next, lock, bus, mode, holder, ret>>

WalkStep(t) ==
    /\ At(t, "walk")
    /\ th[t].old # NULL
    /\ Goto(t, [th[t] EXCEPT !.out = Append(@, th[t].old), !.old = next[th[t].old]])
    /\ UNCHANGED <<first, next, lock, bus, mode, holder, ret>>

WalkEnd(t) ==
    /\ At(t, "walk")
    /\ th[t].old = NULL
    /\ Goto(t, Local)
    /\ UNCHANGED <<first, next, lock, bus, mode, holder, ret>>

-----------------------------------------------------------------------------
Init == /\ first = NULL
        /\ next = [e \in Entries |-> NULL]
        /\ lock = NULL
        /\ bus = NULL
        /\ mode \in Modes
        /\ th = [t \in Threads |-> Local]
        /\ holder \in [Entries -> Threads]
        /\ ret = [t \in Threads |-> [empty |-> TRUE, got |-> <<>>]]

Next == \E t \in Threads :
          \/ (\E s \in Batches(t) : Add(t, s))
          \/ AddLoad(t) \/ AddLink(t) \/ AddCompare(t) \/ AddExchange(t)
          \/ DelFirst(t) \/ DelLoad(t) \/ DelNext(t) \/ DelCompare(t) \/ DelExchange(t)
          \/ (\E rev \in BOOLEAN : DelAll(t, rev)) \/ AllLoad(t) \/ AllStore(t)
          \/ ReverseStep(t) \/ ReverseEnd(t) \/ WalkStep(t) \/ WalkEnd(t)

Spec == Init /\ [][Next]_vars

-----------------------------------------------------------------------------
(* What is checked.                                                        *)

Places == {"idle", "add_load", "add_link", "add_cmp", "add_xchg",
           "del_load", "del_next", "del_cmp", "del_xchg",
           "all_load", "all_store", "reverse", "walk"}
Pointers == Entries \cup {NULL}

\* Every variable stays in its domain.
TypeOK ==
    /\ first \in Pointers /\ next \in [Entries -> Pointers]
    /\ {lock, bus} \subseteq Threads \cup {NULL} /\ mode \in Modes
    /\ th \in [Threads -> [pc : Places, new : Pointers, last : Pointers, old : Pointers,
                           nxt : Pointers, prev : Pointers, rev : BOOLEAN,
                           out : Seq(Entries), moved : BOOLEAN]]
    /\ holder \in [Entries -> Threads \cup {NULL}]
    /\ ret \in [Threads -> [empty : BOOLEAN, got : Seq(Entries)]]

\* The chain from the head ends, and holds each entry that was added and not yet
\* deleted (exactly once, as it ends): nothing is lost, doubled or closed to a
\* circle.
NothingLost ==
    LET s == ChainFrom(first)
    IN  Follows(s, first) /\ Members(s) = {e \in Entries : holder[e] = NULL}

\* A thread that deleted all the entries walks exactly those, from the newest to
\* the oldest, or the other way round once reversed: nobody else writes to them.
DrainedInOrder ==
    \A t \in Threads :
      th[t].pc = "walk" /\ th[t].old = NULL =>
        LET got == ret[t].got IN
        th[t].out = IF th[t].rev THEN [k \in DOMAIN got |-> got[Len(got) + 1 - k]] ELSE got

\* A call tries again only if another thread has stored to the head since it
\* read it: the list is lock-free, some call always gets through.
Retries(t) == \/ th[t].pc = "add_xchg" /\ th'[t].pc = "add_load"
              \/ th[t].pc = "del_xchg" /\ th'[t].pc = "del_next"
LockFree == [][\A t \in Threads : Retries(t) => th[t].moved]_vars

\* The list is a stack whose calls take effect at one instant (refinement).
Stack == INSTANCE LListStack WITH stack <- ChainFrom(first)
ImplementsStack == Stack!Spec
=============================================================================
