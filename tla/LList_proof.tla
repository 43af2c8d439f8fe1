----------------------------- MODULE LList_proof ----------------------------
(***************************************************************************)
(* The lock-less list is lock-free and is a stack that threads share, for  *)
(* every number of threads and entries and under every discipline: a call  *)
(* goes round its loop again only because another call has stored to the   *)
(* head, nothing is lost, what llist_del_all delivers is walked in order,  *)
(* and each call takes effect at one instant.                              *)
(***************************************************************************)
EXTENDS LList, TLAPS, SequenceTheorems, FiniteSetTheorems, WellFoundedInduction

-----------------------------------------------------------------------------
(* The inductive invariant: until somebody stores to it, the head is what  *)
(* a call that is going to exchange it has read; between the load and the  *)
(* store of an atomic instruction nobody does.                             *)

InAtomic == {"add_xchg", "del_xchg", "all_store"}

LocalType == [pc : Places, new : Pointers, last : Pointers, old : Pointers, nxt : Pointers,
              prev : Pointers, rev : BOOLEAN, out : Seq(Entries), moved : BOOLEAN]

Typed == /\ first \in Pointers /\ next \in [Entries -> Pointers]
         /\ bus \in Threads \cup {NULL} /\ th \in [Threads -> LocalType]

\* A thread's locals l agree with the head f.
SeenBy(l, f) ==
    /\ l.pc \in {"add_link", "add_cmp", "del_next", "del_cmp"} /\ ~l.moved => l.old = f
    /\ l.pc \in {"add_xchg", "del_xchg"} => l.prev = f /\ (~l.moved => l.prev = l.old)
    /\ l.pc = "all_store" => l.prev = f
    /\ l.pc = "del_next" => l.old # NULL

BusInv == \A t \in Threads : th[t].pc \in InAtomic <=> bus = t

SeenInv == Typed /\ BusInv /\ \A t \in Threads : SeenBy(th[t], first)

\* Going from locals k to l is no retry, or one that another store explains.
Excused(k, l) ==
    \/ k.pc = "add_xchg" /\ l.pc = "add_load"
    \/ k.pc = "del_xchg" /\ l.pc = "del_next"
    => k.moved
RetriesExcused == \A t \in Threads : Retries(t) => th[t].moved

-----------------------------------------------------------------------------
(* The two ways in which threads change their locals.                      *)

LEMMA IdleType == Local \in LocalType /\ Local.pc = "idle"
BY DEF Local, LocalType, Places, Pointers

\* A step that does not store to the head.
LEMMA GotoStep ==
    ASSUME SeenInv, NEW t \in Threads, NEW l \in LocalType, Goto(t, l),
           first' = first, next' \in [Entries -> Pointers], bus \in {NULL, t},
           bus' = (IF l.pc \in InAtomic THEN t ELSE NULL), SeenBy(l, first), Excused(th[t], l)
    PROVE  SeenInv' /\ RetriesExcused
<1>1. th'[t] = l /\ \A u \in Threads \ {t} : th'[u] = th[u]
    BY DEF Goto, SeenInv, Typed
<1>2. Typed'
    BY DEF SeenInv, Typed, Goto, Pointers
<1>3. \A u \in Threads : SeenBy(th[u], first)'
    BY <1>1 DEF SeenInv, SeenBy
<1>4. BusInv'
    BY <1>1, ThreadAssumption DEF SeenInv, BusInv
<1>5. RetriesExcused
    BY <1>1 DEF RetriesExcused, Retries, Excused
<1> QED BY <1>2, <1>3, <1>4, <1>5 DEF SeenInv

\* A step that does: every other thread has been overtaken.
LEMMA StoreStep ==
    ASSUME SeenInv, NEW t \in Threads, NEW l \in LocalType, NEW e \in Pointers,
           StoreFirst(t, e, l), next' \in [Entries -> Pointers], bus \in {NULL, t}, bus' = NULL,
           l.pc \in {"idle", "reverse", "walk"}
    PROVE  SeenInv' /\ RetriesExcused
<1>1. th'[t] = l /\ first' = e
    BY DEF StoreFirst
<1>2. \A u \in Threads \ {t} : th'[u] = [th[u] EXCEPT !.moved = TRUE] /\ th[u] \in LocalType
    BY DEF StoreFirst, SeenInv, Typed
<1>3. \A u \in Threads \ {t} : th'[u] \in LocalType /\ th'[u].moved /\ th'[u].pc = th[u].pc
                               /\ th'[u].old = th[u].old
    <2> SUFFICES ASSUME NEW u \in Threads \ {t}
                 PROVE  /\ th'[u] \in LocalType /\ th'[u].moved
                        /\ th'[u].pc = th[u].pc /\ th'[u].old = th[u].old
        OBVIOUS
    <2>1. PICK k \in LocalType : th[u] = k /\ th'[u] = [k EXCEPT !.moved = TRUE]
        BY <1>2
    <2>2. /\ [k EXCEPT !.moved = TRUE] \in LocalType
          /\ [k EXCEPT !.moved = TRUE].pc = k.pc
          /\ [k EXCEPT !.moved = TRUE].old = k.old
        BY DEF LocalType
    <2>3. [k EXCEPT !.moved = TRUE].moved
        BY DEF LocalType
    <2> QED BY <2>1, <2>2, <2>3
<1>4. Typed'
    <2>1. th' \in [Threads -> LocalType]
        BY <1>1, <1>3 DEF StoreFirst
    <2> QED BY <1>1, <2>1 DEF Typed, SeenInv
<1>5. \A u \in Threads \ {t} : th[u].pc \notin InAtomic
    BY ThreadAssumption DEF SeenInv, BusInv
<1>6. (\A u \in Threads : SeenBy(th[u], first)') /\ BusInv'
    BY <1>1, <1>3, <1>5, ThreadAssumption DEF SeenInv, SeenBy, BusInv, InAtomic
<1>7. RetriesExcused
    BY <1>1, <1>3 DEF RetriesExcused, Retries
<1> QED BY <1>4, <1>6, <1>7 DEF SeenInv

\* What every step finds of the thread that takes it.
LEMMA Before ==
    ASSUME SeenInv, NEW t \in Threads
    PROVE  /\ th[t] \in LocalType /\ SeenBy(th[t], first)
           /\ first \in Pointers /\ next \in [Entries -> Pointers]
BY DEF SeenInv, Typed

\* Outside an atomic instruction the bus is free when a thread takes a step.
LEMMA BusFree ==
    ASSUME SeenInv, NEW t \in Threads, NEW pc, At(t, pc), pc \notin InAtomic
    PROVE  bus = NULL
BY DEF SeenInv, BusInv, At

-----------------------------------------------------------------------------
(* llist_add_batch.                                                        *)

LEMMA AddStep ==
    ASSUME SeenInv, NEW t \in Threads, NEW s \in Batches(t), Add(t, s)
    PROVE  SeenInv' /\ RetriesExcused
<1> DEFINE l == [Local EXCEPT !.pc = "add_load", !.new = s[1], !.last = s[Len(s)]]
<1>1. s[1] \in Entries /\ s[Len(s)] \in Entries /\ (Len(s) = 2 => s[2] \in Entries)
    <2>1. CASE \E e \in Mine(t) : s = <<e>>
        BY <2>1 DEF Mine
    <2>2. CASE s \in [{1, 2} -> Mine(t)]
        <3>1. s = <<s[1], s[2]>>
            BY <2>2
        <3>2. Len(s) = 2 /\ s[1] \in Mine(t) /\ s[2] \in Mine(t)
            BY <2>2, <3>1
        <3> QED BY <3>2 DEF Mine
    <2> QED BY <2>1, <2>2 DEF Batches
<1>2. l \in LocalType /\ l.pc = "add_load"
    BY <1>1, IdleType DEF LocalType, Places, Pointers
<1>3. /\ Goto(t, l) /\ first' = first /\ bus = NULL /\ bus' = NULL /\ th[t].pc = "idle"
      /\ next' \in [Entries -> Pointers]
    BY <1>1, Before, BusFree DEF Add, At, InAtomic, Pointers
<1> HIDE DEF l
<1>4. SeenBy(l, first) /\ Excused(th[t], l) /\ l.pc \notin InAtomic
    BY <1>2, <1>3 DEF SeenBy, Excused, InAtomic
<1> QED BY <1>2, <1>3, <1>4, GotoStep

\* A step that changes only the place and these locals of a thread.
LEMMA AddLoadStep ==
    ASSUME SeenInv, NEW t \in Threads, AddLoad(t)
    PROVE  SeenInv' /\ RetriesExcused
<1> DEFINE l == [th[t] EXCEPT !.pc = "add_link", !.old = first, !.moved = FALSE]
<1>1. l \in LocalType /\ l.pc = "add_link" /\ l.old = first
    BY Before DEF LocalType, Places
<1>2. Goto(t, l) /\ first' = first /\ bus = NULL /\ bus' = NULL /\ next' = next
    BY BusFree DEF AddLoad, InAtomic
<1> HIDE DEF l
<1>3. SeenBy(l, first) /\ Excused(th[t], l) /\ l.pc \notin InAtomic
    BY <1>1 DEF SeenBy, Excused, InAtomic
<1> QED BY <1>1, <1>2, <1>3, Before, GotoStep

LEMMA AddLinkStep ==
    ASSUME SeenInv, NEW t \in Threads, AddLink(t)
    PROVE  SeenInv' /\ RetriesExcused
<1> DEFINE l == [th[t] EXCEPT !.pc = "add_cmp"]
<1>1. l \in LocalType /\ l.pc = "add_cmp" /\ l.old = th[t].old /\ (l.moved <=> th[t].moved)
    BY Before DEF LocalType, Places
<1>2. /\ Goto(t, l) /\ first' = first /\ bus = NULL /\ bus' = NULL /\ th[t].pc = "add_link"
      /\ next' = [next EXCEPT ![th[t].last] = th[t].old]
    BY BusFree DEF AddLink, At, InAtomic
<1>3. next' \in [Entries -> Pointers]
    BY <1>2, Before DEF LocalType
<1> HIDE DEF l
<1>4. SeenBy(l, first) /\ Excused(th[t], l) /\ l.pc \notin InAtomic
    BY <1>1, <1>2, Before DEF SeenBy, Excused, InAtomic
<1> QED BY <1>1, <1>2, <1>3, <1>4, GotoStep

\* The load of a compare-and-exchange: what it reads is what the call has read
\* before, unless the head was stored to.
LEMMA CompareStep ==
    ASSUME SeenInv, Atomic = TRUE, NEW t \in Threads, AddCompare(t) \/ DelCompare(t)
    PROVE  SeenInv' /\ RetriesExcused
<1>1. PICK pc \in {"add_xchg", "del_xchg"} :
          LoadLocked(t, pc) /\ th[t].pc \in {"add_cmp", "del_cmp"} /\ bus = NULL
    BY BusFree DEF AddCompare, DelCompare, At, InAtomic
<1> DEFINE l == [th[t] EXCEPT !.pc = pc, !.prev = first]
<1>2. /\ l \in LocalType /\ l.pc = pc /\ l.prev = first /\ l.old = th[t].old
      /\ l.moved <=> th[t].moved
    BY Before DEF LocalType, Places
<1>3. Goto(t, l) /\ first' = first /\ bus = NULL /\ bus' = t /\ next' = next
    BY <1>1 DEF LoadLocked
<1> HIDE DEF l
<1>4. SeenBy(l, first) /\ Excused(th[t], l) /\ l.pc \in InAtomic
    BY <1>1, <1>2, Before DEF SeenBy, Excused, InAtomic
<1> QED BY <1>2, <1>3, <1>4, Before, GotoStep

LEMMA AddExchangeStep ==
    ASSUME SeenInv, NEW t \in Threads, AddExchange(t)
    PROVE  SeenInv' /\ RetriesExcused
<1>1. th[t].pc = "add_xchg" /\ bus \in {NULL, t} /\ bus' = NULL /\ next' = next
    BY DEF AddExchange, At, Unlocked
<1>2. CASE th[t].prev = th[t].old
    <2>1. StoreFirst(t, th[t].new, Local)
        BY <1>2 DEF AddExchange
    <2>2. th[t].new \in Pointers
        BY Before DEF LocalType
    <2> QED BY <1>1, <2>1, <2>2, IdleType, Before, StoreStep
<1>3. CASE th[t].prev # th[t].old
    <2> DEFINE l == [th[t] EXCEPT !.pc = "add_load"]
    <2>1. l \in LocalType /\ l.pc = "add_load"
        BY Before DEF LocalType, Places
    <2>2. Goto(t, l) /\ first' = first /\ th[t].moved
        BY <1>1, <1>3, Before DEF AddExchange, SeenBy
    <2> HIDE DEF l
    <2>3. SeenBy(l, first) /\ Excused(th[t], l) /\ l.pc \notin InAtomic
        BY <2>1, <2>2 DEF SeenBy, Excused, InAtomic
    <2> QED BY <1>1, <2>1, <2>2, <2>3, Before, GotoStep
<1> QED BY <1>2, <1>3

-----------------------------------------------------------------------------
(* llist_del_first.                                                        *)

\* A step to the idle place or to one where nothing has been read yet.
LEMMA FreshStep ==
    ASSUME SeenInv, NEW t \in Threads, NEW l \in LocalType, Goto(t, l),
           l.pc \in {"idle", "del_load", "all_load"},
           first' = first, next' = next, bus = NULL, bus' = NULL
    PROVE  SeenInv' /\ RetriesExcused
<1>1. SeenBy(l, first) /\ Excused(th[t], l) /\ l.pc \notin InAtomic
    BY DEF SeenBy, Excused, InAtomic
<1> QED BY <1>1, Before, GotoStep

LEMMA StartStep ==
    ASSUME SeenInv, NEW t \in Threads,
           DelFirst(t) \/ (\E rev \in BOOLEAN : DelAll(t, rev)) \/ WalkEnd(t)
    PROVE  SeenInv' /\ RetriesExcused
<1>1. first' = first /\ next' = next /\ bus = NULL /\ bus' = NULL
    BY BusFree DEF DelFirst, DelAll, WalkEnd, InAtomic
<1>2. CASE DelFirst(t)
    <2>1. /\ [Local EXCEPT !.pc = "del_load"] \in LocalType
          /\ [Local EXCEPT !.pc = "del_load"].pc = "del_load"
        BY IdleType DEF LocalType, Places
    <2> QED BY <1>1, <1>2, <2>1, Before, FreshStep DEF DelFirst
<1>3. ASSUME NEW rev \in BOOLEAN, DelAll(t, rev) PROVE SeenInv' /\ RetriesExcused
    <2> DEFINE l == [Local EXCEPT !.pc = "all_load", !.rev = rev]
    <2>1. l \in LocalType /\ l.pc = "all_load"
        BY IdleType DEF LocalType, Places
    <2>2. Goto(t, l)
        BY <1>3 DEF DelAll
    <2> HIDE DEF l
    <2> QED BY <1>1, <2>1, <2>2, Before, FreshStep
<1>4. CASE WalkEnd(t)
    BY <1>1, <1>4, IdleType, Before, FreshStep DEF WalkEnd
<1> QED BY <1>2, <1>3, <1>4

LEMMA DelLoadStep ==
    ASSUME SeenInv, NEW t \in Threads, DelLoad(t)
    PROVE  SeenInv' /\ RetriesExcused
<1>1. first' = first /\ next' = next /\ bus = NULL /\ bus' = NULL /\ th[t].pc = "del_load"
    BY BusFree DEF DelLoad, At, InAtomic
<1>2. CASE first = NULL
    BY <1>1, <1>2, IdleType, Before, FreshStep DEF DelLoad, DelNothing
<1>3. CASE first # NULL
    <2> DEFINE l == [th[t] EXCEPT !.pc = "del_next", !.old = first, !.moved = FALSE]
    <2>1. l \in LocalType /\ l.pc = "del_next" /\ l.old = first
        BY Before DEF LocalType, Places
    <2>2. Goto(t, l)
        BY <1>3 DEF DelLoad
    <2> HIDE DEF l
    <2>3. SeenBy(l, first) /\ Excused(th[t], l) /\ l.pc \notin InAtomic
        BY <1>1, <1>3, <2>1 DEF SeenBy, Excused, InAtomic
    <2> QED BY <1>1, <2>1, <2>2, <2>3, Before, GotoStep
<1> QED BY <1>2, <1>3

LEMMA DelNextStep ==
    ASSUME SeenInv, NEW t \in Threads, DelNext(t)
    PROVE  SeenInv' /\ RetriesExcused
<1>1. /\ first' = first /\ next' = next /\ bus = NULL /\ bus' = NULL /\ th[t].pc = "del_next"
      /\ th[t].old \in Entries /\ next[th[t].old] \in Pointers
    BY Before, BusFree DEF DelNext, At, InAtomic, SeenBy, LocalType, Pointers
<1> DEFINE l == [th[t] EXCEPT !.pc = "del_cmp", !.nxt = next[th[t].old]]
<1>2. l \in LocalType /\ l.pc = "del_cmp" /\ l.old = th[t].old /\ (l.moved <=> th[t].moved)
    BY <1>1, Before DEF LocalType, Places
<1>3. Goto(t, l)
    BY DEF DelNext
<1> HIDE DEF l
<1>4. SeenBy(l, first) /\ Excused(th[t], l) /\ l.pc \notin InAtomic
    BY <1>1, <1>2, Before DEF SeenBy, Excused, InAtomic
<1> QED BY <1>1, <1>2, <1>3, <1>4, Before, GotoStep

LEMMA DelExchangeStep ==
    ASSUME SeenInv, NEW t \in Threads, DelExchange(t)
    PROVE  SeenInv' /\ RetriesExcused
<1>1. th[t].pc = "del_xchg" /\ bus \in {NULL, t} /\ bus' = NULL /\ next' = next
    BY DEF DelExchange, At, Unlocked
<1>2. CASE th[t].prev = th[t].old
    <2>1. StoreFirst(t, th[t].nxt, Local)
        BY <1>2 DEF DelExchange
    <2>2. th[t].nxt \in Pointers
        BY Before DEF LocalType
    <2> QED BY <1>1, <2>1, <2>2, IdleType, Before, StoreStep
<1>3. CASE th[t].prev # th[t].old /\ th[t].prev = NULL
    <2>1. Goto(t, Local) /\ first' = first
        BY <1>3 DEF DelExchange, DelNothing
    <2>2. SeenBy(Local, first) /\ Excused(th[t], Local) /\ Local.pc \notin InAtomic
        BY IdleType DEF SeenBy, Excused, InAtomic
    <2> QED BY <1>1, <2>1, <2>2, IdleType, Before, GotoStep
<1>4. CASE th[t].prev # th[t].old /\ th[t].prev # NULL
    <2> DEFINE l == [th[t] EXCEPT !.pc = "del_next", !.old = th[t].prev, !.moved = FALSE]
    <2>1. Goto(t, l) /\ first' = first /\ th[t].moved /\ th[t].prev = first
        BY <1>1, <1>4, Before DEF DelExchange, SeenBy
    <2>2. l \in LocalType /\ l.pc = "del_next" /\ l.old = th[t].prev
        BY Before DEF LocalType, Places
    <2> HIDE DEF l
    <2>3. SeenBy(l, first) /\ Excused(th[t], l) /\ l.pc \notin InAtomic
        BY <1>4, <2>1, <2>2 DEF SeenBy, Excused, InAtomic
    <2> QED BY <1>1, <2>1, <2>2, <2>3, Before, GotoStep
<1> QED BY <1>2, <1>3, <1>4

-----------------------------------------------------------------------------
(* llist_del_all, llist_reverse_order and the walk.                        *)

LEMMA AllLoadStep ==
    ASSUME SeenInv, Atomic = TRUE, NEW t \in Threads, AllLoad(t)
    PROVE  SeenInv' /\ RetriesExcused
<1> DEFINE l == [th[t] EXCEPT !.pc = "all_store", !.prev = first]
<1>1. l \in LocalType /\ l.pc = "all_store" /\ l.prev = first
    BY Before DEF LocalType, Places
<1>2. Goto(t, l) /\ first' = first /\ bus = NULL /\ bus' = t /\ next' = next
    BY BusFree DEF AllLoad, LoadLocked, InAtomic
<1> HIDE DEF l
<1>3. SeenBy(l, first) /\ Excused(th[t], l) /\ l.pc \in InAtomic
    BY <1>1 DEF SeenBy, Excused, InAtomic
<1> QED BY <1>1, <1>2, <1>3, Before, GotoStep

LEMMA AllStoreStep ==
    ASSUME SeenInv, NEW t \in Threads, AllStore(t)
    PROVE  SeenInv' /\ RetriesExcused
<1>1. PICK pc \in {"reverse", "walk"} :
          StoreFirst(t, NULL, [th[t] EXCEPT !.pc = pc, !.old = th[t].prev])
    BY DEF AllStore
<1> DEFINE l == [th[t] EXCEPT !.pc = pc, !.old = th[t].prev]
<1>2. l \in LocalType /\ l.pc = pc
    BY Before DEF LocalType, Places
<1>3. StoreFirst(t, NULL, l) /\ bus \in {NULL, t} /\ bus' = NULL /\ next' = next
    BY <1>1 DEF AllStore, At, Unlocked
<1> HIDE DEF l
<1> QED BY <1>2, <1>3, Before, StoreStep DEF Pointers

\* A step of a thread on the chain it has taken off.
LEMMA OwnStep ==
    ASSUME SeenInv, NEW t \in Threads, NEW l \in LocalType, Goto(t, l),
           l.pc \in {"reverse", "walk"}, first' = first, next' \in [Entries -> Pointers],
           bus = NULL, bus' = NULL
    PROVE  SeenInv' /\ RetriesExcused
<1>1. SeenBy(l, first) /\ Excused(th[t], l) /\ l.pc \notin InAtomic
    BY DEF SeenBy, Excused, InAtomic
<1> QED BY <1>1, GotoStep

LEMMA ReverseStepKeeps ==
    ASSUME SeenInv, NEW t \in Threads, ReverseStep(t)
    PROVE  SeenInv' /\ RetriesExcused
<1>1. /\ th[t].pc = "reverse" /\ th[t].old \in Entries /\ next[th[t].old] \in Pointers
      /\ th[t].new \in Pointers
    BY Before DEF ReverseStep, At, LocalType, Pointers
<1> DEFINE l == [th[t] EXCEPT !.old = next[th[t].old], !.new = th[t].old]
<1>2. l \in LocalType /\ l.pc = "reverse"
    BY <1>1, Before DEF LocalType, Pointers
<1>3. Goto(t, l) /\ first' = first /\ bus = NULL /\ bus' = NULL
    BY BusFree DEF ReverseStep, InAtomic
<1>4. next' \in [Entries -> Pointers]
    BY <1>1, Before DEF ReverseStep
<1> HIDE DEF l
<1> QED BY <1>2, <1>3, <1>4, OwnStep

LEMMA ReverseEndKeeps ==
    ASSUME SeenInv, NEW t \in Threads, ReverseEnd(t)
    PROVE  SeenInv' /\ RetriesExcused
<1> DEFINE l == [th[t] EXCEPT !.pc = "walk", !.old = th[t].new]
<1>1. l \in LocalType /\ l.pc = "walk"
    BY Before DEF LocalType, Places
<1>2. Goto(t, l) /\ first' = first /\ bus = NULL /\ bus' = NULL /\ next' = next
    BY BusFree DEF ReverseEnd, InAtomic
<1> HIDE DEF l
<1> QED BY <1>1, <1>2, Before, OwnStep

LEMMA WalkStepKeeps ==
    ASSUME SeenInv, NEW t \in Threads, WalkStep(t)
    PROVE  SeenInv' /\ RetriesExcused
<1>1. /\ th[t].pc = "walk" /\ th[t].old \in Entries /\ next[th[t].old] \in Pointers
      /\ th[t].out \in Seq(Entries)
    BY Before DEF WalkStep, At, LocalType, Pointers
<1> DEFINE l == [th[t] EXCEPT !.out = Append(th[t].out, th[t].old), !.old = next[th[t].old]]
<1>2. Append(th[t].out, th[t].old) \in Seq(Entries)
    BY <1>1
<1>3. l \in LocalType /\ l.pc = "walk"
    BY <1>1, <1>2, Before DEF LocalType
<1>4. Goto(t, l) /\ first' = first /\ bus = NULL /\ bus' = NULL /\ next' = next
    BY BusFree DEF WalkStep, InAtomic
<1> HIDE DEF l
<1> QED BY <1>3, <1>4, Before, OwnStep

-----------------------------------------------------------------------------
(* The theorem.                                                            *)

LEMMA InitSeen == Init => SeenInv
<1> SUFFICES ASSUME Init PROVE SeenInv
    OBVIOUS
<1>1. Typed
    BY IdleType DEF Init, Typed, Pointers
<1>2. \A t \in Threads : th[t].pc = "idle"
    BY IdleType DEF Init
<1>3. BusInv
    BY <1>2, ThreadAssumption DEF BusInv, Init, InAtomic
<1>4. \A t \in Threads : SeenBy(th[t], first)
    BY <1>2 DEF SeenBy
<1> QED BY <1>1, <1>3, <1>4 DEF SeenInv

LEMMA NextSeen ==
    ASSUME SeenInv, Atomic = TRUE, [Next]_vars
    PROVE  SeenInv' /\ RetriesExcused
<1>1. CASE UNCHANGED vars
    BY <1>1 DEF vars, SeenInv, Typed, BusInv, SeenBy, RetriesExcused, Retries
<1>2. ASSUME NEW t \in Threads,
             \/ \E s \in Batches(t) : Add(t, s)
             \/ AddLoad(t) \/ AddLink(t) \/ AddCompare(t) \/ AddExchange(t)
      PROVE  SeenInv' /\ RetriesExcused
    BY <1>2, AddStep, AddLoadStep, AddLinkStep, CompareStep, AddExchangeStep
<1>3. ASSUME NEW t \in Threads,
             \/ DelFirst(t) \/ DelLoad(t) \/ DelNext(t) \/ DelCompare(t) \/ DelExchange(t)
      PROVE  SeenInv' /\ RetriesExcused
    BY <1>3, StartStep, DelLoadStep, DelNextStep, CompareStep, DelExchangeStep
<1>4. ASSUME NEW t \in Threads,
             \/ \E rev \in BOOLEAN : DelAll(t, rev)
             \/ AllLoad(t) \/ AllStore(t)
             \/ ReverseStep(t) \/ ReverseEnd(t) \/ WalkStep(t) \/ WalkEnd(t)
      PROVE  SeenInv' /\ RetriesExcused
    BY <1>4, StartStep, AllLoadStep, AllStoreStep, ReverseStepKeeps, ReverseEndKeeps,
       WalkStepKeeps
<1> QED BY <1>1, <1>2, <1>3, <1>4 DEF Next

\* A call tries again only if another thread has stored to the head since it read
\* it (llist.c:50-52 and 77-84): with an atomic cmpxchg, some call always gets through.
THEOREM ListLockFree ==
    ASSUME Atomic = TRUE
    PROVE  Spec => LockFree
<1>1. SeenInv /\ [Next]_vars => SeenInv' /\ RetriesExcused
    BY NextSeen
<1>2. RetriesExcused <=> \A t \in Threads : Retries(t) => th[t].moved
    BY DEF RetriesExcused
<1> QED BY InitSeen, <1>1, <1>2, PTL DEF Spec, LockFree

-----------------------------------------------------------------------------
(* Chains.                                                                 *)

\* Follows and ChainFrom for any contents of the next pointers.
FollowsIn(mem, s, e) ==
    /\ e = IF s = <<>> THEN NULL ELSE s[1]
    /\ \A k \in DOMAIN s : mem[s[k]] = IF k < Len(s) THEN s[k + 1] ELSE NULL
ChainIn(mem, e) ==
    IF \E s \in Lists : FollowsIn(mem, s, e) THEN CHOOSE s \in Lists : FollowsIn(mem, s, e)
    ELSE <<>>

LEMMA ChainInNext == \A e : ChainFrom(e) = ChainIn(next, e)
BY Zenon DEF ChainFrom, ChainIn, Follows, FollowsIn

LEMMA ChainInNextP == ChainFrom(first)' = ChainIn(next', first')
BY Zenon DEF ChainFrom, ChainIn, Follows, FollowsIn

\* A set of numbers that is not empty has a least one.
LEMMA LeastNumber ==
    ASSUME NEW T \in SUBSET Nat, T # {}
    PROVE  \E x \in T : \A y \in T : x <= y
<1>1. \E x \in T : \A y \in T : <<y, x>> \notin OpToRel(<, Nat)
    BY NatLessThanWellFounded, WFMin
<1>2. PICK x \in T : \A y \in T : <<y, x>> \notin OpToRel(<, Nat)
    BY <1>1
<1>3. \A y \in T : ~(y < x)
    BY <1>2 DEF OpToRel
<1>4. x \in Nat /\ \A y \in T : y \in Nat /\ x <= y
    BY <1>3
<1> QED BY <1>4

\* A list that ends has no entry twice.
LEMMA ChainDistinct ==
    ASSUME NEW mem, NEW e, NEW s \in Seq(Entries), FollowsIn(mem, s, e)
    PROVE  \A j, k \in 1 .. Len(s) : s[j] = s[k] => j = k
<1>1. /\ Len(s) \in Nat /\ DOMAIN s = 1 .. Len(s)
      /\ \A k \in 1 .. Len(s) : s[k] \in Entries /\ s[k] # NULL
    BY ElementOfSeq, LenProperties, ThreadAssumption
<1>a. \A k \in 1 .. Len(s) : mem[s[k]] = IF k < Len(s) THEN s[k + 1] ELSE NULL
    BY <1>1 DEF FollowsIn
<1> DEFINE T == {d \in Nat : \E j, k \in 1 .. Len(s) : j < k /\ s[j] = s[k] /\ d = Len(s) - k}
<1>2. T = {}
    <2> SUFFICES ASSUME T # {} PROVE FALSE
        OBVIOUS
    <2>1. PICK d \in T : \A y \in T : d <= y
        BY LeastNumber
    <2>2. PICK j \in 1 .. Len(s), k \in 1 .. Len(s) : j < k /\ s[j] = s[k] /\ d = Len(s) - k
        BY <2>1
    <2>3. mem[s[j]] = s[j + 1] /\ j + 1 \in 1 .. Len(s)
        BY <1>1, <1>a, <2>2
    <2>4. k < Len(s)
        BY <1>1, <1>a, <2>2, <2>3
    <2>5. mem[s[k]] = s[k + 1] /\ k + 1 \in 1 .. Len(s)
        BY <1>1, <1>a, <2>2, <2>4
    <2>6. s[j + 1] = s[k + 1]
        BY <2>2, <2>3, <2>5
    <2>7. Len(s) - (k + 1) \in T
        BY <1>1, <2>2, <2>3, <2>5, <2>6
    <2>8. d <= Len(s) - (k + 1)
        BY <2>1, <2>7
    <2> QED BY <1>1, <2>2, <2>8
<1>3. ASSUME NEW j \in 1 .. Len(s), NEW k \in 1 .. Len(s), s[j] = s[k], j < k PROVE FALSE
    <2>1. Len(s) - k \in T
        BY <1>1, <1>3
    <2> QED BY <1>2, <2>1
<1> QED BY <1>1, <1>3

\* Two lists of the same entry are the same.
LEMMA ChainUnique ==
    ASSUME NEW mem, NEW e, NEW s \in Seq(Entries), NEW u \in Seq(Entries),
           FollowsIn(mem, s, e), FollowsIn(mem, u, e)
    PROVE  s = u
<1>1. /\ Len(s) \in Nat /\ DOMAIN s = 1 .. Len(s) /\ Len(u) \in Nat /\ DOMAIN u = 1 .. Len(u)
      /\ \A k \in 1 .. Len(s) : s[k] \in Entries /\ s[k] # NULL
      /\ \A k \in 1 .. Len(u) : u[k] \in Entries /\ u[k] # NULL
    BY ElementOfSeq, LenProperties, ThreadAssumption
<1> DEFINE Same(k) == k \in DOMAIN s /\ k \in DOMAIN u /\ s[k] = u[k]
           T == {k \in Nat : k \in DOMAIN s \cup DOMAIN u /\ ~Same(k)}
<1>2. T = {}
    <2> SUFFICES ASSUME T # {} PROVE FALSE
        OBVIOUS
    <2>1. PICK k \in T : \A y \in T : k <= y
        BY LeastNumber
    <2>2. k # 1
        <3>1. ASSUME k = 1 PROVE FALSE
            <4>1. Len(s) >= 1 \/ Len(u) >= 1
                BY <1>1, <2>1, <3>1
            <4>2. e # NULL
                BY <1>1, <4>1, EmptySeq DEF FollowsIn
            <4>3. s # <<>> /\ u # <<>> /\ s[1] = u[1]
                BY <4>2 DEF FollowsIn
            <4>4. 1 \in DOMAIN s /\ 1 \in DOMAIN u
                BY <1>1, <4>3, EmptySeq
            <4> QED BY <2>1, <3>1, <4>3, <4>4
        <3> QED BY <3>1
    <2>3. k - 1 \in Nat /\ k - 1 \in DOMAIN s \cup DOMAIN u /\ ~(k <= k - 1)
        BY <1>1, <2>1, <2>2
    <2>4. Same(k - 1)
        BY <2>1, <2>3
    <2>5. mem[s[k - 1]] = mem[u[k - 1]]
        BY <2>4
    <2>6. CASE k \in DOMAIN s
        <3>1. mem[s[k - 1]] = s[k] /\ s[k] # NULL
            BY <1>1, <2>3, <2>4, <2>6 DEF FollowsIn
        <3>2. k - 1 < Len(u) /\ mem[u[k - 1]] = u[k]
            BY <1>1, <2>3, <2>4, <2>5, <3>1 DEF FollowsIn
        <3> QED BY <1>1, <2>1, <2>3, <2>5, <2>6, <3>1, <3>2
    <2>7. CASE k \in DOMAIN u
        <3>1. mem[u[k - 1]] = u[k] /\ u[k] # NULL
            BY <1>1, <2>3, <2>4, <2>7 DEF FollowsIn
        <3>2. k - 1 < Len(s) /\ mem[s[k - 1]] = s[k]
            BY <1>1, <2>3, <2>4, <2>5, <3>1 DEF FollowsIn
        <3> QED BY <1>1, <2>1, <2>3, <2>5, <2>7, <3>1, <3>2
    <2> QED BY <2>1, <2>6, <2>7
<1> HIDE DEF T
<1>a. \A k \in Nat : k \in DOMAIN s \cup DOMAIN u => Same(k)
    BY <1>2 DEF T
<1>3. Len(s) = Len(u)
    <2>1. CASE Len(s) < Len(u)
        <3>1. Len(u) \in DOMAIN u /\ Len(u) \notin DOMAIN s
            BY <1>1, <2>1
        <3> QED BY <1>1, <1>a, <3>1
    <2>2. CASE Len(u) < Len(s)
        <3>1. Len(s) \in DOMAIN s /\ Len(s) \notin DOMAIN u
            BY <1>1, <2>2
        <3> QED BY <1>1, <1>a, <3>1
    <2>3. Len(s) \in Nat /\ Len(u) \in Nat
        BY <1>1
    <2> QED BY <2>1, <2>2, <2>3
<1>4. \A k \in 1 .. Len(s) : s[k] = u[k]
    BY <1>1, <1>a
<1> QED BY <1>3, <1>4, SeqEqual

\* The list of an entry, if there is one, is its chain.
LEMMA ChainIs ==
    ASSUME NEW mem, NEW e, NEW s \in Seq(Entries), FollowsIn(mem, s, e)
    PROVE  ChainIn(mem, e) = s
<1>1. Len(s) \in Nat /\ s \in [1 .. Len(s) -> Entries]
    BY LenProperties
<1>2. Len(s) <= Cardinality(Entries)
    <2>1. s \in Injection(1 .. Len(s), Entries)
        BY <1>1, ChainDistinct DEF Injection, IsInjective
    <2>2. Cardinality(1 .. Len(s)) <= Cardinality(Entries)
        BY <2>1, FS_Injection, FiniteAssumption
    <2>3. Cardinality(1 .. Len(s)) = Len(s)
        BY <1>1, FS_Interval
    <2> QED BY <2>2, <2>3
<1>3. Cardinality(Entries) \in Nat
    BY FS_CardinalityType, FiniteAssumption
<1>4. s \in Lists
    BY <1>1, <1>2, <1>3 DEF Lists
<1>5. \A u \in Lists : u \in Seq(Entries)
    BY <1>3, SeqDef DEF Lists
<1>6. \A u \in Lists : FollowsIn(mem, u, e) => u = s
    BY <1>5, ChainUnique
<1> QED BY <1>4, <1>6 DEF ChainIn

\* Every chain is a sequence of entries.
LEMMA ChainType == \A e : ChainFrom(e) \in Seq(Entries)
<1>1. Cardinality(Entries) \in Nat
    BY FS_CardinalityType, FiniteAssumption
<1>2. \A u \in Lists : u \in Seq(Entries)
    BY <1>1, SeqDef DEF Lists
<1>3. <<>> \in Seq(Entries)
    BY EmptySeq
<1> QED BY <1>2, <1>3 DEF ChainFrom

-----------------------------------------------------------------------------
(* The inductive invariant.  An adder's batch and the entries a thread was  *)
(* given are its own; an entry a deleter looks at is in the list, and stays *)
(* there, because the discipline keeps every other consumer out: so its     *)
(* next pointer cannot change under the deleter.                            *)

Adding == {"add_load", "add_link", "add_cmp", "add_xchg"}
Deleting == {"del_load", "del_next", "del_cmp", "del_xchg"}
Draining == {"all_load", "all_store"}

\* What a thread t with locals l has: an adder its own batch, linked up ...
Adds(l, t, nx, hd) ==
    l.pc \in Adding =>
      /\ l.new \in Entries /\ hd[l.new] = t
      /\ l.last \in Entries /\ hd[l.last] = t
      /\ l.new # l.last => nx[l.new] = l.last
      /\ l.pc \in {"add_cmp", "add_xchg"} => nx[l.last] = l.old
\* ... a deleter an entry that stays in the list, and the next one ...
Dels(l, nx, hd) ==
    /\ l.pc \in {"del_next", "del_cmp", "del_xchg"} => l.old \in Entries /\ hd[l.old] = NULL
    /\ l.pc \in {"del_cmp", "del_xchg"} => nx[l.old] = l.nxt
\* ... its turn, by the discipline m ...
Turn(l, t, m, lk) ==
    /\ l.pc \in Deleting => m = "locked" \/ (m = "one_consumer" /\ t = Consumer)
    /\ l.pc \in Draining => m \in {"locked", "drainers"} /\ l.new = NULL /\ l.out = <<>>
    /\ l.pc \in Deleting \cup Draining /\ m = "locked" => lk = t
\* ... and the entries g it was given, the first k of them reversed, or the way d
\* through them walked up to some place.
Halves(l, g, k, nx) ==
    /\ l.new = IF k = 0 THEN NULL ELSE g[k]
    /\ l.old = IF k = Len(g) THEN NULL ELSE g[k + 1]
    /\ \A j \in 1 .. k : nx[g[j]] = IF j = 1 THEN NULL ELSE g[j - 1]
    /\ \A j \in k + 1 .. Len(g) : nx[g[j]] = IF j < Len(g) THEN g[j + 1] ELSE NULL
Way(rev, g) == IF rev THEN [k \in 1 .. Len(g) |-> g[Len(g) + 1 - k]] ELSE g
Rest(l, d, n, nx) ==
    /\ Len(l.out) <= n
    /\ \A j \in 1 .. Len(l.out) : l.out[j] = d[j]
    /\ l.old = IF Len(l.out) = n THEN NULL ELSE d[Len(l.out) + 1]
    /\ \A j \in Len(l.out) + 1 .. n : nx[d[j]] = IF j < n THEN d[j + 1] ELSE NULL
Private(g, t, hd) ==
    /\ g \in Seq(Entries)
    /\ \A k \in 1 .. Len(g) : hd[g[k]] = t
    /\ \A j, k \in 1 .. Len(g) : g[j] = g[k] => j = k
Gets(l, t, g, nx, hd) ==
    /\ l.pc \in {"reverse", "walk"} => Private(g, t, hd)
    /\ l.pc = "reverse" => l.rev /\ l.out = <<>> /\ \E k \in 0 .. Len(g) : Halves(l, g, k, nx)
    /\ l.pc = "walk" => Rest(l, Way(l.rev, g), Len(g), nx)

Own(l, t, g, nx, hd, m, lk) ==
    /\ Adds(l, t, nx, hd) /\ Dels(l, nx, hd) /\ Turn(l, t, m, lk)
    /\ Gets(l, t, g, nx, hd)
OwnInv == \A t \in Threads : Own(th[t], t, ret[t].got, next, holder, mode, lock)

HistoryTyped ==
    /\ lock \in Threads \cup {NULL} /\ mode \in Modes
    /\ holder \in [Entries -> Threads \cup {NULL}]
    /\ ret \in [Threads -> [empty : BOOLEAN, got : Seq(Entries)]]

IInv == SeenInv /\ HistoryTyped /\ OwnInv /\ NothingLost

-----------------------------------------------------------------------------
(* Steps.                                                                  *)

\* Locals that differ in moved only.
Same(k, l) == /\ l.pc = k.pc /\ l.new = k.new /\ l.last = k.last /\ l.old = k.old
              /\ l.nxt = k.nxt /\ l.prev = k.prev /\ l.rev = k.rev /\ l.out = k.out

\* A thread at a place where it may take entries out is the only one that
\* may do so while another is in llist_del_first.
LEMMA Alone ==
    ASSUME IInv, NEW t \in Threads, NEW u \in Threads \ {t},
           th[u].pc \in Deleting \/ (mode = "locked" /\ th[u].pc \in Draining)
    PROVE  th[t].pc \notin Deleting \cup Draining
BY ThreadAssumption DEF IInv, OwnInv, Own, Turn

\* What the others have is theirs, whatever thread t does.
LEMMA OthersKept ==
    ASSUME IInv, NEW t \in Threads,
           \A u \in Threads \ {t} : Same(th[u], th'[u]) /\ ret'[u] = ret[u],
           mode' = mode,
           \A e \in Entries : holder[e] # t => next'[e] = next[e],
           \A e \in Entries : holder[e] \in Threads \ {t} => holder'[e] = holder[e],
           \/ \A e \in Entries : holder[e] = NULL => holder'[e] = NULL
           \/ th[t].pc \in Deleting \cup Draining,
           \/ lock' = lock \/ (mode = "locked" /\ lock = NULL)
           \/ th[t].pc \in Deleting \cup Draining
    PROVE  \A u \in Threads \ {t} : Own(th'[u], u, ret'[u].got, next', holder', mode', lock')
<1> SUFFICES ASSUME NEW u \in Threads \ {t}
             PROVE  Own(th'[u], u, ret'[u].got, next', holder', mode', lock')
    OBVIOUS
<1>1. Own(th[u], u, ret[u].got, next, holder, mode, lock) /\ Same(th[u], th'[u])
    BY DEF IInv, OwnInv
<1>2. \A e \in Entries : holder[e] = u => holder'[e] = u /\ next'[e] = next[e]
    OBVIOUS
<1>3. Adds(th'[u], u, next', holder')
    BY <1>1, <1>2 DEF Own, Adds, Same
<1>4. Dels(th'[u], next', holder')
    <2>1. CASE th[u].pc \in Deleting
        <3>1. \A e \in Entries : holder[e] = NULL => holder'[e] = NULL /\ next'[e] = next[e]
            BY <2>1, Alone, ThreadAssumption
        <3> QED BY <1>1, <3>1 DEF Own, Dels, Same
    <2>2. CASE th[u].pc \notin Deleting
        BY <1>1, <2>2 DEF Dels, Same, Deleting
    <2> QED BY <2>1, <2>2
<1>5. Turn(th'[u], u, mode', lock')
    <2>1. CASE th[u].pc \in Deleting \cup Draining /\ mode = "locked"
        <3>1. lock = u /\ th[t].pc \notin Deleting \cup Draining
            BY <1>1, <2>1, Alone DEF Own, Turn
        <3>2. lock' = lock
            BY <3>1, ThreadAssumption
        <3> QED BY <1>1, <3>2 DEF Own, Turn, Same
    <2>2. CASE th[u].pc \notin Deleting \cup Draining \/ mode # "locked"
        BY <1>1, <2>2 DEF Own, Turn, Same
    <2> QED BY <2>1, <2>2
<1>6. Gets(th'[u], u, ret'[u].got, next', holder')
    <2> DEFINE g == ret[u].got
    <2>1. ret'[u].got = g
        OBVIOUS
    <2> HIDE DEF g
    <2>2. Gets(th[u], u, g, next, holder)
        BY <1>1 DEF Own, g
    <2>3. CASE th[u].pc = "reverse"
        <3>1. Private(g, u, holder)
            BY <2>2, <2>3 DEF Gets
        <3>2. Len(g) \in Nat /\ \A k \in 1 .. Len(g) : g[k] \in Entries /\ holder[g[k]] = u
            BY <3>1, LenProperties, ElementOfSeq DEF Private
        <3>3. Private(g, u, holder')
            BY <1>2, <3>1, <3>2 DEF Private
        <3>4. PICK k \in 0 .. Len(g) : Halves(th[u], g, k, next)
            BY <2>2, <2>3 DEF Gets
        <3>5. /\ \A j \in 1 .. k : next'[g[j]] = next[g[j]]
              /\ \A j \in k + 1 .. Len(g) : next'[g[j]] = next[g[j]]
            BY <1>2, <3>2
        <3>6. Halves(th'[u], g, k, next')
            BY <1>1, <3>4, <3>5 DEF Halves, Same
        <3> QED BY <1>1, <2>1, <2>2, <2>3, <3>3, <3>6 DEF Gets, Same
    <2>4. CASE th[u].pc = "walk"
        <3> DEFINE d == Way(th[u].rev, g)
        <3>1. Private(g, u, holder) /\ Rest(th[u], d, Len(g), next)
            BY <2>2, <2>4 DEF Gets
        <3>2. Len(g) \in Nat /\ \A k \in 1 .. Len(g) : g[k] \in Entries /\ holder[g[k]] = u
            BY <3>1, LenProperties, ElementOfSeq DEF Private
        <3>3. Private(g, u, holder')
            BY <1>2, <3>1, <3>2 DEF Private
        <3>4. \A j \in 1 .. Len(g) : next'[d[j]] = next[d[j]]
            BY <1>2, <3>2 DEF Way
        <3> HIDE DEF d
        <3>5. Len(th[u].out) \in Nat
            BY LenProperties DEF IInv, SeenInv, Typed, LocalType
        <3>6. Rest(th'[u], d, Len(g), next')
            BY <1>1, <3>1, <3>2, <3>4, <3>5 DEF Rest, Same
        <3> QED BY <1>1, <2>1, <2>4, <3>3, <3>6 DEF Gets, Same, d
    <2>5. CASE th[u].pc \notin {"reverse", "walk"}
        BY <1>1, <2>5 DEF Gets, Same
    <2> QED BY <2>3, <2>4, <2>5
<1> QED BY <1>3, <1>4, <1>5, <1>6 DEF Own

\* A thread whose step only moves its own locals.
LEMMA Moved ==
    ASSUME IInv, NEW t \in Threads, NEW l, Goto(t, l)
    PROVE  th'[t] = l /\ \A u \in Threads \ {t} : Same(th[u], th'[u])
BY DEF IInv, SeenInv, Typed, Goto, Same

\* The list as it is, and as a step leaves it.
LEMMA Listed ==
    ASSUME IInv
    PROVE  /\ ChainFrom(first) \in Seq(Entries) /\ FollowsIn(next, ChainFrom(first), first)
           /\ Members(ChainFrom(first)) = {e \in Entries : holder[e] = NULL}
BY ChainType DEF IInv, NothingLost, Follows, FollowsIn

LEMMA ListedAfter ==
    ASSUME NEW s \in Seq(Entries), FollowsIn(next', s, first'),
           Members(s) = {e \in Entries : holder'[e] = NULL}
    PROVE  ChainFrom(first)' = s /\ NothingLost'
<1>1. ChainFrom(first)' = s
    BY ChainInNextP, ChainIs
<1> QED BY <1>1 DEF NothingLost, FollowsIn, Follows

\* The list has the entries that nobody holds, so a step that leaves the head and
\* what is linked in the list alone leaves the list alone.
LEMMA ListKept ==
    ASSUME IInv, first' = first, \A e \in Entries : holder[e] = NULL => next'[e] = next[e]
    PROVE  FollowsIn(next', ChainFrom(first), first')
<1>1. \A k \in DOMAIN ChainFrom(first) :
          ChainFrom(first)[k] \in Entries /\ holder[ChainFrom(first)[k]] = NULL
    BY Listed DEF Members
<1> QED BY <1>1, Listed DEF FollowsIn

LEMMA HeadListed ==
    ASSUME IInv, first # NULL
    PROVE  first \in Entries /\ holder[first] = NULL
<1>1. ChainFrom(first) # <<>> /\ first = ChainFrom(first)[1]
    BY Listed DEF FollowsIn
<1>2. 1 \in DOMAIN ChainFrom(first)
    BY <1>1, Listed, EmptySeq, LenProperties
<1> QED BY <1>1, <1>2, Listed DEF Members

\* A step of the abstract stack, or none.
StackStep == Stack!Next \/ UNCHANGED <<ChainFrom(first), holder, ret>>
Kept == HistoryTyped' /\ OwnInv' /\ NothingLost' /\ StackStep

\* A step that leaves the list and the history alone.
LEMMA QuietStep ==
    ASSUME IInv, NEW t \in Threads, NEW l, Goto(t, l), first' = first,
           UNCHANGED <<mode, holder, ret>>, lock' \in Threads \cup {NULL},
           \A e \in Entries : holder[e] # t => next'[e] = next[e],
           \/ lock' = lock \/ (mode = "locked" /\ lock = NULL)
           \/ th[t].pc \in Deleting \cup Draining,
           Own(l, t, ret[t].got, next', holder, mode, lock')
    PROVE  Kept
<1>1. th'[t] = l /\ \A u \in Threads \ {t} : Same(th[u], th'[u]) /\ ret'[u] = ret[u]
    BY Moved
<1>2. OwnInv'
    <2>1. \A u \in Threads \ {t} : Own(th'[u], u, ret'[u].got, next', holder', mode', lock')
        BY <1>1, OthersKept
    <2>2. Own(th'[t], t, ret'[t].got, next', holder', mode', lock')
        BY <1>1
    <2> QED BY <2>1, <2>2 DEF OwnInv
<1>3. HistoryTyped'
    BY DEF IInv, HistoryTyped
<1>4. ChainFrom(first)' = ChainFrom(first) /\ NothingLost'
    <2>1. FollowsIn(next', ChainFrom(first), first')
        BY ListKept, ThreadAssumption
    <2> QED BY <2>1, Listed, ListedAfter
<1> QED BY <1>2, <1>3, <1>4 DEF Kept, StackStep

-----------------------------------------------------------------------------
(* llist_add_batch.                                                        *)

\* What every step finds of the thread that takes it.
LEMMA Has ==
    ASSUME IInv, NEW t \in Threads
    PROVE  /\ th[t] \in LocalType /\ Own(th[t], t, ret[t].got, next, holder, mode, lock)
           /\ lock \in Threads \cup {NULL} /\ ret[t].got \in Seq(Entries)
           /\ next \in [Entries -> Pointers] /\ holder \in [Entries -> Threads \cup {NULL}]
BY DEF IInv, OwnInv, SeenInv, Typed, HistoryTyped

LEMMA AddKept ==
    ASSUME IInv, NEW t \in Threads, NEW s \in Batches(t), Add(t, s)
    PROVE  Kept
<1> DEFINE l == [Local EXCEPT !.pc = "add_load", !.new = s[1], !.last = s[Len(s)]]
<1>1. /\ s[1] \in Mine(t) /\ s[Len(s)] \in Mine(t)
      /\ s[1] # s[Len(s)] => Len(s) = 2
    <2>1. CASE \E e \in Mine(t) : s = <<e>>
        BY <2>1 DEF Mine
    <2>2. CASE s \in [{1, 2} -> Mine(t)]
        <3>1. s = <<s[1], s[2]>>
            BY <2>2
        <3> QED BY <2>2, <3>1
    <2> QED BY <2>1, <2>2 DEF Batches
<1>2. l.pc = "add_load" /\ l.new = s[1] /\ l.last = s[Len(s)]
    BY DEF Local
<1>3. Goto(t, l) /\ first' = first /\ lock' = lock /\ UNCHANGED <<mode, holder, ret>>
    BY DEF Add
<1> HIDE DEF l
<1>4. /\ \A e \in Entries : holder[e] # t => next'[e] = next[e]
      /\ s[1] # s[Len(s)] => next'[s[1]] = s[Len(s)]
    BY <1>1 DEF Add, Mine
<1>5. Own(l, t, ret[t].got, next', holder, mode, lock')
    BY <1>1, <1>2, <1>4 DEF Own, Adds, Dels, Turn, Gets, Deleting, Draining, Mine
<1> QED BY <1>3, <1>4, <1>5, Has, QuietStep

LEMMA AddLoadKept ==
    ASSUME IInv, NEW t \in Threads, AddLoad(t)
    PROVE  Kept
<1> DEFINE l == [th[t] EXCEPT !.pc = "add_link", !.old = first, !.moved = FALSE]
<1>1. l.pc = "add_link" /\ l.new = th[t].new /\ l.last = th[t].last /\ th[t].pc = "add_load"
    BY Has DEF LocalType, AddLoad, At
<1>2. /\ Goto(t, l) /\ first' = first /\ lock' = lock /\ next' = next
      /\ UNCHANGED <<mode, holder, ret>>
    BY DEF AddLoad
<1> HIDE DEF l
<1>3. Own(l, t, ret[t].got, next', holder, mode, lock')
    BY <1>1, <1>2, Has DEF Own, Adds, Dels, Turn, Gets, Deleting, Draining, Adding
<1> QED BY <1>2, <1>3, Has, QuietStep

LEMMA AddLinkKept ==
    ASSUME IInv, NEW t \in Threads, AddLink(t)
    PROVE  Kept
<1> DEFINE l == [th[t] EXCEPT !.pc = "add_cmp"]
<1>1. /\ l.pc = "add_cmp" /\ l.new = th[t].new /\ l.last = th[t].last /\ l.old = th[t].old
      /\ th[t].pc = "add_link"
    BY Has DEF LocalType, AddLink, At
<1>2. /\ Goto(t, l) /\ first' = first /\ lock' = lock /\ UNCHANGED <<mode, holder, ret>>
      /\ next' = [next EXCEPT ![th[t].last] = th[t].old]
    BY DEF AddLink
<1> HIDE DEF l
<1>3. Adds(th[t], t, next, holder) /\ th[t].last \in Entries /\ holder[th[t].last] = t
    BY <1>1, Has DEF Own, Adds, Adding
<1>4. /\ \A e \in Entries : holder[e] # t => next'[e] = next[e]
      /\ next'[th[t].last] = th[t].old
      /\ th[t].new # th[t].last => next'[th[t].new] = next[th[t].new]
    BY <1>1, <1>2, <1>3, Has DEF Adds, Adding
<1>5. Own(l, t, ret[t].got, next', holder, mode, lock')
    BY <1>1, <1>3, <1>4 DEF Own, Adds, Dels, Turn, Gets, Deleting, Draining, Adding
<1> QED BY <1>2, <1>4, <1>5, Has, QuietStep

\* The load of an atomic instruction.
LEMMA LoadKept ==
    ASSUME IInv, NEW t \in Threads, AddCompare(t) \/ DelCompare(t) \/ AllLoad(t)
    PROVE  Kept
<1>1. PICK pc \in InAtomic :
          /\ LoadLocked(t, pc)
          /\ \/ th[t].pc = "add_cmp" /\ pc = "add_xchg"
             \/ th[t].pc = "del_cmp" /\ pc = "del_xchg"
             \/ th[t].pc = "all_load" /\ pc = "all_store"
    BY DEF AddCompare, DelCompare, AllLoad, At, InAtomic
<1> DEFINE l == [th[t] EXCEPT !.pc = pc, !.prev = first]
<1>2. /\ l.pc = pc /\ l.new = th[t].new /\ l.last = th[t].last /\ l.old = th[t].old
      /\ l.nxt = th[t].nxt /\ l.out = th[t].out
    BY Has DEF LocalType
<1>3. /\ Goto(t, l) /\ first' = first /\ lock' = lock /\ next' = next
      /\ UNCHANGED <<mode, holder, ret>>
    BY <1>1 DEF LoadLocked
<1> HIDE DEF l
<1>4. Own(l, t, ret[t].got, next', holder, mode, lock')
    BY <1>1, <1>2, <1>3, Has DEF Own, Adds, Dels, Turn, Gets, Deleting, Draining, Adding
<1> QED BY <1>3, <1>4, Has, QuietStep

-----------------------------------------------------------------------------
(* llist_del_first.                                                        *)

LEMMA StartKept ==
    ASSUME IInv, NEW t \in Threads,
           DelFirst(t) \/ (\E rev \in BOOLEAN : DelAll(t, rev)) \/ WalkEnd(t)
    PROVE  Kept
<1>1. PICK l : /\ Goto(t, l)
               /\ \/ l.pc = "del_load" /\ MayDelFirst(t) /\ Enter(t)
                  \/ l.pc = "all_load" /\ MayDelAll(t) /\ Enter(t) /\ l.new = NULL /\ l.out = <<>>
                  \/ l.pc = "idle" /\ lock' = lock
    <2>1. CASE DelFirst(t)
        <3>1. [Local EXCEPT !.pc = "del_load"].pc = "del_load"
            BY DEF Local
        <3> QED BY <2>1, <3>1 DEF DelFirst
    <2>2. ASSUME NEW rev \in BOOLEAN, DelAll(t, rev)
          PROVE  \E l : Goto(t, l) /\ l.pc = "all_load" /\ MayDelAll(t) /\ Enter(t)
                        /\ l.new = NULL /\ l.out = <<>>
        <3> DEFINE l == [Local EXCEPT !.pc = "all_load", !.rev = rev]
        <3>1. l.pc = "all_load" /\ l.new = NULL /\ l.out = <<>>
            BY DEF Local
        <3>2. Goto(t, l) /\ MayDelAll(t) /\ Enter(t)
            BY <2>2 DEF DelAll
        <3> QED BY <3>1, <3>2
    <2>3. CASE WalkEnd(t)
        BY <2>3, IdleType DEF WalkEnd
    <2> QED BY <2>1, <2>2, <2>3
<1>2. first' = first /\ next' = next /\ UNCHANGED <<mode, holder, ret>>
    BY DEF DelFirst, DelAll, WalkEnd
<1>3. lock' \in Threads \cup {NULL} /\ (lock' = lock \/ (mode = "locked" /\ lock = NULL))
    BY <1>1, Has DEF Enter
<1>4. Own(l, t, ret[t].got, next', holder, mode, lock')
    BY <1>1 DEF Own, Adds, Dels, Turn, Gets, Deleting, Draining, Adding, MayDelFirst,
                MayDelAll, Enter
<1> QED BY <1>1, <1>2, <1>3, <1>4, QuietStep

\* A deleter that goes to look at the entry the head has shown it.
LEMMA SightKept ==
    ASSUME IInv, NEW t \in Threads, NEW l, Goto(t, l), l.pc = "del_next", l.old = first,
           first # NULL, th[t].pc \in Deleting, first' = first, next' = next,
           UNCHANGED <<lock, mode, holder, ret>>
    PROVE  Kept
<1>1. Own(l, t, ret[t].got, next', holder, mode, lock')
    BY Has, HeadListed DEF Own, Adds, Dels, Turn, Gets, Deleting, Draining, Adding
<1> QED BY <1>1, Has, QuietStep

LEMMA DelNextKept ==
    ASSUME IInv, NEW t \in Threads, DelNext(t)
    PROVE  Kept
<1> DEFINE l == [th[t] EXCEPT !.pc = "del_cmp", !.nxt = next[th[t].old]]
<1>1. /\ l.pc = "del_cmp" /\ l.old = th[t].old /\ l.nxt = next[th[t].old]
      /\ th[t].pc = "del_next"
    BY Has DEF LocalType, DelNext, At
<1>2. /\ Goto(t, l) /\ first' = first /\ lock' = lock /\ next' = next
      /\ UNCHANGED <<mode, holder, ret>>
    BY DEF DelNext
<1> HIDE DEF l
<1>3. Own(l, t, ret[t].got, next', holder, mode, lock')
    BY <1>1, <1>2, Has DEF Own, Adds, Dels, Turn, Gets, Deleting, Draining, Adding
<1> QED BY <1>2, <1>3, Has, QuietStep

-----------------------------------------------------------------------------
(* llist_reverse_order and the walk, on entries of the thread's own.       *)

LEMMA PrivateType ==
    ASSUME NEW g, NEW t, Private(g, t, holder)
    PROVE  /\ Len(g) \in Nat /\ DOMAIN g = 1 .. Len(g)
           /\ \A k \in 1 .. Len(g) : g[k] \in Entries /\ holder[g[k]] = t
           /\ \A j, k \in 1 .. Len(g) : g[j] = g[k] => j = k
BY LenProperties, ElementOfSeq DEF Private

\* One more entry is reversed.
LEMMA ReversingKept ==
    ASSUME IInv, NEW t \in Threads, ReverseStep(t)
    PROVE  Kept
<1> DEFINE l == [th[t] EXCEPT !.old = next[th[t].old], !.new = th[t].old]
           g == ret[t].got
<1>1. /\ l.pc = "reverse" /\ l.old = next[th[t].old] /\ l.new = th[t].old
      /\ l.rev = th[t].rev /\ l.out = th[t].out /\ th[t].pc = "reverse" /\ th[t].old # NULL
    BY Has DEF LocalType, ReverseStep, At
<1>2. /\ Goto(t, l) /\ first' = first /\ lock' = lock /\ UNCHANGED <<mode, holder, ret>>
      /\ next' = [next EXCEPT ![th[t].old] = th[t].new]
    BY DEF ReverseStep
<1>3. Gets(th[t], t, g, next, holder)
    BY Has DEF Own
<1> HIDE DEF l, g
<1>4. Private(g, t, holder) /\ th[t].rev /\ th[t].out = <<>>
    BY <1>1, <1>3 DEF Gets
<1>5. PICK k \in 0 .. Len(g) : Halves(th[t], g, k, next)
    BY <1>1, <1>3 DEF Gets
<1>6. k + 1 \in 1 .. Len(g) /\ th[t].old = g[k + 1] /\ k \in Nat /\ Len(g) \in Nat
    BY <1>1, <1>4, <1>5, PrivateType DEF Halves
<1>7. g[k + 1] \in Entries /\ holder[g[k + 1]] = t /\ next[g[k + 1]] = l.old
    BY <1>1, <1>4, <1>6, PrivateType
<1>8. /\ \A e \in Entries : e # g[k + 1] => next'[e] = next[e]
      /\ next'[g[k + 1]] = th[t].new
    BY <1>2, <1>6, <1>7, Has
<1>9. Halves(l, g, k + 1, next')
    <2>1. l.new = g[k + 1] /\ k + 1 # 0
        BY <1>1, <1>6
    <2>2. l.old = IF k + 1 = Len(g) THEN NULL ELSE g[k + 2]
        BY <1>5, <1>6, <1>7 DEF Halves
    <2>3. \A j \in 1 .. Len(g) : j # k + 1 => next'[g[j]] = next[g[j]]
        BY <1>4, <1>6, <1>8, PrivateType
    <2>4. \A j \in 1 .. k + 1 : next'[g[j]] = IF j = 1 THEN NULL ELSE g[j - 1]
        <3>1. next'[g[k + 1]] = IF k + 1 = 1 THEN NULL ELSE g[k + 1 - 1]
            BY <1>5, <1>6, <1>8 DEF Halves
        <3>2. \A j \in 1 .. k : next'[g[j]] = IF j = 1 THEN NULL ELSE g[j - 1]
            BY <1>5, <1>6, <2>3 DEF Halves
        <3> QED BY <1>6, <3>1, <3>2
    <2>5. \A j \in k + 2 .. Len(g) : next'[g[j]] = IF j < Len(g) THEN g[j + 1] ELSE NULL
        BY <1>5, <1>6, <2>3 DEF Halves
    <2> QED BY <1>6, <2>1, <2>2, <2>4, <2>5 DEF Halves
<1>10. Gets(l, t, g, next', holder)
    BY <1>1, <1>4, <1>6, <1>9 DEF Gets
<1>11. Own(l, t, g, next', holder, mode, lock')
    BY <1>1, <1>10 DEF Own, Adds, Dels, Turn, Deleting, Draining, Adding
<1>12. \A e \in Entries : holder[e] # t => next'[e] = next[e]
    BY <1>7, <1>8
<1>13. Own(l, t, ret[t].got, next', holder, mode, lock') /\ lock' \in Threads \cup {NULL}
    BY <1>2, <1>11, Has DEF g
<1>14. Goto(t, l) /\ first' = first /\ lock' = lock /\ UNCHANGED <<mode, holder, ret>>
    BY <1>2
<1> QED BY <1>12, <1>13, <1>14, QuietStep

\* All of them are: the newest of the list is the last of the reversed chain.
LEMMA ReversedKept ==
    ASSUME IInv, NEW t \in Threads, ReverseEnd(t)
    PROVE  Kept
<1> DEFINE l == [th[t] EXCEPT !.pc = "walk", !.old = th[t].new]
           g == ret[t].got
           d == Way(l.rev, g)
<1>1. /\ l.pc = "walk" /\ l.old = th[t].new /\ l.rev = th[t].rev /\ l.out = th[t].out
      /\ th[t].pc = "reverse" /\ th[t].old = NULL
    BY Has DEF LocalType, ReverseEnd, At
<1>2. /\ Goto(t, l) /\ first' = first /\ lock' = lock /\ next' = next
      /\ UNCHANGED <<mode, holder, ret>>
    BY DEF ReverseEnd
<1>3. Gets(th[t], t, g, next, holder)
    BY Has DEF Own
<1> HIDE DEF l, g, d
<1>4. Private(g, t, holder) /\ th[t].rev /\ th[t].out = <<>>
    BY <1>1, <1>3 DEF Gets
<1>5. PICK k \in 0 .. Len(g) : Halves(th[t], g, k, next)
    BY <1>1, <1>3 DEF Gets
<1>6. Len(g) \in Nat /\ k = Len(g)
    <2>1. k + 1 \in 1 .. Len(g) => g[k + 1] # NULL
        BY <1>4, PrivateType, ThreadAssumption
    <2> QED BY <1>1, <1>4, <1>5, <2>1, PrivateType DEF Halves
<1>7. \A j \in 1 .. Len(g) : d[j] = g[Len(g) + 1 - j]
    BY <1>1, <1>4, <1>6 DEF Way, d
<1>8. Len(l.out) = 0 /\ (l.old = IF Len(g) = 0 THEN NULL ELSE d[1])
    BY <1>1, <1>4, <1>5, <1>6, <1>7, EmptySeq DEF Halves
<1>9. \A j \in 1 .. Len(g) : next[d[j]] = IF j < Len(g) THEN d[j + 1] ELSE NULL
    <2> SUFFICES ASSUME NEW j \in 1 .. Len(g)
                 PROVE  next[d[j]] = IF j < Len(g) THEN d[j + 1] ELSE NULL
        OBVIOUS
    <2>1. Len(g) + 1 - j \in 1 .. k
        BY <1>6
    <2>2. next[g[Len(g) + 1 - j]] = IF Len(g) + 1 - j = 1 THEN NULL ELSE g[Len(g) - j]
        BY <1>5, <1>6, <2>1 DEF Halves
    <2>3. j < Len(g) => d[j + 1] = g[Len(g) - j]
        BY <1>6, <1>7
    <2> QED BY <1>6, <1>7, <2>2, <2>3
<1>10. Rest(l, d, Len(g), next)
    BY <1>6, <1>8, <1>9 DEF Rest
<1>11. Gets(l, t, g, next', holder)
    BY <1>1, <1>2, <1>4, <1>10 DEF Gets, d
<1>12. Own(l, t, g, next', holder, mode, lock')
    BY <1>1, <1>11 DEF Own, Adds, Dels, Turn, Deleting, Draining, Adding
<1> QED BY <1>2, <1>12, Has, QuietStep DEF g

LEMMA WalkingKept ==
    ASSUME IInv, NEW t \in Threads, WalkStep(t)
    PROVE  Kept
<1> DEFINE l == [th[t] EXCEPT !.out = Append(th[t].out, th[t].old), !.old = next[th[t].old]]
           g == ret[t].got
           d == Way(th[t].rev, g)
           n == Len(th[t].out)
<1>1. /\ l.pc = "walk" /\ l.old = next[th[t].old] /\ l.rev = th[t].rev
      /\ l.out = Append(th[t].out, th[t].old)
      /\ th[t].pc = "walk" /\ th[t].old # NULL /\ th[t].old \in Entries
    BY Has DEF LocalType, WalkStep, At, Pointers
<1>2. /\ Goto(t, l) /\ first' = first /\ lock' = lock /\ next' = next
      /\ UNCHANGED <<mode, holder, ret>>
    BY DEF WalkStep
<1>3. Gets(th[t], t, g, next, holder) /\ th[t].out \in Seq(Entries)
    BY Has DEF Own, LocalType
<1> HIDE DEF l, g, d
<1>4. Private(g, t, holder) /\ Rest(th[t], d, Len(g), next)
    BY <1>1, <1>3 DEF Gets, d
<1>5. Len(g) \in Nat /\ n \in Nat /\ n + 1 <= Len(g) /\ th[t].old = d[n + 1]
    BY <1>1, <1>3, <1>4, PrivateType, LenProperties DEF Rest
<1>6. /\ Len(l.out) = n + 1 /\ l.out[n + 1] = d[n + 1]
      /\ \A j \in 1 .. n : l.out[j] = d[j]
    BY <1>1, <1>3, <1>4, <1>5, AppendProperties DEF Rest
<1>7. l.old = IF n + 1 = Len(g) THEN NULL ELSE d[n + 2]
    BY <1>1, <1>4, <1>5 DEF Rest
<1>8. Rest(l, d, Len(g), next)
    BY <1>4, <1>5, <1>6, <1>7 DEF Rest
<1>9. Gets(l, t, g, next', holder)
    BY <1>1, <1>2, <1>4, <1>8 DEF Gets, d
<1>10. Own(l, t, g, next', holder, mode, lock')
    BY <1>1, <1>9 DEF Own, Adds, Dels, Turn, Deleting, Draining, Adding
<1> QED BY <1>2, <1>10, Has, QuietStep DEF g

-----------------------------------------------------------------------------
(* The steps at which a call takes its effect.                             *)

\* A step that stores to the head moves the others' locals in moved only.
LEMMA Stored ==
    ASSUME IInv, NEW t \in Threads, NEW l, NEW e, StoreFirst(t, e, l)
    PROVE  first' = e /\ th'[t] = l /\ \A u \in Threads \ {t} : Same(th[u], th'[u])
<1>1. \A u \in Threads \ {t} : th'[u] = [th[u] EXCEPT !.moved = TRUE] /\ th[u] \in LocalType
    BY DEF StoreFirst, IInv, SeenInv, Typed
<1> QED BY <1>1 DEF StoreFirst, Same, LocalType

\* Idle, a thread has nothing to show.
LEMMA IdleOwn ==
    ASSUME NEW l, NEW t, NEW g, NEW nx, NEW hd, NEW m, NEW lk, l.pc = "idle"
    PROVE  Own(l, t, g, nx, hd, m, lk)
BY DEF Own, Adds, Dels, Turn, Gets, Adding, Deleting, Draining

\* The list was seen empty: nothing is popped.
LEMMA NothingKept ==
    ASSUME IInv, NEW t \in Threads, first = NULL, th[t].pc \in Deleting, DelNothing(t),
           first' = first, next' = next, UNCHANGED <<mode, holder>>
    PROVE  Kept
<1>1. /\ Goto(t, Local) /\ lock' = NULL
      /\ ret' = [ret EXCEPT ![t] = [empty |-> TRUE, got |-> <<>>]]
    BY DEF DelNothing, Deliver, Leave
<1>2. th'[t] = Local /\ \A u \in Threads \ {t} : Same(th[u], th'[u]) /\ ret'[u] = ret[u]
    BY <1>1, Moved DEF IInv, HistoryTyped
<1>3. OwnInv'
    <2>1. \A u \in Threads \ {t} : Own(th'[u], u, ret'[u].got, next', holder', mode', lock')
        BY <1>1, <1>2, OthersKept
    <2> QED BY <1>2, <2>1, IdleType, IdleOwn DEF OwnInv
<1>4. HistoryTyped'
    BY <1>1, EmptySeq DEF IInv, HistoryTyped
<1>5. ChainFrom(first)' = ChainFrom(first) /\ NothingLost'
    BY Listed, ListedAfter
<1>6. ChainFrom(first) = <<>>
    <2>1. \A k \in DOMAIN ChainFrom(first) : ChainFrom(first)[k] # NULL
        BY Listed, ThreadAssumption DEF Members
    <2>2. ChainFrom(first) # <<>> => 1 \in DOMAIN ChainFrom(first)
        BY Listed, LenProperties, EmptySeq
    <2> QED BY <2>1, <2>2, Listed DEF FollowsIn
<1>7. Stack!Pop(t)
    BY <1>1, <1>5, <1>6 DEF Stack!Pop, Stack!Returned
<1> QED BY <1>3, <1>4, <1>5, <1>7 DEF Kept, StackStep, Stack!Next

LEMMA DelLoadKept ==
    ASSUME IInv, NEW t \in Threads, DelLoad(t)
    PROVE  Kept
<1>1. /\ first' = first /\ next' = next /\ UNCHANGED <<mode, holder>>
      /\ th[t].pc = "del_load" /\ th[t].pc \in Deleting
    BY DEF DelLoad, At, Deleting
<1>2. CASE first = NULL
    BY <1>1, <1>2, NothingKept DEF DelLoad
<1>3. CASE first # NULL
    <2> DEFINE l == [th[t] EXCEPT !.pc = "del_next", !.old = first, !.moved = FALSE]
    <2>1. l.pc = "del_next" /\ l.old = first
        BY Has DEF LocalType
    <2>2. Goto(t, l) /\ UNCHANGED <<lock, ret>>
        BY <1>3 DEF DelLoad
    <2> HIDE DEF l
    <2> QED BY <1>1, <1>3, <2>1, <2>2, SightKept
<1> QED BY <1>2, <1>3

\* llist_del_all took the whole list.
LEMMA AllStoreKept ==
    ASSUME IInv, NEW t \in Threads, AllStore(t)
    PROVE  Kept
<1> DEFINE L == ChainFrom(first)
           l == [th[t] EXCEPT !.pc = IF th[t].rev THEN "reverse" ELSE "walk",
                              !.old = th[t].prev]
<1>1. th[t].pc = "all_store" /\ th[t].prev = first
    BY Has, Before DEF AllStore, At, SeenBy, IInv
<1>2. /\ l.pc = IF th[t].rev THEN "reverse" ELSE "walk"
      /\ l.old = first /\ l.new = th[t].new /\ l.rev = th[t].rev /\ l.out = th[t].out
    BY <1>1, Has DEF LocalType
<1>3. /\ ret' = [ret EXCEPT ![t] = [empty |-> first = NULL, got |-> L]]
      /\ holder' = [e \in Entries |-> IF e \in Members(L) THEN t ELSE holder[e]]
      /\ StoreFirst(t, NULL, l) /\ lock' = NULL /\ UNCHANGED <<next, mode>>
    BY <1>1 DEF AllStore, Deliver, Given, Leave
<1>4. /\ L \in Seq(Entries) /\ FollowsIn(next, L, first)
      /\ Members(L) = {e \in Entries : holder[e] = NULL}
    BY Listed
<1>5. th[t].new = NULL /\ th[t].out = <<>> /\ th[t].pc \in Draining
    BY <1>1, Has DEF Own, Turn, Draining
<1> HIDE DEF l, L
<1>6. first' = NULL /\ th'[t] = l /\ \A u \in Threads \ {t} : Same(th[u], th'[u])
    BY <1>3, Stored
<1>7. \A u \in Threads \ {t} : ret'[u] = ret[u]
    BY <1>3 DEF IInv, HistoryTyped
<1>8. ret'[t].got = L
    BY <1>3 DEF IInv, HistoryTyped
<1>9. /\ Len(L) \in Nat /\ DOMAIN L = 1 .. Len(L) /\ (L = <<>> <=> Len(L) = 0)
      /\ \A k \in 1 .. Len(L) : L[k] \in Entries /\ holder'[L[k]] = t
      /\ \A j, k \in 1 .. Len(L) : L[j] = L[k] => j = k
    BY <1>3, <1>4, LenProperties, ElementOfSeq, EmptySeq, ChainDistinct DEF Members
<1>10. Private(L, t, holder')
    BY <1>4, <1>9 DEF Private
<1>11. Own(l, t, L, next', holder', mode', lock')
    <2>1. CASE th[t].rev
        <3>1. Halves(l, L, 0, next)
            BY <1>2, <1>4, <1>5, <1>9 DEF Halves, FollowsIn
        <3> QED BY <1>2, <1>3, <1>5, <1>9, <1>10, <2>1, <3>1
                DEF Own, Adds, Dels, Turn, Gets, Adding, Deleting, Draining
    <2>2. CASE ~th[t].rev
        <3>1. Way(l.rev, L) = L
            BY <1>2, <2>2 DEF Way
        <3>2. Rest(l, L, Len(L), next)
            BY <1>2, <1>4, <1>5, <1>9, EmptySeq DEF Rest, FollowsIn
        <3> QED BY <1>2, <1>3, <1>10, <2>2, <3>1, <3>2
                DEF Own, Adds, Dels, Turn, Gets, Adding, Deleting, Draining
    <2> QED BY <2>1, <2>2
<1>12. OwnInv'
    <2>1. \A u \in Threads \ {t} : Own(th'[u], u, ret'[u].got, next', holder', mode', lock')
        BY <1>3, <1>4, <1>5, <1>6, <1>7, OthersKept, ThreadAssumption
    <2> QED BY <1>6, <1>8, <1>11, <2>1 DEF OwnInv
<1>13. HistoryTyped'
    BY <1>3, <1>4 DEF IInv, HistoryTyped
<1>14. ChainFrom(first)' = <<>> /\ NothingLost'
    <2>1. FollowsIn(next', <<>>, first')
        BY <1>6, EmptySeq DEF FollowsIn
    <2>2. Members(<<>>) = {e \in Entries : holder'[e] = NULL}
        <3>1. Members(<<>>) = {}
            BY EmptySeq DEF Members
        <3>2. \A e \in Entries : holder'[e] # NULL
            BY <1>3, <1>4, ThreadAssumption
        <3> QED BY <3>1, <3>2
    <2> QED BY <2>1, <2>2, EmptySeq, ListedAfter
<1>15. first = NULL <=> L = <<>>
    BY <1>4, <1>9, ThreadAssumption DEF FollowsIn
<1>16. Stack!PopAll(t)
    <2>1. Stack!Members(L) = Members(L)
        BY DEF Stack!Members, Members
    <2> QED BY <1>3, <1>14, <1>15, <2>1 DEF Stack!PopAll, Stack!Given, Stack!Returned, L
<1> QED BY <1>12, <1>13, <1>14, <1>16 DEF Kept, StackStep, Stack!Next

\* llist_del_first took the first entry: it was still listed, so its next pointer
\* was still the one the call had read.
LEMMA DelTakesKept ==
    ASSUME IInv, NEW t \in Threads, DelExchange(t), th[t].prev = th[t].old
    PROVE  Kept
<1> DEFINE L == ChainFrom(first)
           old == th[t].old
<1>1. th[t].pc = "del_xchg" /\ old = first /\ old \in Entries /\ holder[old] = NULL
      /\ th[t].nxt = next[old] /\ th[t].pc \in Deleting
    BY Has, Before DEF DelExchange, At, SeenBy, IInv, Own, Dels, Deleting
<1>2. /\ ret' = [ret EXCEPT ![t] = [empty |-> FALSE, got |-> <<old>>]]
      /\ holder' = [e \in Entries |-> IF e = old THEN t ELSE holder[e]]
      /\ StoreFirst(t, next[old], Local) /\ lock' = NULL /\ UNCHANGED <<next, mode>>
    BY <1>1 DEF DelExchange, Deliver, Given, Leave
<1>3. /\ L \in Seq(Entries) /\ FollowsIn(next, L, first)
      /\ Members(L) = {e \in Entries : holder[e] = NULL}
    BY Listed
<1> HIDE DEF old, L
<1>4. first' = next[old] /\ th'[t] = Local /\ \A u \in Threads \ {t} : Same(th[u], th'[u])
    BY <1>2, Stored
<1>5. \A u \in Threads \ {t} : ret'[u] = ret[u]
    BY <1>2 DEF IInv, HistoryTyped
<1>6. OwnInv'
    <2>1. \A u \in Threads \ {t} : Own(th'[u], u, ret'[u].got, next', holder', mode', lock')
        BY <1>1, <1>2, <1>4, <1>5, OthersKept, ThreadAssumption
    <2> QED BY <1>4, <2>1, IdleType, IdleOwn DEF OwnInv
<1>7. HistoryTyped'
    BY <1>1, <1>2 DEF IInv, HistoryTyped
<1>8. L # <<>> /\ L[1] = old
    BY <1>1, <1>3, ThreadAssumption DEF FollowsIn
<1>9. /\ Len(L) \in Nat /\ DOMAIN L = 1 .. Len(L) /\ Len(L) # 0
      /\ \A k \in 1 .. Len(L) : L[k] \in Entries
      /\ \A j, k \in 1 .. Len(L) : L[j] = L[k] => j = k
    BY <1>3, <1>8, LenProperties, ElementOfSeq, EmptySeq, ChainDistinct
<1> DEFINE T == Tail(L)
<1>10. /\ T \in Seq(Entries) /\ Len(T) = Len(L) - 1 /\ DOMAIN T = 1 .. Len(T)
       /\ \A k \in 1 .. Len(T) : T[k] = L[k + 1]
       /\ T = <<>> <=> Len(T) = 0
    BY <1>3, <1>8, HeadTailProperties, LenProperties, EmptySeq
<1> HIDE DEF T
<1>11. FollowsIn(next', T, first')
    <2>1. first' = IF T = <<>> THEN NULL ELSE T[1]
        <3>1. next[L[1]] = IF 1 < Len(L) THEN L[2] ELSE NULL
            BY <1>3, <1>9 DEF FollowsIn
        <3> QED BY <1>4, <1>8, <1>9, <1>10, <3>1
    <2>2. \A k \in DOMAIN T : next'[T[k]] = IF k < Len(T) THEN T[k + 1] ELSE NULL
        <3> SUFFICES ASSUME NEW k \in 1 .. Len(T)
                     PROVE  next'[T[k]] = IF k < Len(T) THEN T[k + 1] ELSE NULL
            BY <1>10
        <3>1. next[L[k + 1]] = IF k + 1 < Len(L) THEN L[k + 2] ELSE NULL
            BY <1>3, <1>9, <1>10 DEF FollowsIn
        <3> QED BY <1>2, <1>9, <1>10, <3>1
    <2> QED BY <2>1, <2>2 DEF FollowsIn
<1>12. Members(T) = {e \in Entries : holder'[e] = NULL}
    <2>1. Members(T) = Members(L) \ {old}
        <3>1. \A k \in DOMAIN T : T[k] \in Members(L) \ {old}
            BY <1>8, <1>9, <1>10 DEF Members
        <3>2. \A k \in DOMAIN L : L[k] # old => L[k] \in Members(T)
            <4> SUFFICES ASSUME NEW k \in 1 .. Len(L), L[k] # old PROVE L[k] \in Members(T)
                BY <1>9
            <4>1. k - 1 \in 1 .. Len(T) /\ T[k - 1] = L[k]
                BY <1>8, <1>9, <1>10
            <4> QED BY <1>10, <4>1 DEF Members
        <3> QED BY <3>1, <3>2 DEF Members
    <2> QED BY <1>1, <1>2, <1>3, <2>1, ThreadAssumption
<1>13. ChainFrom(first)' = T /\ NothingLost'
    BY <1>10, <1>11, <1>12, ListedAfter
<1>14. Stack!Pop(t)
    <2>1. Head(L) = old
        BY <1>3, <1>8
    <2>2. ~(L = <<>>) /\ ChainFrom(first)' = Tail(L)
        BY <1>8, <1>13 DEF T
    <2>3. holder' = [e \in Entries |-> IF e \in {Head(L)} THEN t ELSE holder[e]]
        BY <1>2, <2>1
    <2>4. ret' = [ret EXCEPT ![t] = [empty |-> L = <<>>, got |-> <<Head(L)>>]]
        BY <1>2, <2>1, <2>2
    <2> QED BY <2>2, <2>3, <2>4 DEF Stack!Pop, Stack!Given, Stack!Returned, L
<1> QED BY <1>6, <1>7, <1>13, <1>14 DEF Kept, StackStep, Stack!Next

LEMMA DelExchangeKept ==
    ASSUME IInv, NEW t \in Threads, DelExchange(t)
    PROVE  Kept
<1>1. th[t].pc = "del_xchg" /\ th[t].prev = first /\ th[t].pc \in Deleting
    BY Before DEF DelExchange, At, SeenBy, IInv, Deleting
<1>2. CASE th[t].prev # th[t].old /\ th[t].prev = NULL
    BY <1>1, <1>2, NothingKept DEF DelExchange
<1>3. CASE th[t].prev # th[t].old /\ th[t].prev # NULL
    <2> DEFINE l == [th[t] EXCEPT !.pc = "del_next", !.old = th[t].prev, !.moved = FALSE]
    <2>1. l.pc = "del_next" /\ l.old = first
        BY <1>1, Has DEF LocalType
    <2>2. /\ Goto(t, l) /\ first' = first /\ next' = next
          /\ UNCHANGED <<lock, mode, holder, ret>>
        BY <1>3 DEF DelExchange
    <2> HIDE DEF l
    <2> QED BY <1>1, <1>3, <2>1, <2>2, SightKept
<1> QED BY <1>2, <1>3, DelTakesKept

\* llist_add_batch put its chain before the list it had linked the chain to.
LEMMA AddPutsKept ==
    ASSUME IInv, NEW t \in Threads, AddExchange(t), th[t].prev = th[t].old
    PROVE  Kept
<1> DEFINE L == ChainFrom(first)
           new == th[t].new
           last == th[t].last
           s == IF new = last THEN <<new>> ELSE <<new, last>>
<1>1. /\ th[t].old = first /\ new \in Entries /\ holder[new] = t
      /\ last \in Entries /\ holder[last] = t /\ next[last] = first
      /\ new # last => next[new] = last
    BY Has, Before DEF AddExchange, At, SeenBy, IInv, Own, Adds, Adding
<1>2. /\ ret' = [ret EXCEPT ![t] = [empty |-> first = NULL, got |-> <<>>]]
      /\ holder' = [e \in Entries |-> IF e \in {new, last} THEN NULL ELSE holder[e]]
      /\ StoreFirst(t, new, Local) /\ UNCHANGED <<next, mode, lock>>
    BY <1>1 DEF AddExchange, Deliver, Given
<1>3. /\ L \in Seq(Entries) /\ FollowsIn(next, L, first)
      /\ Members(L) = {e \in Entries : holder[e] = NULL}
    BY Listed
<1> HIDE DEF new, last, L
<1>4. first' = new /\ th'[t] = Local /\ \A u \in Threads \ {t} : Same(th[u], th'[u])
    BY <1>2, Stored
<1>5. \A u \in Threads \ {t} : ret'[u] = ret[u]
    BY <1>2 DEF IInv, HistoryTyped
<1>6. OwnInv'
    <2>1. \A u \in Threads \ {t} : Own(th'[u], u, ret'[u].got, next', holder', mode', lock')
        BY <1>1, <1>2, <1>4, <1>5, OthersKept, ThreadAssumption
    <2> QED BY <1>4, <2>1, IdleType, IdleOwn DEF OwnInv
<1>7. HistoryTyped'
    BY <1>1, <1>2, EmptySeq DEF IInv, HistoryTyped
<1>8. /\ Len(L) \in Nat /\ DOMAIN L = 1 .. Len(L) /\ (L = <<>> <=> Len(L) = 0)
      /\ \A k \in 1 .. Len(L) : L[k] \in Entries
      /\ \A k \in 1 .. Len(L) : next[L[k]] = IF k < Len(L) THEN L[k + 1] ELSE NULL
    BY <1>3, LenProperties, ElementOfSeq, EmptySeq DEF FollowsIn
<1>9. /\ s \in Seq(Entries) /\ Len(s) \in {1, 2} /\ DOMAIN s = 1 .. Len(s)
      /\ s[1] = new /\ s[Len(s)] = last /\ (Len(s) = 1 <=> new = last)
    <2>1. CASE new = last
        <3>1. s = <<new>>
            BY <2>1
        <3> HIDE DEF s
        <3> QED BY <1>1, <2>1, <3>1
    <2>2. CASE new # last
        <3>1. s = <<new, last>>
            BY <2>2
        <3> HIDE DEF s
        <3> QED BY <1>1, <2>2, <3>1
    <2> QED BY <2>1, <2>2
<1> HIDE DEF s
<1> DEFINE c == s \o L
<1>10. /\ c \in Seq(Entries) /\ Len(c) = Len(s) + Len(L) /\ DOMAIN c = 1 .. Len(c)
       /\ \A k \in 1 .. Len(s) : c[k] = s[k]
       /\ \A k \in 1 .. Len(L) : c[k + Len(s)] = L[k]
    <2>1. /\ c \in Seq(Entries) /\ Len(c) = Len(s) + Len(L)
          /\ \A i \in 1 .. Len(s) + Len(L) : c[i] = IF i <= Len(s) THEN s[i] ELSE L[i - Len(s)]
        BY <1>3, <1>9, ConcatProperties
    <2> HIDE DEF c
    <2> QED BY <1>8, <1>9, <2>1, LenProperties
<1> HIDE DEF c
<1>11. FollowsIn(next', c, first')
    <2>1. first' = IF c = <<>> THEN NULL ELSE c[1]
        BY <1>4, <1>8, <1>9, <1>10, EmptySeq
    <2>2. \A k \in 1 .. Len(s) : next'[c[k]] = IF k < Len(c) THEN c[k + 1] ELSE NULL
        <3>1. next[s[Len(s)]] = IF L = <<>> THEN NULL ELSE L[1]
            BY <1>1, <1>3, <1>9 DEF FollowsIn
        <3>2. c[Len(s)] = s[Len(s)] /\ (L # <<>> => c[1 + Len(s)] = L[1])
            BY <1>8, <1>9, <1>10
        <3>3. next'[c[Len(s)]] = IF Len(s) < Len(c) THEN c[Len(s) + 1] ELSE NULL
            BY <1>2, <1>8, <1>9, <1>10, <3>1, <3>2
        <3>4. Len(s) = 2 => next[c[1]] = c[2]
            BY <1>1, <1>9, <1>10
        <3> QED BY <1>2, <1>8, <1>9, <1>10, <3>3, <3>4
    <2>3. \A k \in 1 .. Len(L) :
              next'[c[k + Len(s)]] = IF k + Len(s) < Len(c) THEN c[k + Len(s) + 1] ELSE NULL
        <3> SUFFICES ASSUME NEW k \in 1 .. Len(L)
                     PROVE  next'[c[k + Len(s)]] =
                              IF k + Len(s) < Len(c) THEN c[k + Len(s) + 1] ELSE NULL
            OBVIOUS
        <3>1. k < Len(L) => c[k + 1 + Len(s)] = L[k + 1]
            BY <1>8, <1>10
        <3> QED BY <1>2, <1>8, <1>9, <1>10, <3>1
    <2>4. \A k \in 1 .. Len(c) : k \in 1 .. Len(s) \/ \E j \in 1 .. Len(L) : k = j + Len(s)
        <3> SUFFICES ASSUME NEW k \in 1 .. Len(c), k \notin 1 .. Len(s)
                     PROVE  k - Len(s) \in 1 .. Len(L) /\ k = (k - Len(s)) + Len(s)
            OBVIOUS
        <3> QED BY <1>8, <1>9, <1>10
    <2>5. \A k \in DOMAIN c : next'[c[k]] = IF k < Len(c) THEN c[k + 1] ELSE NULL
        <3> SUFFICES ASSUME NEW k \in 1 .. Len(c)
                     PROVE  next'[c[k]] = IF k < Len(c) THEN c[k + 1] ELSE NULL
            BY <1>10
        <3>1. CASE k \in 1 .. Len(s)
            BY <2>2, <3>1
        <3>2. CASE k \notin 1 .. Len(s)
            <4>1. PICK j \in 1 .. Len(L) : k = j + Len(s)
                BY <2>4, <3>2
            <4> QED BY <2>3, <4>1
        <3> QED BY <3>1, <3>2
    <2> QED BY <2>1, <2>5 DEF FollowsIn
<1>12. Members(s) = {new, last}
    BY <1>9 DEF Members
<1>13. Members(c) = {e \in Entries : holder'[e] = NULL}
    <2>1. Members(c) = Members(s) \cup Members(L)
        <3>1. \A k \in DOMAIN s : c[k] = s[k] /\ k \in DOMAIN c
            BY <1>8, <1>9, <1>10
        <3>2. \A k \in DOMAIN L : c[k + Len(s)] = L[k] /\ k + Len(s) \in DOMAIN c
            BY <1>8, <1>9, <1>10
        <3>3. \A k \in DOMAIN c : k \in DOMAIN s \/ k - Len(s) \in DOMAIN L
            BY <1>8, <1>9, <1>10
        <3>4. \A k \in DOMAIN c : c[k] \in Members(s) \cup Members(L)
            <4> SUFFICES ASSUME NEW k \in DOMAIN c, k \notin DOMAIN s
                         PROVE  c[k] \in Members(L)
                BY <3>1 DEF Members
            <4>1. k - Len(s) \in DOMAIN L /\ (k - Len(s)) + Len(s) = k
                BY <1>9, <1>10, <3>3
            <4> QED BY <3>2, <4>1 DEF Members
        <3> QED BY <3>1, <3>2, <3>4 DEF Members
    <2> QED BY <1>1, <1>2, <1>3, <1>12, <2>1
<1>14. ChainFrom(first)' = c /\ NothingLost'
    BY <1>10, <1>11, <1>13, ListedAfter
<1>15. Stack!Push(t, s)
    <2>1. Stack!Members(s) = {new, last} /\ Stack!Distinct(s)
        BY <1>9, <1>12 DEF Stack!Members, Stack!Distinct, Members
    <2>2. {new, last} \subseteq {e \in Entries : holder[e] = t}
        BY <1>1
    <2>3. first = NULL <=> L = <<>>
        BY <1>3, <1>8, ThreadAssumption DEF FollowsIn
    <2> QED BY <1>2, <1>14, <2>1, <2>2, <2>3
            DEF Stack!Push, Stack!Given, Stack!Returned, L, c
<1>16. s \in Stack!SetToSeqs({new, last}) /\ {new, last} \in (SUBSET Entries) \ {{}}
    <2>1. Cardinality({new, last}) = Len(s)
        <3>1. Cardinality({new}) = 1 /\ IsFiniteSet({new})
            BY FS_Singleton
        <3>2. new # last => Cardinality({new} \cup {last}) = 1 + 1
            BY <3>1, FS_AddElement
        <3>3. {new} \cup {last} = {new, last} /\ (new = last => {new, last} = {new})
            OBVIOUS
        <3>4. CASE new = last
            BY <1>9, <3>1, <3>3, <3>4
        <3>5. CASE new # last
            <4>1. Cardinality({new, last}) = 1 + 1
                BY Zenon, <3>2, <3>3, <3>5
            <4>2. Len(s) = 1 + 1
                BY <1>9, <3>5
            <4> QED BY <4>1, <4>2
        <3> QED BY <3>4, <3>5
    <2>2. s = [k \in 1 .. Len(s) |-> s[k]] /\ \A k \in 1 .. Len(s) : s[k] \in {new, last}
        BY <1>9, <1>12 DEF Members
    <2>3. s \in [1 .. Len(s) -> {new, last}]
        BY <2>2
    <2>4. \A i, j \in 1 .. Len(s) : i # j => s[i] # s[j]
        BY <1>9
    <2>5. Stack!Cardinality({new, last}) = Cardinality({new, last})
        BY DEF Stack!Cardinality, Cardinality
    <2>6. Stack!SetToSeqs({new, last}) =
            {f \in [1 .. Len(s) -> {new, last}] :
                \A i, j \in 1 .. Len(s) : i # j => f[i] # f[j]}
        BY Zenon, <2>1, <2>5 DEF Stack!SetToSeqs
    <2>7. s \in Stack!SetToSeqs({new, last})
        BY <2>3, <2>4, <2>6
    <2>8. {new, last} \subseteq Entries /\ {new, last} # {}
        BY <1>1
    <2>9. {new, last} \in (SUBSET Entries) \ {{}}
        BY <2>8
    <2> QED BY Zenon, <2>7, <2>9
<1> QED BY <1>6, <1>7, <1>14, <1>15, <1>16 DEF Kept, StackStep, Stack!Next

LEMMA AddExchangeKept ==
    ASSUME IInv, NEW t \in Threads, AddExchange(t)
    PROVE  Kept
<1>1. CASE th[t].prev # th[t].old
    <2> DEFINE l == [th[t] EXCEPT !.pc = "add_load"]
    <2>1. /\ l.pc = "add_load" /\ l.new = th[t].new /\ l.last = th[t].last
          /\ th[t].pc = "add_xchg"
        BY Has DEF LocalType, AddExchange, At
    <2>2. /\ Goto(t, l) /\ first' = first /\ lock' = lock /\ next' = next
          /\ UNCHANGED <<mode, holder, ret>>
        BY <1>1 DEF AddExchange
    <2> HIDE DEF l
    <2>3. Own(l, t, ret[t].got, next', holder, mode, lock')
        BY <2>1, <2>2, Has DEF Own, Adds, Dels, Turn, Gets, Deleting, Draining, Adding
    <2> QED BY <2>2, <2>3, Has, QuietStep
<1> QED BY <1>1, AddPutsKept

-----------------------------------------------------------------------------
(* The theorems.                                                           *)

LEMMA InitKept == Init => IInv /\ Stack!Init
<1> SUFFICES ASSUME Init PROVE IInv /\ Stack!Init
    OBVIOUS
<1>1. HistoryTyped
    BY EmptySeq DEF Init, HistoryTyped
<1>2. OwnInv
    BY IdleType, IdleOwn DEF Init, OwnInv
<1>3. FollowsIn(next, <<>>, first)
    BY EmptySeq DEF Init, FollowsIn
<1>4. ChainFrom(first) = <<>>
    BY <1>3, ChainInNext, ChainIs, EmptySeq
<1>5. Members(<<>>) = {} /\ \A e \in Entries : holder[e] # NULL
    BY EmptySeq, ThreadAssumption DEF Members, Init
<1>6. NothingLost
    BY <1>3, <1>4, <1>5 DEF NothingLost, FollowsIn, Follows
<1>7. Stack!Init
    BY <1>4 DEF Init, Stack!Init
<1> QED BY <1>1, <1>2, <1>6, <1>7, InitSeen DEF IInv

LEMMA NextKept ==
    ASSUME IInv, Atomic = TRUE, [Next]_vars
    PROVE  IInv' /\ [Stack!Next]_<<ChainFrom(first), holder, ret>>
<1>1. SeenInv'
    BY NextSeen DEF IInv
<1>2. CASE UNCHANGED vars
    <2>1. ChainFrom(first)' = ChainFrom(first)
        BY <1>2, ChainInNext, ChainInNextP DEF vars
    <2>2. FollowsIn(next', ChainFrom(first), first')
        BY <1>2, Listed DEF vars
    <2>3. NothingLost'
        BY <1>2, <2>2, Listed, ListedAfter DEF vars
    <2>4. HistoryTyped' /\ OwnInv'
        BY <1>2 DEF vars, IInv, HistoryTyped, OwnInv
    <2> QED BY <1>1, <1>2, <2>1, <2>3, <2>4 DEF vars, IInv
<1>3. CASE Next
    <2>1. PICK t \in Threads :
              \/ \E s \in Batches(t) : Add(t, s)
              \/ AddLoad(t) \/ AddLink(t) \/ AddCompare(t) \/ AddExchange(t)
              \/ DelFirst(t) \/ DelLoad(t) \/ DelNext(t) \/ DelCompare(t) \/ DelExchange(t)
              \/ \E rev \in BOOLEAN : DelAll(t, rev)
              \/ AllLoad(t) \/ AllStore(t)
              \/ ReverseStep(t) \/ ReverseEnd(t) \/ WalkStep(t) \/ WalkEnd(t)
        BY <1>3 DEF Next
    <2>2. Kept
        BY <2>1, AddKept, AddLoadKept, AddLinkKept, LoadKept, AddExchangeKept, StartKept,
           DelLoadKept, DelNextKept, DelExchangeKept, AllStoreKept, ReversingKept,
           ReversedKept, WalkingKept
    <2> QED BY <1>1, <2>2 DEF Kept, IInv, StackStep
<1> QED BY <1>2, <1>3

LEMMA IInvAlways == Atomic = TRUE /\ Spec => []IInv
<1>1. Atomic = TRUE /\ IInv /\ [Next]_vars => IInv'
    BY NextKept
<1>2. CASE Atomic = TRUE
    BY <1>1, <1>2, InitKept, PTL DEF Spec
<1> QED BY <1>2

\* Every variable stays in its domain: what a thread reads from a next pointer is an
\* entry or NULL, and what it delivers is a sequence of entries.
THEOREM ListTypeOK ==
    ASSUME Atomic = TRUE
    PROVE  Spec => []TypeOK
<1>1. IInv => TypeOK
    BY DEF IInv, SeenInv, Typed, HistoryTyped, TypeOK, LocalType
<1> QED BY <1>1, IInvAlways, PTL

\* Whatever the threads' calls of llist_add_batch, llist_del_first and llist_del_all do
\* to each other, the list ends and holds each entry added and not yet deleted.
THEOREM ListNothingLost ==
    ASSUME Atomic = TRUE
    PROVE  Spec => []NothingLost
<1>1. IInv => NothingLost
    BY DEF IInv
<1> QED BY <1>1, IInvAlways, PTL

\* llist_del_all followed by llist_for_each, with or without llist_reverse_order in
\* between (llist.c:98-110), visits the entries that were in the list, in order.
THEOREM ListDrainedInOrder ==
    ASSUME Atomic = TRUE
    PROVE  Spec => []DrainedInOrder
<1>1. IInv => DrainedInOrder
    <2> SUFFICES ASSUME IInv PROVE DrainedInOrder
        OBVIOUS
    <2> SUFFICES ASSUME NEW t \in Threads, th[t].pc = "walk", th[t].old = NULL
                 PROVE  th[t].out = Way(th[t].rev, ret[t].got)
        <3>1. \A t \in Threads : ret[t].got \in Seq(Entries)
            BY Has
        <3>2. \A t \in Threads : DOMAIN ret[t].got = 1 .. Len(ret[t].got)
            BY <3>1, LenProperties
        <3> QED BY <3>2 DEF DrainedInOrder, Way
    <2> DEFINE g == ret[t].got
               d == Way(th[t].rev, g)
    <2>1. Private(g, t, holder) /\ Rest(th[t], d, Len(g), next) /\ th[t].out \in Seq(Entries)
        BY Has DEF Own, Gets, LocalType
    <2>2. g \in Seq(Entries)
        BY Has
    <2> HIDE DEF g
    <2>3. /\ Len(g) \in Nat /\ Len(th[t].out) \in Nat /\ d \in Seq(Entries) /\ Len(d) = Len(g)
          /\ \A k \in 1 .. Len(g) : d[k] \in Entries
        <3>1. /\ Len(g) \in Nat /\ Len(th[t].out) \in Nat
              /\ \A k \in 1 .. Len(g) : g[k] \in Entries
            BY <2>1, PrivateType, LenProperties
        <3>2. CASE th[t].rev
            <4>1. d = [k \in 1 .. Len(g) |-> g[Len(g) + 1 - k]]
                BY <3>2 DEF Way
            <4>2. \A k \in 1 .. Len(g) : g[Len(g) + 1 - k] \in Entries
                BY <3>1
            <4>3. d \in Seq(Entries) /\ Len(d) = Len(g)
                BY <3>1, <4>1, <4>2
            <4> QED BY <3>1, <4>1, <4>2, <4>3
        <3>3. CASE ~th[t].rev
            <4>1. d = g
                BY <3>3 DEF Way
            <4> QED BY <2>2, <3>1, <4>1
        <3> QED BY <3>2, <3>3
    <2> HIDE DEF d
    <2>4. Len(th[t].out) = Len(g)
        <3>1. Len(th[t].out) < Len(g) => th[t].old \in Entries
            BY <2>1, <2>3 DEF Rest
        <3> QED BY <2>1, <2>3, <3>1, ThreadAssumption DEF Rest
    <2>5. \A k \in 1 .. Len(d) : th[t].out[k] = d[k]
        BY <2>1, <2>3, <2>4 DEF Rest
    <2>6. th[t].out = d
        BY <2>1, <2>3, <2>4, <2>5, SeqEqual
    <2> QED BY <2>6 DEF d, g
<1> QED BY <1>1, IInvAlways, PTL

\* The lock-less list of llist.c and llist.h is a stack shared by atomic calls: each
\* call takes its whole effect, and learns what it returns, at one instant.
THEOREM ListIsStack ==
    ASSUME Atomic = TRUE
    PROVE  Spec => ImplementsStack
<1>1. Init => Stack!Init
    BY InitKept
<1>2. IInv /\ [Next]_vars => [Stack!Next]_<<ChainFrom(first), holder, ret>>
    BY NextKept
<1> QED BY <1>1, <1>2, IInvAlways, PTL DEF Spec, ImplementsStack, Stack!Spec
=============================================================================
