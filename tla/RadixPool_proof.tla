--------------------------- MODULE RadixPool_proof --------------------------
(***************************************************************************)
(* The preload pool, for every number of threads, nodes and bitmaps and    *)
(* every size of a preload: with a preempt_disable that keeps the other    *)
(* threads off the CPU, a preloaded insertion cannot fail and no node is   *)
(* lost or doubled; with a this_cpu_cmpxchg that returns the old value, no *)
(* bitmap is.                                                              *)
(***************************************************************************)
EXTENDS RadixPool, TLAPS, WellFoundedInduction

-----------------------------------------------------------------------------
(* The inductive invariant.  Between preempt_disable and preempt_enable    *)
(* the pool changes store by store: at "count" it has a node more than nr  *)
(* says, at "uncount" one less.                                            *)

Pinned == {"check", "recheck", "link", "push", "count", "insert", "pop", "uncount"}
Handling == {"recheck", "link", "push", "pop", "uncount"}

\* What a thread's place says of its locals and of nr.
PlaceOf(t) ==
    /\ pin = t <=> th[t].pc \in Pinned
    /\ th[t].node # NULL <=> th[t].pc \in Handling
    /\ th[t].pc \in {"link", "push", "count"} => nr < th[t].nr
    /\ th[t].pc \in {"count", "uncount"} => th[t].count = nr
    /\ th[t].pc \in {"pop", "uncount"} => nr > 0 /\ th[t].need > 0
    /\ th[t].pc = "pop" => th[t].node = nodes
    /\ th[t].pc = "push" => parent[th[t].node] = nodes
    /\ th[t].pc \in {"insert", "pop", "uncount"} /\ th[t].sure => th[t].need <= nr
PlaceInv == \A t \in Threads : PlaceOf(t)

At1(pc) == \E t \in Threads : th[t].pc = pc
Len == IF At1("count") THEN nr + 1 ELSE IF At1("uncount") THEN nr - 1 ELSE nr

\* A thread has n in its hand, and n is in no other place.
InHand(n) == \E t \in Threads : th[t].pc \in Handling \ {"pop"} /\ th[t].node = n
InTree(n) == \E t \in Threads : n \in tree[t]

\* s lists the pool, without a repetition.
Lists(s) ==
    /\ s \in [1 .. Len -> Nodes]
    /\ Len > 0 => s[1] = nodes
    /\ \A k \in 1 .. Len : k > 1 => s[k] = parent[s[k - 1]]
    /\ \A j, k \in 1 .. Len : s[j] = s[k] => j = k
Listed(s, n) == \E k \in 1 .. Len : s[k] = n

\* Every node handed out is in one place.
Placed(s) ==
    \A n \in Nodes :
      /\ n \in taken <=> Listed(s, n) \/ InTree(n) \/ InHand(n)
      /\ Listed(s, n) => ~InTree(n) /\ ~InHand(n)
      /\ InHand(n) => ~InTree(n)
      /\ \A t, u \in Threads : n \in tree[t] /\ n \in tree[u] => t = u

PoolInv == \E s \in [1 .. Len -> Nodes] : Lists(s) /\ Placed(s)

IInv == TypeOK /\ PlaceInv /\ PoolInv /\ PreloadSuffices

-----------------------------------------------------------------------------
(* Facts about the parts.                                                  *)

\* Of the threads, only the one that holds the CPU is inside the pool.
LEMMA OnePinned ==
    ASSUME PlaceInv, NEW t \in Threads, NEW u \in Threads, t # u, pin = t
    PROVE  th[u].pc \notin Pinned
BY DEF PlaceInv, PlaceOf

LEMMA LeastNumber ==
    ASSUME NEW T \in SUBSET Nat, T # {}
    PROVE  \E x \in T : \A y \in T : x <= y
<1>1. \E x \in T : \A y \in T : <<y, x>> \notin OpToRel(<, Nat)
    BY NatLessThanWellFounded, WFMin
<1>2. PICK x \in T : \A y \in T : <<y, x>> \notin OpToRel(<, Nat)
    BY <1>1
<1>3. \A y \in T : ~(y < x)
    BY <1>2 DEF OpToRel
<1>4. x \in Nat /\ \A y \in T : y \in Nat /\ x <= y
    BY <1>3
<1> QED BY <1>4

\* The list of the pool is what radix_tree_cpu_dead meets.
LEMMA PooledIs ==
    ASSUME TypeOK, Len = nr, NEW s, Lists(s)
    PROVE  /\ Pooled \in [1 .. nr -> Nodes \cup {NULL}]
           /\ \A k \in 1 .. nr : Pooled[k] = s[k]
<1> DEFINE Follows(p) ==
        \A k \in 1 .. nr : p[k] = IF k = 1 THEN nodes
                                  ELSE IF p[k - 1] = NULL THEN NULL ELSE parent[p[k - 1]]
<1>1. s \in [1 .. nr -> Nodes \cup {NULL}] /\ nr \in Nat
    BY SizeAssumption DEF Lists, TypeOK
<1>2. \A k \in 1 .. nr : s[k] \in Nodes /\ s[k] # NULL
    BY NullAssumption DEF Lists
<1>3. Follows(s)
    <2> SUFFICES ASSUME NEW k \in 1 .. nr
                 PROVE  s[k] = IF k = 1 THEN nodes
                               ELSE IF s[k - 1] = NULL THEN NULL ELSE parent[s[k - 1]]
        OBVIOUS
    <2>1. k > 1 => k - 1 \in 1 .. nr
        BY <1>1
    <2> QED BY <1>1, <1>2, <2>1 DEF Lists
<1>4. Pooled \in [1 .. nr -> Nodes \cup {NULL}] /\ Follows(Pooled)
    BY <1>1, <1>3 DEF Pooled
<1> DEFINE T == {k \in 1 .. nr : Pooled[k] # s[k]}
<1>5. T = {}
    <2> SUFFICES ASSUME T # {} PROVE FALSE
        OBVIOUS
    <2>1. T \in SUBSET Nat
        BY <1>1
    <2>2. PICK x \in T : \A y \in T : x <= y
        BY <2>1, LeastNumber
    <2>3. x \in 1 .. nr /\ Pooled[x] # s[x]
        BY <2>2
    <2>4. x # 1
        BY <1>3, <1>4, <2>3
    <2>5. x - 1 \in 1 .. nr /\ ~(x <= x - 1)
        BY <1>1, <2>3, <2>4
    <2>6. Pooled[x - 1] = s[x - 1]
        BY <2>2, <2>5
    <2> QED BY <1>3, <1>4, <2>3, <2>4, <2>6
<1> QED BY <1>4, <1>5

\* With preemption enabled nobody is inside the pool, and nr counts it.
LEMMA QuietLen ==
    ASSUME PlaceInv, pin = NULL
    PROVE  /\ \A t \in Threads : th[t].pc \notin Pinned /\ th[t].node = NULL
           /\ Len = nr
<1>1. \A t \in Threads : th[t].pc \notin Pinned /\ th[t].node = NULL
    BY NullAssumption DEF PlaceInv, PlaceOf, Pinned, Handling
<1> QED BY <1>1 DEF Len, At1, Pinned

\* The invariant of the pool says what NodesAccounted says.
LEMMA Accounted == IInv => NodesAccounted
<1> SUFFICES ASSUME IInv, pin = NULL
             PROVE  NodesAccounted
    BY DEF NodesAccounted
<1>1. PICK s \in [1 .. Len -> Nodes] : Lists(s) /\ Placed(s)
    BY DEF IInv, PoolInv
<1>2. /\ \A t \in Threads : th[t].pc \notin Pinned /\ th[t].node = NULL
      /\ Len = nr
    BY QuietLen DEF IInv
<1>3. \A k \in 1 .. nr : Pooled[k] = s[k]
    BY <1>1, <1>2, PooledIs DEF IInv
<1>4. \A n : n \in PooledSet <=> n \in Nodes /\ Listed(s, n)
    BY <1>1, <1>2, <1>3 DEF PooledSet, Listed
<1>5. \A n : ~InHand(n)
    BY <1>2 DEF InHand, Handling, Pinned
<1>6. \A t \in Threads : Hand(t) = {}
    BY <1>2 DEF Hand
<1>7. taken \in SUBSET Nodes /\ \A t \in Threads : tree[t] \in SUBSET Nodes
    BY DEF IInv, TypeOK
<1>8. NULL \notin PooledSet
    BY <1>4, NullAssumption
<1>9. \A j, k \in 1 .. nr : Pooled[j] = Pooled[k] => j = k
    BY <1>1, <1>2, <1>3 DEF Lists
<1>10. taken = UNION ({PooledSet} \cup {tree[t] : t \in Threads} \cup {Hand(t) : t \in Threads})
    BY <1>1, <1>4, <1>5, <1>6, <1>7 DEF Placed, InTree
<1>11. \A t \in Threads :
         /\ tree[t] \cap PooledSet = {}
         /\ \A u \in Threads \ {t} : tree[t] \cap tree[u] = {}
    BY <1>1, <1>4, <1>7 DEF Placed, InTree
<1> QED BY <1>6, <1>8, <1>9, <1>10, <1>11 DEF NodesAccounted

\* A step that moves no node keeps the list and the places.
LEMMA PoolStays ==
    ASSUME PoolInv, UNCHANGED <<pool, taken, tree>>, Len' = Len,
           \A n \in Nodes : InHand(n)' <=> InHand(n)
    PROVE  PoolInv'
<1>1. PICK s \in [1 .. Len -> Nodes] : Lists(s) /\ Placed(s)
    BY DEF PoolInv
<1>2. Lists(s)'
    BY <1>1 DEF Lists, pool
<1>3. Placed(s)'
    BY <1>1 DEF Placed, Listed, InTree
<1> QED BY <1>1, <1>2, <1>3 DEF PoolInv

-----------------------------------------------------------------------------
(* What each step does to the places and the locals.                       *)

Local == [pc : Places, call : {"radix", "idr", "ida"}, nr : 0 .. RadixSize,
          need : 0 .. RadixSize, node : Nodes \cup {NULL}, count : Nat,
          sure : BOOLEAN, bm : Bitmaps \cup {NULL}]

LEMMA IdleType == Idle \in Local /\ Idle.pc = "idle"
BY SizeAssumption DEF Idle, Local, Places

\* Where a step changes one thread, its pin and not nr, PlaceInv is about that thread.
LEMMA OneThread ==
    ASSUME TypeOK, PlaceInv, NEW t \in Threads, Runs(t), NEW l \in Local, Goto(t, l),
           pin' = (IF l.pc \in Pinned THEN t ELSE NULL),
           PlaceOf(t)', \A u \in Threads \ {t} : th[u].pc \notin Pinned
    PROVE  PlaceInv'
<1> SUFFICES ASSUME NEW u \in Threads, u # t
             PROVE  PlaceOf(u)'
    BY DEF PlaceInv
<1>1. th'[u] = th[u] /\ th[u].pc \notin Pinned
    BY DEF Goto, TypeOK
<1>2. pin' # u
    BY NullAssumption
<1> QED BY <1>1, <1>2 DEF PlaceInv, PlaceOf, Pinned, Handling

\* A thread that runs is the only one that may be inside the pool.
LEMMA Alone ==
    ASSUME PlaceInv, NEW t \in Threads, Runs(t)
    PROVE  \A u \in Threads \ {t} : th[u].pc \notin Pinned
BY NullAssumption DEF PlaceInv, PlaceOf, Runs

\* Len and the nodes in hand, seen from a thread that runs.
LEMMA LenOf ==
    ASSUME PlaceInv, NEW t \in Threads, Runs(t)
    PROVE  /\ Len = IF th[t].pc = "count" THEN nr + 1
                     ELSE IF th[t].pc = "uncount" THEN nr - 1 ELSE nr
           /\ \A n : InHand(n) <=> th[t].pc \in Handling \ {"pop"} /\ th[t].node = n
<1>1. \A u \in Threads \ {t} : th[u].pc \notin Pinned
    BY Alone
<1> QED BY <1>1 DEF Len, At1, InHand, Pinned, Handling

LEMMA LenAfter ==
    ASSUME TypeOK, PlaceInv, NEW t \in Threads, Runs(t), NEW l \in Local, Goto(t, l)
    PROVE  /\ Len' = IF l.pc = "count" THEN nr' + 1
                     ELSE IF l.pc = "uncount" THEN nr' - 1 ELSE nr'
           /\ \A n : InHand(n)' <=> l.pc \in Handling \ {"pop"} /\ l.node = n
<1>1. \A u \in Threads \ {t} : th[u].pc \notin Pinned /\ th'[u] = th[u]
    BY Alone DEF Goto, TypeOK
<1>2. th'[t] = l
    BY DEF Goto, TypeOK
<1> QED BY <1>1, <1>2 DEF Len, At1, InHand, Pinned, Handling

BitmapType ==
    bitmap \in Bitmaps \cup {NULL} /\ given \in SUBSET Bitmaps /\ ida \in SUBSET Bitmaps

\* A step of one thread that moves no node keeps the invariant if the thread's
\* new place is a right one.
LEMMA QuietStep ==
    ASSUME IInv, NEW t \in Threads, Runs(t), NEW l \in Local, Goto(t, l),
           UNCHANGED <<pool, taken, tree, failed>>, BitmapType',
           th[t].pc \notin {"count", "uncount"}, l.pc \notin {"count", "uncount"},
           \/ th[t].pc \notin Handling /\ l.pc \notin Handling \ {"pop"}
           \/ /\ th[t].pc \in Handling \ {"pop"} /\ l.pc \in Handling \ {"pop"}
              /\ l.node = th[t].node,
           pin' = (IF l.pc \in Pinned THEN t ELSE NULL), th'[t] = l => PlaceOf(t)'
    PROVE  IInv'
<1>1. th'[t] = l
    BY DEF IInv, TypeOK, Goto
<1>2. PlaceInv'
    BY <1>1, Alone, OneThread DEF IInv
<1>3. Len' = Len
    BY LenOf, LenAfter DEF IInv, pool
<1>4. \A n \in Nodes : InHand(n)' <=> InHand(n)
    BY LenOf, LenAfter DEF IInv
<1>5. PoolInv'
    BY <1>3, <1>4, PoolStays DEF IInv
<1>6. TypeOK'
    BY NullAssumption DEF IInv, TypeOK, BitmapType, Local, Goto, pool
<1> QED BY <1>2, <1>5, <1>6 DEF IInv, PreloadSuffices

-----------------------------------------------------------------------------
(* The steps that move no node.                                            *)

LEMMA PreloadStep ==
    ASSUME IInv, Pinning = TRUE, NEW t \in Threads, NEW call \in {"radix", "idr", "ida"},
           Preload(t, call)
    PROVE  IInv'
<1> DEFINE l == [Idle EXCEPT !.pc = "check", !.call = call, !.nr = Size[call]]
<1>0. Size[call] \in 0 .. RadixSize
    BY SizeAssumption DEF Size
<1>1. l \in Local /\ l.pc = "check" /\ l.node = NULL
    <2>1. Idle \in Local /\ Idle.node = NULL
        BY IdleType DEF Idle
    <2> HIDE DEF l
    <2>2. l = [Idle EXCEPT !.pc = "check", !.call = call, !.nr = Size[call]]
        BY DEF l
    <2> QED BY <1>0, <2>1, <2>2 DEF Local, Places
<1>2. Goto(t, l) /\ Runs(t) /\ pin' = t /\ th[t].pc = "idle"
    BY DEF Preload, At, PreemptDisable
<1>3. UNCHANGED <<pool, taken, tree, failed>> /\ BitmapType'
    BY DEF Preload, BitmapType, IInv, TypeOK
<1>4. th'[t] = l => PlaceOf(t)'
    BY <1>1, <1>2 DEF PlaceOf, Pinned, Handling
<1> HIDE DEF l
<1> QED BY <1>1, <1>2, <1>3, <1>4, QuietStep DEF Pinned, Handling

\* What Loaded leaves a thread with.
LEMMA LoadedStep ==
    ASSUME IInv, Pinning = TRUE, NEW t \in Threads, NEW sure \in BOOLEAN, Runs(t),
           th[t].pc \in {"check", "alloc"}, Loaded(t, sure), sure => th[t].nr <= nr,
           UNCHANGED <<pool, taken, tree, failed>>, BitmapType'
    PROVE  IInv'
<1>1. th[t] \in Local /\ th[t].node = NULL
    BY DEF IInv, TypeOK, Local, PlaceInv, PlaceOf, Handling
<1>2. CASE th[t].call = "ida"
    <2> DEFINE l == [th[t] EXCEPT !.pc = "bitmap", !.sure = sure]
    <2>1. l \in Local /\ l.pc = "bitmap" /\ l.node = NULL
        BY <1>1 DEF Local, Places
    <2>2. Goto(t, l) /\ pin' = NULL
        BY <1>2 DEF Loaded, PreemptEnable
    <2>3. th'[t] = l => PlaceOf(t)'
        BY <2>1, <2>2, NullAssumption DEF PlaceOf, Pinned, Handling
    <2> HIDE DEF l
    <2> QED BY <2>1, <2>2, <2>3, QuietStep DEF Pinned, Handling
<1>3. CASE th[t].call # "ida"
    <2>1. PICK k \in 0 .. th[t].nr :
              Goto(t, [th[t] EXCEPT !.pc = "insert", !.need = k, !.sure = sure])
        BY <1>3 DEF Loaded
    <2> DEFINE l == [th[t] EXCEPT !.pc = "insert", !.need = k, !.sure = sure]
    <2> th[t].nr \in 0 .. RadixSize
        BY <1>1 DEF Local
    <2> k \in 0 .. RadixSize
        BY SizeAssumption
    <2>2. l \in Local /\ l.pc = "insert" /\ l.node = NULL /\ l.need = k /\ l.sure = sure
        BY <1>1 DEF Local, Places
    <2>3. Goto(t, l) /\ pin' = t /\ nr' = nr
        BY <1>3, <2>1 DEF Loaded, PreemptDisable, pool
    <2>4. nr \in Nat /\ k \in Nat /\ th[t].nr \in Nat /\ k <= th[t].nr
        BY <1>1, SizeAssumption DEF Local, IInv, TypeOK
    <2>5. th'[t] = l => PlaceOf(t)'
        BY <2>2, <2>3, <2>4 DEF PlaceOf, Pinned, Handling
    <2> HIDE DEF l
    <2> QED BY <2>2, <2>3, <2>5, QuietStep DEF Pinned, Handling
<1> QED BY <1>2, <1>3

LEMMA PreloadCheckStep ==
    ASSUME IInv, Pinning = TRUE, NEW t \in Threads, PreloadCheck(t)
    PROVE  IInv'
<1>1. /\ Runs(t) /\ th[t].pc = "check"
      /\ UNCHANGED <<pool, taken, tree, failed>> /\ BitmapType'
    BY DEF PreloadCheck, At, BitmapType, IInv, TypeOK
<1>2. CASE nr < th[t].nr
    <2> DEFINE l == [th[t] EXCEPT !.pc = "alloc"]
    <2>1. l \in Local /\ l.pc = "alloc" /\ l.node = NULL
        BY <1>1 DEF Local, Places, IInv, TypeOK, PlaceInv, PlaceOf, Handling
    <2>2. Goto(t, l) /\ pin' = NULL
        BY <1>2 DEF PreloadCheck, PreemptEnable
    <2>3. th'[t] = l => PlaceOf(t)'
        BY <2>1, <2>2, NullAssumption DEF PlaceOf, Pinned, Handling
    <2> HIDE DEF l
    <2> QED BY <1>1, <2>1, <2>2, <2>3, QuietStep DEF Pinned, Handling
<1>3. CASE ~(nr < th[t].nr)
    <2>1. Loaded(t, TRUE)
        BY <1>3 DEF PreloadCheck
    <2>2. th[t].nr <= nr
        BY <1>3, SizeAssumption DEF IInv, TypeOK
    <2> QED BY <1>1, <2>1, <2>2, LoadedStep
<1> QED BY <1>2, <1>3

LEMMA PreloadFailsStep ==
    ASSUME IInv, Pinning = TRUE, NEW t \in Threads, PreloadFails(t)
    PROVE  IInv'
<1>1. /\ Runs(t) /\ th[t].pc = "alloc"
      /\ UNCHANGED <<pool, taken, tree, failed>> /\ BitmapType'
    BY DEF PreloadFails, At, BitmapType, IInv, TypeOK
<1>2. CASE th[t].call = "radix"
    <2>1. Goto(t, Idle) /\ pin' = NULL
        BY <1>1, <1>2 DEF PreloadFails, Runs, IInv, PlaceInv, PlaceOf, Pinned
    <2>2. Idle.pc = "idle" /\ Idle.node = NULL
        BY DEF Idle
    <2>3. th'[t] = Idle => PlaceOf(t)'
        BY <2>1, <2>2, NullAssumption DEF PlaceOf, Pinned, Handling
    <2> QED BY <1>1, <2>1, <2>2, <2>3, IdleType, QuietStep DEF Pinned, Handling
<1>3. CASE th[t].call # "radix"
    BY <1>1, <1>3, LoadedStep DEF PreloadFails
<1> QED BY <1>2, <1>3

LEMMA InsertUnloadedStep ==
    ASSUME IInv, Pinning = TRUE, NEW t \in Threads, InsertUnloaded(t)
    PROVE  IInv'
<1>1. PICK k \in 0 .. RadixSize : Goto(t, [Idle EXCEPT !.pc = "insert", !.need = k])
    BY DEF InsertUnloaded
<1> DEFINE l == [Idle EXCEPT !.pc = "insert", !.need = k]
<1>2. Idle \in Local /\ Idle.node = NULL /\ Idle.sure = FALSE
    BY IdleType DEF Idle
<1>3. l \in Local /\ l.pc = "insert" /\ l.node = NULL /\ l.sure = FALSE
    BY <1>2 DEF Local, Places
<1>4. Goto(t, l) /\ Runs(t) /\ pin' = t /\ th[t].pc = "idle"
    BY <1>1 DEF InsertUnloaded, At, PreemptDisable
<1>5. UNCHANGED <<pool, taken, tree, failed>> /\ BitmapType'
    BY DEF InsertUnloaded, BitmapType, IInv, TypeOK
<1>6. th'[t] = l => PlaceOf(t)'
    BY <1>3, <1>4 DEF PlaceOf, Pinned, Handling
<1> HIDE DEF l
<1> QED BY <1>3, <1>4, <1>5, <1>6, QuietStep DEF Pinned, Handling

\* The pool is found empty only by an insertion that no preload promised a node.
LEMMA AllocFailsStep ==
    ASSUME IInv, Pinning = TRUE, NEW t \in Threads, AllocFails(t)
    PROVE  IInv'
<1>1. /\ Runs(t) /\ th[t].pc = "insert" /\ th[t].need > 0 /\ pin' = t
      /\ UNCHANGED <<pool, taken, tree>> /\ BitmapType'
    BY DEF AllocFails, At, BitmapType, IInv, TypeOK, PlaceInv, PlaceOf, Pinned
<1>2. th[t] \in Local /\ nr \in Nat /\ PlaceOf(t)
    BY SizeAssumption DEF IInv, TypeOK, Local, PlaceInv
<1>3. CASE nr # 0
    <2> DEFINE l == [th[t] EXCEPT !.pc = "pop", !.node = nodes]
    <2>1. Len = nr /\ Len > 0
        BY <1>1, <1>2, <1>3, LenOf DEF IInv
    <2>2. nodes \in Nodes /\ nodes # NULL
        <3>1. PICK s \in [1 .. Len -> Nodes] : Lists(s)
            BY DEF IInv, PoolInv
        <3>2. 1 \in 1 .. Len
            BY <1>2, <2>1
        <3> QED BY <2>1, <3>1, <3>2, NullAssumption DEF Lists
    <2>3. l \in Local /\ l.pc = "pop" /\ l.node = nodes /\ l.need = th[t].need
             /\ l.sure = th[t].sure
        BY <1>2, <2>2 DEF Local, Places
    <2>4. Goto(t, l) /\ UNCHANGED <<failed, nr, nodes, parent>>
        BY <1>3, <1>1 DEF AllocFails, pool
    <2>5. th'[t] = l => PlaceOf(t)'
        BY <1>1, <1>2, <1>3, <2>2, <2>3, <2>4 DEF PlaceOf, Pinned, Handling
    <2> HIDE DEF l
    <2> QED BY <1>1, <2>3, <2>4, <2>5, QuietStep DEF Pinned, Handling
<1>4. CASE nr = 0
    <2> DEFINE l == [th[t] EXCEPT !.need = 0]
    <2>1. ~th[t].sure
        BY <1>1, <1>2, <1>4 DEF PlaceOf, Local
    <2>2. Goto(t, l) /\ failed' = failed /\ nr' = nr
        BY <1>1, <1>4, <2>1 DEF AllocFails, IInv, TypeOK, pool
    <2>3. l \in Local /\ l.pc = "insert" /\ l.node = NULL /\ l.sure = FALSE
        BY <1>1, <1>2, <2>1, SizeAssumption DEF Local, PlaceOf, Handling
    <2>4. th'[t] = l => PlaceOf(t)'
        BY <1>1, <2>3 DEF PlaceOf, Pinned, Handling
    <2> HIDE DEF l
    <2> QED BY <1>1, <2>2, <2>3, <2>4, QuietStep DEF Pinned, Handling
<1> QED BY <1>3, <1>4

\* A step that ends with the thread idle and preemption enabled.
LEMMA IdleStep ==
    ASSUME IInv, NEW t \in Threads, Runs(t), Goto(t, Idle), pin' = NULL,
           UNCHANGED <<pool, taken, tree, failed>>, BitmapType',
           th[t].pc \in {"insert", "bitmap", "reserve", "swap"}
    PROVE  IInv'
<1>1. Idle.pc = "idle" /\ Idle.node = NULL
    BY DEF Idle
<1>2. th'[t] = Idle => PlaceOf(t)'
    BY <1>1, NullAssumption DEF PlaceOf, Pinned, Handling
<1> QED BY <1>1, <1>2, IdleType, QuietStep DEF Pinned, Handling

LEMMA InsertEndStep ==
    ASSUME IInv, NEW t \in Threads, InsertEnd(t)
    PROVE  IInv'
<1>1. /\ Runs(t) /\ Goto(t, Idle) /\ pin' = NULL /\ th[t].pc = "insert"
      /\ UNCHANGED <<pool, taken, tree, failed>> /\ BitmapType'
    BY DEF InsertEnd, At, PreemptEnable, BitmapType, IInv, TypeOK
<1> QED BY <1>1, IdleStep

\* A step of ida_pre_get's second half: preemption is and stays enabled.
LEMMA BitmapStep ==
    ASSUME IInv, NEW t \in Threads, Runs(t), th[t].pc \in {"bitmap", "reserve", "swap"},
           UNCHANGED <<pool, taken, tree, pin, failed>>, BitmapType',
           \/ Goto(t, Idle)
           \/ \E pc \in {"reserve", "swap"}, b \in Bitmaps \cup {NULL} :
                Goto(t, [th[t] EXCEPT !.pc = pc, !.bm = b])
    PROVE  IInv'
<1>1. th[t] \in Local /\ th[t].node = NULL /\ pin' = NULL
    BY DEF IInv, TypeOK, Local, PlaceInv, PlaceOf, Runs, Pinned, Handling
<1>2. CASE Goto(t, Idle)
    BY <1>1, <1>2, IdleStep
<1>3. ASSUME NEW pc \in {"reserve", "swap"}, NEW b \in Bitmaps \cup {NULL},
             Goto(t, [th[t] EXCEPT !.pc = pc, !.bm = b])
      PROVE  IInv'
    <2> DEFINE l == [th[t] EXCEPT !.pc = pc, !.bm = b]
    <2>1. l \in Local /\ l.pc = pc /\ l.node = NULL
        BY <1>1 DEF Local, Places
    <2>2. th'[t] = l => PlaceOf(t)'
        BY <1>1, <2>1, NullAssumption DEF PlaceOf, Pinned, Handling
    <2>3. Goto(t, l)
        BY <1>3
    <2> HIDE DEF l
    <2> QED BY <1>1, <2>1, <2>2, <2>3, QuietStep DEF Pinned, Handling
<1> QED BY <1>2, <1>3

LEMMA BitmapStepsOf ==
    ASSUME IInv, NEW t \in Threads, BitmapCheck(t) \/ BitmapAlloc(t) \/ BitmapSwap(t)
    PROVE  IInv'
<1>1. TypeOK /\ th[t] \in Local /\ th[t].bm \in Bitmaps \cup {NULL}
    BY DEF IInv, TypeOK, Local
<1>2. CASE BitmapCheck(t)
    <2>1. [th[t] EXCEPT !.pc = "reserve"] = [th[t] EXCEPT !.pc = "reserve", !.bm = th[t].bm]
        BY <1>1 DEF Local
    <2>2. /\ Runs(t) /\ th[t].pc = "bitmap"
          /\ Goto(t, Idle) \/ Goto(t, [th[t] EXCEPT !.pc = "reserve", !.bm = th[t].bm])
          /\ UNCHANGED <<pool, taken, tree, pin, failed>> /\ BitmapType'
        BY <1>1, <1>2, <2>1 DEF BitmapCheck, At, BitmapType, TypeOK
    <2> QED BY <1>1, <2>2, BitmapStep
<1>3. CASE BitmapAlloc(t)
    <2>1. /\ Runs(t) /\ th[t].pc = "reserve"
          /\ \/ Goto(t, Idle)
             \/ \E b \in Bitmaps : Goto(t, [th[t] EXCEPT !.pc = "swap", !.bm = b])
          /\ UNCHANGED <<pool, taken, tree, pin, failed>> /\ BitmapType'
        BY <1>1, <1>3 DEF BitmapAlloc, At, BitmapType, TypeOK
    <2> QED BY <2>1, BitmapStep
<1>4. CASE BitmapSwap(t)
    <2>1. /\ Runs(t) /\ th[t].pc = "swap" /\ Goto(t, Idle)
          /\ UNCHANGED <<pool, taken, tree, pin, failed>> /\ BitmapType'
        BY <1>1, <1>4 DEF BitmapSwap, At, BitmapType, TypeOK
    <2> QED BY <2>1, BitmapStep
<1> QED BY <1>2, <1>3, <1>4

\* The IDA's side touches neither the pool nor a thread.
LEMMA IdaStep ==
    ASSUME IInv, (\E t \in Threads : BitmapTake(t)) \/ (\E b \in Bitmaps : BitmapFree(b))
    PROVE  IInv'
<1>1. UNCHANGED <<pool, taken, tree, pin, th, failed>> /\ BitmapType'
    BY DEF BitmapTake, BitmapFree, BitmapType, IInv, TypeOK
<1>2. TypeOK'
    BY <1>1 DEF IInv, TypeOK, BitmapType, pool
<1>3. PlaceInv'
    BY <1>1 DEF IInv, PlaceInv, PlaceOf, pool
<1>4. Len' = Len /\ \A n \in Nodes : InHand(n)' <=> InHand(n)
    BY <1>1 DEF Len, At1, InHand, pool
<1>5. PoolInv'
    BY <1>1, <1>4, PoolStays DEF IInv
<1> QED BY <1>1, <1>2, <1>3, <1>5 DEF IInv, PreloadSuffices

-----------------------------------------------------------------------------
(* The steps that move a node.                                             *)

PoolType == /\ nr \in 0 .. RadixSize /\ nodes \in Nodes \cup {NULL}
            /\ parent \in [Nodes -> Nodes \cup {NULL}]
            /\ taken \in SUBSET Nodes /\ tree \in [Threads -> SUBSET Nodes]

\* All but the pool itself, for a step of one thread.
LEMMA MoveStep ==
    ASSUME IInv, NEW t \in Threads, Runs(t), NEW l \in Local, Goto(t, l),
           PoolType', UNCHANGED <<bitmap, given, ida, failed>>,
           pin' = (IF l.pc \in Pinned THEN t ELSE NULL), th'[t] = l => PlaceOf(t)'
    PROVE  TypeOK' /\ PlaceInv' /\ PreloadSuffices'
<1>1. th'[t] = l
    BY DEF IInv, TypeOK, Goto
<1>2. PlaceInv'
    BY <1>1, Alone, OneThread DEF IInv
<1>3. TypeOK'
    BY NullAssumption DEF IInv, TypeOK, PoolType, Local, Goto
<1> QED BY <1>2, <1>3 DEF IInv, PreloadSuffices

\* A node in hand or in no place at all is not in the pool; s lists the pool.
LEMMA PoolList ==
    ASSUME IInv
    PROVE  /\ PoolType /\ nr \in Nat
           /\ \E s \in [1 .. Len -> Nodes] : Lists(s) /\ Placed(s)
BY SizeAssumption DEF IInv, PoolInv, TypeOK, PoolType

LEMMA PreloadAllocStep ==
    ASSUME IInv, Pinning = TRUE, NEW t \in Threads, PreloadAlloc(t)
    PROVE  IInv'
<1>1. PICK n \in Nodes \ taken :
          taken' = taken \cup {n} /\ Goto(t, [th[t] EXCEPT !.pc = "recheck", !.node = n])
    BY DEF PreloadAlloc
<1> DEFINE l == [th[t] EXCEPT !.pc = "recheck", !.node = n]
<1>2. /\ Runs(t) /\ th[t].pc = "alloc" /\ th[t] \in Local /\ pin' = t
      /\ UNCHANGED <<nr, nodes, parent, tree, bitmap, given, ida, failed>>
    BY DEF PreloadAlloc, At, PreemptDisable, pool, IInv, TypeOK, Local
<1>3. l \in Local /\ l.pc = "recheck" /\ l.node = n /\ n # NULL /\ Goto(t, l)
    BY <1>1, <1>2, NullAssumption DEF Local, Places
<1>4. th'[t] = l => PlaceOf(t)'
    BY <1>2, <1>3 DEF PlaceOf, Pinned, Handling
<1>5. PoolType'
    BY <1>1, <1>2, PoolList DEF PoolType
<1> HIDE DEF l
<1>6. TypeOK' /\ PlaceInv' /\ PreloadSuffices'
    BY <1>2, <1>3, <1>4, <1>5, MoveStep DEF Pinned
<1>7. Len' = Len /\ (\A m : InHand(m)' <=> m = n) /\ (\A m : ~InHand(m))
    BY <1>2, <1>3, LenOf, LenAfter DEF IInv, Handling
<1>8. PICK s \in [1 .. Len -> Nodes] : Lists(s) /\ Placed(s)
    BY PoolList
<1>9. Lists(s)'
    BY <1>2, <1>7, <1>8 DEF Lists
<1>10. Placed(s)'
    BY <1>1, <1>2, <1>7, <1>8 DEF Placed, Listed, InTree
<1>11. PoolInv'
    BY <1>7, <1>8, <1>9, <1>10 DEF PoolInv
<1> QED BY <1>6, <1>11 DEF IInv

LEMMA PreloadRecheckStep ==
    ASSUME IInv, Pinning = TRUE, NEW t \in Threads, PreloadRecheck(t)
    PROVE  IInv'
<1>1. /\ Runs(t) /\ th[t].pc = "recheck" /\ th[t] \in Local /\ pin' = t
      /\ th[t].node \in Nodes
      /\ UNCHANGED <<nr, nodes, parent, tree, bitmap, given, ida, failed>>
    BY DEF PreloadRecheck, At, pool, IInv, TypeOK, Local, PlaceInv, PlaceOf, Pinned, Handling
<1>2. CASE nr < th[t].nr
    <2> DEFINE l == [th[t] EXCEPT !.pc = "link"]
    <2>1. l \in Local /\ l.pc = "link" /\ l.node = th[t].node /\ l.nr = th[t].nr
        BY <1>1 DEF Local, Places
    <2>2. Goto(t, l) /\ taken' = taken
        BY <1>2 DEF PreloadRecheck
    <2>3. th'[t] = l => PlaceOf(t)'
        BY <1>1, <1>2, <2>1, NullAssumption DEF PlaceOf, Pinned, Handling
    <2> HIDE DEF l
    <2>4. BitmapType'
        BY <1>1 DEF BitmapType, IInv, TypeOK
    <2> QED BY <1>1, <2>1, <2>2, <2>3, <2>4, QuietStep DEF Pinned, Handling, pool
<1>3. CASE ~(nr < th[t].nr)
    <2> DEFINE l == [th[t] EXCEPT !.pc = "check", !.node = NULL]
    <2>1. l \in Local /\ l.pc = "check" /\ l.node = NULL
        BY <1>1 DEF Local, Places
    <2>2. Goto(t, l) /\ taken' = taken \ {th[t].node}
        BY <1>3 DEF PreloadRecheck
    <2>3. th'[t] = l => PlaceOf(t)'
        BY <1>1, <2>1 DEF PlaceOf, Pinned, Handling
    <2>4. PoolType'
        BY <1>1, <2>2, PoolList DEF PoolType
    <2> HIDE DEF l
    <2>5. TypeOK' /\ PlaceInv' /\ PreloadSuffices'
        BY <1>1, <2>1, <2>2, <2>3, <2>4, MoveStep DEF Pinned
    <2>6. Len' = Len /\ (\A m : ~InHand(m)') /\ (\A m : InHand(m) <=> m = th[t].node)
        BY <1>1, <2>1, <2>2, LenOf, LenAfter DEF IInv, Handling
    <2>7. PICK s \in [1 .. Len -> Nodes] : Lists(s) /\ Placed(s)
        BY PoolList
    <2>8. Lists(s)'
        BY <1>1, <2>6, <2>7 DEF Lists
    <2>9. Placed(s)'
        BY <1>1, <2>2, <2>6, <2>7 DEF Placed, Listed, InTree
    <2>10. PoolInv'
        BY <2>6, <2>7, <2>8, <2>9 DEF PoolInv
    <2> QED BY <2>5, <2>10 DEF IInv
<1> QED BY <1>2, <1>3

LEMMA PreloadLinkStep ==
    ASSUME IInv, Pinning = TRUE, NEW t \in Threads, PreloadLink(t)
    PROVE  IInv'
<1> DEFINE l == [th[t] EXCEPT !.pc = "push"]
           n == th[t].node
<1>1. /\ Runs(t) /\ th[t].pc = "link" /\ th[t] \in Local /\ pin' = t
      /\ n \in Nodes /\ nr < th[t].nr /\ Goto(t, l)
      /\ parent' = [parent EXCEPT ![n] = nodes]
      /\ UNCHANGED <<nr, nodes, taken, tree, bitmap, given, ida, failed>>
    BY DEF PreloadLink, At, IInv, TypeOK, Local, PlaceInv, PlaceOf, Pinned, Handling
<1>2. l \in Local /\ l.pc = "push" /\ l.node = n /\ l.nr = th[t].nr
    BY <1>1 DEF Local, Places
<1>3. PoolType' /\ parent'[n] = nodes /\ \A m \in Nodes \ {n} : parent'[m] = parent[m]
    BY <1>1, PoolList DEF PoolType
<1>4. th'[t] = l => PlaceOf(t)'
    BY <1>1, <1>2, <1>3, NullAssumption DEF PlaceOf, Pinned, Handling
<1> HIDE DEF l
<1>5. TypeOK' /\ PlaceInv' /\ PreloadSuffices'
    BY <1>1, <1>2, <1>3, <1>4, MoveStep DEF Pinned
<1>6. Len' = Len /\ (\A m : InHand(m)' <=> m = n) /\ (\A m : InHand(m) <=> m = n)
    BY <1>1, <1>2, LenOf, LenAfter DEF IInv, Handling
<1>7. PICK s \in [1 .. Len -> Nodes] : Lists(s) /\ Placed(s)
    BY PoolList
<1>8. Len \in Int /\ \A k \in 1 .. Len : s[k] \in Nodes \ {n}
    BY <1>1, <1>6, <1>7, PoolList, LenOf DEF Placed, Listed, IInv
<1>9. Lists(s)'
    <2>1. \A k \in 1 .. Len : k > 1 => k - 1 \in 1 .. Len
        BY <1>8
    <2> QED BY <1>1, <1>3, <1>6, <1>7, <1>8, <2>1 DEF Lists
<1>10. Placed(s)'
    BY <1>1, <1>6, <1>7 DEF Placed, Listed, InTree
<1>11. PoolInv'
    BY <1>6, <1>7, <1>9, <1>10 DEF PoolInv
<1> QED BY <1>5, <1>11 DEF IInv

\* The pool with one node more in front.
LEMMA PreloadPushStep ==
    ASSUME IInv, Pinning = TRUE, NEW t \in Threads, PreloadPush(t)
    PROVE  IInv'
<1> DEFINE l == [th[t] EXCEPT !.pc = "count", !.count = nr, !.node = NULL]
           n == th[t].node
<1>1. /\ Runs(t) /\ th[t].pc = "push" /\ th[t] \in Local /\ pin' = t
      /\ n \in Nodes /\ nr < th[t].nr /\ parent[n] = nodes /\ Goto(t, l)
      /\ nodes' = n
      /\ UNCHANGED <<nr, parent, taken, tree, bitmap, given, ida, failed>>
    BY DEF PreloadPush, At, IInv, TypeOK, Local, PlaceInv, PlaceOf, Pinned, Handling
<1>2. /\ l \in Local /\ l.pc = "count" /\ l.node = NULL /\ l.nr = th[t].nr /\ l.count = nr
      /\ nr \in Nat
    BY <1>1, PoolList DEF Local, Places
<1>3. PoolType'
    BY <1>1, PoolList DEF PoolType
<1>4. th'[t] = l => PlaceOf(t)'
    BY <1>1, <1>2 DEF PlaceOf, Pinned, Handling
<1> HIDE DEF l
<1>5. TypeOK' /\ PlaceInv' /\ PreloadSuffices'
    BY <1>1, <1>2, <1>3, <1>4, MoveStep DEF Pinned
<1>6. Len = nr /\ Len' = nr + 1 /\ (\A m : ~InHand(m)') /\ (\A m : InHand(m) <=> m = n)
    BY <1>1, <1>2, LenOf, LenAfter DEF IInv, Handling
<1>7. PICK s \in [1 .. Len -> Nodes] : Lists(s) /\ Placed(s)
    BY PoolList
<1>8. \A k \in 1 .. nr : s[k] \in Nodes \ {n}
    BY <1>1, <1>6, <1>7 DEF Placed, Listed
<1>9. \A k \in 1 .. nr + 1 : k > 1 => k - 1 \in 1 .. nr
    BY <1>2
<1>10. PICK r \in [1 .. nr + 1 -> Nodes] :
          r[1] = n /\ \A k \in 1 .. nr + 1 : k > 1 => r[k] = s[k - 1]
    <2> DEFINE q == [k \in 1 .. nr + 1 |-> IF k = 1 THEN n ELSE s[k - 1]]
    <2>1. q \in [1 .. nr + 1 -> Nodes]
        BY <1>1, <1>8, <1>9
    <2>2. q[1] = n /\ \A k \in 1 .. nr + 1 : k > 1 => q[k] = s[k - 1]
        BY <1>2
    <2> QED BY <2>1, <2>2
<1>11. Lists(r)'
    <2>1. \A k \in 1 .. nr + 1 : k > 1 => r[k] = parent[r[k - 1]]
        <3> SUFFICES ASSUME NEW k \in 1 .. nr + 1, k > 1
                     PROVE  r[k] = parent[r[k - 1]]
            OBVIOUS
        <3>1. CASE k = 2
            BY <1>1, <1>2, <1>6, <1>7, <1>10, <3>1 DEF Lists
        <3>2. CASE k > 2
            <4>1. k - 1 \in 1 .. nr /\ k - 1 > 1 /\ k - 1 \in 1 .. nr + 1
                BY <1>2, <3>2
            <4>2. s[k - 1] = parent[s[k - 1 - 1]]
                BY <1>6, <1>7, <4>1 DEF Lists
            <4> QED BY <1>10, <4>1, <4>2
        <3> QED BY <1>2, <3>1, <3>2
    <2>2. \A j, k \in 1 .. nr + 1 : r[j] = r[k] => j = k
        <3> SUFFICES ASSUME NEW j \in 1 .. nr + 1, NEW k \in 1 .. nr + 1, r[j] = r[k],
                            j > 1 \/ k > 1
                     PROVE  j = k
            BY <1>2
        <3>1. j > 1 /\ k > 1
            BY <1>2, <1>8, <1>9, <1>10
        <3>2. s[j - 1] = s[k - 1] /\ j - 1 \in 1 .. nr /\ k - 1 \in 1 .. nr
            BY <1>9, <1>10, <3>1
        <3>3. j - 1 = k - 1
            BY <1>6, <1>7, <3>2 DEF Lists
        <3> QED BY <1>2, <3>3
    <2> QED BY <1>1, <1>6, <1>10, <2>1, <2>2 DEF Lists
<1>12. \A m \in Nodes : Listed(r, m)' <=> m = n \/ Listed(s, m)
    <2>1. ASSUME NEW m, Listed(s, m) PROVE \E k \in 1 .. nr + 1 : r[k] = m
        <3>1. PICK k \in 1 .. nr : s[k] = m
            BY <1>6, <2>1 DEF Listed
        <3>2. k + 1 \in 1 .. nr + 1 /\ k + 1 > 1 /\ k + 1 - 1 = k
            BY <1>2
        <3> QED BY <1>10, <3>1, <3>2
    <2>2. 1 \in 1 .. nr + 1
        BY <1>2
    <2>3. \A k \in 1 .. nr + 1 : k # 1 => k - 1 \in 1 .. nr /\ r[k] = s[k - 1]
        BY <1>2, <1>10
    <2>4. /\ \A m : Listed(r, m)' <=> \E k \in 1 .. nr + 1 : r[k] = m
          /\ \A m : Listed(s, m) <=> \E k \in 1 .. nr : s[k] = m
        BY <1>6 DEF Listed
    <2>5. ASSUME NEW m, Listed(r, m)', m # n PROVE Listed(s, m)
        <3>1. PICK k \in 1 .. nr + 1 : r[k] = m
            BY <2>4, <2>5
        <3>2. k # 1
            BY <1>10, <2>5, <3>1
        <3> QED BY <2>3, <2>4, <3>1, <3>2
    <2>6. \E k \in 1 .. nr + 1 : r[k] = n
        BY <1>10, <2>2
    <2> QED BY <2>1, <2>4, <2>5, <2>6
<1>13. Placed(r)'
    BY <1>1, <1>6, <1>7, <1>12 DEF Placed, InTree
<1>14. PoolInv'
    BY <1>6, <1>10, <1>11, <1>13 DEF PoolInv
<1> QED BY <1>5, <1>14 DEF IInv

LEMMA PreloadCountStep ==
    ASSUME IInv, Pinning = TRUE, NEW t \in Threads, PreloadCount(t)
    PROVE  IInv'
<1> DEFINE l == [th[t] EXCEPT !.pc = "check"]
<1>1. /\ Runs(t) /\ th[t].pc = "count" /\ th[t] \in Local /\ pin' = t
      /\ th[t].node = NULL /\ nr < th[t].nr /\ th[t].count = nr /\ Goto(t, l)
      /\ nr' = nr + 1
      /\ UNCHANGED <<nodes, parent, taken, tree, bitmap, given, ida, failed>>
    BY DEF PreloadCount, At, IInv, TypeOK, Local, PlaceInv, PlaceOf, Pinned, Handling
<1>2. l \in Local /\ l.pc = "check" /\ l.node = NULL
    BY <1>1 DEF Local, Places
<1>3. PoolType'
    <2>1. th[t].nr \in 0 .. RadixSize /\ nr \in Nat /\ RadixSize \in Nat
        BY <1>1, PoolList, SizeAssumption DEF Local
    <2> QED BY <1>1, <2>1, PoolList DEF PoolType
<1>4. th'[t] = l => PlaceOf(t)'
    BY <1>1, <1>2 DEF PlaceOf, Pinned, Handling
<1> HIDE DEF l
<1>5. TypeOK' /\ PlaceInv' /\ PreloadSuffices'
    BY <1>1, <1>2, <1>3, <1>4, MoveStep DEF Pinned
<1>6. Len' = Len /\ \A m \in Nodes : InHand(m)' <=> InHand(m)
    BY <1>1, <1>2, LenOf, LenAfter DEF IInv, Handling
<1>7. PICK s \in [1 .. Len -> Nodes] : Lists(s) /\ Placed(s)
    BY PoolList
<1>8. Lists(s)' /\ Placed(s)'
    BY <1>1, <1>6, <1>7 DEF Lists, Placed, Listed, InTree
<1>9. PoolInv'
    BY <1>6, <1>7, <1>8 DEF PoolInv
<1> QED BY <1>5, <1>9 DEF IInv

LEMMA AllocNodeStep ==
    ASSUME IInv, Pinning = TRUE, NEW t \in Threads, AllocNode(t)
    PROVE  IInv'
<1>1. PICK n \in Nodes \ taken : taken' = taken \cup {n} /\ Grown(t, n, th[t])
    BY DEF AllocNode
<1> DEFINE l == [th[t] EXCEPT !.pc = "insert", !.need = th[t].need - 1, !.node = NULL]
<1>2. /\ Runs(t) /\ th[t].pc = "insert" /\ th[t] \in Local /\ pin' = t /\ th[t].need > 0
      /\ UNCHANGED <<nr, nodes, parent, bitmap, given, ida, failed>>
      /\ tree' = [tree EXCEPT ![t] = @ \cup {n}] /\ Goto(t, l)
      /\ th[t].sure => th[t].need <= nr
    BY <1>1 DEF AllocNode, Grown, At, pool, IInv, TypeOK, Local, PlaceInv, PlaceOf, Pinned
<1>3. /\ l \in Local /\ l.pc = "insert" /\ l.node = NULL /\ l.sure = th[t].sure
      /\ l.need = th[t].need - 1 /\ th[t].need \in Nat /\ nr \in Nat
    <2>1. th[t].need \in 0 .. RadixSize /\ RadixSize \in Nat
        BY <1>2, SizeAssumption DEF Local
    <2>2. th[t].need - 1 \in 0 .. RadixSize
        BY <1>2, <2>1
    <2>3. l \in Local /\ l.pc = "insert" /\ l.node = NULL /\ l.sure = th[t].sure
        BY <1>2, <2>2 DEF Local, Places
    <2>4. l.need = th[t].need - 1
        BY <1>2, <2>2 DEF Local
    <2> QED BY <2>1, <2>3, <2>4, PoolList
<1>4. th'[t] = l => PlaceOf(t)'
    BY <1>2, <1>3 DEF PlaceOf, Pinned, Handling
<1>5. PoolType'
    BY <1>1, <1>2, PoolList DEF PoolType
<1> HIDE DEF l
<1>6. TypeOK' /\ PlaceInv' /\ PreloadSuffices'
    BY <1>2, <1>3, <1>4, <1>5, MoveStep DEF Pinned
<1>7. Len' = Len /\ (\A m : ~InHand(m)') /\ (\A m : ~InHand(m))
    BY <1>2, <1>3, LenOf, LenAfter DEF IInv, Handling
<1>8. PICK s \in [1 .. Len -> Nodes] : Lists(s) /\ Placed(s)
    BY PoolList
<1>9. \A u \in Threads, m \in Nodes : m \in tree'[u] <=> m \in tree[u] \/ (u = t /\ m = n)
    BY <1>2, PoolList DEF PoolType
<1>10. \A u \in Threads : n \notin tree[u]
    BY <1>8 DEF Placed, InTree
<1>11. ~Listed(s, n)
    BY <1>8 DEF Placed
<1>12. Lists(s)' /\ Placed(s)'
    <2>1. Lists(s)'
        BY <1>2, <1>7, <1>8 DEF Lists
    <2>2. \A m \in Nodes : /\ Listed(s, m)' <=> Listed(s, m)
                           /\ InTree(m)' <=> InTree(m) \/ m = n
        BY <1>7, <1>9 DEF Listed, InTree
    <2> QED BY <1>1, <1>7, <1>8, <1>9, <1>10, <1>11, <2>1, <2>2 DEF Placed
<1>13. PoolInv'
    BY <1>7, <1>8, <1>12 DEF PoolInv
<1> QED BY <1>6, <1>13 DEF IInv

\* The pool without its first node.
LEMMA PoolPopStep ==
    ASSUME IInv, Pinning = TRUE, NEW t \in Threads, PoolPop(t)
    PROVE  IInv'
<1> DEFINE l == [th[t] EXCEPT !.pc = "uncount", !.count = nr]
           n == th[t].node
<1>1. /\ Runs(t) /\ th[t].pc = "pop" /\ th[t] \in Local /\ pin' = t /\ PlaceOf(t)
      /\ n \in Nodes /\ n = nodes /\ nr > 0 /\ Goto(t, l)
      /\ nodes' = parent[n]
      /\ UNCHANGED <<nr, parent, taken, tree, bitmap, given, ida, failed>>
    BY DEF PoolPop, At, IInv, TypeOK, Local, PlaceInv, PlaceOf, Pinned, Handling
<1>2. /\ l \in Local /\ l.pc = "uncount" /\ l.node = n /\ l.need = th[t].need /\ l.count = nr
      /\ l.sure = th[t].sure /\ nr \in Nat
    BY <1>1, PoolList DEF Local, Places
<1>3. PoolType'
    BY <1>1, PoolList DEF PoolType
<1>4. th'[t] = l => PlaceOf(t)'
    BY <1>1, <1>2, NullAssumption DEF PlaceOf, Pinned, Handling
<1> HIDE DEF l
<1>5. TypeOK' /\ PlaceInv' /\ PreloadSuffices'
    BY <1>1, <1>2, <1>3, <1>4, MoveStep DEF Pinned
<1>6. Len = nr /\ Len' = nr - 1 /\ (\A m : ~InHand(m)) /\ (\A m : InHand(m)' <=> m = n)
    BY <1>1, <1>2, LenOf, LenAfter DEF IInv, Handling
<1>7. PICK s \in [1 .. Len -> Nodes] : Lists(s) /\ Placed(s)
    BY PoolList
<1>8. \A k \in 1 .. nr - 1 : k + 1 \in 1 .. nr /\ k + 1 > 1 /\ k + 1 - 1 = k /\ k \in 1 .. nr
    BY <1>2
<1>9. 1 \in 1 .. nr /\ s[1] = n
    BY <1>1, <1>2, <1>6, <1>7 DEF Lists
<1>10. PICK r \in [1 .. nr - 1 -> Nodes] : \A k \in 1 .. nr - 1 : r[k] = s[k + 1]
    <2> DEFINE q == [k \in 1 .. nr - 1 |-> s[k + 1]]
    <2>1. q \in [1 .. nr - 1 -> Nodes]
        BY <1>6, <1>7, <1>8
    <2> QED BY <2>1
<1>11. Lists(r)'
    <2>1. nr - 1 > 0 => r[1] = parent[n]
        <3> SUFFICES ASSUME nr - 1 > 0 PROVE r[1] = parent[n]
            OBVIOUS
        <3>1. 1 \in 1 .. nr - 1 /\ 2 \in 1 .. nr
            BY <1>2
        <3>2. s[2] = parent[s[1]]
            BY <1>6, <1>7, <3>1 DEF Lists
        <3> QED BY <1>9, <1>10, <3>1, <3>2
    <2>2. \A k \in 1 .. nr - 1 : k > 1 => r[k] = parent[r[k - 1]]
        <3> SUFFICES ASSUME NEW k \in 1 .. nr - 1, k > 1
                     PROVE  r[k] = parent[r[k - 1]]
            OBVIOUS
        <3>1. k - 1 \in 1 .. nr - 1 /\ k - 1 + 1 = k
            BY <1>2
        <3>2. s[k + 1] = parent[s[k]]
            BY <1>6, <1>7, <1>8 DEF Lists
        <3> QED BY <1>10, <3>1, <3>2
    <2>3. \A j, k \in 1 .. nr - 1 : r[j] = r[k] => j = k
        <3> SUFFICES ASSUME NEW j \in 1 .. nr - 1, NEW k \in 1 .. nr - 1, r[j] = r[k]
                     PROVE  j = k
            OBVIOUS
        <3>1. j + 1 = k + 1
            BY <1>6, <1>7, <1>8, <1>10 DEF Lists
        <3> QED BY <3>1
    <2> QED BY <1>1, <1>6, <1>10, <2>1, <2>2, <2>3 DEF Lists
<1>12. \A m \in Nodes : Listed(s, m) <=> m = n \/ Listed(r, m)'
    <2>1. /\ \A m : Listed(r, m)' <=> \E k \in 1 .. nr - 1 : r[k] = m
          /\ \A m : Listed(s, m) <=> \E k \in 1 .. nr : s[k] = m
        BY <1>6 DEF Listed
    <2>2. ASSUME NEW m, Listed(s, m), m # n PROVE Listed(r, m)'
        <3>1. PICK k \in 1 .. nr : s[k] = m
            BY <2>1, <2>2
        <3>2. k - 1 \in 1 .. nr - 1 /\ k - 1 + 1 = k
            BY <1>2, <1>9, <2>2, <3>1
        <3> QED BY <1>10, <2>1, <3>1, <3>2
    <2> QED BY <1>8, <1>9, <1>10, <2>1, <2>2
<1>13. \A m \in Nodes : Listed(r, m)' => m # n
    <2> SUFFICES ASSUME NEW k \in 1 .. nr - 1, r[k] = n PROVE FALSE
        BY <1>6 DEF Listed
    <2>1. k + 1 = 1
        BY <1>6, <1>7, <1>8, <1>9, <1>10 DEF Lists
    <2> QED BY <2>1
<1>14. Placed(r)'
    BY <1>1, <1>6, <1>7, <1>12, <1>13 DEF Placed, InTree
<1>15. PoolInv'
    BY <1>6, <1>10, <1>11, <1>14 DEF PoolInv
<1> QED BY <1>5, <1>15 DEF IInv

LEMMA PoolUncountStep ==
    ASSUME IInv, Pinning = TRUE, NEW t \in Threads, PoolUncount(t)
    PROVE  IInv'
<1> DEFINE n == th[t].node
           l == [th[t] EXCEPT !.pc = "insert", !.need = th[t].need - 1, !.node = NULL]
<1>1. /\ Runs(t) /\ th[t].pc = "uncount" /\ th[t] \in Local /\ pin' = t
      /\ n \in Nodes /\ nr > 0 /\ th[t].need > 0 /\ (th[t].sure => th[t].need <= nr)
      /\ nr' = nr - 1
      /\ UNCHANGED <<nodes, parent, taken, bitmap, given, ida, failed>>
      /\ tree' = [tree EXCEPT ![t] = @ \cup {n}] /\ Goto(t, l)
    BY DEF PoolUncount, Grown, At, IInv, TypeOK, Local, PlaceInv, PlaceOf, Pinned, Handling
<1>2. /\ l \in Local /\ l.pc = "insert" /\ l.node = NULL /\ l.sure = th[t].sure
      /\ l.need = th[t].need - 1 /\ th[t].need \in Nat /\ nr \in Nat
    <2>1. th[t].need \in 0 .. RadixSize /\ RadixSize \in Nat
        BY <1>1, SizeAssumption DEF Local
    <2>2. th[t].need - 1 \in 0 .. RadixSize
        BY <1>1, <2>1
    <2>3. l \in Local /\ l.pc = "insert" /\ l.node = NULL /\ l.sure = th[t].sure
        BY <1>1, <2>2 DEF Local, Places
    <2>4. l.need = th[t].need - 1
        BY <1>1, <2>2 DEF Local
    <2> QED BY <2>1, <2>3, <2>4, PoolList
<1>3. PoolType'
    <2>1. nr \in 0 .. RadixSize /\ RadixSize \in Nat
        BY PoolList, SizeAssumption DEF PoolType
    <2> QED BY <1>1, <2>1, PoolList DEF PoolType
<1>4. th'[t] = l => PlaceOf(t)'
    BY <1>1, <1>2 DEF PlaceOf, Pinned, Handling
<1> HIDE DEF l
<1>5. TypeOK' /\ PlaceInv' /\ PreloadSuffices'
    BY <1>1, <1>2, <1>3, <1>4, MoveStep DEF Pinned
<1>6. Len' = Len /\ (\A m : ~InHand(m)') /\ (\A m : InHand(m) <=> m = n)
    BY <1>1, <1>2, LenOf, LenAfter DEF IInv, Handling
<1>7. PICK s \in [1 .. Len -> Nodes] : Lists(s) /\ Placed(s)
    BY PoolList
<1>8. \A u \in Threads, m \in Nodes : m \in tree'[u] <=> m \in tree[u] \/ (u = t /\ m = n)
    BY <1>1, PoolList DEF PoolType
<1>9. ~Listed(s, n) /\ n \in taken /\ \A u \in Threads : n \notin tree[u]
    BY <1>1, <1>6, <1>7 DEF Placed, InTree
<1>10. Lists(s)' /\ Placed(s)'
    <2>1. Lists(s)'
        BY <1>1, <1>6, <1>7 DEF Lists
    <2>2. \A m \in Nodes : /\ Listed(s, m)' <=> Listed(s, m)
                           /\ InTree(m)' <=> InTree(m) \/ m = n
        BY <1>6, <1>8 DEF Listed, InTree
    <2> QED BY <1>1, <1>6, <1>7, <1>8, <1>9, <2>1, <2>2 DEF Placed
<1>11. PoolInv'
    BY <1>6, <1>7, <1>10 DEF PoolInv
<1> QED BY <1>5, <1>11 DEF IInv

LEMMA ClearStep ==
    ASSUME IInv, NEW t \in Threads, Clear(t)
    PROVE  IInv'
<1>1. /\ taken' = taken \ tree[t] /\ tree' = [tree EXCEPT ![t] = {}]
      /\ UNCHANGED <<nr, nodes, parent, bitmap, given, ida, pin, th, failed>>
    BY DEF Clear, pool
<1>2. TypeOK' /\ PreloadSuffices'
    BY <1>1 DEF IInv, TypeOK, PreloadSuffices
<1>3. PlaceInv'
    BY <1>1 DEF IInv, PlaceInv, PlaceOf
<1>4. Len' = Len /\ \A m : InHand(m)' <=> InHand(m)
    BY <1>1 DEF Len, At1, InHand
<1>5. PICK s \in [1 .. Len -> Nodes] : Lists(s) /\ Placed(s)
    BY PoolList
<1>6. \A u \in Threads, m \in Nodes : m \in tree'[u] <=> m \in tree[u] /\ u # t
    BY <1>1, PoolList DEF PoolType
<1>7. Lists(s)' /\ \A m : Listed(s, m)' <=> Listed(s, m)
    BY <1>1, <1>4, <1>5 DEF Lists, Listed
<1>8. \A m \in Nodes : InTree(m)' <=> InTree(m) /\ m \notin tree[t]
    BY <1>5, <1>6 DEF InTree, Placed
<1>9. Placed(s)'
    BY <1>1, <1>4, <1>5, <1>6, <1>7, <1>8 DEF Placed, InTree
<1>10. PoolInv'
    BY <1>4, <1>5, <1>7, <1>9 DEF PoolInv
<1> QED BY <1>2, <1>3, <1>10 DEF IInv

\* radix_tree_cpu_dead empties the pool, and only the pool.
LEMMA CpuDeadStep ==
    ASSUME IInv, CpuDead
    PROVE  IInv'
<1>1. /\ pin = NULL /\ taken' = taken \ PooledSet /\ nr' = 0
      /\ nodes' = IF nr = 0 THEN nodes ELSE parent[Pooled[nr]]
      /\ UNCHANGED <<parent, tree, ida, pin, th, failed>> /\ BitmapType'
    BY DEF CpuDead, BitmapType, IInv, TypeOK
<1>2. /\ \A t \in Threads : th[t].pc \notin Pinned /\ th[t].node = NULL
      /\ Len = nr /\ TypeOK
    BY <1>1, QuietLen DEF IInv
<1>3. PICK s \in [1 .. Len -> Nodes] : Lists(s) /\ Placed(s)
    BY PoolList
<1>4. \A k \in 1 .. nr : Pooled[k] = s[k]
    BY <1>2, <1>3, PooledIs
<1>5. \A n : n \in PooledSet <=> Listed(s, n)
    BY <1>2, <1>4 DEF PooledSet, Listed
<1>6. nodes' \in Nodes \cup {NULL}
    <2>1. nr # 0 => nr \in 1 .. nr
        BY PoolList
    <2>2. nr # 0 => Pooled[nr] \in Nodes
        BY <1>2, <1>4, <2>1
    <2> QED BY <1>1, <2>2, PoolList DEF PoolType
<1>7. TypeOK' /\ PreloadSuffices'
    <2>1. nr' \in 0 .. RadixSize
        BY <1>1, SizeAssumption
    <2> QED BY <1>1, <1>6, <2>1 DEF IInv, TypeOK, BitmapType, PreloadSuffices
<1>8. PlaceInv'
    BY <1>1, <1>2 DEF IInv, PlaceInv, PlaceOf, Pinned, Handling
<1>9. Len' = 0 /\ (\A m : ~InHand(m)') /\ (\A m : ~InHand(m))
    BY <1>1, <1>2 DEF Len, At1, InHand, Pinned, Handling
<1>10. PICK r \in [1 .. 0 -> Nodes] : TRUE
    <2> DEFINE q == [k \in 1 .. 0 |-> s[k]]
    <2>1. q \in [1 .. 0 -> Nodes]
        OBVIOUS
    <2> QED BY <2>1
<1>11. Lists(r)' /\ \A m : ~Listed(r, m)'
    BY <1>9, <1>10 DEF Lists, Listed
<1>12. Placed(r)'
    BY <1>1, <1>3, <1>5, <1>9, <1>11 DEF Placed, InTree
<1>13. PoolInv'
    BY <1>9, <1>10, <1>11, <1>12 DEF PoolInv
<1> QED BY <1>7, <1>8, <1>13 DEF IInv

-----------------------------------------------------------------------------
(* The invariant of all steps.                                             *)

LEMMA InitHolds == Init => IInv
<1> SUFFICES ASSUME Init PROVE IInv
    OBVIOUS
<1>1. TypeOK
    <2>1. th \in [Threads -> Local]
        BY IdleType DEF Init
    <2>2. nr \in 0 .. RadixSize
        BY SizeAssumption DEF Init
    <2> QED BY <2>1, <2>2 DEF Init, TypeOK, Local
<1>2. PlaceInv
    BY NullAssumption DEF Init, PlaceInv, PlaceOf, Idle, Pinned, Handling
<1>3. Len = 0 /\ (\A m : ~InHand(m)) /\ (\A m : ~InTree(m))
    BY DEF Init, Len, At1, InHand, InTree, Idle, Handling
<1>4. PICK r \in [1 .. 0 -> Nodes] : TRUE
    <2> DEFINE q == [k \in 1 .. 0 |-> NULL]
    <2>1. q \in [1 .. 0 -> Nodes]
        OBVIOUS
    <2> QED BY <2>1
<1>5. Lists(r) /\ \A m : ~Listed(r, m)
    BY <1>3, <1>4 DEF Lists, Listed
<1>6. Placed(r)
    BY <1>3, <1>5 DEF Placed, Init
<1>7. PoolInv
    BY <1>3, <1>4, <1>5, <1>6 DEF PoolInv
<1> QED BY <1>1, <1>2, <1>7 DEF Init, IInv, PreloadSuffices

LEMMA NextHolds ==
    ASSUME IInv, Pinning = TRUE, [Next]_vars
    PROVE  IInv'
<1>1. CASE UNCHANGED vars
    <2>1. TypeOK' /\ PreloadSuffices'
        BY <1>1 DEF vars, pool, IInv, TypeOK, PreloadSuffices
    <2>2. PlaceInv'
        BY <1>1 DEF vars, pool, IInv, PlaceInv, PlaceOf
    <2>3. Len' = Len /\ \A n \in Nodes : InHand(n)' <=> InHand(n)
        BY <1>1 DEF vars, pool, Len, At1, InHand
    <2>4. PoolInv'
        BY <1>1, <2>3, PoolStays DEF vars, pool, IInv
    <2> QED BY <2>1, <2>2, <2>4 DEF IInv
<1>2. ASSUME NEW t \in Threads, NEW call \in {"radix", "idr", "ida"}, Preload(t, call)
      PROVE  IInv'
    BY <1>2, PreloadStep
<1>3. ASSUME NEW t \in Threads,
             \/ PreloadCheck(t) \/ PreloadAlloc(t) \/ PreloadFails(t) \/ PreloadRecheck(t)
             \/ PreloadLink(t) \/ PreloadPush(t) \/ PreloadCount(t)
      PROVE  IInv'
    BY <1>3, PreloadCheckStep, PreloadAllocStep, PreloadFailsStep, PreloadRecheckStep,
       PreloadLinkStep, PreloadPushStep, PreloadCountStep
<1>4. ASSUME NEW t \in Threads,
             \/ InsertUnloaded(t) \/ AllocNode(t) \/ AllocFails(t) \/ PoolPop(t)
             \/ PoolUncount(t) \/ InsertEnd(t) \/ Clear(t)
      PROVE  IInv'
    BY <1>4, InsertUnloadedStep, AllocNodeStep, AllocFailsStep, PoolPopStep,
       PoolUncountStep, InsertEndStep, ClearStep
<1>5. ASSUME NEW t \in Threads, BitmapCheck(t) \/ BitmapAlloc(t) \/ BitmapSwap(t)
      PROVE  IInv'
    BY <1>5, BitmapStepsOf
<1> QED BY <1>1, <1>2, <1>3, <1>4, <1>5, IdaStep, CpuDeadStep DEF Next

\* The inductive invariant holds while preempt_disable does what its name says.
THEOREM PoolHolds ==
    ASSUME Pinning = TRUE
    PROVE  Spec => []IInv
<1>1. IInv /\ [Next]_vars => IInv'
    BY NextHolds
<1> QED BY InitHolds, <1>1, PTL DEF Spec

\* Every variable of the pool, the allocator and the threads stays in its domain,
\* nr within the largest preload (radix-tree.c:392-422).
THEOREM TypeCorrect ==
    ASSUME Pinning = TRUE
    PROVE  Spec => []TypeOK
<1>1. IInv => TypeOK
    BY DEF IInv
<1> QED BY PoolHolds, <1>1, PTL

\* An insertion after a successful preload finds the nodes it needs
\* (radix-tree.c:424-436), whatever the other threads of the CPU do.
THEOREM PreloadCorrect ==
    ASSUME Pinning = TRUE
    PROVE  Spec => []PreloadSuffices
<1>1. IInv => PreloadSuffices
    BY DEF IInv
<1> QED BY PoolHolds, <1>1, PTL

\* No node is lost or in two places: the chain, of exactly nr nodes, the trees and
\* what threads hold share out what the allocator gave.
THEOREM NodesCorrect ==
    ASSUME Pinning = TRUE
    PROVE  Spec => []NodesAccounted
BY PoolHolds, Accounted, PTL

-----------------------------------------------------------------------------
(* The reserved bitmap.                                                    *)

\* A bitmap is in one place: reserved, in use, or with the one thread that is about
\* to install it.
BitmapPlaces ==
    /\ \A t \in Threads : /\ th[t].bm # NULL <=> th[t].pc = "swap"
                          /\ th[t].bm # NULL => th[t].bm \notin ida /\ th[t].bm # bitmap
    /\ \A t, u \in Threads : th[t].bm # NULL /\ t # u => th[t].bm # th[u].bm

BitmapInv == IInv /\ BitmapPlaces /\ BitmapReserved

\* A step that has nothing to do with bitmaps.
LEMMA BitmapStays ==
    ASSUME BitmapInv, IInv', UNCHANGED <<bitmap, given, ida>>,
           \A t \in Threads : /\ th'[t].bm = th[t].bm
                              /\ th'[t].pc = "swap" <=> th[t].pc = "swap"
    PROVE  BitmapInv'
BY DEF BitmapInv, BitmapPlaces, BitmapReserved

LEMMA BitmapStaysAt ==
    ASSUME BitmapInv, IInv', NEW t \in Threads, NEW l, Goto(t, l),
           UNCHANGED <<bitmap, given, ida>>, th[t].pc # "swap", l.pc # "swap", l.bm = th[t].bm
    PROVE  BitmapInv'
<1>1. th'[t] = l /\ \A u \in Threads \ {t} : th'[u] = th[u]
    BY DEF BitmapInv, IInv, TypeOK, Goto
<1> QED BY <1>1, BitmapStays

LEMMA BitmapElsewhere ==
    ASSUME BitmapInv, IInv', NEW t \in Threads,
           \/ \E call \in {"radix", "idr", "ida"} : Preload(t, call)
           \/ PreloadCheck(t) \/ PreloadAlloc(t) \/ PreloadFails(t) \/ PreloadRecheck(t)
           \/ PreloadLink(t) \/ PreloadPush(t) \/ PreloadCount(t)
           \/ InsertUnloaded(t) \/ AllocNode(t) \/ AllocFails(t) \/ PoolPop(t)
           \/ PoolUncount(t) \/ InsertEnd(t) \/ BitmapCheck(t)
    PROVE  BitmapInv'
<1>1. /\ th[t] \in Local
      /\ th[t].pc # "swap" => th[t].bm = NULL
    BY DEF BitmapInv, BitmapPlaces, IInv, TypeOK, Local
<1>2. Idle.bm = NULL /\ Idle.pc # "swap" /\ Idle \in Local
    BY IdleType DEF Idle
<1>3. UNCHANGED <<bitmap, given, ida>> /\ th[t].pc # "swap"
    BY DEF Preload, PreloadCheck, PreloadAlloc, PreloadFails, PreloadRecheck, PreloadLink,
           PreloadPush, PreloadCount, InsertUnloaded, AllocNode, AllocFails, PoolPop,
           PoolUncount, InsertEnd, BitmapCheck, At
<1> DEFINE Kept == th'[t].pc # "swap" /\ th'[t].bm = NULL
<1>4. th \in [Threads -> Local] /\ th[t].bm = NULL
    BY <1>1, <1>3 DEF BitmapInv, IInv, TypeOK, Local
<1>5. ASSUME NEW sure, Loaded(t, sure) PROVE Kept
    <2>1. CASE th[t].call = "ida"
        BY <1>4, <1>5, <2>1 DEF Loaded, Goto, Local
    <2>2. CASE th[t].call # "ida"
        <3>1. PICK k \in 0 .. th[t].nr :
                  Goto(t, [th[t] EXCEPT !.pc = "insert", !.need = k, !.sure = sure])
            BY <1>5, <2>2 DEF Loaded
        <3> QED BY <1>4, <3>1 DEF Goto, Local
    <2> QED BY <2>1, <2>2
<1>6. Kept
    <2>1. CASE \E call \in {"radix", "idr", "ida"} : Preload(t, call)
        BY <1>2, <1>3, <1>4, <2>1 DEF Preload, Goto, Local
    <2>2. CASE InsertUnloaded(t)
        BY <1>2, <1>3, <1>4, <2>2 DEF InsertUnloaded, Goto, Local
    <2>3. CASE InsertEnd(t)
        BY <1>2, <1>3, <1>4, <2>3 DEF InsertEnd, Goto, Local
    <2>4. CASE BitmapCheck(t)
        <3>1. CASE bitmap # NULL
            BY <1>2, <1>4, <2>4, <3>1 DEF BitmapCheck, Goto, Local
        <3>2. CASE bitmap = NULL
            BY <1>3, <1>4, <2>4, <3>2 DEF BitmapCheck, Goto, Local
        <3> QED BY <3>1, <3>2
    <2>5. CASE PreloadCheck(t)
        <3>1. CASE nr < th[t].nr
            BY <1>3, <1>4, <2>5, <3>1 DEF PreloadCheck, Goto, Local
        <3>2. CASE ~(nr < th[t].nr)
            BY <1>5, <2>5, <3>2 DEF PreloadCheck
        <3> QED BY <3>1, <3>2
    <2>6. CASE PreloadFails(t)
        <3>1. CASE th[t].call = "radix"
            BY <1>2, <1>4, <2>6, <3>1 DEF PreloadFails, Goto, Local
        <3>2. CASE th[t].call # "radix"
            BY <1>5, <2>6, <3>2 DEF PreloadFails
        <3> QED BY <3>1, <3>2
    <2>7. CASE PreloadAlloc(t)
        <3>1. PICK n \in Nodes : Goto(t, [th[t] EXCEPT !.pc = "recheck", !.node = n])
            BY <2>7 DEF PreloadAlloc
        <3> QED BY <1>4, <3>1 DEF Goto, Local
    <2>8. CASE PreloadRecheck(t)
        <3>1. CASE nr < th[t].nr
            BY <1>4, <2>8, <3>1 DEF PreloadRecheck, Goto, Local
        <3>2. CASE ~(nr < th[t].nr)
            BY <1>4, <2>8, <3>2 DEF PreloadRecheck, Goto, Local
        <3> QED BY <3>1, <3>2
    <2>9. CASE PreloadLink(t)
        BY <1>2, <1>3, <1>4, <2>9 DEF PreloadLink, Goto, Local
    <2>10. CASE PreloadPush(t)
        BY <1>2, <1>3, <1>4, <2>10 DEF PreloadPush, Goto, Local
    <2>11. CASE PreloadCount(t)
        BY <1>2, <1>3, <1>4, <2>11 DEF PreloadCount, Goto, Local
    <2>12. CASE AllocNode(t)
        <3>1. PICK n \in Nodes : Grown(t, n, th[t])
            BY <2>12 DEF AllocNode
        <3> QED BY <1>4, <3>1 DEF Grown, Goto, Local
    <2>13. CASE AllocFails(t)
        <3>1. CASE nr # 0
            BY <1>4, <2>13, <3>1 DEF AllocFails, Goto, Local
        <3>2. CASE nr = 0
            BY <1>3, <1>4, <2>13, <3>2 DEF AllocFails, Goto, Local
        <3> QED BY <3>1, <3>2
    <2>14. CASE PoolPop(t)
        BY <1>2, <1>3, <1>4, <2>14 DEF PoolPop, Goto, Local
    <2>15. CASE PoolUncount(t)
        BY <1>2, <1>3, <1>4, <2>15 DEF PoolUncount, Grown, Goto, Local
    <2> QED BY <2>1, <2>2, <2>3, <2>4, <2>5, <2>6, <2>7, <2>8,
               <2>9, <2>10, <2>11, <2>12, <2>13, <2>14, <2>15
<1>7. \A u \in Threads \ {t} : th'[u] = th[u]
    BY <1>4 DEF Preload, PreloadCheck, PreloadAlloc, PreloadFails, PreloadRecheck, PreloadLink,
                PreloadPush, PreloadCount, InsertUnloaded, AllocNode, AllocFails, PoolPop,
                PoolUncount, InsertEnd, BitmapCheck, Loaded, Grown, Goto
<1> QED BY <1>3, <1>4, <1>6, <1>7, BitmapStays

\* BitmapReserved, bitmap by bitmap.
LEMMA ReservedIs ==
    BitmapReserved <=>
      /\ bitmap # NULL => bitmap \in given
      /\ bitmap \notin ida
      /\ \A c : c \in given <=> \/ c \in ida
                                \/ c # NULL /\ (c = bitmap \/ \E u \in Threads : th[u].bm = c)
BY DEF BitmapReserved

LEMMA BitmapAllocKeeps ==
    ASSUME BitmapInv, IInv', NEW t \in Threads, BitmapAlloc(t)
    PROVE  BitmapInv'
<1>1. /\ th[t] \in Local /\ th[t].bm = NULL /\ th[t].pc = "reserve"
      /\ UNCHANGED <<bitmap, ida>>
    BY DEF BitmapAlloc, At, BitmapInv, BitmapPlaces, IInv, TypeOK, Local
<1>2. CASE Goto(t, Idle) /\ given' = given
    <2>1. Idle.bm = NULL /\ Idle.pc # "swap"
        BY DEF Idle
    <2> QED BY <1>1, <1>2, <2>1, BitmapStaysAt
<1>3. ASSUME NEW b \in Bitmaps \ given, given' = given \cup {b},
             Goto(t, [th[t] EXCEPT !.pc = "swap", !.bm = b])
      PROVE  BitmapInv'
    <2>1. /\ th'[t].bm = b /\ th'[t].pc = "swap" /\ b # NULL
          /\ \A u \in Threads \ {t} : th'[u] = th[u]
        BY <1>1, <1>3, NullAssumption DEF BitmapInv, IInv, TypeOK, Goto, Local
    <2>2. b # bitmap /\ b \notin ida /\ \A u \in Threads : th[u].bm # b
        BY <2>1, NullAssumption DEF BitmapInv, BitmapReserved
    <2>3. BitmapPlaces'
        BY <1>1, <2>1, <2>2 DEF BitmapInv, BitmapPlaces
    <2>4. \A c : (\E u \in Threads : th'[u].bm = c /\ c # NULL)
                   <=> c = b \/ \E u \in Threads : th[u].bm = c /\ c # NULL
        BY <1>1, <2>1
    <2>5. \A c : c \in given' <=>
            \/ c \in ida'
            \/ c # NULL /\ (c = bitmap' \/ \E u \in Threads : th'[u].bm = c)
        BY <1>1, <1>3, <2>1, <2>2, <2>4, ReservedIs DEF BitmapInv
    <2>6. BitmapReserved'
        BY <1>1, <1>3, <2>2, <2>5 DEF BitmapInv, BitmapReserved
    <2> QED BY <2>3, <2>6 DEF BitmapInv
<1> QED BY <1>2, <1>3 DEF BitmapAlloc

\* The bitmap installed, or freed because another one was installed meanwhile.
LEMMA BitmapSwapKeeps ==
    ASSUME BitmapInv, IInv', SwapReturnsOld = TRUE, NEW t \in Threads, BitmapSwap(t)
    PROVE  BitmapInv'
<1> DEFINE b == th[t].bm
<1>1. /\ b # NULL /\ b # bitmap /\ b \notin ida /\ ida' = ida
      /\ bitmap' = IF bitmap = NULL THEN b ELSE bitmap
      /\ given' = IF bitmap # NULL THEN given \ {b} ELSE given
    BY DEF BitmapSwap, At, BitmapInv, BitmapPlaces, SwapResult
<1>2. /\ th'[t].bm = NULL /\ th'[t].pc = "idle"
      /\ \A u \in Threads \ {t} : th'[u] = th[u] /\ th[u].bm # b
    BY <1>1 DEF BitmapSwap, Goto, Idle, BitmapInv, BitmapPlaces, IInv, TypeOK
<1>3. BitmapPlaces'
    BY <1>1, <1>2 DEF BitmapInv, BitmapPlaces
<1>4. \A c : (\E u \in Threads : th'[u].bm = c /\ c # NULL)
               <=> c # b /\ \E u \in Threads : th[u].bm = c /\ c # NULL
    BY <1>1, <1>2
<1>5. \A c : c \in given' <=>
        \/ c \in ida'
        \/ c # NULL /\ (c = bitmap' \/ \E u \in Threads : th'[u].bm = c)
    BY <1>1, <1>4, ReservedIs DEF BitmapInv
<1>6. BitmapReserved'
    BY <1>1, <1>5, ReservedIs DEF BitmapInv, BitmapReserved
<1> QED BY <1>3, <1>6 DEF BitmapInv

LEMMA IdaKeeps ==
    ASSUME BitmapInv, IInv',
           \/ \E t \in Threads : BitmapTake(t)
           \/ \E b \in Bitmaps : BitmapFree(b)
           \/ CpuDead
    PROVE  BitmapInv'
<1>1. th' = th /\ NULL \notin given /\ NULL \notin ida
    BY NullAssumption DEF BitmapTake, BitmapFree, CpuDead, BitmapInv, IInv, TypeOK
<1>2. CASE \E t \in Threads : BitmapTake(t)
    BY <1>1, <1>2 DEF BitmapTake, BitmapInv, BitmapPlaces, BitmapReserved
<1>3. CASE \E b \in Bitmaps : BitmapFree(b)
    BY <1>1, <1>3 DEF BitmapFree, BitmapInv, BitmapPlaces, BitmapReserved
<1>4. CASE CpuDead
    BY <1>1, <1>4 DEF CpuDead, BitmapInv, BitmapPlaces, BitmapReserved
<1> QED BY <1>2, <1>3, <1>4

LEMMA BitmapNext ==
    ASSUME BitmapInv, Pinning = TRUE, SwapReturnsOld = TRUE, [Next]_vars
    PROVE  BitmapInv'
<1>1. IInv'
    BY NextHolds DEF BitmapInv
<1>2. CASE UNCHANGED vars
    BY <1>1, <1>2, BitmapStays DEF vars
<1>3. ASSUME NEW t \in Threads, Clear(t) PROVE BitmapInv'
    BY <1>1, <1>3, BitmapStays DEF Clear
<1> QED BY <1>1, <1>2, <1>3, BitmapElsewhere, BitmapAllocKeeps, BitmapSwapKeeps, IdaKeeps
        DEF Next

\* The reserved bitmap is allocated memory that is not in use, and none is forgotten
\* (ida_pre_get, radix-tree.c:2147-2153), with a this_cpu_cmpxchg that returns what
\* was there before.
THEOREM BitmapCorrect ==
    ASSUME Pinning = TRUE, SwapReturnsOld = TRUE
    PROVE  Spec => []BitmapReserved
<1>1. Init => BitmapInv
    <2>1. Init => BitmapPlaces /\ BitmapReserved
        BY DEF Init, Idle, BitmapPlaces, BitmapReserved
    <2> QED BY <2>1, InitHolds DEF BitmapInv
<1>2. BitmapInv /\ [Next]_vars => BitmapInv'
    BY BitmapNext
<1>3. BitmapInv => BitmapReserved
    BY DEF BitmapInv
<1> QED BY <1>1, <1>2, <1>3, PTL DEF Spec
=============================================================================
