------------------------------ MODULE RadixPool -----------------------------
(***************************************************************************)
(* The pool of preloaded radix tree nodes and the reserved IDA bitmap of   *)
(* one CPU, shared by the threads that run there: __radix_tree_preload and *)
(* its callers fill the pool, radix_tree_node_alloc takes from it when the *)
(* allocator fails, ida_pre_get reserves a bitmap.  One access to shared   *)
(* memory per step; preempt_disable keeps the other threads off the CPU,   *)
(* if it does anything.  Each thread inserts into a tree of its own.       *)
(***************************************************************************)
EXTENDS Integers

CONSTANTS
    Threads,
    Nodes,      \* addresses the node cache can hand out
    Bitmaps,    \* addresses kmalloc can hand out for a struct ida_bitmap
    NULL,
    RadixSize,  \* RADIX_TREE_PRELOAD_SIZE
    IdrSize,    \* IDR_PRELOAD_SIZE
    IdaSize,    \* IDA_PRELOAD_SIZE
    Pinning,    \* does preempt_disable keep other threads off the CPU
    SwapReturnsOld \* this_cpu_cmpxchg returns what was there, or "swapped"

ASSUME SizeAssumption ==
    /\ RadixSize \in Nat /\ IdrSize \in 0 .. RadixSize /\ IdaSize \in 0 .. RadixSize
ASSUME NullAssumption == NULL \notin Threads \cup Nodes \cup Bitmaps
ASSUME SwitchAssumption == Pinning \in BOOLEAN /\ SwapReturnsOld \in BOOLEAN

VARIABLES
    nr,      \* radix_tree_preloads.nr
    nodes,   \* radix_tree_preloads.nodes: the first pooled node
    parent,  \* every node's parent field, the pool's links
    taken,   \* the nodes the allocator has handed out
    tree,    \* the nodes in each thread's tree
    bitmap,  \* the CPU's ida_bitmap
    given,   \* the bitmaps kmalloc has handed out
    ida,     \* the bitmaps in use by an ida
    pin,     \* the thread that disabled preemption
    th,      \* the threads' place and local variables
    failed   \* history: an insertion failed after a successful preload

pool == <<nr, nodes, parent>>
vars == <<nr, nodes, parent, taken, tree, bitmap, given, ida, pin, th, failed>>

-----------------------------------------------------------------------------
\* What a thread is doing, and for how many nodes; sure: its preload succeeded.
Idle == [pc |-> "idle", call |-> "radix", nr |-> 0, need |-> 0, node |-> NULL,
         count |-> 0, sure |-> FALSE, bm |-> NULL]
Size == [radix |-> RadixSize, idr |-> IdrSize, ida |-> IdaSize]

Runs(t) == pin \in {NULL, t}
At(t, pc) == th[t].pc = pc /\ Runs(t)
Goto(t, l) == th' = [th EXCEPT ![t] = l]

\* Mutant: preempt_disable does nothing.
DisableNothing(t) == UNCHANGED pin

PreemptDisable(t) == pin' = IF Pinning THEN t ELSE NULL
PreemptEnable == pin' = NULL

-----------------------------------------------------------------------------
(* __radix_tree_preload, called as radix_tree_preload, idr_preload or by   *)
(* ida_pre_get.                                                            *)

Preload(t, call) ==
    /\ At(t, "idle")
    /\ PreemptDisable(t)
    /\ Goto(t, [Idle EXCEPT !.pc = "check", !.call = call, !.nr = Size[call]])
    /\ UNCHANGED <<pool, taken, tree, bitmap, given, ida, failed>>

\* After a preload: ida_pre_get enables preemption and goes on to its bitmap;
\* the others insert with preemption disabled, up to as many nodes as they asked for.
Loaded(t, sure) ==
    IF th[t].call = "ida"
    THEN PreemptEnable /\ Goto(t, [th[t] EXCEPT !.pc = "bitmap", !.sure = sure])
    ELSE /\ PreemptDisable(t)
         /\ \E k \in 0 .. th[t].nr :
              Goto(t, [th[t] EXCEPT !.pc = "insert", !.need = k, !.sure = sure])

PreloadCheck(t) ==
    /\ At(t, "check")
    /\ IF nr < th[t].nr
       THEN PreemptEnable /\ Goto(t, [th[t] EXCEPT !.pc = "alloc"])
       ELSE Loaded(t, TRUE)
    /\ UNCHANGED <<pool, taken, tree, bitmap, given, ida, failed>>

PreloadAlloc(t) ==
    /\ At(t, "alloc")
    /\ \E n \in Nodes \ taken :
         /\ taken' = taken \cup {n}
         /\ Goto(t, [th[t] EXCEPT !.pc = "recheck", !.node = n])
    /\ PreemptDisable(t)
    /\ UNCHANGED <<pool, tree, bitmap, given, ida, failed>>

\* -ENOMEM: radix_tree_preload's caller gives up, the others go on all the same.
PreloadFails(t) ==
    /\ At(t, "alloc")
    /\ IF th[t].call = "radix"
       THEN Goto(t, Idle) /\ UNCHANGED pin
       ELSE Loaded(t, FALSE)
    /\ UNCHANGED <<pool, taken, tree, bitmap, given, ida, failed>>

\* Mutant: the pool is not looked at again.
PreloadNoRecheck(t) ==
    /\ At(t, "recheck")
    /\ Goto(t, [th[t] EXCEPT !.pc = "link"])
    /\ UNCHANGED <<pool, taken, tree, bitmap, given, ida, pin, failed>>

PreloadRecheck(t) ==
    /\ At(t, "recheck")
    /\ IF nr < th[t].nr
       THEN Goto(t, [th[t] EXCEPT !.pc = "link"]) /\ UNCHANGED taken
       ELSE /\ Goto(t, [th[t] EXCEPT !.pc = "check", !.node = NULL])
            /\ taken' = taken \ {th[t].node}
    /\ UNCHANGED <<pool, tree, bitmap, given, ida, pin, failed>>

PreloadLink(t) ==
    /\ At(t, "link")
    /\ parent' = [parent EXCEPT ![th[t].node] = nodes]
    /\ Goto(t, [th[t] EXCEPT !.pc = "push"])
    /\ UNCHANGED <<nr, nodes, taken, tree, bitmap, given, ida, pin, failed>>

PreloadPush(t) ==
    /\ At(t, "push")
    /\ nodes' = th[t].node
    /\ Goto(t, [th[t] EXCEPT !.pc = "count", !.count = nr, !.node = NULL])
    /\ UNCHANGED <<nr, parent, taken, tree, bitmap, given, ida, pin, failed>>

PreloadCount(t) ==
    /\ At(t, "count")
    /\ nr' = th[t].count + 1
    /\ Goto(t, [th[t] EXCEPT !.pc = "check"])
    /\ UNCHANGED <<nodes, parent, taken, tree, bitmap, given, ida, pin, failed>>

-----------------------------------------------------------------------------
(* Inserting: radix_tree_node_alloc for a tree whose mask does not block.  *)

\* radix_tree_maybe_preload with a mask that does not block: no preload at all.
InsertUnloaded(t) ==
    /\ At(t, "idle")
    /\ PreemptDisable(t)
    /\ \E k \in 0 .. RadixSize : Goto(t, [Idle EXCEPT !.pc = "insert", !.need = k])
    /\ UNCHANGED <<pool, taken, tree, bitmap, given, ida, failed>>

\* The new node goes into the tree.
Grown(t, n, l) ==
    /\ tree' = [tree EXCEPT ![t] = @ \cup {n}]
    /\ Goto(t, [l EXCEPT !.pc = "insert", !.need = @ - 1, !.node = NULL])

AllocNode(t) ==
    /\ At(t, "insert")
    /\ th[t].need > 0
    /\ \E n \in Nodes \ taken : taken' = taken \cup {n} /\ Grown(t, n, th[t])
    /\ UNCHANGED <<pool, bitmap, given, ida, pin, failed>>

\* The allocator has nothing; is there anything in the pool?
AllocFails(t) ==
    /\ At(t, "insert")
    /\ th[t].need > 0
    /\ IF nr # 0
       THEN /\ Goto(t, [th[t] EXCEPT !.pc = "pop", !.node = nodes])
            /\ UNCHANGED failed
       ELSE /\ Goto(t, [th[t] EXCEPT !.need = 0])
            /\ failed' = (failed \/ th[t].sure)
    /\ UNCHANGED <<pool, taken, tree, bitmap, given, ida, pin>>

\* Mutant: the node taken stays at the head of the pool.
PoolKept(t) ==
    /\ At(t, "pop")
    /\ Goto(t, [th[t] EXCEPT !.pc = "uncount", !.count = nr])
    /\ UNCHANGED <<nr, nodes, parent, taken, tree, bitmap, given, ida, pin, failed>>

PoolPop(t) ==
    /\ At(t, "pop")
    /\ nodes' = parent[th[t].node]
    /\ Goto(t, [th[t] EXCEPT !.pc = "uncount", !.count = nr])
    /\ UNCHANGED <<nr, parent, taken, tree, bitmap, given, ida, pin, failed>>

PoolUncount(t) ==
    /\ At(t, "uncount")
    /\ nr' = th[t].count - 1
    /\ Grown(t, th[t].node, th[t])
    /\ UNCHANGED <<nodes, parent, taken, bitmap, given, ida, pin, failed>>

\* The insertion is over; radix_tree_preload_end or idr_preload_end.
InsertEnd(t) ==
    /\ At(t, "insert")
    /\ th[t].need = 0
    /\ PreemptEnable
    /\ Goto(t, Idle)
    /\ UNCHANGED <<pool, taken, tree, bitmap, given, ida, failed>>

\* The thread empties its tree.
Clear(t) ==
    /\ At(t, "idle")
    /\ tree[t] # {}
    /\ taken' = taken \ tree[t]
    /\ tree' = [tree EXCEPT ![t] = {}]
    /\ UNCHANGED <<pool, bitmap, given, ida, pin, th, failed>>

-----------------------------------------------------------------------------
(* ida_pre_get, once the nodes are preloaded.                              *)

BitmapCheck(t) ==
    /\ At(t, "bitmap")
    /\ Goto(t, IF bitmap # NULL THEN Idle ELSE [th[t] EXCEPT !.pc = "reserve"])
    /\ UNCHANGED <<pool, taken, tree, bitmap, given, ida, pin, failed>>

BitmapAlloc(t) ==
    /\ At(t, "reserve")
    /\ \/ \E b \in Bitmaps \ given :
            /\ given' = given \cup {b}
            /\ Goto(t, [th[t] EXCEPT !.pc = "swap", !.bm = b])
       \/ Goto(t, Idle) /\ UNCHANGED given
    /\ UNCHANGED <<pool, taken, tree, bitmap, ida, pin, failed>>

\* this_cpu_cmpxchg(ida_bitmap, NULL, bitmap): one atomic step in either form.
SwapResult == IF SwapReturnsOld THEN bitmap # NULL ELSE bitmap = NULL

\* Mutant: the bitmap that was not needed is forgotten.
BitmapForgotten(t) ==
    /\ At(t, "swap")
    /\ bitmap' = IF bitmap = NULL THEN th[t].bm ELSE bitmap
    /\ Goto(t, Idle)
    /\ UNCHANGED <<pool, taken, tree, given, ida, pin, failed>>

BitmapSwap(t) ==
    /\ At(t, "swap")
    /\ bitmap' = IF bitmap = NULL THEN th[t].bm ELSE bitmap
    /\ given' = IF SwapResult THEN given \ {th[t].bm} ELSE given
    /\ Goto(t, Idle)
    /\ UNCHANGED <<pool, taken, tree, ida, pin, failed>>

\* ida_get_new_above takes the reserved bitmap, ida_remove frees one.
BitmapTake(t) ==
    /\ At(t, "idle")
    /\ bitmap # NULL
    /\ ida' = ida \cup {bitmap}
    /\ bitmap' = NULL
    /\ UNCHANGED <<pool, taken, tree, given, pin, th, failed>>

BitmapFree(b) ==
    /\ b \in ida
    /\ ida' = ida \ {b}
    /\ given' = given \ {b}
    /\ UNCHANGED <<pool, taken, tree, bitmap, pin, th, failed>>

-----------------------------------------------------------------------------
(* radix_tree_cpu_dead, run for a CPU on which nothing runs any more: the  *)
(* threads that were preempted there go on elsewhere.                      *)

\* The pooled nodes, from the first on, as the loops that empty the pool see them.
Pooled == CHOOSE s \in [1 .. nr -> Nodes \cup {NULL}] :
    \A k \in 1 .. nr : s[k] = IF k = 1 THEN nodes
                              ELSE IF s[k - 1] = NULL THEN NULL ELSE parent[s[k - 1]]
PooledSet == {Pooled[k] : k \in 1 .. nr}

\* Mutant: the count is lowered as it is tested, once too often.
CpuDeadPastZero ==
    /\ pin = NULL
    /\ taken' = taken \ PooledSet
    /\ nr' = -1
    /\ nodes' = IF nr = 0 THEN nodes ELSE parent[Pooled[nr]]
    /\ given' = given \ {bitmap}
    /\ bitmap' = NULL
    /\ UNCHANGED <<parent, tree, ida, pin, th, failed>>

CpuDead ==
    /\ pin = NULL
    /\ taken' = taken \ PooledSet
    /\ nr' = 0
    /\ nodes' = IF nr = 0 THEN nodes ELSE parent[Pooled[nr]]
    /\ given' = given \ {bitmap}
    /\ bitmap' = NULL
    /\ UNCHANGED <<parent, tree, ida, pin, th, failed>>

-----------------------------------------------------------------------------
Init == /\ nr = 0
        /\ nodes = NULL
        /\ parent = [n \in Nodes |-> NULL]
        /\ taken = {}
        /\ tree = [t \in Threads |-> {}]
        /\ bitmap = NULL
        /\ given = {}
        /\ ida = {}
        /\ pin = NULL
        /\ th = [t \in Threads |-> Idle]
        /\ failed = FALSE

Next == \/ \E t \in Threads :
             \/ (\E call \in {"radix", "idr", "ida"} : Preload(t, call))
             \/ PreloadCheck(t) \/ PreloadAlloc(t) \/ PreloadFails(t) \/ PreloadRecheck(t)
             \/ PreloadLink(t) \/ PreloadPush(t) \/ PreloadCount(t)
             \/ InsertUnloaded(t) \/ AllocNode(t) \/ AllocFails(t) \/ PoolPop(t)
             \/ PoolUncount(t) \/ InsertEnd(t) \/ Clear(t)
             \/ BitmapCheck(t) \/ BitmapAlloc(t) \/ BitmapSwap(t) \/ BitmapTake(t)
        \/ \E b \in Bitmaps : BitmapFree(b)
        \/ CpuDead

Spec == Init /\ [][Next]_vars

-----------------------------------------------------------------------------
(* What is checked.                                                        *)

Places == {"idle", "check", "alloc", "recheck", "link", "push", "count", "insert",
           "pop", "uncount", "bitmap", "reserve", "swap"}

\* Every variable stays in its domain; the pool never grows past what the largest
\* preload asks for.
TypeOK ==
    /\ nr \in 0 .. RadixSize /\ nodes \in Nodes \cup {NULL}
    /\ parent \in [Nodes -> Nodes \cup {NULL}]
    /\ taken \in SUBSET Nodes /\ tree \in [Threads -> SUBSET Nodes]
    /\ bitmap \in Bitmaps \cup {NULL} /\ given \in SUBSET Bitmaps /\ ida \in SUBSET Bitmaps
    /\ pin \in Threads \cup {NULL}
    /\ th \in [Threads -> [pc : Places, call : {"radix", "idr", "ida"}, nr : 0 .. RadixSize,
                           need : 0 .. RadixSize, node : Nodes \cup {NULL}, count : Nat,
                           sure : BOOLEAN, bm : Bitmaps \cup {NULL}]]
    /\ failed \in BOOLEAN

\* An insertion that follows a successful preload has the nodes it needs even if
\* the allocator has none left ("the addition of a single element in the tree
\* cannot fail"), whatever the other threads took and filled meanwhile.
PreloadSuffices == ~failed

\* Whenever preemption is enabled the pool counts its nodes right, and every
\* node handed out is in one place: the pool, one tree, or one thread's hand.
Hand(t) == IF th[t].node = NULL THEN {} ELSE {th[t].node}
NodesAccounted ==
    pin = NULL =>
      LET places == {PooledSet} \cup {tree[t] : t \in Threads}
                                \cup {Hand(t) : t \in Threads}
      IN  /\ NULL \notin PooledSet
          /\ \A j, k \in 1 .. nr : Pooled[j] = Pooled[k] => j = k
          /\ taken = UNION places
          /\ \A t \in Threads :
               /\ Hand(t) \cap (PooledSet \cup UNION {tree[u] : u \in Threads}) = {}
               /\ tree[t] \cap PooledSet = {}
               /\ \A u \in Threads \ {t} : tree[t] \cap tree[u] = {}

\* The reserved bitmap is allocated memory, and no bitmap is forgotten: each one
\* handed out is reserved, in use, or about to be installed by one thread.
BitmapReserved ==
    /\ bitmap # NULL => bitmap \in given
    /\ bitmap \notin ida
    /\ given = ida \cup (({bitmap} \cup {th[t].bm : t \in Threads}) \ {NULL})
=============================================================================
