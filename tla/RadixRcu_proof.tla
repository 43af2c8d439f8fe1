--------------------------- MODULE RadixRcu_proof ----------------------------
(***************************************************************************)
(* With the kernel's call_rcu, which waits for the readers, no lockless    *)
(* lookup ever stands on memory that was given back, and each returns an   *)
(* entry that its index held while it ran, for every number of readers and *)
(* whatever the writer does meanwhile. A grace period covers one node; the *)
(* walk through it is safe because what hangs below a node that was        *)
(* unlinked cannot be freed before that node is, and right because such a  *)
(* node leads back into the tree, to what the index held, or to RETRY.     *)
(***************************************************************************)
EXTENDS RadixMap_proof

-----------------------------------------------------------------------------
(* The invariant.                                                          *)

\* Node n is not freed before reader r leaves its section.
Held(r, n) == heap[n] = "live" \/ (heap[n] = "rcu" /\ r \in grace[n])

\* A reader stands on a node it holds; grace periods wait for active readers
\* only; who holds an unlinked node holds what its slots lead to.
RcuInv ==
    /\ \A r \in Readers : rd[r].ent \in Nodes => InSection(r) /\ Held(r, rd[r].ent)
    /\ \A n \in Nodes, r \in Readers : r \in grace[n] => InSection(r)
    /\ \A n \in Nodes, r \in Readers, o \in Slots :
         heap[n] = "rcu" /\ r \in grace[n] /\ node[n].slots[o] \in Nodes
           => Held(r, node[n].slots[o])

-----------------------------------------------------------------------------
(* What a step of the writer may do to a node.                             *)

KeptNode(n) ==
    /\ heap'[n] = heap[n] /\ grace'[n] = grace[n]
    /\ heap[n] = "rcu" => node'[n].slots = node[n].slots

AllocatedNode(n) == heap[n] = "free" /\ heap'[n] = "live" /\ grace'[n] = grace[n]

RetiredNode(n) ==
    /\ heap[n] = "live" /\ heap'[n] = "rcu"
    /\ grace'[n] = {r \in Readers : InSection(r)}
    /\ \A o \in Slots : node'[n].slots[o] \in Nodes => heap'[node'[n].slots[o]] = "live"

WriterMoves == \A n \in Nodes : KeptNode(n) \/ AllocatedNode(n) \/ RetiredNode(n)

\* What an active reader holds stays held.
LEMMA HeldStays ==
    ASSUME WriterMoves, NEW r \in Readers, InSection(r), NEW n \in Nodes, Held(r, n)
    PROVE  Held(r, n)'
BY DEF Held, WriterMoves, KeptNode, AllocatedNode, RetiredNode

LEMMA MovesKeepReaders ==
    ASSUME RcuInv, TypeOK, WriterMoves, rd' = rd PROVE RcuInv'
<1>1. ASSUME NEW r \in Readers, NEW n \in Nodes, InSection(r), Held(r, n)
      PROVE  Held(r, n)'
    BY <1>1, HeldStays
<1>2. \A r \in Readers : InSection(r)' <=> InSection(r)
    BY DEF InSection
<1>3. \A r \in Readers : rd'[r].ent \in Nodes => InSection(r)' /\ Held(r, rd[r].ent)'
    <2> SUFFICES ASSUME NEW r \in Readers, rd[r].ent \in Nodes
                 PROVE  InSection(r) /\ Held(r, rd[r].ent)'
        BY <1>2
    <2>1. InSection(r) /\ Held(r, rd[r].ent)
        BY DEF RcuInv
    <2> QED BY <1>1, <2>1 DEF Held
<1>4. \A n \in Nodes, r \in Readers : r \in grace'[n] => InSection(r)'
    BY <1>2 DEF RcuInv, WriterMoves, KeptNode, AllocatedNode, RetiredNode
<1>5. ASSUME NEW n \in Nodes, NEW r \in Readers, NEW o \in Slots,
             heap'[n] = "rcu", r \in grace'[n], node'[n].slots[o] \in Nodes
      PROVE  Held(r, node[n].slots[o])'
    <2>1. CASE KeptNode(n)
        <3>1. /\ heap[n] = "rcu" /\ r \in grace[n]
              /\ node'[n].slots[o] = node[n].slots[o] /\ node[n].slots[o] \in Nodes
            BY <1>5, <2>1 DEF KeptNode
        <3>2. Held(r, node[n].slots[o]) /\ InSection(r)
            BY <3>1 DEF RcuInv
        <3> QED BY <1>1, <3>1, <3>2 DEF Held
    <2>2. CASE RetiredNode(n)
        BY <1>5, <2>2 DEF RetiredNode, Held
    <2>3. ~AllocatedNode(n)
        BY <1>5 DEF AllocatedNode
    <2> QED BY <2>1, <2>2, <2>3 DEF WriterMoves
<1> QED BY <1>3, <1>4, <1>5 DEF RcuInv

-----------------------------------------------------------------------------
(* The steps of the writer.                                                *)

LEMMA StoredElsewhere ==
    ASSUME NEW mem \in Memory, NEW n, NEW o, NEW e, NEW dc, NEW dx,
           NEW m \in Nodes, m # n
    PROVE  Stored(mem, n, o, e, dc, dx)[m] = mem[m]
BY DEF Stored, Memory

LEMMA StaysMoves ==
    ASSUME heap' = heap, grace' = grace, \A n \in Nodes : heap[n] = "rcu" =>
                                            node'[n].slots = node[n].slots
    PROVE  WriterMoves
BY DEF WriterMoves, KeptNode

\* Calls that begin, end or go down without a store.
LEMMA StillMoves ==
    ASSUME \/ \E o \in Calls : Invoke(o)
           \/ AllocFails \/ InsertStart \/ Descend \/ FindStart \/ TagSet
           \/ PruneEnd \/ ShrinkEnd
    PROVE  WriterMoves
<1>1. UNCHANGED <<node, heap, grace>>
    BY DEF Invoke, AllocFails, ExtendFails, CreateFails, InsertStart, Descend, FindStart,
           TagSet, PruneEnd, ShrinkEnd, tree
<1> QED BY <1>1, StaysMoves

LEMMA TagMoves == ASSUME StructInv, FindStep \/ TagClear PROVE WriterMoves
<1>1. UNCHANGED <<heap, grace>>
    BY DEF FindStep, TagClear, tree
<1>2. node \in Memory /\ TypeOK
    BY DEF StructInv, TypeInv, TypeOK, Memory
<1>3. \A n \in Nodes : node'[n].slots = node[n].slots
    <2>1. CASE FindStep
        BY <1>2, <2>1 DEF FindStep, Memory, NodeType
    <2>2. CASE TagClear
        <3>1. node' = node \/ node' = TagsCleared(w.cur, w.off, {w.op.tag})
            BY <2>2 DEF TagClear, tree
        <3> QED BY <1>2, <3>1, TagsClearedShape DEF SameShape
    <2> QED BY <2>1, <2>2
<1> QED BY <1>1, <1>3, StaysMoves

\* An entry is stored where the writer stands, which is no unlinked node.
LEMMA StoreMoves == ASSUME StructInv, InsertEntry \/ Delete \/ Replace PROVE WriterMoves
<1>1. UNCHANGED <<heap, grace>> /\ w.pc \in {"create", "find"}
    BY DEF InsertEntry, Delete, Replace, Found, tree
<1>2. node \in Memory /\ TypeOK /\ NULL \notin Nodes
    BY EntryAssumption DEF StructInv, TypeInv, TypeOK, Memory
<1>3. \A n \in Nodes : heap[n] = "rcu" => n # w.cur
    BY <1>1, <1>2 DEF StructInv, CursorInv
<1>4. ASSUME NEW n \in Nodes, heap[n] = "rcu" PROVE node'[n].slots = node[n].slots
    <2>1. n # w.cur
        BY <1>3, <1>4
    <2>2. CASE InsertEntry
        <3>1. \/ node' = node
              \/ node' = Stored(node, w.cur, w.off, w.op.item, 1, IsExceptional(w.op.item))
            BY <2>2 DEF InsertEntry, tree
        <3> QED BY <1>2, <2>1, <3>1, StoredElsewhere
    <2>3. CASE Delete
        <3> DEFINE base == TagsCleared(w.cur, w.off, Tags)
        <3>1. \/ node' = node
              \/ node' = Stored(base, w.cur, w.off, NULL, -1, -IsExceptional(AtSlot))
            BY <2>3 DEF Delete, tree
        <3>2. base \in Memory /\ base[n].slots = node[n].slots
            BY <1>2, TagsClearedType, TagsClearedShape DEF SameShape
        <3> HIDE DEF base
        <3> QED BY <2>1, <3>1, <3>2, StoredElsewhere
    <2>4. CASE Replace
        <3> DEFINE e == w.op.item
                   dc == IsEntry(e) - IsEntry(AtSlot)
                   dx == IsExceptional(e) - IsExceptional(AtSlot)
        <3>1. node' = node \/ node' = Stored(node, w.cur, w.off, e, dc, dx)
            BY <2>4 DEF Replace, tree
        <3> HIDE DEF e, dc, dx
        <3> QED BY <1>2, <2>1, <3>1, StoredElsewhere
    <2> QED BY <2>2, <2>3, <2>4
<1> QED BY <1>1, <1>4, StaysMoves

LEMMA ExtendMoves == ASSUME StructInv, Extend PROVE WriterMoves
<1> DEFINE t == root.rnode
<1>1. PICK n \in Nodes, left \in [Slots -> Leftovers] :
         /\ heap[n] = "free"
         /\ node' = [Reparented(t, n) EXCEPT ![n] = NewTop(left)]
         /\ heap' = [heap EXCEPT ![n] = "live"]
         /\ UNCHANGED grace
    BY DEF Extend, Free
<1>2. node \in Memory /\ TypeOK /\ Reparented(t, n) \in Memory
    BY ReparentedType DEF StructInv, TypeInv, TypeOK, Memory
<1>3. \A m \in Nodes \ {n} : node'[m].slots = node[m].slots
    <2>1. \A m \in Nodes : Reparented(t, n)[m].slots = node[m].slots
        <3> HIDE DEF t
        <3> QED BY <1>2 DEF Reparented, Memory, NodeType
    <2>2. \A m \in Nodes \ {n} : node'[m] = Reparented(t, n)[m]
        BY <1>1, <1>2 DEF Memory
    <2> QED BY <2>1, <2>2
<1>4. \A m \in Nodes : heap'[m] = IF m = n THEN "live" ELSE heap[m]
    BY <1>1, <1>2 DEF TypeOK
<1> QED BY <1>1, <1>3, <1>4 DEF WriterMoves, KeptNode, AllocatedNode

LEMMA CreateChildMoves == ASSUME StructInv, CreateChild PROVE WriterMoves
<1>1. w.pc = "create" /\ node \in Memory /\ TypeOK /\ NULL \notin Nodes
      /\ w.cur \in Nodes \cup {NULL} /\ w.off \in Slots
    BY WriterFields, EntryAssumption DEF CreateChild, StructInv, TypeInv, TypeOK, Memory
<1>2. PICK n \in Nodes, left \in [Slots -> Leftovers] :
         /\ heap[n] = "free"
         /\ node' = [Stored(node, w.cur, w.off, n, 1, 0)
                        EXCEPT ![n] = Fresh(w.shift - 1, w.off, 0, w.cur, left)]
         /\ heap' = [heap EXCEPT ![n] = "live"]
         /\ UNCHANGED grace
    BY DEF CreateChild, Free
<1> DEFINE base == Stored(node, w.cur, w.off, n, 1, 0)
<1>3. base \in Memory
    <2>1. 1 \in Int /\ 0 \in Int /\ n \in Entries
        BY DEF Entries
    <2> QED BY <1>1, <2>1, StoredType
<1>4. \A m \in Nodes : heap[m] = "rcu" => node'[m].slots = node[m].slots
    <2> SUFFICES ASSUME NEW m \in Nodes, heap[m] = "rcu" PROVE node'[m].slots = node[m].slots
        OBVIOUS
    <2>1. m # n /\ m # w.cur
        BY <1>1, <1>2 DEF StructInv, CursorInv
    <2>2. base[m] = node[m]
        BY <1>1, <2>1, StoredElsewhere
    <2>3. node' = [base EXCEPT ![n] = Fresh(w.shift - 1, w.off, 0, w.cur, left)]
        BY <1>2
    <2> HIDE DEF base
    <2> QED BY <1>3, <2>1, <2>2, <2>3 DEF Memory
<1>5. \A m \in Nodes : heap'[m] = IF m = n THEN "live" ELSE heap[m]
    BY <1>1, <1>2 DEF TypeOK
<1> QED BY <1>2, <1>4, <1>5 DEF WriterMoves, KeptNode, AllocatedNode

\* The old top loses its place and its count, no slot changes.
LEMMA ShrinkRootMoves == ASSUME StructInv, ShrinkRoot PROVE WriterMoves
<1> DEFINE n == root.rnode
           c == node[n].slots[0]
           mid == Reparented(c, NULL)
<1>1. UNCHANGED <<heap, grace>> /\ n \in Nodes /\ node' = [mid EXCEPT ![n].count = 0]
    BY DEF ShrinkRoot, Shrinkable
<1>2. node \in Memory /\ mid \in Memory
    BY ReparentedType DEF StructInv, TypeInv, TypeOK, Memory
<1>3. \A m \in Nodes : mid[m].slots = node[m].slots
    <2> HIDE DEF c
    <2> QED BY <1>2 DEF Reparented, Memory, NodeType
<1>4. \A m \in Nodes : node'[m].slots = mid[m].slots
    <2> HIDE DEF mid, n
    <2> QED BY <1>1, <1>2 DEF Memory, NodeType
<1> QED BY <1>1, <1>3, <1>4, StaysMoves

\* A node out of the tree goes to call_rcu; what its slots lead to is in use.
LEMMA RetireMoves ==
    ASSUME TypeOK, DeferredFree = TRUE, NEW n \in Nodes, NEW mem \in Memory,
           Retire(mem, n), heap[n] = "live",
           \A o \in Slots : mem[n].slots[o] \in Nodes =>
              mem[n].slots[o] # n /\ heap[mem[n].slots[o]] = "live",
           \A m \in Nodes : heap[m] = "rcu" => mem[m].slots = node[m].slots
    PROVE  WriterMoves
<1>1. /\ \A m \in Nodes : heap'[m] = IF m = n THEN "rcu" ELSE heap[m]
      /\ \A m \in Nodes : grace'[m] = IF m = n THEN {r \in Readers : InSection(r)} ELSE grace[m]
      /\ node' = mem
    BY DEF Retire, TypeOK
<1>2. RetiredNode(n)
    BY <1>1 DEF RetiredNode
<1>3. \A m \in Nodes \ {n} : KeptNode(m)
    BY <1>1 DEF KeptNode
<1> QED BY <1>2, <1>3 DEF WriterMoves

LEMMA PruneNodeMoves == ASSUME StructInv, DeferredFree = TRUE, PruneNode PROVE WriterMoves
<1> DEFINE n == w.cur
           p == node[n].parent
           o == node[n].offset
           base == Stored(node, p, o, NULL, -1, 0)
<1>1. w.pc = "prune" /\ node[n].count = 0 /\ Retire(base, n)
    BY DEF PruneNode
<1>2. n \in Nodes /\ heap[n] = "live" /\ NULL \in Entries /\ NULL \notin Nodes /\ TypeOK
    BY <1>1, WriterFields, EntryAssumption
       DEF StructInv, CursorInv, TypeInv, CallInv, Entries
<1>3. /\ p \in Nodes \cup {NULL} /\ o \in Slots /\ node \in Memory /\ SameShape(node, node)
      /\ node[n].slots \in [Slots -> Entries]
    BY <1>2, MemoryFields, SameMemory DEF StructInv
<1>4. base \in Memory /\ StoreOf(base, node, p, o, NULL, -1, 0)
    <2>1. -1 \in Int /\ 0 \in Int
        OBVIOUS
    <2> HIDE DEF p, o
    <2> QED BY <1>2, <1>3, <2>1, StoredType, StoredStores
<1>5. Shape(root.rnode, node, heap, NULL)
    BY <1>1 DEF StructInv, ShapeInv, Retiring
<1>6. \A q \in Slots : node[n].slots[q] \notin Nodes
    <2>1. CountIn(node[n].slots, Present) = 0
        BY <1>1, <1>2, <1>5 DEF Shape, Counted
    <2>2. \A q \in Slots : node[n].slots[q] \notin Present
        BY <1>3, <2>1, CountZero
    <2> QED BY <2>2 DEF Present
<1>7. \A q \in Slots : base[n].slots[q] \notin Nodes
    BY <1>2, <1>4, <1>6 DEF StoreOf
<1>8. p # NULL => heap[p] = "live"
    BY <1>2, <1>5 DEF Shape, Up
<1>9. \A m \in Nodes : heap[m] = "rcu" => base[m].slots = node[m].slots
    BY <1>2, <1>3, <1>4, <1>8 DEF StoreOf
<1> HIDE DEF n, base
<1> QED BY <1>1, <1>2, <1>4, <1>7, <1>9, RetireMoves

LEMMA ShrinkRetireMoves ==
    ASSUME StructInv, DeferredFree = TRUE, ShrinkRetire PROVE WriterMoves
<1> DEFINE n == w.cur
           mem == IF node[n].slots[0] \in Nodes THEN node
                  ELSE [node EXCEPT ![n].slots[0] = RETRY]
<1>1. w.pc = "retire" /\ Retire(mem, n)
    BY DEF ShrinkRetire
<1>2. /\ n \in Nodes /\ heap[n] = "live" /\ TypeOK /\ node \in Memory /\ 0 \in Slots
      /\ NULL \notin Nodes /\ RETRY \notin Nodes /\ RETRY \in Entries
    BY <1>1, WriterFields, EntryAssumption, SizeAssumption
       DEF StructInv, CursorInv, TypeInv, CallInv, TypeOK, Memory, Slots, Entries
<1>3. /\ mem \in Memory
      /\ \A m \in Nodes \ {n} : mem[m] = node[m]
      /\ \A q \in Slots : mem[n].slots[q] \in Nodes => mem[n].slots[q] = node[n].slots[q]
    BY <1>2 DEF Memory, NodeType
<1>4. Shape(root.rnode, node, heap, n)
    BY <1>1 DEF StructInv, ShapeInv, Retiring
<1>5. \A q \in Slots : node[n].slots[q] \in Nodes =>
         node[n].slots[q] # n /\ heap[node[n].slots[q]] = "live"
    <2> SUFFICES ASSUME NEW q \in Slots, node[n].slots[q] \in Nodes
                 PROVE  node[n].slots[q] # n /\ heap[node[n].slots[q]] = "live"
        OBVIOUS
    <2>1. /\ heap[node[n].slots[q]] = "live"
          /\ node[node[n].slots[q]].shift + 1 = node[n].shift
        BY <1>2, <1>4 DEF Shape, Down
    <2>2. node[n].shift \in Int
        BY <1>2, MemoryFields DEF Shifts
    <2> QED BY <2>1, <2>2
<1> HIDE DEF n, mem
<1>6. \A q \in Slots : mem[n].slots[q] \in Nodes =>
         mem[n].slots[q] # n /\ heap[mem[n].slots[q]] = "live"
    BY <1>3, <1>5
<1>7. \A m \in Nodes : heap[m] = "rcu" => mem[m].slots = node[m].slots
    BY <1>2, <1>3
<1> QED BY <1>1, <1>2, <1>3, <1>6, <1>7, RetireMoves

LEMMA CallMoves ==
    ASSUME StructInv, DeferredFree = TRUE, (\E o \in Calls : Invoke(o)) \/ WriterStep
    PROVE  WriterMoves
<1>1. CASE \/ \E o \in Calls : Invoke(o)
           \/ AllocFails \/ InsertStart \/ Descend \/ FindStart \/ TagSet
           \/ PruneEnd \/ ShrinkEnd
    BY <1>1, StillMoves
<1>2. CASE FindStep \/ TagClear
    BY <1>2, TagMoves
<1>3. CASE InsertEntry \/ Delete \/ Replace
    BY <1>3, StoreMoves
<1>4. CASE Extend \/ CreateChild
    BY <1>4, ExtendMoves, CreateChildMoves
<1>5. CASE PruneNode \/ ShrinkRoot \/ ShrinkRetire
    BY <1>5, PruneNodeMoves, ShrinkRootMoves, ShrinkRetireMoves
<1> QED BY <1>1, <1>2, <1>3, <1>4, <1>5 DEF WriterStep, Create, Prune

LEMMA WriterRcu ==
    ASSUME StructInv, RcuInv, DeferredFree = TRUE,
           (\E o \in Calls : Invoke(o)) \/ WriterStep, Observe
    PROVE  RcuInv'
<1>1. rd' = rd /\ TypeOK
    BY DEF Observe, StructInv, TypeInv
<1> QED BY <1>1, CallMoves, MovesKeepReaders

-----------------------------------------------------------------------------
(* The steps of a reader and the end of a grace period.                    *)

\* Within its section a reader moves on to what it may stand on.
LEMMA ReaderMoves ==
    ASSUME RcuInv, TypeOK, NEW r \in Readers, NEW state, rd' = [rd EXCEPT ![r] = state],
           state.pc # "out", state.ent \in Nodes => Held(r, state.ent),
           UNCHANGED <<node, heap, grace>>
    PROVE  RcuInv'
<1>1. \A q \in Readers : rd'[q] = IF q = r THEN state ELSE rd[q]
    BY DEF TypeOK
<1>2. \A q \in Readers : InSection(q) => InSection(q)'
    BY <1>1 DEF InSection
<1>3. \A q \in Readers, n \in Nodes : Held(q, n)' <=> Held(q, n)
    BY DEF Held
<1>4. ASSUME NEW q \in Readers, rd'[q].ent \in Nodes
      PROVE  InSection(q)' /\ Held(q, rd[q].ent)'
    <2>1. CASE q = r
        BY <1>1, <1>4, <2>1 DEF InSection, Held
    <2>2. CASE q # r
        BY <1>1, <1>2, <1>4, <2>2 DEF RcuInv, Held
    <2> QED BY <2>1, <2>2
<1>5. \A n \in Nodes, q \in Readers : q \in grace'[n] => InSection(q)'
    BY <1>2 DEF RcuInv
<1>6. \A n \in Nodes, q \in Readers, o \in Slots :
         heap'[n] = "rcu" /\ q \in grace'[n] /\ node'[n].slots[o] \in Nodes
           => Held(q, node[n].slots[o])'
    BY DEF RcuInv, Held
<1> QED BY <1>4, <1>5, <1>6 DEF RcuInv

LEMMA ReaderFields ==
    ASSUME TypeOK, NEW r \in Readers
    PROVE  /\ rd[r] \in [pc : {"out", "restart", "bound", "walk"}, idx : Indices \cup {0},
                         ent : Entries, par : Nodes \cup {NULL}]
           /\ rd[r].idx \in Indices \cup {0}
BY DEF TypeOK

\* What a slot of a node a reader holds leads to, the reader holds as well.
LEMMA HeldBelow ==
    ASSUME StructInv, RcuInv, NEW r \in Readers, NEW n \in Nodes, Held(r, n),
           NEW o \in Slots, node[n].slots[o] \in Nodes
    PROVE  Held(r, node[n].slots[o])
<1>1. CASE heap[n] = "live"
    <2>1. Down(node, heap, Retiring)
        BY DEF StructInv, ShapeInv, Shape
    <2> QED BY <1>1, <2>1 DEF Down, Held
<1>2. CASE heap[n] # "live"
    BY <1>2 DEF Held, RcuInv
<1> QED BY <1>1, <1>2

LEMMA ReaderRcu ==
    ASSUME StructInv, RcuInv, NEW r \in Readers, Reader(r) PROVE RcuInv'
<1>1. TypeOK /\ NULL \notin Nodes /\ RETRY \notin Nodes
    BY EntryAssumption DEF StructInv, TypeInv
<1>2. CASE \E i \in Indices : ReadLock(r, i)
    <2>1. PICK i \in Indices : ReadLock(r, i)
        BY <1>2
    <2> DEFINE state == [Out EXCEPT !.pc = "restart", !.idx = i]
    <2>2. rd' = [rd EXCEPT ![r] = state] /\ UNCHANGED <<node, heap, grace>>
        BY <2>1 DEF ReadLock, ReaderStep, tree
    <2>3. state.pc # "out" /\ state.ent = NULL
        BY DEF Out
    <2> HIDE DEF state
    <2> QED BY <1>1, <2>2, <2>3, ReaderMoves
<1>3. CASE ReadRoot(r)
    <2> DEFINE state == [rd[r] EXCEPT !.pc = "bound", !.ent = root.rnode, !.par = NULL]
    <2>1. rd' = [rd EXCEPT ![r] = state] /\ UNCHANGED <<node, heap, grace>>
        BY <1>3 DEF ReadRoot, ReaderStep, tree
    <2>2. state.pc # "out" /\ state.ent = root.rnode
        BY <1>1, ReaderFields
    <2>3. root.rnode \in Nodes => Held(r, root.rnode)
        BY DEF StructInv, ShapeInv, Shape, Rooted, Held
    <2> HIDE DEF state
    <2> QED BY <1>1, <2>1, <2>2, <2>3, ReaderMoves
<1>4. CASE ReadBound(r)
    <2> DEFINE e == rd[r].ent
               max == IF e \in Nodes THEN ShiftMaxIndex(node[e].shift) ELSE 0
               state == [rd[r] EXCEPT !.pc = "walk",
                                      !.ent = IF rd[r].idx > max THEN NULL ELSE e]
    <2>1. rd' = [rd EXCEPT ![r] = state] /\ UNCHANGED <<node, heap, grace>>
        BY <1>4 DEF ReadBound, ReaderStep, tree
    <2>2. state.pc # "out" /\ state.ent \in {NULL, e}
        <3> HIDE DEF max
        <3> QED BY <1>1, ReaderFields
    <2>3. e \in Nodes => Held(r, e)
        BY DEF RcuInv
    <2> HIDE DEF state, e
    <2> QED BY <1>1, <2>1, <2>2, <2>3, ReaderMoves
<1>5. CASE ReadSlot(r)
    <2> DEFINE n == rd[r].ent
               o == Offset(node[n].shift, rd[r].idx)
               state == [rd[r] EXCEPT !.ent = node[n].slots[o], !.par = n]
    <2>1. /\ rd[r].pc = "walk" /\ n \in Nodes
          /\ rd' = [rd EXCEPT ![r] = state] /\ UNCHANGED <<node, heap, grace>>
        BY <1>5 DEF ReadSlot, ReaderStep, tree
    <2>2. o \in Slots
        <3>1. node[n].shift \in Shifts
            BY <2>1, MemoryFields, SameMemory DEF StructInv
        <3> HIDE DEF n
        <3> QED BY <1>1, <3>1, ReaderFields, OffsetType, OffsetOfZero
    <2>3. state.pc # "out" /\ state.ent = node[n].slots[o]
        <3> HIDE DEF o
        <3> QED BY <1>1, <2>1, ReaderFields
    <2>4. Held(r, n)
        BY <2>1 DEF RcuInv
    <2> HIDE DEF state, n, o
    <2>5. state.ent \in Nodes => Held(r, state.ent)
        BY <2>1, <2>2, <2>3, <2>4, HeldBelow
    <2> QED BY <1>1, <2>1, <2>3, <2>5, ReaderMoves
<1>6. CASE ReadRetry(r)
    <2> DEFINE state == [rd[r] EXCEPT !.pc = "restart", !.ent = NULL]
    <2>1. rd' = [rd EXCEPT ![r] = state] /\ UNCHANGED <<node, heap, grace>>
        BY <1>6 DEF ReadRetry, ReaderStep, tree
    <2>2. state.pc # "out" /\ state.ent = NULL
        BY <1>1, ReaderFields
    <2> HIDE DEF state
    <2> QED BY <1>1, <2>1, <2>2, ReaderMoves
<1>7. CASE ReadUnlock(r)
    <2>1. /\ rd' = [rd EXCEPT ![r] = Out] /\ UNCHANGED <<node, heap>>
          /\ grace' = [n \in Nodes |-> grace[n] \ {r}]
        BY <1>7 DEF ReadUnlock, ReaderStep
    <2>2. /\ rd'[r] = Out /\ Out.ent = NULL
          /\ \A q \in Readers \ {r} : rd'[q] = rd[q]
          /\ \A n \in Nodes : grace'[n] = grace[n] \ {r}
        BY <1>1, <2>1 DEF TypeOK, Out
    <2>3. \A q \in Readers \ {r} : InSection(q)' <=> InSection(q)
        BY <2>2 DEF InSection
    <2>4. \A q \in Readers \ {r}, n \in Nodes : Held(q, n) => Held(q, n)'
        BY <2>1, <2>2 DEF Held
    <2>5. \A q \in Readers : rd'[q].ent \in Nodes => InSection(q)' /\ Held(q, rd[q].ent)'
        <3> SUFFICES ASSUME NEW q \in Readers, rd'[q].ent \in Nodes
                     PROVE  InSection(q)' /\ Held(q, rd[q].ent)'
            OBVIOUS
        <3>1. q # r /\ rd'[q] = rd[q] /\ rd[q].ent \in Nodes
            BY <1>1, <2>2
        <3>2. InSection(q) /\ Held(q, rd[q].ent)
            BY <3>1 DEF RcuInv
        <3> QED BY <2>1, <2>2, <2>3, <3>1, <3>2 DEF Held
    <2>6. \A n \in Nodes, q \in Readers : q \in grace'[n] => InSection(q)'
        BY <2>2, <2>3 DEF RcuInv
    <2>7. ASSUME NEW n \in Nodes, NEW q \in Readers, NEW o \in Slots,
                 heap'[n] = "rcu", q \in grace'[n], node'[n].slots[o] \in Nodes
          PROVE  Held(q, node[n].slots[o])'
        <3>1. q # r /\ heap[n] = "rcu" /\ q \in grace[n] /\ node[n].slots[o] \in Nodes
            BY <2>1, <2>2, <2>7
        <3>2. Held(q, node[n].slots[o])
            BY <3>1 DEF RcuInv
        <3> QED BY <2>1, <2>2, <3>1, <3>2 DEF Held
    <2> QED BY <2>5, <2>6, <2>7 DEF RcuInv
<1> QED BY <1>2, <1>3, <1>4, <1>5, <1>6, <1>7 DEF Reader

\* Nobody holds the node a grace period gives back.
LEMMA RcuFreeRcu ==
    ASSUME StructInv, RcuInv, NEW n \in Nodes, RcuFree(n) PROVE RcuInv'
<1>1. /\ heap[n] = "rcu" /\ grace[n] = {} /\ UNCHANGED <<grace, rd>>
      /\ \A m \in Nodes : heap'[m] = IF m = n THEN "free" ELSE heap[m]
      /\ \A m \in Nodes \ {n} : node'[m] = node[m]
    BY DEF RcuFree, StructInv, TypeInv, TypeOK
<1>2. \A r \in Readers, m \in Nodes : Held(r, m) => m # n /\ Held(r, m)'
    BY <1>1 DEF Held
<1>3. \A r \in Readers : InSection(r)' <=> InSection(r)
    BY <1>1 DEF InSection
<1>4. ASSUME NEW r \in Readers, rd'[r].ent \in Nodes
      PROVE  InSection(r)' /\ Held(r, rd[r].ent)'
    <2>1. InSection(r) /\ Held(r, rd[r].ent) /\ rd[r].ent \in Nodes
        BY <1>1, <1>4 DEF RcuInv
    <2> QED BY <1>1, <1>2, <1>3, <2>1 DEF Held
<1>5. \A m \in Nodes, r \in Readers : r \in grace'[m] => InSection(r)'
    BY <1>1, <1>3 DEF RcuInv
<1>6. ASSUME NEW m \in Nodes, NEW r \in Readers, NEW o \in Slots,
             heap'[m] = "rcu", r \in grace'[m], node'[m].slots[o] \in Nodes
      PROVE  Held(r, node[m].slots[o])'
    <2>1. /\ m # n /\ heap[m] = "rcu" /\ r \in grace[m]
          /\ node'[m].slots[o] = node[m].slots[o] /\ node[m].slots[o] \in Nodes
        BY <1>1, <1>6
    <2>2. Held(r, node[m].slots[o])
        BY <2>1 DEF RcuInv
    <2> QED BY <1>1, <1>2, <2>1, <2>2 DEF Held
<1> QED BY <1>4, <1>5, <1>6 DEF RcuInv

-----------------------------------------------------------------------------
LEMMA InitRcu == Init => RcuInv
BY EntryAssumption DEF Init, RcuInv, Out

LEMMA StepRcu ==
    ASSUME DeferredFree = TRUE, StructInv, RcuInv, [Next]_vars PROVE RcuInv'
<1>1. CASE ((\E o \in Calls : Invoke(o)) \/ WriterStep) /\ Observe
    BY <1>1, WriterRcu
<1>2. ASSUME NEW r \in Readers, Reader(r) PROVE RcuInv'
    BY <1>2, ReaderRcu
<1>3. ASSUME NEW n \in Nodes, RcuFree(n) PROVE RcuInv'
    BY <1>3, RcuFreeRcu
<1>4. CASE UNCHANGED vars
    BY <1>4 DEF vars, RcuInv, Held, InSection
<1> QED BY <1>1, <1>2, <1>3, <1>4 DEF Next

LEMMA RcuSafe == RcuInv => ReadersSafe
BY DEF RcuInv, ReadersSafe, Held

\* No lockless reader ever stands on a node that radix_tree_node_rcu_free has
\* given back, as long as call_rcu waits for the readers of its time.
THEOREM ReadersCorrect ==
    ASSUME Leftovers = {NULL}, DeferredFree = TRUE PROVE Spec => []ReadersSafe
<1>1. Leftovers = {NULL} /\ DeferredFree = TRUE
    OBVIOUS
<1>2. StructInv /\ RcuInv /\ [Next]_vars => RcuInv'
    BY <1>1, StepRcu
<1>3. Spec => []StructInv
    BY <1>1, ShapeHolds
<1> QED BY <1>2, <1>3, InitRcu, RcuSafe, PTL DEF Spec


-----------------------------------------------------------------------------
(* What a lookup still has before it.  A reader may stand on nodes that    *)
(* left the tree; R is a set of nodes that its remaining walk cannot leave. *)

Members == InTree(heap, Retiring)
PassedNow(i) == Passed(root.rnode, node, i)
UnderNow(n, i) == Under(node, n, i)

\* Node n, held by reader r, leads its index i on: in the tree it is on the way to
\* i; out of it, to a node of R, to what i was seen to hold, or to RETRY.
Sound(r, i, n, R) ==
    /\ Held(r, n)
    /\ n \in Members => n \in PassedNow(i)
    /\ n \notin Members =>
         /\ UnderNow(n, i) \in Nodes => UnderNow(n, i) \in R
         /\ UnderNow(n, i) = NULL => NULL \in seen[r]
         /\ UnderNow(n, i) \in Items =>
              n = Retiring /\ Digit(node, n, i) = 0 /\ UnderNow(n, i) = Value(i)

Trace(r, i, R) ==
    /\ rd[r].pc = "bound" /\ rd[r].ent \in Nodes /\ i <= TopMax(rd[r].ent, node)
         => rd[r].ent \in R
    /\ rd[r].pc = "walk" => {rd[r].ent, rd[r].par} \cap Nodes \subseteq R
    /\ \A n \in R : Sound(r, i, n, R)

\* What reader r has of index i so far.
Reached(r, i) ==
    /\ Value(i) \in seen[r]
    /\ rd[r].pc = "bound" =>
         /\ rd[r].par = NULL
         /\ IF i > TopMax(rd[r].ent, node) THEN NULL \in seen[r]
            ELSE rd[r].ent \notin Nodes => rd[r].ent \in seen[r]
    /\ rd[r].pc = "walk" =>
         /\ ~IsInternal(rd[r].ent) => rd[r].ent \in seen[r]
         /\ rd[r].par = NULL /\ rd[r].ent \in Items => i = 0

Looks(r, i) == Reached(r, i) /\ \E R \in SUBSET Nodes : Trace(r, i, R)
LookInv ==
    /\ DOMAIN seen = Readers
    /\ \A r \in Readers : InSection(r) => rd[r].idx \in Indices /\ Looks(r, rd[r].idx)

-----------------------------------------------------------------------------
(* What a step of the writer does to the ways of the readers.              *)

Remain ==
    \A i \in Indices : \A n \in Members :
      n \in Members' /\ n \in PassedNow(i) => n \in PassedNow(i)'

ShiftStays == \A n \in Nodes : heap[n] # "free" => node'[n].shift = node[n].shift

\* A node that leaves the tree leads on to what its index holds.
Leaving ==
    \A i \in Indices : \A n \in Members :
      n \notin Members' /\ n \in PassedNow(i) =>
        \/ UnderNow(n, i)' = NULL /\ Value(i)' = NULL
        \/ /\ UnderNow(n, i)' \in Items /\ UnderNow(n, i)' = Value(i)'
           /\ n = Retiring' /\ Digit(node', n, i) = 0
        \/ UnderNow(n, i)' \in PassedNow(i)'

\* The old top is freed: its item, if it led to one, became RETRY.
ToldToRetry ==
    \A n \in Nodes : n = Retiring =>
      /\ heap'[n] = "rcu"
      /\ \A q \in Slots : node'[n].slots[q] = IF q = 0 /\ node[n].slots[0] \notin Nodes
                                              THEN RETRY ELSE node[n].slots[q]

Moved == WriterMoves /\ Remain /\ ShiftStays /\ Leaving /\ ToldToRetry

LEMMA MemberIs ==
    ASSUME NEW n \in Nodes
    PROVE  /\ n \in Members <=> heap[n] = "live" /\ n # Retiring
           /\ n \in Members' <=> heap'[n] = "live" /\ n # Retiring'
BY DEF Members, InTree

\* A passed node leads on to a passed node or to what its index holds.
LEMMA PassedLeads ==
    ASSUME StructInv, NEW i \in Indices, NEW n \in PassedNow(i)
    PROVE  /\ n \in Members /\ n \in Nodes /\ Digit(node, n, i) \in Slots
           /\ UnderNow(n, i) \in Nodes => UnderNow(n, i) \in PassedNow(i)
           /\ UnderNow(n, i) \notin Nodes => Value(i) = UnderNow(n, i)
<1> DEFINE t == root.rnode
           z == Retiring
           e == UnderNow(n, i)
           d == Digit(node, n, i)
<1>1. Tree(t, node, heap, z) /\ n \in Passed(t, node, i)
    BY TreeNow DEF PassedNow
<1>2. n \in Nodes /\ heap[n] = "live" /\ n # z /\ d \in Slots /\ NULL \notin Nodes
    BY <1>1, PassedLive, PassedSlot, EntryAssumption
<1>3. e = node[n].slots[d]
    BY DEF UnderNow, Under
<1> HIDE DEF t, z, d
<1>4. ASSUME e \in Nodes PROVE e \in Passed(t, node, i)
    <2>1. heap[e] = "live" /\ node[e].parent = n /\ node[e].offset = d
        BY <1>1, <1>2, <1>3, <1>4 DEF Tree, Down
    <2>2. e # z
        BY <1>1, <1>2, <1>4, <2>1 DEF Tree
    <2> HIDE DEF e
    <2> QED BY <1>1, <1>2, <1>4, <2>1, <2>2, PassedUp DEF d
<1>5. ASSUME e \notin Nodes PROVE Value(i) = e
    <2>1. Stands(t, node, n, d, i) /\ Spot(t, node, n, d) = e
        BY <1>1, <1>2, <1>3 DEF Stands, Spot, d
    <2>2. n \in Nodes \cup {NULL} /\ Spot(t, node, n, d) \notin Nodes
        BY <1>2, <1>5, <2>1
    <2> HIDE DEF e
    <2>3. Finds(t, node, i) = Spot(t, node, n, d)
        BY <1>1, <2>1, <2>2, PlaceOwn
    <2> QED BY <2>1, <2>3, Finding DEF t
<1> QED BY <1>1, <1>2, <1>4, <1>5, MemberIs DEF t, z, d, PassedNow

LEMMA PassedLeadsTo ==
    ASSUME StructInv', NEW i \in Indices, NEW n \in PassedNow(i)'
    PROVE  n \in Nodes /\ n \in Members'
BY TreeNow, PassedLive DEF PassedNow, Members, InTree

LEMMA PassedHeld ==
    ASSUME StructInv, NEW i \in Indices, NEW n \in PassedNow(i), NEW r \in Readers, NEW R
    PROVE  Sound(r, i, n, R)
<1>1. n \in Members /\ n \in Nodes
    BY PassedLeads
<1> QED BY <1>1, MemberIs DEF Sound, Held

-----------------------------------------------------------------------------
(* Such a step keeps what the lookups have before them.                    *)

LEMMA SoundStays ==
    ASSUME StructInv, StructInv', Moved, NEW r \in Readers, InSection(r), NEW i \in Indices,
           NEW R, NEW n \in Nodes, Sound(r, i, n, R), NEW S, S = R \cup PassedNow(i)',
           seen[r] \subseteq seen'[r], Value(i)' \in seen'[r]
    PROVE  Sound(r, i, n, S)'
<1> DEFINE e == UnderNow(n, i)
           eq == UnderNow(n, i)'
           d == Digit(node, n, i)
<1>1. /\ NULL \notin Nodes \cup Items /\ RETRY \notin Nodes \cup Items /\ NULL # RETRY
      /\ Nodes \cap Items = {}
    BY EntryAssumption
<1>2. Held(r, n) /\ Held(r, n)'
    BY HeldStays DEF Sound, Moved
<1>3. node'[n].shift = node[n].shift
    BY <1>2 DEF Held, Moved, ShiftStays
<1>4. d \in Slots /\ Digit(node', n, i) = d
    <2>1. node \in Memory
        BY SameMemory DEF StructInv
    <2> QED BY <1>3, <2>1, MemoryFields, OffsetType DEF Digit
<1>5. e = node[n].slots[d] /\ eq = node'[n].slots[d]
    BY <1>4 DEF UnderNow, Under
<1> HIDE DEF d, e, eq
<1>6. SUFFICES /\ n \in Members' => n \in PassedNow(i)'
               /\ n \notin Members' =>
                    /\ eq \in Nodes => eq \in S
                    /\ eq = NULL => NULL \in seen'[r]
                    /\ eq \in Items => n = Retiring' /\ d = 0 /\ eq = Value(i)'
    BY <1>2, <1>4 DEF Sound, eq
<1>7. CASE n \in Members
    <2>1. n \in PassedNow(i)
        BY <1>7 DEF Sound
    <2>2. n \in Members' => n \in PassedNow(i)'
        BY <1>7, <2>1 DEF Moved, Remain
    <2>3. ASSUME n \notin Members'
          PROVE  \/ eq = NULL /\ Value(i)' = NULL
                 \/ eq \in Items /\ eq = Value(i)' /\ n = Retiring' /\ d = 0
                 \/ eq \in PassedNow(i)'
        BY <1>4, <1>7, <2>1, <2>3 DEF Moved, Leaving, eq
    <2>4. eq \in PassedNow(i)' => eq \in Nodes
        BY DEF PassedNow, Passed
    <2> QED BY <1>1, <2>2, <2>3, <2>4
<1>8. CASE n \notin Members
    <2>1. /\ e \in Nodes => e \in R
          /\ e = NULL => NULL \in seen[r]
          /\ e \in Items => n = Retiring /\ d = 0 /\ e = Value(i)
        BY <1>8 DEF Sound, e, d
    <2>2. n = Retiring \/ heap[n] = "rcu"
        BY <1>2, <1>8, MemberIs DEF Held
    <2>3. CASE n = Retiring
        <3>1. heap'[n] = "rcu" /\ eq = IF d = 0 /\ node[n].slots[0] \notin Nodes THEN RETRY ELSE e
            BY <1>4, <1>5, <2>3 DEF Moved, ToldToRetry
        <3>2. n \notin Members'
            BY <3>1, MemberIs
        <3>3. CASE eq = RETRY
            BY <1>1, <3>2, <3>3
        <3>4. CASE eq = e /\ ~(d = 0 /\ node[n].slots[0] \notin Nodes)
            <4>1. e \notin Items
                BY <1>1, <1>5, <2>1, <3>4
            <4> QED BY <2>1, <3>2, <3>4, <4>1
        <3> QED BY <3>1, <3>3, <3>4
    <2>4. CASE n # Retiring
        <3>1. heap[n] = "rcu"
            BY <2>2, <2>4
        <3>2. heap'[n] = "rcu" /\ node'[n].slots = node[n].slots
            BY <3>1 DEF Moved, WriterMoves, KeptNode, AllocatedNode, RetiredNode
        <3>3. n \notin Members' /\ eq = e
            BY <1>5, <3>2, MemberIs
        <3>4. e \notin Items
            BY <2>1, <2>4
        <3> QED BY <2>1, <3>3, <3>4
    <2> QED BY <2>3, <2>4
<1> QED BY <1>7, <1>8

LEMMA LooksStay ==
    ASSUME StructInv, StructInv', RcuInv, Moved, NEW r \in Readers, InSection(r),
           NEW i \in Indices, Looks(r, i), rd' = rd,
           seen[r] \subseteq seen'[r], Value(i)' \in seen'[r]
    PROVE  Looks(r, i)'
<1> DEFINE e == rd[r].ent
<1>1. TopMax(e, node') = TopMax(e, node)
    <2>1. e \in Nodes => node'[e].shift = node[e].shift
        BY DEF RcuInv, Held, Moved, ShiftStays
    <2> HIDE DEF e
    <2> QED BY <2>1 DEF TopMax
<1>2. TopMax(rd[r].ent, node)' = TopMax(e, node')
    BY DEF TopMax
<1>3. Reached(r, i)'
    <2>1. Reached(r, i)
        BY DEF Looks
    <2> HIDE DEF e
    <2>2. /\ rd[r].pc = "bound" =>
              /\ rd[r].par = NULL
              /\ IF i > TopMax(e, node) THEN NULL \in seen[r] ELSE e \notin Nodes => e \in seen[r]
          /\ rd[r].pc = "walk" =>
              /\ ~IsInternal(e) => e \in seen[r]
              /\ rd[r].par = NULL /\ e \in Items => i = 0
        BY <2>1 DEF Reached, e
    <2>3. rd'[r].pc = rd[r].pc /\ rd'[r].par = rd[r].par /\ rd'[r].ent = e
        BY DEF e
    <2> QED BY <1>1, <1>2, <2>2, <2>3 DEF Reached
<1>4. PICK R \in SUBSET Nodes : Trace(r, i, R)
    BY DEF Looks
<1>5. R \cup PassedNow(i)' \in SUBSET Nodes
    BY DEF PassedNow, Passed
<1>6. PICK S \in SUBSET Nodes : S = R \cup PassedNow(i)'
    BY <1>5
<1>7. \A n \in S : Sound(r, i, n, S)'
    <2>1. ASSUME NEW n \in R PROVE Sound(r, i, n, S)'
        <3>1. n \in Nodes /\ Sound(r, i, n, R)
            BY <1>4 DEF Trace
        <3> QED BY <1>6, <3>1, SoundStays
    <2>2. ASSUME NEW n \in PassedNow(i)' PROVE Sound(r, i, n, S)'
        <3>1. n \in Nodes /\ n \in Members'
            BY PassedLeadsTo
        <3> QED BY <2>2, <3>1, MemberIs DEF Sound, Held
    <2> QED BY <1>6, <2>1, <2>2
<1>8. Trace(r, i, S)'
    <2>1. /\ rd[r].pc = "bound" /\ e \in Nodes /\ i <= TopMax(e, node) => e \in R
          /\ rd[r].pc = "walk" => {e, rd[r].par} \cap Nodes \subseteq R
        BY <1>4 DEF Trace
    <2>2. R \subseteq S
        BY <1>6
    <2> QED BY <1>1, <1>2, <1>7, <2>1, <2>2 DEF Trace
<1> QED BY <1>3, <1>8 DEF Looks

-----------------------------------------------------------------------------
(* Every step of a call is such a step.                                    *)

Fixed(n) == /\ node'[n].shift = node[n].shift /\ node'[n].parent = node[n].parent
            /\ node'[n].offset = node[n].offset

\* The nodes that stay are passed as before if they hang as before.
LEMMA FixedRemain ==
    ASSUME StructInv, StructInv', \A n \in Members : n \in Members' => Fixed(n)
    PROVE  Remain
<1> DEFINE S == Members \cap Members'
<1>1. Tree(root.rnode, node, heap, Retiring) /\ Tree(root'.rnode, node', heap', Retiring')
    BY TreeNow
<1>2. \A n \in S : /\ node'[n].shift = node[n].shift /\ node'[n].parent = node[n].parent
                   /\ node'[n].offset = node[n].offset
    BY DEF Fixed
<1>3. ASSUME NEW n \in S PROVE node[n].parent \in S \cup {NULL}
    <2>1. /\ n \in Nodes /\ heap[n] = "live" /\ n # Retiring
          /\ heap'[n] = "live" /\ n # Retiring' /\ node'[n].parent = node[n].parent
        BY <1>2 DEF Members, InTree
    <2>2. node[n].parent # NULL => node[n].parent \in Members
        BY <1>1, <2>1, ParentIs, MemberIs
    <2>3. node'[n].parent # NULL => node'[n].parent \in Members'
        BY <1>1, <2>1, ParentIs, MemberIs
    <2> QED BY <2>1, <2>2, <2>3
<1>4. S \subseteq InTree(heap, Retiring) \cap InTree(heap', Retiring')
    BY DEF Members
<1> HIDE DEF S
<1>5. ASSUME NEW i \in Indices
      PROVE  \A n \in S : n \in Passed(root.rnode, node, i) <=> n \in Passed(root'.rnode, node', i)
    BY <1>1, <1>2, <1>3, <1>4, PassedSame
<1> QED BY <1>5 DEF Remain, PassedNow, S

\* Nothing leaves the tree.
LEMMA StayMoved ==
    ASSUME StructInv, StructInv', WriterMoves, w.pc # "retire", w'.pc # "retire",
           \A n \in Nodes : heap[n] = "live" => heap'[n] = "live",
           Remain, ShiftStays
    PROVE  Moved
<1>1. Retiring = NULL /\ Retiring' = NULL /\ NULL \notin Nodes
    BY EntryAssumption DEF Retiring
<1>2. \A n \in Members : n \in Members'
    BY <1>1 DEF Members, InTree
<1> QED BY <1>1, <1>2 DEF Moved, Leaving, ToldToRetry

LEMMA FixedMoved ==
    ASSUME StructInv, StructInv', WriterMoves, w.pc # "retire", w'.pc # "retire",
           \A n \in Nodes : heap[n] = "live" => heap'[n] = "live",
           \A n \in Nodes : heap[n] # "free" => Fixed(n)
    PROVE  Moved
<1>1. Remain
    <2>1. \A n \in Members : n \in Nodes /\ heap[n] = "live"
        BY DEF Members, InTree
    <2> QED BY <2>1, FixedRemain
<1>2. ShiftStays
    BY DEF Fixed, ShiftStays
<1> QED BY <1>1, <1>2, StayMoved

LEMMA StillFixed ==
    ASSUME StructInv, StructInv', DeferredFree = TRUE,
           \/ \E o \in Calls : Invoke(o)
           \/ AllocFails \/ InsertStart \/ Descend \/ FindStart \/ TagSet
           \/ PruneEnd \/ ShrinkEnd
    PROVE  Moved
<1>1. WriterMoves /\ UNCHANGED <<node, heap>>
    BY StillMoves DEF Invoke, AllocFails, ExtendFails, CreateFails, InsertStart, Descend,
           FindStart, TagSet, PruneEnd, ShrinkEnd, tree
<1>2. w.pc # "retire" /\ w'.pc # "retire"
    <2>1. w \in WriterType
        BY DEF StructInv, TypeInv, TypeOK
    <2>2. CASE \E o \in Calls : Invoke(o)
        <3>1. PICK o \in Calls : Invoke(o)
            BY <2>2
        <3>2. w.pc = "idle" /\ w'.pc = o.kind
            BY <2>1, <3>1 DEF Invoke, StructInv, TypeInv, CallInv, WriterType
        <3>3. o.kind # "retire"
            BY DEF Calls, Inserts, Deletes, Replaces, TagSets, TagClears
        <3> QED BY <3>2, <3>3
    <2>3. CASE AllocFails \/ TagSet
        BY <2>3, EndsIdle DEF AllocFails, ExtendFails, CreateFails, TagSet, Found
    <2>4. CASE InsertStart
        BY <2>1, <2>4 DEF InsertStart, Goto, WriterType
    <2>5. CASE Descend
        BY <2>1, <2>5 DEF Descend, Goto, WriterType
    <2>6. CASE FindStart
        BY <2>1, <2>6 DEF FindStart, Return, Idle, Goto, WriterType
    <2>7. CASE PruneEnd
        BY <2>1, <2>7 DEF PruneEnd, Return, Idle, Goto, WriterType
    <2>8. CASE ShrinkEnd
        BY <2>8 DEF ShrinkEnd, Return, Idle
    <2> QED BY <2>2, <2>3, <2>4, <2>5, <2>6, <2>7, <2>8
<1> QED BY <1>1, <1>2, FixedMoved DEF Fixed

LEMMA StoredFixed ==
    ASSUME NEW mem \in Memory, NEW n, NEW o, NEW e, NEW dc, NEW dx, NEW m \in Nodes
    PROVE  LET new == Stored(mem, n, o, e, dc, dx) IN
             /\ new[m].shift = mem[m].shift /\ new[m].parent = mem[m].parent
             /\ new[m].offset = mem[m].offset
<1>1. mem[m] \in NodeType
    BY DEF Memory
<1>2. CASE n # m
    BY <1>2, StoredElsewhere
<1>3. CASE n = m
    BY <1>1, <1>3 DEF Stored, Memory, NodeType
<1> QED BY <1>2, <1>3

LEMMA StoreFixed ==
    ASSUME StructInv, StructInv', DeferredFree = TRUE,
           FindStep \/ TagClear \/ InsertEntry \/ Delete \/ Replace
    PROVE  Moved
<1>1. WriterMoves /\ UNCHANGED heap
    BY TagMoves, StoreMoves DEF FindStep, TagClear, InsertEntry, Delete, Replace, tree
<1>2. w.pc # "retire" /\ w'.pc # "retire"
    <2>1. w \in WriterType
        BY DEF StructInv, TypeInv, TypeOK
    <2>2. CASE TagClear \/ InsertEntry
        BY <2>2, EndsIdle DEF TagClear, InsertEntry, Found
    <2>3. CASE FindStep
        BY <2>1, <2>3 DEF FindStep, Goto, WriterType
    <2>4. ASSUME NEW x, w.pc = "find", PruneFrom(x) PROVE w'.pc # "retire"
        BY <2>4, PruneFromGoes
    <2>5. CASE Delete
        BY <2>4, <2>5 DEF Delete, Found, Return, Idle
    <2>6. CASE Replace
        BY <2>4, <2>6 DEF Replace, Found, Return, Idle
    <2> QED BY <2>2, <2>3, <2>4, <2>5, <2>6
<1>3. node \in Memory /\ TypeOK
    BY SameMemory DEF StructInv, TypeInv
<1>4. \A n \in Nodes : Fixed(n)
    <2>1. CASE FindStep
        BY <1>3, <2>1 DEF FindStep, Memory, NodeType, Fixed
    <2>2. CASE TagClear
        <3>1. node' = node \/ node' = TagsCleared(w.cur, w.off, {w.op.tag})
            BY <2>2 DEF TagClear, tree
        <3> QED BY <1>3, <3>1, TagsClearedShape DEF SameShape, Fixed
    <2>3. CASE InsertEntry
        <3> DEFINE e == w.op.item
                   dx == IsExceptional(e)
        <3>1. node' = node \/ node' = Stored(node, w.cur, w.off, e, 1, dx)
            BY <2>3 DEF InsertEntry, tree
        <3> HIDE DEF e, dx
        <3> QED BY <1>3, <3>1, StoredFixed DEF Fixed
    <2>4. CASE Delete
        <3> DEFINE base == TagsCleared(w.cur, w.off, Tags)
                   dx == -IsExceptional(AtSlot)
        <3>1. node' = node \/ node' = Stored(base, w.cur, w.off, NULL, -1, dx)
            BY <2>4 DEF Delete, tree
        <3>2. base \in Memory /\ SameShape(base, node)
            BY <1>3, TagsClearedType, TagsClearedShape
        <3> HIDE DEF base, dx
        <3> QED BY <3>1, <3>2, StoredFixed DEF Fixed, SameShape
    <2>5. CASE Replace
        <3> DEFINE e == w.op.item
                   dc == IsEntry(e) - IsEntry(AtSlot)
                   dx == IsExceptional(e) - IsExceptional(AtSlot)
        <3>1. node' = node \/ node' = Stored(node, w.cur, w.off, e, dc, dx)
            BY <2>5 DEF Replace, tree
        <3> HIDE DEF e, dc, dx
        <3> QED BY <1>3, <3>1, StoredFixed DEF Fixed
    <2> QED BY <2>1, <2>2, <2>3, <2>4, <2>5
<1> QED BY <1>1, <1>2, <1>4, FixedMoved

LEMMA CreateChildFixed ==
    ASSUME StructInv, StructInv', DeferredFree = TRUE, CreateChild PROVE Moved
<1>1. WriterMoves
    BY CreateChildMoves
<1>2. PICK n \in Nodes, left \in [Slots -> Leftovers] :
         /\ heap[n] = "free"
         /\ node' = [Stored(node, w.cur, w.off, n, 1, 0)
                        EXCEPT ![n] = Fresh(w.shift - 1, w.off, 0, w.cur, left)]
         /\ heap' = [heap EXCEPT ![n] = "live"]
         /\ w' = [w EXCEPT !.shift = @ - 1, !.cur = n, !.off = Offset(w.shift - 1, w.op.index)]
    BY DEF CreateChild, Free, Goto
<1>3. w.pc # "retire" /\ w'.pc # "retire"
    BY <1>2 DEF CreateChild, StructInv, TypeInv, TypeOK, WriterType
<1>4. \A m \in Nodes : heap[m] = "live" => heap'[m] = "live"
    BY <1>2 DEF StructInv, TypeInv, TypeOK
<1> DEFINE base == Stored(node, w.cur, w.off, n, 1, 0)
           made == Fresh(w.shift - 1, w.off, 0, w.cur, left)
<1>5. ASSUME NEW m \in Nodes, heap[m] # "free" PROVE Fixed(m)
    <2>1. node' = [base EXCEPT ![n] = made] /\ m # n
        BY <1>2, <1>5
    <2>2. node \in Memory
        BY SameMemory DEF StructInv
    <2>3. base \in Memory
        <3>1. w.cur \in Nodes \cup {NULL} /\ w.off \in Slots /\ 1 \in Int /\ 0 \in Int /\ n \in Entries
            BY WriterFields DEF StructInv, Entries
        <3> QED BY <2>2, <3>1, StoredType
    <2>4. /\ base[m].shift = node[m].shift /\ base[m].parent = node[m].parent
          /\ base[m].offset = node[m].offset
        BY <2>2, StoredFixed
    <2> HIDE DEF base, made
    <2>5. node'[m] = base[m]
        BY <2>1, <2>3 DEF Memory
    <2> QED BY <2>4, <2>5 DEF Fixed
<1> QED BY <1>1, <1>3, <1>4, <1>5, FixedMoved

LEMMA ExtendMoved ==
    ASSUME StructInv, StructInv', Leftovers = {NULL}, DeferredFree = TRUE, Extend PROVE Moved
<1>1. WriterMoves
    BY ExtendMoves
<1>2. w.pc # "retire" /\ w'.pc # "retire"
    BY DEF Extend, Goto, StructInv, TypeInv, TypeOK, WriterType
<1>3. \A m \in Nodes : heap[m] = "live" => heap'[m] = "live"
    BY DEF Extend, StructInv, TypeInv, TypeOK
<1>4. Retiring = NULL
    BY <1>2 DEF Retiring
<1>5. /\ \A i \in Indices, m \in InTree(heap, NULL) :
           m \in Passed(root.rnode, node, i) => m \in Passed(root'.rnode, node', i)
      /\ \A m \in Nodes : heap[m] # "free" => node'[m].shift = node[m].shift
    BY ExtendKept
<1>6. Remain /\ ShiftStays
    BY <1>4, <1>5 DEF Remain, ShiftStays, Members, PassedNow
<1> QED BY <1>1, <1>2, <1>3, <1>6, StayMoved

\* The pruned node is empty, and so was all there was of an index that led there.
LEMMA PruneNodeMoved ==
    ASSUME StructInv, StructInv', DeferredFree = TRUE, PruneNode PROVE Moved
<1> DEFINE n == w.cur
           p == node[n].parent
           o == node[n].offset
           base == Stored(node, p, o, NULL, -1, 0)
<1>1. /\ w.pc = "prune" /\ node[n].count = 0 /\ Retire(base, n)
      /\ IF p = NULL THEN Return(w.res) ELSE w' = [w EXCEPT !.cur = p]
    BY DEF PruneNode, Goto
<1>2. n \in Nodes /\ heap[n] = "live" /\ NULL \notin Nodes /\ w \in WriterType /\ TypeOK
    BY <1>1, WriterFields, EntryAssumption DEF StructInv, CursorInv, TypeInv, CallInv, TypeOK
<1>3. node \in Memory /\ \A i \in Indices : Kept(i, Tags)
    BY SameMemory, PruneNodeKept DEF StructInv
<1>4. Retiring = NULL /\ Retiring' = NULL
    <2>1. w'.pc # "retire"
        BY <1>1, <1>2 DEF Return, Idle, WriterType
    <2> QED BY <1>1, <2>1 DEF Retiring
<1>5. /\ node' = base
      /\ \A m \in Nodes : heap'[m] = IF m = n THEN "rcu" ELSE heap[m]
    BY <1>1, <1>2 DEF Retire, TypeOK
<1>6. \A s \in Slots : node[n].slots[s] = NULL
    <2> HIDE DEF n
    <2> QED BY <1>1, <1>2, CountedSlots
<1>7. p # n
    <2>1. Tree(root.rnode, node, heap, NULL) /\ n # NULL
        BY <1>2, <1>4, TreeNow
    <2> HIDE DEF n
    <2>2. IF node[n].parent = NULL THEN n = root.rnode
          ELSE node[n].shift + 1 = node[node[n].parent].shift
        BY <1>2, <2>1, ParentIs
    <2>3. node[n].shift \in Int
        BY <1>2, <1>3, MemoryFields DEF Shifts
    <2> QED BY <1>2, <2>2, <2>3
<1>8. /\ node'[n] = node[n]
      /\ \A m \in Nodes : Fixed(m)
    <2>1. node'[n] = node[n]
        <3> HIDE DEF n, p, o
        <3> QED BY <1>2, <1>3, <1>5, <1>7, StoredElsewhere
    <2>2. \A m \in Nodes : Fixed(m)
        <3> HIDE DEF n, p, o
        <3> QED BY <1>3, <1>5, StoredFixed DEF Fixed
    <2> QED BY <2>1, <2>2
<1>9. Remain /\ ShiftStays
    <2>1. Remain
        BY <1>8, FixedRemain DEF Members, InTree
    <2> QED BY <1>8, <2>1 DEF ShiftStays, Fixed
<1> HIDE DEF n, p, o, base
<1>10. ASSUME NEW i \in Indices, NEW m \in Members, m \notin Members', m \in PassedNow(i)
       PROVE  UnderNow(m, i)' = NULL /\ Value(i)' = NULL
    <2>1. m = n
        <3>1. m \in Nodes /\ heap[m] = "live"
            BY <1>10 DEF Members, InTree
        <3> QED BY <1>2, <1>4, <1>5, <1>10, <3>1, MemberIs
    <2>2. Digit(node, m, i) \in Slots
        BY <1>10, PassedLeads
    <2>3. UnderNow(m, i) = NULL /\ UnderNow(m, i)' = NULL
        BY <1>6, <1>8, <2>1, <2>2 DEF UnderNow, Under, Digit
    <2>4. Value(i) = NULL
        BY <1>2, <1>10, <2>3, PassedLeads
    <2> QED BY <1>3, <2>3, <2>4, KeptIs
<1>11. Leaving
    BY <1>10 DEF Leaving
<1>12. ToldToRetry
    BY <1>2, <1>4 DEF ToldToRetry
<1> QED BY <1>9, <1>11, <1>12, PruneNodeMoves DEF Moved

\* The old top leads to the new one; there is nothing at its other slots.
LEMMA ShrinkRootMoved ==
    ASSUME StructInv, StructInv', TagsInv, DeferredFree = TRUE, ShrinkRoot PROVE Moved
<1> DEFINE n == root.rnode
           c == root'.rnode
<1>1. /\ \A i \in Indices : Kept(i, Tags)
      /\ \A i \in Indices, m \in InTree(heap, n) :
           m \in Passed(n, node, i) => m \in Passed(c, node', i)
      /\ \A m \in Nodes : node'[m].shift = node[m].shift /\ node'[m].slots = node[m].slots
      /\ \A q \in Slots : node[n].slots[q] = IF q = 0 THEN c ELSE NULL
      /\ n \in Nodes /\ w'.pc = "retire" /\ w'.cur = n
    BY ShrinkRootKept
<1>2. heap' = heap /\ w.pc = "shrink" /\ Retiring = NULL /\ Retiring' = n /\ NULL \notin Nodes
    BY <1>1, EntryAssumption DEF ShrinkRoot, Retiring
<1>3. Remain /\ ShiftStays
    <2>1. ASSUME NEW i \in Indices, NEW m \in Members, m \in Members', m \in PassedNow(i)
          PROVE  m \in PassedNow(i)'
        <3>1. m \in InTree(heap, n)
            BY <1>2, <2>1 DEF Members
        <3> QED BY <1>1, <2>1, <3>1 DEF PassedNow
    <2> QED BY <1>1, <2>1 DEF Remain, ShiftStays
<1>4. ToldToRetry
    BY <1>2 DEF ToldToRetry
<1>5. ASSUME NEW i \in Indices, NEW m \in Members, m \notin Members', m \in PassedNow(i)
      PROVE  \/ UnderNow(m, i)' = NULL /\ Value(i)' = NULL
             \/ /\ UnderNow(m, i)' \in Items /\ UnderNow(m, i)' = Value(i)'
                /\ m = Retiring' /\ Digit(node', m, i) = 0
             \/ UnderNow(m, i)' \in PassedNow(i)'
    <2> DEFINE e == UnderNow(m, i)
               d == Digit(node, m, i)
    <2>1. m = n /\ m \in Nodes
        BY <1>2, <1>5 DEF Members, InTree
    <2>2. /\ d \in Slots /\ (e \in Nodes => e \in PassedNow(i)) /\ (e \notin Nodes => Value(i) = e)
        BY <1>5, PassedLeads
    <2>3. Digit(node', m, i) = d /\ UnderNow(m, i)' = e /\ e = IF d = 0 THEN c ELSE NULL
        BY <1>1, <2>1, <2>2 DEF UnderNow, Under, Digit
    <2>4. Value(i)' = Value(i) /\ Value(i) \in Items \cup {NULL}
        <3>1. Finds(root.rnode, node, i) \in Items \cup {NULL}
            BY TreeNow, FindsHeld
        <3> QED BY <1>1, <3>1, KeptIs, Finding
    <2>5. ASSUME e \in Nodes PROVE e \in PassedNow(i)'
        <3>1. e \in PassedNow(i) /\ d = 0 /\ e = c
            BY <1>2, <2>2, <2>3, <2>5
        <3>2. e # n
            <4>1. c # n
                BY <1>1, <1>2 DEF StructInv, CursorInv
            <4> QED BY <3>1, <4>1
        <3>3. e \in Members
            BY <3>1, PassedLeads
        <3>4. e \in Members'
            BY <1>2, <2>5, <3>2, <3>3, MemberIs
        <3> HIDE DEF e
        <3> QED BY <1>3, <3>1, <3>3, <3>4 DEF Remain
    <2> HIDE DEF e, d
    <2> QED BY <1>2, <2>1, <2>2, <2>3, <2>4, <2>5
<1> HIDE DEF n, c
<1>6. Leaving
    BY <1>5 DEF Leaving
<1> QED BY <1>3, <1>4, <1>6, ShrinkRootMoves DEF Moved

LEMMA ShrinkRetireMoved ==
    ASSUME StructInv, StructInv', DeferredFree = TRUE, ShrinkRetire PROVE Moved
<1> DEFINE n == w.cur
           mem == IF node[n].slots[0] \in Nodes THEN node
                  ELSE [node EXCEPT ![n].slots[0] = RETRY]
<1>1. w.pc = "retire" /\ Retire(mem, n) /\ w' = [w EXCEPT !.pc = "shrink"] /\ Retiring = n
    BY DEF ShrinkRetire, Goto, Retiring
<1>2. /\ n \in Nodes /\ NULL \notin Nodes /\ TypeOK /\ node \in Memory /\ 0 \in Slots
      /\ w \in WriterType
    BY <1>1, WriterFields, EntryAssumption, SizeAssumption
       DEF StructInv, TypeInv, CallInv, TypeOK, Memory, Slots
<1>3. /\ node' = mem
      /\ \A m \in Nodes : heap'[m] = IF m = n THEN "rcu" ELSE heap[m]
    BY <1>1, <1>2 DEF Retire, TypeOK
<1>4. Retiring' = NULL
    BY <1>1, <1>2 DEF Retiring, WriterType
<1>5. /\ \A m \in Nodes : Fixed(m)
      /\ \A q \in Slots : node'[n].slots[q] = IF q = 0 /\ node[n].slots[0] \notin Nodes
                                              THEN RETRY ELSE node[n].slots[q]
    BY <1>2, <1>3 DEF Memory, NodeType, Fixed
<1> HIDE DEF n, mem
<1>6. Remain /\ ShiftStays
    <2>1. Remain
        BY <1>5, FixedRemain DEF Members, InTree
    <2> QED BY <1>5, <2>1 DEF ShiftStays, Fixed
<1>7. ToldToRetry
    BY <1>1, <1>2, <1>3, <1>5 DEF ToldToRetry
<1>8. Members' = Members
    BY <1>1, <1>2, <1>3, <1>4 DEF Members, InTree
<1>9. Leaving
    BY <1>8 DEF Leaving
<1> QED BY <1>6, <1>7, <1>9, ShrinkRetireMoves DEF Moved

LEMMA CallMoved ==
    ASSUME StructInv, StructInv', TagsInv, Leftovers = {NULL}, DeferredFree = TRUE,
           (\E o \in Calls : Invoke(o)) \/ WriterStep
    PROVE  Moved
<1>1. CASE \/ \E o \in Calls : Invoke(o)
           \/ AllocFails \/ InsertStart \/ Descend \/ FindStart \/ TagSet
           \/ PruneEnd \/ ShrinkEnd
    BY <1>1, StillFixed
<1>2. CASE FindStep \/ TagClear \/ InsertEntry \/ Delete \/ Replace
    BY <1>2, StoreFixed
<1>3. CASE Extend \/ CreateChild
    BY <1>3, ExtendMoved, CreateChildFixed
<1>4. CASE PruneNode \/ ShrinkRoot \/ ShrinkRetire
    BY <1>4, PruneNodeMoved, ShrinkRootMoved, ShrinkRetireMoved
<1> QED BY <1>1, <1>2, <1>3, <1>4 DEF WriterStep, Create, Prune

\* What a lookup may return grows by what its index holds after the step.
LEMMA CallLook ==
    ASSUME StructInv, StructInv', TagsInv, RcuInv, LookInv, Leftovers = {NULL},
           DeferredFree = TRUE, (\E o \in Calls : Invoke(o)) \/ WriterStep, Observe
    PROVE  LookInv'
<1>1. /\ Moved /\ rd' = rd
      /\ seen' = [r \in Readers |->
                    IF InSection(r) THEN seen[r] \cup {Value(i)' : i \in {rd[r].idx}} ELSE {}]
    BY CallMoved DEF Observe
<1>2. ASSUME NEW r \in Readers, InSection(r)' PROVE rd'[r].idx \in Indices /\ Looks(r, rd[r].idx)'
    <2>1. InSection(r) /\ rd[r].idx \in Indices /\ Looks(r, rd[r].idx)
        BY <1>1, <1>2 DEF InSection, LookInv
    <2>2. PICK i \in Indices : rd[r].idx = i
        BY <2>1
    <2>3. seen[r] \subseteq seen'[r] /\ Value(i)' \in seen'[r]
        BY <1>1, <2>1, <2>2
    <2>4. Looks(r, i)'
        BY <1>1, <2>1, <2>2, <2>3, LooksStay
    <2> QED BY <1>1, <2>1, <2>2, <2>4
<1>3. DOMAIN seen' = Readers
    BY <1>1
<1> QED BY <1>2, <1>3 DEF LookInv

-----------------------------------------------------------------------------
(* What the readers and the grace periods do to them.                      *)

LEMMA SoundWider ==
    ASSUME NEW r, NEW i, NEW n, NEW R, NEW S, Sound(r, i, n, R), R \subseteq S
    PROVE  Sound(r, i, n, S)
BY DEF Sound

\* The tree is as it was, reader r keeps what it held.
LEMMA SoundSame ==
    ASSUME UNCHANGED <<root, node, heap, w>>, NEW r, NEW i, NEW n, NEW R, seen[r] \subseteq seen'[r],
           r \in grace[n] => r \in grace'[n], Sound(r, i, n, R)
    PROVE  Sound(r, i, n, R)'
<1>1. Members' = Members /\ PassedNow(i)' = PassedNow(i) /\ Retiring' = Retiring
    BY DEF Members, PassedNow, Retiring
<1>2. Value(i)' = Value(i)
    BY Finding
<1>3. UnderNow(n, i)' = UnderNow(n, i)
    BY DEF UnderNow
<1> QED BY <1>1, <1>2, <1>3 DEF Sound, Held

LEMMA LooksSame ==
    ASSUME UNCHANGED <<root, node, heap, w>>, NEW r, NEW i, rd'[r] = rd[r], seen'[r] = seen[r],
           \A n \in Nodes : r \in grace[n] => r \in grace'[n], Looks(r, i)
    PROVE  Looks(r, i)'
<1>1. Value(i)' = Value(i)
    BY Finding
<1>2. Reached(r, i)'
    BY <1>1 DEF Looks, Reached
<1>3. PICK R \in SUBSET Nodes : Trace(r, i, R)
    BY DEF Looks
<1>4. \A n \in R : Sound(r, i, n, R)'
    BY <1>3, SoundSame DEF Trace
<1>5. Trace(r, i, R)'
    BY <1>3, <1>4 DEF Trace
<1> QED BY <1>2, <1>5 DEF Looks

\* Reader r goes on to a place that suits it; nothing else changes.
LEMMA OneLooks ==
    ASSUME LookInv, TypeOK, UNCHANGED <<root, node, heap, w>>, DOMAIN seen' = DOMAIN seen,
           NEW r \in Readers, NEW state, rd' = [rd EXCEPT ![r] = state],
           \A q \in Readers \ {r} : /\ seen'[q] = seen[q]
                                   /\ \A n \in Nodes : q \in grace[n] => q \in grace'[n],
           state.pc # "out" => state.idx \in Indices /\ \A i \in Indices : i = state.idx => Looks(r, i)'
    PROVE  LookInv'
<1>1. \A q \in Readers : rd'[q] = IF q = r THEN state ELSE rd[q]
    BY DEF TypeOK
<1>2. ASSUME NEW q \in Readers, InSection(q)' PROVE rd'[q].idx \in Indices /\ Looks(q, rd[q].idx)'
    <2>1. PICK i : i = rd'[q].idx
        OBVIOUS
    <2>2. CASE q = r
        BY <1>1, <1>2, <2>1, <2>2 DEF InSection
    <2>3. CASE q # r
        <3>1. InSection(q) /\ rd[q].idx = i /\ rd'[q] = rd[q]
            BY <1>1, <1>2, <2>1, <2>3 DEF InSection
        <3>2. i \in Indices /\ Looks(q, i)
            BY <3>1 DEF LookInv
        <3>3. Looks(q, i)'
            BY <2>3, <3>1, <3>2, LooksSame
        <3> QED BY <2>1, <3>2, <3>3
    <2> QED BY <2>2, <2>3
<1> QED BY <1>2 DEF LookInv

LEMMA ReadLockLook ==
    ASSUME TypeOK, LookInv, NEW r \in Readers, NEW i \in Indices, ReadLock(r, i) PROVE LookInv'
<1> DEFINE state == [Out EXCEPT !.pc = "restart", !.idx = i]
<1>1. /\ rd' = [rd EXCEPT ![r] = state] /\ seen' = [seen EXCEPT ![r] = {Value(i)}]
      /\ UNCHANGED <<root, node, heap, grace, w>>
    BY DEF ReadLock, ReaderStep, WriterSame, tree
<1>2. state.pc = "restart" /\ state.idx = i
    BY DEF Out
<1> HIDE DEF state
<1>3. Looks(r, i)'
    <2>1. Value(i)' = Value(i) /\ rd'[r] = state /\ seen'[r] = {Value(i)}
        BY <1>1, Finding DEF TypeOK, LookInv
    <2>2. Reached(r, i)'
        BY <1>2, <2>1 DEF Reached
    <2>3. Trace(r, i, {})'
        BY <1>2, <2>1 DEF Trace
    <2> QED BY <2>2, <2>3 DEF Looks
<1>4. DOMAIN seen' = DOMAIN seen /\ \A q \in Readers \ {r} : seen'[q] = seen[q]
    BY <1>1 DEF LookInv
<1> QED BY <1>1, <1>2, <1>3, <1>4, OneLooks

\* What the top says of an index: nothing is above its bound, an item stands alone.
LEMMA RootLeads ==
    ASSUME StructInv, NEW i \in Indices
    PROVE  /\ root.rnode \in Items \cup Nodes \cup {NULL} /\ Value(i) \in Items \cup {NULL}
           /\ i > TopMax(root.rnode, node) => Value(i) = NULL
           /\ i <= TopMax(root.rnode, node) /\ root.rnode \notin Nodes => Value(i) = root.rnode
           /\ i <= TopMax(root.rnode, node) /\ root.rnode \in Nodes => root.rnode \in PassedNow(i)
<1> DEFINE t == root.rnode
           z == Retiring
<1>1. Tree(t, node, heap, z) /\ Value(i) = Finds(t, node, i) /\ NULL \notin Nodes
    BY TreeNow, Finding, EntryAssumption
<1>2. TopMax(t, node) \in 0 .. MaxIndex /\ i \in 0 .. MaxIndex
    BY <1>1, TopMaxType, IndexAssumption DEF Tree
<1> HIDE DEF t, z
<1>3. t \in Items \cup Nodes \cup {NULL}
    BY <1>1 DEF Tree, Rooted, Entries
<1>4. i > TopMax(t, node) => Value(i) = NULL
    BY <1>1 DEF Finds
<1>5. Value(i) \in Items \cup {NULL}
    BY <1>1, FindsHeld
<1>6. ASSUME i <= TopMax(t, node), t \notin Nodes PROVE Value(i) = t
    <2>1. Stands(t, node, NULL, 0, i) /\ Spot(t, node, NULL, 0) = t
        BY <1>6 DEF Stands, Spot
    <2>2. NULL \in Nodes \cup {NULL} /\ Spot(t, node, NULL, 0) \notin Nodes
        BY <1>6, <2>1
    <2>3. Finds(t, node, i) = Spot(t, node, NULL, 0)
        BY <1>1, <2>1, <2>2, PlaceOwn
    <2> QED BY <1>1, <2>1, <2>3
<1>7. ASSUME i <= TopMax(t, node), t \in Nodes PROVE t \in Passed(t, node, i)
    <2>1. heap[t] = "live" /\ node[t].parent = NULL /\ t # z
        BY <1>1, <1>7 DEF Tree, Rooted
    <2> QED BY <1>1, <1>7, <2>1, PassedUp
<1> QED BY <1>3, <1>4, <1>5, <1>6, <1>7 DEF t, PassedNow

\* Within its section a reader goes on to a place R covers.
LEMMA ReaderLooks ==
    ASSUME TypeOK, LookInv, UNCHANGED <<root, node, heap, grace, w, seen>>,
           NEW r \in Readers, InSection(r), NEW i, rd[r].idx = i,
           NEW state, rd' = [rd EXCEPT ![r] = state], state.idx = i, state.pc # "out",
           state.pc = "bound" =>
             /\ state.par = NULL
             /\ IF i > TopMax(state.ent, node) THEN NULL \in seen[r]
                ELSE state.ent \notin Nodes => state.ent \in seen[r],
           state.pc = "walk" =>
             /\ ~IsInternal(state.ent) => state.ent \in seen[r]
             /\ state.par = NULL /\ state.ent \in Items => i = 0,
           NEW R \in SUBSET Nodes, \A n \in R : Sound(r, i, n, R),
           state.pc = "bound" /\ state.ent \in Nodes /\ i <= TopMax(state.ent, node)
             => state.ent \in R,
           state.pc = "walk" => {state.ent, state.par} \cap Nodes \subseteq R
    PROVE  LookInv'
<1>1. rd'[r] = state /\ Value(i)' = Value(i)
    BY Finding DEF TypeOK
<1>2. i \in Indices /\ Value(i) \in seen[r]
    BY DEF LookInv, Looks, Reached
<1>3. TopMax(rd[r].ent, node)' = TopMax(state.ent, node)
    BY <1>1 DEF TopMax
<1>4. Reached(r, i)'
    BY <1>1, <1>2, <1>3 DEF Reached
<1>5. \A n \in R : Sound(r, i, n, R)'
    BY SoundSame
<1>6. Trace(r, i, R)'
    BY <1>1, <1>3, <1>5 DEF Trace
<1>7. Looks(r, i)'
    BY <1>4, <1>6 DEF Looks
<1>8. state.idx \in Indices /\ \A j \in Indices : j = state.idx => Looks(r, j)'
    BY <1>2, <1>7
<1> QED BY <1>8, OneLooks

LEMMA ReadRootLook ==
    ASSUME StructInv, LookInv, NEW r \in Readers, ReadRoot(r) PROVE LookInv'
<1> DEFINE state == [rd[r] EXCEPT !.pc = "bound", !.ent = root.rnode, !.par = NULL]
<1>1. /\ rd' = [rd EXCEPT ![r] = state] /\ TypeOK /\ InSection(r)
      /\ UNCHANGED <<root, node, heap, grace, w, seen>>
    BY DEF ReadRoot, ReaderStep, WriterSame, tree, InSection, StructInv, TypeInv
<1>2. PICK i \in Indices : rd[r].idx = i /\ Looks(r, i)
    BY <1>1 DEF LookInv
<1>3. state.pc = "bound" /\ state.idx = i /\ state.ent = root.rnode /\ state.par = NULL
    BY <1>1, <1>2, ReaderFields
<1> HIDE DEF state
<1>4. Value(i) \in seen[r]
    BY <1>2 DEF Looks, Reached
<1>5. PassedNow(i) \in SUBSET Nodes /\ \A n \in PassedNow(i) : Sound(r, i, n, PassedNow(i))
    BY PassedHeld DEF PassedNow, Passed
<1>6. /\ IF i > TopMax(state.ent, node) THEN NULL \in seen[r]
         ELSE state.ent \notin Nodes => state.ent \in seen[r]
      /\ state.ent \in Nodes /\ i <= TopMax(state.ent, node) => state.ent \in PassedNow(i)
    <2>1. TopMax(root.rnode, node) \in Int /\ i \in Int
        BY TreeNow, TopMaxType, IndexAssumption DEF Tree
    <2> QED BY <1>3, <1>4, <2>1, RootLeads
<1> QED BY <1>1, <1>2, <1>3, <1>5, <1>6, ReaderLooks

LEMMA ReadBoundLook ==
    ASSUME StructInv, LookInv, NEW r \in Readers, ReadBound(r) PROVE LookInv'
<1> DEFINE e == rd[r].ent
           max == TopMax(e, node)
           state == [rd[r] EXCEPT !.pc = "walk", !.ent = IF rd[r].idx > max THEN NULL ELSE e]
<1>1. /\ rd' = [rd EXCEPT ![r] = state] /\ TypeOK /\ InSection(r) /\ rd[r].pc = "bound"
      /\ UNCHANGED <<root, node, heap, grace, w, seen>>
    BY DEF ReadBound, ReaderStep, WriterSame, tree, InSection, StructInv, TypeInv, TopMax
<1>2. PICK i \in Indices : rd[r].idx = i /\ Looks(r, i)
    BY <1>1 DEF LookInv
<1>3. PICK R \in SUBSET Nodes : Trace(r, i, R)
    BY <1>2 DEF Looks
<1>4. /\ rd[r].par = NULL
      /\ IF i > max THEN NULL \in seen[r] ELSE e \notin Nodes => e \in seen[r]
      /\ e \in Nodes /\ i <= max => e \in R
      /\ \A n \in R : Sound(r, i, n, R)
    BY <1>1, <1>2, <1>3 DEF Looks, Reached, Trace
<1>5. max \in Int /\ i \in Nat /\ (e \notin Nodes => max = 0)
    <2>1. e \in Entries /\ node \in Memory
        BY <1>1, ReaderFields, SameMemory DEF StructInv
    <2> QED BY <2>1, TopMaxType, IndexAssumption DEF TopMax
<1>6. /\ state.pc = "walk" /\ state.idx = i /\ state.par = NULL
      /\ state.ent = IF i > max THEN NULL ELSE e
    <2> HIDE DEF max
    <2> QED BY <1>1, <1>2, <1>4, ReaderFields
<1> HIDE DEF state, max, e
<1>7. /\ ~IsInternal(state.ent) => state.ent \in seen[r]
      /\ state.par = NULL /\ state.ent \in Items => i = 0
      /\ {state.ent, state.par} \cap Nodes \subseteq R
    BY <1>4, <1>5, <1>6, EntryAssumption DEF IsInternal
<1> QED BY <1>1, <1>2, <1>4, <1>6, <1>7, ReaderLooks

LEMMA ReadSlotLook ==
    ASSUME StructInv, LookInv, NEW r \in Readers, ReadSlot(r) PROVE LookInv'
<1>1. PICK n \in Nodes : n = rd[r].ent
    BY DEF ReadSlot
<1>2. TypeOK /\ InSection(r) /\ rd[r].pc = "walk" /\ UNCHANGED <<root, node, heap, grace, w, seen>>
    BY DEF ReadSlot, WriterSame, tree, InSection, StructInv, TypeInv
<1>3. PICK i \in Indices : rd[r].idx = i /\ Looks(r, i)
    BY <1>2 DEF LookInv
<1> DEFINE e == UnderNow(n, i)
           state == [rd[r] EXCEPT !.ent = e, !.par = n]
<1>4. rd' = [rd EXCEPT ![r] = state]
    BY <1>1, <1>3 DEF ReadSlot, ReaderStep, UnderNow, Under, Digit
<1>5. state.pc = "walk" /\ state.idx = i /\ state.ent = e /\ state.par = n
    <2> HIDE DEF e
    <2> QED BY <1>2, <1>3, ReaderFields
<1>6. e \in Entries
    <2>1. node[n].shift \in Shifts /\ \A o \in Slots : node[n].slots[o] \in Entries
        BY MemoryFields, SameMemory DEF StructInv
    <2> QED BY <2>1, OffsetType DEF UnderNow, Under, Digit
<1> HIDE DEF e, state
<1>7. PICK R \in SUBSET Nodes : Trace(r, i, R)
    BY <1>3 DEF Looks
<1>8. PICK S \in SUBSET Nodes : S = R \cup PassedNow(i)
    <2>1. R \cup PassedNow(i) \in SUBSET Nodes
        BY DEF PassedNow, Passed
    <2> QED BY <2>1
<1>9. \A m \in S : Sound(r, i, m, S)
    <2>1. ASSUME NEW m \in R PROVE Sound(r, i, m, S)
        BY <1>7, <1>8, SoundWider DEF Trace
    <2>2. ASSUME NEW m \in PassedNow(i) PROVE Sound(r, i, m, S)
        BY PassedHeld
    <2> QED BY <1>8, <2>1, <2>2
<1>10. n \in R /\ Sound(r, i, n, R) /\ Value(i) \in seen[r]
    BY <1>1, <1>2, <1>3, <1>7 DEF Trace, Looks, Reached
<1>11. (e \in Nodes => e \in S) /\ (~IsInternal(e) => e \in seen[r])
    <2>1. CASE n \in Members
        <3>1. n \in PassedNow(i)
            BY <1>10, <2>1 DEF Sound
        <3>2. (e \in Nodes => e \in PassedNow(i)) /\ (e \notin Nodes => Value(i) = e)
            BY <3>1, PassedLeads DEF e
        <3> QED BY <1>8, <1>10, <3>2 DEF IsInternal
    <2>2. CASE n \notin Members
        <3>1. /\ e \in Nodes => e \in R
              /\ e = NULL => NULL \in seen[r]
              /\ e \in Items => e = Value(i)
            BY <1>10, <2>2 DEF Sound, e
        <3> QED BY <1>6, <1>8, <1>10, <3>1 DEF IsInternal, Entries
    <2> QED BY <2>1, <2>2
<1>12. n # NULL /\ {state.ent, state.par} \cap Nodes \subseteq S
    BY <1>5, <1>8, <1>10, <1>11, EntryAssumption
<1> QED BY <1>2, <1>3, <1>4, <1>5, <1>9, <1>11, <1>12, ReaderLooks

LEMMA ReadRetryLook ==
    ASSUME StructInv, LookInv, NEW r \in Readers, ReadRetry(r) PROVE LookInv'
<1> DEFINE state == [rd[r] EXCEPT !.pc = "restart", !.ent = NULL]
<1>1. /\ rd' = [rd EXCEPT ![r] = state] /\ TypeOK /\ InSection(r)
      /\ UNCHANGED <<root, node, heap, grace, w, seen>>
    BY DEF ReadRetry, ReaderStep, WriterSame, tree, InSection, StructInv, TypeInv
<1>2. state.pc = "restart" /\ state.idx = rd[r].idx
    BY <1>1, ReaderFields
<1> HIDE DEF state
<1>3. {} \in SUBSET Nodes
    OBVIOUS
<1> QED BY <1>1, <1>2, <1>3, ReaderLooks

LEMMA ReadUnlockLook ==
    ASSUME StructInv, LookInv, NEW r \in Readers, ReadUnlock(r) PROVE LookInv'
<1>1. /\ rd' = [rd EXCEPT ![r] = Out] /\ TypeOK /\ UNCHANGED <<root, node, heap, w>>
      /\ seen' = [seen EXCEPT ![r] = {}] /\ grace' = [n \in Nodes |-> grace[n] \ {r}]
    BY DEF ReadUnlock, ReaderStep, WriterSame, StructInv, TypeInv
<1>2. \A q \in Readers \ {r} : /\ seen'[q] = seen[q]
                              /\ \A n \in Nodes : q \in grace[n] => q \in grace'[n]
    BY <1>1 DEF LookInv
<1>3. DOMAIN seen' = DOMAIN seen /\ Out.pc = "out"
    BY <1>1 DEF Out
<1> QED BY <1>1, <1>2, <1>3, OneLooks

\* Nobody has the node a grace period gives back before it.
LEMMA RcuFreeLook ==
    ASSUME StructInv, StructInv', RcuInv, LookInv, NEW n \in Nodes, RcuFree(n) PROVE LookInv'
<1>1. /\ heap[n] = "rcu" /\ grace[n] = {} /\ UNCHANGED <<root, grace, rd, seen, w>>
      /\ \A m \in Nodes \ {n} : node'[m] = node[m] /\ heap'[m] = heap[m]
    BY DEF RcuFree, WriterSame, StructInv, TypeInv, TypeOK
<1>2. \A r \in Readers, m \in Nodes : Held(r, m) => m # n
    BY <1>1 DEF Held
<1>3. ASSUME NEW r \in Readers, NEW i \in Indices, InSection(r), Looks(r, i) PROVE Looks(r, i)'
    <2>1. /\ Value(i)' = Value(i)
          /\ \A m \in Nodes : m \in PassedNow(i) => m \in PassedNow(i)'
        <3>1. Kept(i, Tags) /\ \A m \in Nodes : m \in PassedNow(i) => m \in PassedNow(i)'
            BY RcuFreeKept DEF PassedNow
        <3> QED BY <3>1, KeptIs
    <2>2. TopMax(rd[r].ent, node)' = TopMax(rd[r].ent, node)
        <3>1. rd[r].ent \in Nodes => rd[r].ent # n
            BY <1>2 DEF RcuInv
        <3> QED BY <1>1, <3>1 DEF TopMax
    <2>3. Reached(r, i)'
        BY <1>1, <1>3, <2>1, <2>2 DEF Looks, Reached
    <2>4. PICK R \in SUBSET Nodes : Trace(r, i, R)
        BY <1>3 DEF Looks
    <2>5. ASSUME NEW m \in R PROVE Sound(r, i, m, R)'
        <3>1. Sound(r, i, m, R) /\ m \in Nodes
            BY <2>4 DEF Trace
        <3>2. m # n /\ node'[m] = node[m] /\ heap'[m] = heap[m] /\ grace'[m] = grace[m]
            BY <1>1, <1>2, <3>1 DEF Sound
        <3>3. Retiring' = Retiring
            BY <1>1 DEF Retiring
        <3>4. m \in Members' <=> m \in Members
            BY <3>1, <3>2, <3>3, MemberIs
        <3>5. UnderNow(m, i)' = UnderNow(m, i) /\ Digit(node, m, i)' = Digit(node, m, i)
            BY <3>2 DEF UnderNow, Under, Digit
        <3>6. Held(r, m)'
            BY <3>1, <3>2 DEF Sound, Held
        <3> QED BY <1>1, <2>1, <3>1, <3>3, <3>4, <3>5, <3>6 DEF Sound
    <2>6. Trace(r, i, R)'
        BY <1>1, <2>2, <2>4, <2>5 DEF Trace
    <2> QED BY <2>3, <2>6 DEF Looks
<1>4. ASSUME NEW r \in Readers, InSection(r)' PROVE rd'[r].idx \in Indices /\ Looks(r, rd[r].idx)'
    <2>1. InSection(r) /\ rd[r].idx \in Indices /\ Looks(r, rd[r].idx)
        BY <1>1, <1>4 DEF InSection, LookInv
    <2>2. PICK i \in Indices : rd[r].idx = i
        BY <2>1
    <2>3. Looks(r, i)'
        BY <1>3, <2>1, <2>2
    <2> QED BY <1>1, <2>1, <2>2, <2>3
<1>5. DOMAIN seen' = Readers
    BY <1>1 DEF LookInv
<1> QED BY <1>4, <1>5 DEF LookInv

-----------------------------------------------------------------------------
LEMMA InitLook == Init => LookInv
BY DEF Init, LookInv, InSection, Out

LEMMA ReaderLook ==
    ASSUME StructInv, LookInv, NEW r \in Readers, Reader(r) PROVE LookInv'
<1>1. TypeOK
    BY DEF StructInv, TypeInv
<1> QED BY <1>1, ReadLockLook, ReadRootLook, ReadBoundLook, ReadSlotLook, ReadRetryLook,
           ReadUnlockLook DEF Reader

LEMMA StepLook ==
    ASSUME Leftovers = {NULL}, DeferredFree = TRUE, StructInv, StructInv', TagsInv, RcuInv, LookInv,
           [Next]_vars
    PROVE  LookInv'
<1>1. CASE ((\E o \in Calls : Invoke(o)) \/ WriterStep) /\ Observe
    BY <1>1, CallLook
<1>2. ASSUME NEW r \in Readers, Reader(r) PROVE LookInv'
    BY <1>2, ReaderLook
<1>3. ASSUME NEW n \in Nodes, RcuFree(n) PROVE LookInv'
    BY <1>3, RcuFreeLook
<1>4. CASE UNCHANGED vars
    <2>1. UNCHANGED <<root, node, heap, grace, w, rd, seen>>
        BY <1>4 DEF vars
    <2>2. ASSUME NEW r \in Readers, InSection(r)' PROVE rd'[r].idx \in Indices /\ Looks(r, rd[r].idx)'
        <3>1. PICK i : i = rd[r].idx
            OBVIOUS
        <3>2. i \in Indices /\ Looks(r, i)
            BY <2>1, <2>2, <3>1 DEF LookInv, InSection
        <3>3. Looks(r, i)'
            BY <2>1, <3>2, LooksSame
        <3> QED BY <2>1, <3>1, <3>2, <3>3
    <2>3. DOMAIN seen' = Readers
        BY <2>1 DEF LookInv
    <2> QED BY <2>2, <2>3 DEF LookInv
<1> QED BY <1>1, <1>2, <1>3, <1>4 DEF Next

LEMMA LookSound == LookInv => LookupsLinearizable
BY DEF LookInv, Looks, Reached, LookupsLinearizable, Answered, InSection

\* The slot a lookup stands at shows no item but its index's own.
LEMMA SlotSound == StructInv /\ LookInv => SlotsNeverStale
<1> SUFFICES ASSUME StructInv, LookInv, NEW r \in Readers, Answered(r), SlotNow(r) \in Items,
                    rd[r].ent # NULL
             PROVE  SlotNow(r) = Value(rd[r].idx)
    BY DEF SlotsNeverStale
<1>1. TypeOK /\ NULL \notin Nodes /\ Nodes \cap Items = {}
    BY EntryAssumption DEF StructInv, TypeInv
<1>2. rd[r].pc = "walk" /\ ~IsInternal(rd[r].ent) /\ InSection(r)
    BY DEF Answered, InSection
<1>3. PICK i \in Indices : rd[r].idx = i /\ Looks(r, i)
    BY <1>2 DEF LookInv
<1>4. rd[r].ent \in Items /\ rd[r].par \in Nodes \cup {NULL}
    BY <1>1, <1>2, ReaderFields DEF IsInternal, Entries
<1>5. CASE rd[r].par = NULL
    <2>1. i = 0 /\ SlotNow(r) = root.rnode
        BY <1>2, <1>3, <1>4, <1>5 DEF Looks, Reached, SlotNow
    <2>2. i <= TopMax(root.rnode, node) /\ root.rnode \notin Nodes
        BY <1>1, <2>1 DEF TopMax
    <2> QED BY <1>3, <2>1, <2>2, RootLeads
<1>6. CASE rd[r].par \in Nodes
    <2>1. PICK n \in Nodes : rd[r].par = n
        BY <1>6
    <2>2. SlotNow(r) = UnderNow(n, i)
        BY <1>1, <1>3, <2>1 DEF SlotNow, UnderNow, Under, Digit
    <2>3. PICK R \in SUBSET Nodes : Trace(r, i, R)
        BY <1>3 DEF Looks
    <2>4. Sound(r, i, n, R)
        BY <1>2, <2>1, <2>3 DEF Trace
    <2>5. CASE n \in Members
        <3>1. n \in PassedNow(i) /\ UnderNow(n, i) \notin Nodes
            BY <1>1, <2>2, <2>4, <2>5 DEF Sound
        <3> QED BY <1>3, <2>2, <3>1, PassedLeads
    <2>6. CASE n \notin Members
        BY <1>3, <2>2, <2>4, <2>6 DEF Sound
    <2> QED BY <2>5, <2>6
<1> QED BY <1>4, <1>5, <1>6

LEMMA LooksHold ==
    ASSUME Leftovers = {NULL}, DeferredFree = TRUE PROVE Spec => [](StructInv /\ LookInv)
<1>1. Leftovers = {NULL} /\ DeferredFree = TRUE
    OBVIOUS
<1>2. StructInv /\ PlaceInv /\ TagsInv /\ RcuInv /\ LookInv /\ [Next]_vars
      => StructInv' /\ PlaceInv' /\ TagsInv' /\ RcuInv' /\ LookInv'
    BY <1>1, StepStruct, StepTags, StepRcu, StepLook
<1> QED BY <1>2, InitStruct, InitTags, InitRcu, InitLook, PTL DEF Spec

\* A lookup under rcu_read_lock returns an entry its index held while it ran
\* (__radix_tree_lookup, radix-tree.c:1046-1074), for every number of readers
\* and whatever the writer stores, frees and shrinks meanwhile.
THEOREM LookupsCorrect ==
    ASSUME Leftovers = {NULL}, DeferredFree = TRUE PROVE Spec => []LookupsLinearizable
<1>1. Spec => [](StructInv /\ LookInv)
    BY LooksHold
<1> QED BY <1>1, LookSound, PTL

\* The slot of a finished lookup (radix_tree_lookup_slot), read again under the
\* same rcu_read_lock, never shows an item that has left the tree.
THEOREM SlotsCorrect ==
    ASSUME Leftovers = {NULL}, DeferredFree = TRUE PROVE Spec => []SlotsNeverStale
<1>1. Spec => [](StructInv /\ LookInv)
    BY LooksHold
<1> QED BY <1>1, SlotSound, PTL
=============================================================================
