------------------------------ MODULE RadixTree -----------------------------
(***************************************************************************)
(* radix-tree.c as one writer and any number of lockless readers execute   *)
(* it: the writer holds the tree lock for a whole call and advances by one *)
(* reader-visible store per step; readers walk the same memory under       *)
(* rcu_read_lock, one pointer per step.  Shifts are counted in units of    *)
(* RADIX_TREE_MAP_SHIFT, so a slot of a node of shift s spans MapSize^s    *)
(* indices.  CONFIG_RADIX_TREE_MULTIORDER is not defined in this build and *)
(* callers pass order 0.  The IDR flavour of the root is not modelled here.*)
(***************************************************************************)
EXTENDS Integers, FiniteSets

CONSTANTS
    Nodes,       \* addresses the node cache can hand out
    Items,       \* entries callers store
    Exceptional, \* the entries with RADIX_TREE_EXCEPTIONAL_ENTRY set
    Readers,     \* threads that only look up
    Indices,     \* the keys callers use
    MapSize,     \* RADIX_TREE_MAP_SIZE
    Height,      \* RADIX_TREE_MAX_PATH
    MaxIndex,    \* ULONG_MAX
    MaxTags,     \* RADIX_TREE_MAX_TAGS
    NULL,
    RETRY,       \* RADIX_TREE_RETRY
    Leftovers,   \* what the slots of a fresh node may hold ({NULL}: zeroed)
    DeferredFree \* does call_rcu wait for the readers (the kernel's), or not

ASSUME SizeAssumption ==
    MapSize \in Nat \ {0, 1} /\ Height \in Nat \ {0} /\ MaxTags \in Nat
ASSUME IndexAssumption == MaxIndex \in Nat /\ Indices \subseteq 0 .. MaxIndex
\* A power of the map size is a positive number (the provers leave ^ uninterpreted).
ASSUME SpanAssumption == \A s \in 0 .. Height : MapSize ^ s \in Nat \ {0}
ASSUME PowerAssumption ==
    MapSize ^ 0 = 1 /\ \A s \in 0 .. (Height - 1) : MapSize ^ (s + 1) = MapSize * MapSize ^ s
\* Index width and map size are both powers of two: one divides the other.
ASSUME WidthAssumption ==
    \A s \in 0 .. Height :
      MapSize ^ s <= MaxIndex + 1 \/ MapSize ^ s % (MaxIndex + 1) = 0
ASSUME EntryAssumption ==
    /\ NULL \notin Nodes \cup Items /\ RETRY \notin Nodes \cup Items
    /\ NULL # RETRY /\ Nodes \cap Items = {}
    /\ Exceptional \subseteq Items /\ Leftovers \subseteq Items \cup {NULL}
ASSUME ModeAssumption == DeferredFree \in BOOLEAN

Slots == 0 .. (MapSize - 1)
Tags == 0 .. (MaxTags - 1)
Shifts == 0 .. (Height - 1)
Entries == Items \cup Nodes \cup {NULL, RETRY}

\* The calls of the one writer, with their arguments.
Inserts  == [kind : {"insert"},  index : Indices, item : Items]
Deletes  == [kind : {"delete"},  index : Indices, item : Items \cup {NULL}]
Replaces == [kind : {"replace"}, index : Indices, item : Items \cup {NULL}]
TagSets  == [kind : {"tag_set"},   index : Indices, tag : Tags]
TagClears == [kind : {"tag_clear"}, index : Indices, tag : Tags]
Calls == Inserts \cup Deletes \cup Replaces \cup TagSets \cup TagClears
ASSUME CallAssumption == NULL \notin Calls

VARIABLES
    root,   \* struct radix_tree_root: the top entry and the root's tag bits
    node,   \* the memory of every struct radix_tree_node
    heap,   \* "free", "live" (allocated) or "rcu" (handed to call_rcu)
    grace,  \* for a node in "rcu": the readers its grace period waits for
    w,      \* the writer: its call and the local variables of that call
    ret,    \* what the last completed call returned
    rd,     \* the readers: index looked up, entry reached, node it was read from
    seen,   \* history: the values each reader's index had since it began
    before, \* history: the map and the tags when the writer's call began
    oom     \* history: an allocation has failed

tree == <<root, node, heap, grace>>
vars == <<root, node, heap, grace, w, ret, rd, seen, before, oom>>

-----------------------------------------------------------------------------
(* Reading the tree.                                                       *)

\* shift_maxindex: the span of a whole node less one, modulo the index width.
ShiftMaxIndex(s) == (MapSize ^ (s + 1) - 1) % (MaxIndex + 1)

\* Mutant: the mask is forgotten.
OffsetUnmasked(s, i) == i \div MapSize ^ s

\* radix_tree_descend: the digit of an index that selects a slot of a node.
Offset(s, i) == (i \div MapSize ^ s) % MapSize

\* radix_tree_load_root: the shift above the top node and the largest index.
RootShift == IF root.rnode \in Nodes THEN node[root.rnode].shift + 1 ELSE 0
RootMaxIndex ==
    IF root.rnode \in Nodes THEN ShiftMaxIndex(node[root.rnode].shift) ELSE 0

\* The entries met on the way down to index i (__radix_tree_lookup's loop).
Walk(i) ==
    LET e[k \in 0 .. Height] ==
            IF k = 0 THEN root.rnode
            ELSE IF e[k - 1] \in Nodes
                 THEN node[e[k - 1]].slots[Offset(node[e[k - 1]].shift, i)]
                 ELSE e[k - 1]
    IN  e

\* What a lookup of i started and finished now returns.
Value(i) == IF i > RootMaxIndex THEN NULL ELSE Walk(i)[Height]

\* radix_tree_tag_get
Tagged(i, t) ==
    /\ t \in root.tags
    /\ i <= RootMaxIndex
    /\ LET e == Walk(i) IN
       \A k \in 0 .. Height :
          e[k] \in Nodes => Offset(node[e[k]].shift, i) \in node[e[k]].tags[t]

Snapshot == [map    |-> [i \in Indices |-> Value(i)],
             tagged |-> [t \in Tags |-> {i \in Indices : Tagged(i, t)}]]

-----------------------------------------------------------------------------
(* Node memory.                                                            *)

Blank == [shift |-> 0, offset |-> 0, count |-> 0, exceptional |-> 0,
          parent |-> NULL, slots |-> [s \in Slots |-> NULL],
          tags |-> [t \in Tags |-> {}]]

Free == {n \in Nodes : heap[n] = "free"}
Live == {n \in Nodes : heap[n] = "live"}

\* Mutant: the slot a node hangs at is not recorded.
FreshNoOffset(s, o, c, p, left) ==
    [Blank EXCEPT !.shift = s, !.count = c, !.parent = p, !.slots = left]

\* radix_tree_node_alloc sets the header; slots keep what the memory held.
Fresh(s, o, c, p, left) ==
    [Blank EXCEPT !.shift = s, !.offset = o, !.count = c, !.parent = p, !.slots = left]

InSection(r) == rd[r].pc # "out"

\* Mutant: exceptional entries are not accounted.
StoredUncounted(mem, n, o, e, dcount, dexc) ==
    IF n = NULL THEN mem ELSE [mem EXCEPT ![n].slots[o] = e, ![n].count = @ + dcount]

\* The store *slot = e with the accounting of its node (NULL: the root slot).
Stored(mem, n, o, e, dcount, dexc) ==
    IF n = NULL THEN mem
    ELSE [mem EXCEPT ![n].slots[o] = e, ![n].count = @ + dcount,
                     ![n].exceptional = @ + dexc]
RootStored(n, e) == IF n = NULL THEN [root EXCEPT !.rnode = e] ELSE root

\* Mutants: the node is never freed; it is freed without waiting for readers.
RetireNever(mem, n) == node' = mem /\ UNCHANGED <<heap, grace>>
RetireAtOnce(mem, n) == /\ heap' = [heap EXCEPT ![n] = "free"]
                        /\ node' = [mem EXCEPT ![n] = Blank]
                        /\ UNCHANGED grace

\* radix_tree_node_free(n) after the stores that led to memory mem.
Retire(mem, n) ==
    IF DeferredFree
    THEN /\ heap' = [heap EXCEPT ![n] = "rcu"]
         /\ grace' = [grace EXCEPT ![n] = {r \in Readers : InSection(r)}]
         /\ node' = mem
    ELSE /\ heap' = [heap EXCEPT ![n] = "free"]
         /\ node' = [mem EXCEPT ![n] = Blank]
         /\ UNCHANGED grace

IsExceptional(e) == IF e \in Exceptional THEN 1 ELSE 0
IsEntry(e) == IF e = NULL THEN 0 ELSE 1

-----------------------------------------------------------------------------
(* The writer.                                                             *)

Idle == [pc |-> "idle", op |-> NULL, cur |-> NULL, off |-> 0, shift |-> 0,
         top |-> 0, res |-> NULL]

Return(r) == w' = Idle /\ ret' = r
Goto(state) == w' = state /\ UNCHANGED ret

\* A caller takes the lock and calls; a tag is set on a present index only, and
\* a slot is emptied by replacement after its tags are cleared.
Callable(o) ==
    /\ o.kind = "tag_set" => Value(o.index) # NULL
    /\ o.kind = "replace" /\ o.item = NULL => \A t \in Tags : ~Tagged(o.index, t)

Invoke(o) ==
    /\ w.op = NULL
    /\ Callable(o)
    /\ w' = [w EXCEPT !.pc = o.kind, !.op = o]
    /\ ret' = NULL
    /\ before' = Snapshot
    /\ UNCHANGED <<root, node, heap, grace, oom>>

\* The least shift from the root's on at which index i fits (radix_tree_extend).
Fits(i, m) ==
    /\ m >= RootShift
    /\ i <= ShiftMaxIndex(m)
    /\ \A k \in RootShift .. (m - 1) : i > ShiftMaxIndex(k)

\* __radix_tree_create up to its loop: an empty tree gets its height for free.
InsertStart ==
    /\ w.pc = "insert"
    /\ IF w.op.index <= RootMaxIndex
       THEN Goto([w EXCEPT !.pc = "create", !.shift = RootShift])
       ELSE \E m \in Shifts :
              /\ Fits(w.op.index, m)
              /\ Goto(IF root.rnode = NULL
                      THEN [w EXCEPT !.pc = "create", !.shift = m + 1]
                      ELSE [w EXCEPT !.pc = "extend", !.shift = RootShift, !.top = m])
    /\ UNCHANGED tree

\* Memory with a new parent for an entry, if that is a node.
Reparented(e, p) == IF e \in Nodes THEN [node EXCEPT ![e].parent = p] ELSE node

\* Mutant: the new top is published before its first slot is filled.
NewTopEmpty(left) == Fresh(w.shift, 0, 1, NULL, left)

\* A node of the writer's shift over the present root, with the root's tags.
NewTop(left) ==
    [Fresh(w.shift, 0, 1, NULL, [left EXCEPT ![0] = root.rnode])
        EXCEPT !.exceptional = IsExceptional(root.rnode),
               !.tags = [t \in Tags |-> IF t \in root.tags THEN {0} ELSE {}]]

\* radix_tree_extend: one more level on top of the tree.
Extend ==
    /\ w.pc = "extend"
    /\ \E n \in Free, left \in [Slots -> Leftovers] :
         /\ node' = [Reparented(root.rnode, n) EXCEPT ![n] = NewTop(left)]
         /\ heap' = [heap EXCEPT ![n] = "live"]
         /\ root' = [root EXCEPT !.rnode = n]
    /\ Goto([w EXCEPT !.pc = IF w.shift < w.top THEN "extend" ELSE "create",
                      !.shift = @ + 1])
    /\ UNCHANGED grace

ExtendFails == w.pc = "extend" /\ Return("ENOMEM") /\ UNCHANGED tree

\* The slot the writer stands at: one of its node, or the root.
AtSlot == IF w.cur = NULL THEN root.rnode ELSE node[w.cur].slots[w.off]

\* One turn of __radix_tree_create's loop through an existing child.
Descend ==
    /\ w.pc = "create"
    /\ w.shift > 0
    /\ AtSlot \in Nodes
    /\ Goto([w EXCEPT !.shift = @ - 1, !.cur = AtSlot,
                      !.off = Offset(node[AtSlot].shift, w.op.index)])
    /\ UNCHANGED tree

\* The same turn when the child has to be allocated and linked first.
CreateChild ==
    /\ w.pc = "create"
    /\ w.shift > 0
    /\ AtSlot = NULL
    /\ \E n \in Free, left \in [Slots -> Leftovers] :
         /\ node' = [Stored(node, w.cur, w.off, n, 1, 0)
                        EXCEPT ![n] = Fresh(w.shift - 1, w.off, 0, w.cur, left)]
         /\ heap' = [heap EXCEPT ![n] = "live"]
         /\ root' = RootStored(w.cur, n)
         /\ Goto([w EXCEPT !.shift = @ - 1, !.cur = n,
                           !.off = Offset(w.shift - 1, w.op.index)])
    /\ UNCHANGED grace

CreateFails ==
    /\ w.pc = "create"
    /\ w.shift > 0
    /\ AtSlot = NULL
    /\ Return("ENOMEM")
    /\ UNCHANGED tree

\* insert_entries, once the loop has reached the slot.
InsertEntry ==
    /\ w.pc = "create"
    /\ w.shift = 0 \/ AtSlot \in Items
    /\ IF AtSlot # NULL
       THEN Return("EEXIST") /\ UNCHANGED tree
       ELSE /\ node' = Stored(node, w.cur, w.off, w.op.item, 1, IsExceptional(w.op.item))
            /\ root' = RootStored(w.cur, w.op.item)
            /\ Return("ok")
            /\ UNCHANGED <<heap, grace>>

-----------------------------------------------------------------------------
(* The lookup of the calls that need a present slot (__radix_tree_lookup).  *)

FindStart ==
    /\ w.pc \in {"delete", "replace", "tag_clear", "tag_set"}
    /\ IF w.op.index > RootMaxIndex THEN Return(NULL) ELSE Goto([w EXCEPT !.pc = "find"])
    /\ UNCHANGED tree

\* radix_tree_tag_set goes down the same way and leaves the tag on each level.
FindStep ==
    /\ w.pc = "find"
    /\ AtSlot \in Nodes
    /\ LET o == Offset(node[AtSlot].shift, w.op.index)
       IN  /\ node' = IF w.op.kind = "tag_set"
                      THEN [node EXCEPT ![AtSlot].tags[w.op.tag] = @ \cup {o}]
                      ELSE node
           /\ Goto([w EXCEPT !.cur = AtSlot, !.off = o])
    /\ UNCHANGED <<root, heap, grace>>

\* The writer stands at the slot of its index.
Found(kind) == w.pc = "find" /\ AtSlot \notin Nodes /\ w.op.kind = kind

-----------------------------------------------------------------------------
(* Tags.                                                                   *)

TagSet ==
    /\ Found("tag_set")
    /\ root' = [root EXCEPT !.tags = @ \cup {w.op.tag}]
    /\ Return(AtSlot)
    /\ UNCHANGED <<node, heap, grace>>

\* The (node, slot) pairs from slot o of node n up through the parents.
Climb(n, o) ==
    LET up[k \in 0 .. Height] ==
            IF k = 0 THEN [n |-> n, o |-> o]
            ELSE IF up[k - 1].n = NULL THEN up[k - 1]
            ELSE [n |-> node[up[k - 1].n].parent, o |-> node[up[k - 1].n].offset]
    IN  up

\* Mutant: only the lowest bit is cleared.
ClearedLowest(n, o, t) == {0}

\* node_tag_clear climbs as long as the bit it cleared was a node's last one.
ClearedUpTo(n, o, t) ==
    LET up == Climb(n, o)
    IN  {k \in 0 .. Height :
            \A j \in 0 .. (k - 1) : up[j].n # NULL /\ node[up[j].n].tags[t] = {up[j].o}}

\* Memory and root tags after node_tag_clear of every tag in ts at (n, o).
TagsCleared(n, o, ts) ==
    LET up == Climb(n, o)
        Bits(m, t) == {up[k].o : k \in {j \in ClearedUpTo(n, o, t) : up[j].n = m}}
    IN  [m \in Nodes |->
           [node[m] EXCEPT !.tags =
              [t \in Tags |-> IF t \in ts THEN @[t] \ Bits(m, t) ELSE @[t]]]]
\* Mutant of the next: the root's bits stay.
RootTagsKept(n, o, ts) == root.tags
RootTagsCleared(n, o, ts) ==
    {t \in root.tags : t \in ts =>
        \A k \in ClearedUpTo(n, o, t) : Climb(n, o)[k].n # NULL}

\* radix_tree_tag_clear
TagClear ==
    /\ Found("tag_clear")
    /\ Return(AtSlot)
    /\ IF AtSlot = NULL
       THEN UNCHANGED tree
       ELSE /\ node' = TagsCleared(w.cur, w.off, {w.op.tag})
            /\ root' = [root EXCEPT !.tags = RootTagsCleared(w.cur, w.off, {w.op.tag})]
            /\ UNCHANGED <<heap, grace>>

-----------------------------------------------------------------------------
(* Deletion, replacement, and the pruning both end with.                   *)

\* After the slot was stored to: delete_node starts at its node, if it has one.
PruneFrom(r) ==
    IF w.cur = NULL THEN Return(r) ELSE Goto([w EXCEPT !.pc = "prune", !.res = r])

\* radix_tree_delete_item and __radix_tree_delete: tags first, then the slot.
Delete ==
    /\ Found("delete")
    /\ IF AtSlot = NULL \/ w.op.item \notin {NULL, AtSlot}
       THEN Return(NULL) /\ UNCHANGED tree
       ELSE /\ node' = Stored(TagsCleared(w.cur, w.off, Tags), w.cur, w.off,
                             NULL, -1, -IsExceptional(AtSlot))
            /\ root' = [RootStored(w.cur, NULL)
                           EXCEPT !.tags = RootTagsCleared(w.cur, w.off, Tags)]
            /\ PruneFrom(AtSlot)
            /\ UNCHANGED <<heap, grace>>

\* Update-if-exists: __radix_tree_replace of the slot a lookup returned.
Replace ==
    /\ Found("replace")
    /\ LET entry == w.op.item IN
       IF AtSlot = NULL
       THEN Return(NULL) /\ UNCHANGED tree
       ELSE /\ node' = Stored(node, w.cur, w.off, entry, IsEntry(entry) - IsEntry(AtSlot),
                              IsExceptional(entry) - IsExceptional(AtSlot))
            /\ root' = RootStored(w.cur, entry)
            /\ PruneFrom("ok")
            /\ UNCHANGED <<heap, grace>>

\* Mutants: the tree is never shrunk; the return is forgotten and the loop spins.
PruneEndUnshrunk == w.pc = "prune" /\ node[w.cur].count # 0 /\ Return(w.res) /\ UNCHANGED tree
PruneEndSpins == /\ w.pc = "prune"
                 /\ node[w.cur].count # 0
                 /\ root.rnode = w.cur
                 /\ Goto([w EXCEPT !.pc = "shrink"])
                 /\ UNCHANGED tree

\* delete_node: the node still has entries.
PruneEnd ==
    /\ w.pc = "prune"
    /\ node[w.cur].count # 0
    /\ IF root.rnode = w.cur THEN Goto([w EXCEPT !.pc = "shrink"]) ELSE Return(w.res)
    /\ UNCHANGED tree

\* delete_node: unlink an empty node, free it, and go on with its parent.
PruneNode ==
    /\ w.pc = "prune"
    /\ LET n == w.cur
           p == node[n].parent
       IN  /\ node[n].count = 0
           /\ root' = IF p = NULL THEN [rnode |-> NULL, tags |-> {}] ELSE root
           /\ Retire(Stored(node, p, node[n].offset, NULL, -1, 0), n)
           /\ IF p = NULL THEN Return(w.res) ELSE Goto([w EXCEPT !.cur = p])

\* radix_tree_shrink may drop the top node: its only entry is in slot 0, and
\* is a node or the single item of the lowest level.
Shrinkable(n) ==
    /\ n \in Nodes
    /\ node[n].count = 1
    /\ node[n].slots[0] # NULL
    /\ node[n].slots[0] \in Nodes \/ node[n].shift = 0

ShrinkEnd ==
    /\ w.pc = "shrink"
    /\ ~Shrinkable(root.rnode)
    /\ Return(w.res)
    /\ UNCHANGED tree

\* The top node's only child becomes the root ...
ShrinkRoot ==
    /\ w.pc = "shrink"
    /\ Shrinkable(root.rnode)
    /\ LET n == root.rnode
           c == node[n].slots[0]
       IN  /\ root' = [root EXCEPT !.rnode = c]
           /\ node' = [Reparented(c, NULL) EXCEPT ![n].count = 0]
           /\ Goto([w EXCEPT !.pc = "retire", !.cur = n])
    /\ UNCHANGED <<heap, grace>>

\* Mutant: the slot of the old top is left as it is.
ShrinkRetireSilent == /\ w.pc = "retire"
                      /\ Retire(node, w.cur)
                      /\ Goto([w EXCEPT !.pc = "shrink"])
                      /\ UNCHANGED root

\* ... and the old top is freed; a reader at its item is told to start over.
ShrinkRetire ==
    /\ w.pc = "retire"
    /\ LET n == w.cur IN
       Retire(IF node[n].slots[0] \in Nodes THEN node
              ELSE [node EXCEPT ![n].slots[0] = RETRY], n)
    /\ Goto([w EXCEPT !.pc = "shrink"])
    /\ UNCHANGED root

-----------------------------------------------------------------------------
(* Lockless lookups: __radix_tree_lookup under rcu_read_lock.              *)

Out == [pc |-> "out", idx |-> 0, ent |-> NULL, par |-> NULL]
IsInternal(e) == e \in Nodes \cup {RETRY}

ReaderStep(r, state) == rd' = [rd EXCEPT ![r] = state]
WriterSame == UNCHANGED <<w, ret, before, oom>>

ReadLock(r, i) ==
    /\ rd[r].pc = "out"
    /\ ReaderStep(r, [Out EXCEPT !.pc = "restart", !.idx = i])
    /\ seen' = [seen EXCEPT ![r] = {Value(i)}]
    /\ WriterSame /\ UNCHANGED tree

ReadRoot(r) ==
    /\ rd[r].pc = "restart"
    /\ ReaderStep(r, [rd[r] EXCEPT !.pc = "bound", !.ent = root.rnode, !.par = NULL])
    /\ WriterSame /\ UNCHANGED <<tree, seen>>

\* Mutant: the top is read a second time for its bound.
ReadBoundTwice(r) ==
    /\ rd[r].pc = "bound"
    /\ ReaderStep(r, [rd[r] EXCEPT !.pc = "walk",
                                   !.ent = IF rd[r].idx > RootMaxIndex THEN NULL ELSE @])
    /\ WriterSame /\ UNCHANGED <<tree, seen>>

\* The index against the largest one of the top node just read.
ReadBound(r) ==
    /\ rd[r].pc = "bound"
    /\ LET e == rd[r].ent
           max == IF e \in Nodes THEN ShiftMaxIndex(node[e].shift) ELSE 0
       IN  ReaderStep(r, [rd[r] EXCEPT !.pc = "walk",
                                       !.ent = IF rd[r].idx > max THEN NULL ELSE e])
    /\ WriterSame /\ UNCHANGED <<tree, seen>>

ReadSlot(r) ==
    /\ rd[r].pc = "walk"
    /\ rd[r].ent \in Nodes
    /\ LET n == node[rd[r].ent]
       IN  ReaderStep(r, [rd[r] EXCEPT !.ent = n.slots[Offset(n.shift, rd[r].idx)],
                                       !.par = rd[r].ent])
    /\ WriterSame /\ UNCHANGED <<tree, seen>>

ReadRetry(r) ==
    /\ rd[r].pc = "walk"
    /\ rd[r].ent = RETRY
    /\ ReaderStep(r, [rd[r] EXCEPT !.pc = "restart", !.ent = NULL])
    /\ WriterSame /\ UNCHANGED <<tree, seen>>

\* The lookup has its answer.
Answered(r) == rd[r].pc = "walk" /\ ~IsInternal(rd[r].ent)

ReadUnlock(r) ==
    /\ Answered(r)
    /\ ReaderStep(r, Out)
    /\ seen' = [seen EXCEPT ![r] = {}]
    /\ grace' = [n \in Nodes |-> grace[n] \ {r}]
    /\ WriterSame /\ UNCHANGED <<root, node, heap>>

\* The grace period of a node ends: radix_tree_node_rcu_free.
RcuFree(n) ==
    /\ heap[n] = "rcu"
    /\ grace[n] = {}
    /\ heap' = [heap EXCEPT ![n] = "free"]
    /\ node' = [node EXCEPT ![n] = Blank]
    /\ WriterSame /\ UNCHANGED <<root, grace, rd, seen>>

-----------------------------------------------------------------------------
Init == /\ root = [rnode |-> NULL, tags |-> {}]
        /\ node = [n \in Nodes |-> Blank]
        /\ heap = [n \in Nodes |-> "free"]
        /\ grace = [n \in Nodes |-> {}]
        /\ w = Idle
        /\ ret = NULL
        /\ rd = [r \in Readers |-> Out]
        /\ seen = [r \in Readers |-> {}]
        /\ before = Snapshot
        /\ oom = FALSE

\* What the active readers could have returned: each value since they began.
Observe ==
    /\ seen' = [r \in Readers |->
                  IF InSection(r) THEN seen[r] \cup {Value(i)' : i \in {rd[r].idx}} ELSE {}]
    /\ UNCHANGED rd

Create == InsertStart \/ Extend \/ Descend \/ CreateChild \/ InsertEntry
Prune == PruneEnd \/ PruneNode \/ ShrinkEnd \/ ShrinkRoot \/ ShrinkRetire
AllocFails == (ExtendFails \/ CreateFails) /\ oom' = TRUE
WriterStep == /\ \/ AllocFails
                 \/ (Create \/ FindStart \/ FindStep \/ TagSet \/ TagClear \/ Delete \/ Replace \/ Prune) /\ UNCHANGED oom
              /\ UNCHANGED before
Reader(r) == (\E i \in Indices : ReadLock(r, i)) \/ ReadRoot(r) \/ ReadBound(r)
             \/ ReadSlot(r) \/ ReadRetry(r) \/ ReadUnlock(r)

Next == \/ ((\E o \in Calls : Invoke(o)) \/ WriterStep) /\ Observe
        \/ \E r \in Readers : Reader(r)
        \/ \E n \in Nodes : RcuFree(n)

Spec == Init /\ [][Next]_vars

-----------------------------------------------------------------------------
(* What is checked.                                                        *)

NodeType == [shift : Shifts, offset : Slots, count : Int, exceptional : Int,
             parent : Nodes \cup {NULL}, slots : [Slots -> Entries],
             tags : [Tags -> SUBSET Slots]]

Places == {"idle", "insert", "extend", "create", "find", "delete", "replace",
           "tag_set", "tag_clear", "prune", "shrink", "retire"}
WriterType == [pc : Places, op : Calls \cup {NULL}, cur : Nodes \cup {NULL}, off : Slots,
               shift : 0 .. Height, top : Shifts, res : Entries \cup {"ok"}]

\* Every variable stays in its domain.
TypeOK ==
    /\ root \in [rnode : Entries, tags : SUBSET Tags]
    /\ node \in [Nodes -> NodeType]
    /\ heap \in [Nodes -> {"free", "live", "rcu"}]
    /\ grace \in [Nodes -> SUBSET Readers]
    /\ w \in WriterType
    /\ ret \in Entries \cup {"ok", "EEXIST", "ENOMEM"}
    /\ rd \in [Readers -> [pc : {"out", "restart", "bound", "walk"},
                           idx : Indices \cup {0}, ent : Entries, par : Nodes \cup {NULL}]]
    /\ oom \in BOOLEAN

AtRest == w.op = NULL

\* Between calls parent and offset lead back to the one slot that holds a
\* node, a child is one level lower, and a lowest node holds only entries:
\* extend, create, prune and shrink relink all of them, in several stores.
LinksAgree ==
    AtRest =>
      /\ root.rnode # RETRY
      /\ root.rnode \in Nodes => root.rnode \in Live /\ node[root.rnode].parent = NULL
      /\ \A n \in Live, o \in Slots :
           LET c == node[n].slots[o] IN
           /\ c # RETRY
           /\ c \in Items => node[n].shift = 0
           /\ c \in Nodes => /\ c \in Live /\ node[c].shift + 1 = node[n].shift
                             /\ node[c].parent = n /\ node[c].offset = o

\* Between calls every allocated node hangs in the tree: no call, failed or
\* not, leaks a node or forgets one.
NothingLeaked ==
    AtRest =>
      \A n \in Live : IF node[n].parent = NULL THEN root.rnode = n
                      ELSE /\ node[n].parent \in Live
                           /\ node[node[n].parent].slots[node[n].offset] = n

\* count and exceptional (radix-tree.h:93-99) are what the slots hold: pruning
\* and shrinking decide on them alone.
CountsAgree ==
    AtRest =>
      \A n \in Live :
        /\ node[n].count = Cardinality({o \in Slots : node[n].slots[o] # NULL})
        /\ node[n].exceptional = Cardinality({o \in Slots : node[n].slots[o] \in Exceptional})

\* Between calls a tag bit of a slot that holds a node says whether that node
\* has the tag anywhere, up to the root's own bits, and no empty slot is
\* tagged: tagged iteration skips whatever the bits above it do not announce.
TagsSummarise ==
    AtRest =>
      /\ root.rnode = NULL => root.tags = {}
      /\ root.rnode \in Nodes => root.tags = {t \in Tags : node[root.rnode].tags[t] # {}}
      /\ \A n \in Live, t \in Tags, o \in Slots :
           LET c == node[n].slots[o]
               bit == o \in node[n].tags[t]
           IN  IF c \in Nodes THEN bit <=> node[c].tags[t] # {} ELSE bit => c # NULL

\* As long as no allocation failed, the tree is as low and as small as it can
\* be between calls: no empty node and no top node that shrink would drop.
Compact ==
    AtRest /\ ~oom => ~Shrinkable(root.rnode) /\ \A n \in Live : node[n].count > 0

\* While a call is in progress, every store on its way leaves all the other
\* indices alone, and its own index holds its old or its new entry: the tree
\* grows, shrinks and is pruned under lockless readers.
OthersUndisturbed ==
    w.op # NULL =>
      \A i \in Indices :
        \/ Value(i) = before.map[i]
        \/ /\ i = w.op.index
           /\ Value(i) = IF w.op.kind = "delete" THEN NULL ELSE w.op.item

\* A lockless reader never holds a node that was given back to the allocator.
ReadersSafe ==
    \A r \in Readers :
      rd[r].pc \in {"bound", "walk"} /\ rd[r].ent \in Nodes => heap[rd[r].ent] # "free"

\* A lockless lookup returns an entry its index held at some time since the
\* lookup began, whatever insertions, shrinking and pruning it raced with.
LookupsLinearizable == \A r \in Readers : Answered(r) => rd[r].ent \in seen[r]

\* The slot a lockless lookup_slot found may be dereferenced again and again
\* under the same lock: it never shows an entry that has left the tree (it
\* becomes empty, or an internal entry that tells the reader to look up anew).
SlotNow(r) ==
    IF rd[r].par = NULL THEN root.rnode
    ELSE node[rd[r].par].slots[Offset(node[rd[r].par].shift, rd[r].idx)]
SlotsNeverStale ==
    \A r \in Readers :
      Answered(r) /\ rd[r].ent # NULL /\ SlotNow(r) \in Items => SlotNow(r) = Value(rd[r].idx)

\* The tree implements the map: each call has its whole effect and its result,
\* or none (refinement: mid-call the map is the one the call began with).
Map == INSTANCE RadixMap WITH
         map    <- IF AtRest THEN Snapshot.map ELSE before.map,
         tagged <- IF AtRest THEN Snapshot.tagged ELSE before.tagged,
         op     <- w.op
ImplementsMap == Map!Spec

\* The caller that holds the lock keeps running until its call returns.
WriterFair == WF_vars(WriterStep /\ Observe)
FairSpec == Spec /\ WriterFair

\* Every call returns: the loops of create, extend, delete_node and shrink end.
CallsReturn == (w.op # NULL) ~> (w.op = NULL)
=============================================================================
