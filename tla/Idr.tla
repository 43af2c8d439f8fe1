-------------------------------- MODULE Idr ---------------------------------
(***************************************************************************)
(* The IDR flavour of a radix tree root: tag IDR_FREE marks the slots that *)
(* are free, or that have a free one below, and idr_get_free_cmn looks for *)
(* one.  The calls are made under the caller's lock, one step per turn of  *)
(* a loop; lockless lookups are those of RadixTree.  The callers' part is  *)
(* that of the kernel's idr_alloc, which is not in the repository.         *)
(***************************************************************************)
EXTENDS RadixIter

CONSTANT IdrStarts,  \* the first ids callers ask for
         IdrMaxima   \* the last ids they accept

\* Bound: with max = ULONG_MAX, start wraps to 0 past the last id.
ASSUME IdrAssumption ==
    IdrStarts \subseteq 0 .. MaxIndex /\ IdrMaxima \subseteq 0 .. (MaxIndex - 1) /\ MaxTags > 0

IDR_FREE == 0
ENOMEM == 12
ENOSPC == 28

\* w.op.index is the local start, from the start the caller gave.
IdrAllocs == {[kind |-> "alloc", from |-> s, index |-> s, max |-> m, item |-> p] :
                 s \in IdrStarts, m \in IdrMaxima, p \in Items \cup {NULL}}
IdrOthers == {[kind |-> k, from |-> i, index |-> i, max |-> 0, item |-> p] :
                 k \in {"delete", "replace"}, i \in IdrStarts, p \in Items \cup {NULL}}
IdrDestroys == {[kind |-> "destroy", from |-> 0, index |-> 0, max |-> 0, item |-> NULL]}
IdrOps == IdrAllocs \cup {o \in IdrOthers : o.kind = "delete" => o.item = NULL}
                    \cup IdrDestroys

IdrFreeAt(n, o) == IF n = NULL THEN IDR_FREE \in root.tags ELSE o \in node[n].tags[IDR_FREE]

\* The ids in use, with their pointers: not IDR_FREE at the end of the walk.
InUse(i) == /\ i <= RootMaxIndex
            /\ IF root.rnode \notin Nodes THEN IDR_FREE \notin root.tags
               ELSE LET leaf == CHOOSE e \in {Walk(i)[k] : k \in 0 .. Height} \cap Nodes :
                                   node[e].slots[Offset(node[e].shift, i)] \notin Nodes
                    IN  Offset(node[leaf].shift, i) \notin node[leaf].tags[IDR_FREE]
Ids == [i \in {j \in 0 .. MaxIndex : InUse(j)} |-> Value(i)]

-----------------------------------------------------------------------------
\* The bound on nodes that wait for call_rcu is OtherCall's.
IdrCall(o) ==
    /\ AtRest
    /\ \A n \in Nodes : heap[n] = "rcu" => grace[n] # {}
    /\ w' = [w EXCEPT !.pc = o.kind, !.op = o]
    /\ ret' = NULL
    /\ before' = Ids
    /\ UNCHANGED tree

\* From label grow: the least id from start on that may be free.
IdrGrow ==
    /\ w.pc = "alloc"
    /\ LET start == IF IDR_FREE \notin root.tags /\ w.op.index <= RootMaxIndex
                    THEN RootMaxIndex + 1 ELSE w.op.index
           state == [w EXCEPT !.op.index = start, !.cur = NULL, !.off = 0]
       IN  IF start > w.op.max THEN Return(-ENOSPC)
           ELSE IF start <= RootMaxIndex
           THEN Goto([state EXCEPT !.pc = "create", !.shift = RootShift])
           ELSE \E m \in Shifts :
                  /\ Fits(start, m)
                  /\ Goto(IF root.rnode = NULL /\ IDR_FREE \in root.tags
                          THEN [state EXCEPT !.pc = "create", !.shift = m + 1]
                          ELSE [state EXCEPT !.pc = "extend", !.shift = RootShift, !.top = m])
    /\ UNCHANGED tree

AllFree == [t \in Tags |-> IF t = IDR_FREE THEN Slots ELSE {}]

\* radix_tree_extend: the new top's slots are free but the one of a full root.
IdrExtend ==
    /\ w.pc = "extend"
    /\ \E n \in Free :
         /\ node' = [Reparented(root.rnode, n) EXCEPT ![n] =
                        [NewTop([o \in Slots |-> NULL]) EXCEPT !.tags =
                           IF IDR_FREE \in root.tags THEN AllFree
                           ELSE [AllFree EXCEPT ![IDR_FREE] = Slots \ {0}]]]
         /\ heap' = [heap EXCEPT ![n] = "live"]
         /\ root' = [rnode |-> n, tags |-> root.tags \cup {IDR_FREE}]
    /\ Goto([w EXCEPT !.pc = IF w.shift < w.top THEN "extend" ELSE "create", !.shift = @ + 1])
    /\ UNCHANGED grace

IdrNoMemory ==
    /\ w.pc \in {"extend", "create"}
    /\ w.pc = "create" => w.shift > 0 /\ AtSlot = NULL
    /\ Return(-ENOMEM)
    /\ UNCHANGED tree

\* A child that is missing is allocated, all free, and linked.
IdrChild ==
    /\ w.pc = "create"
    /\ w.shift > 0
    /\ AtSlot = NULL
    /\ \E n \in Free :
         /\ node' = [Stored(node, w.cur, w.off, n, 1, 0) EXCEPT ![n] =
                        [Fresh(w.shift - 1, w.off, 0, w.cur, [o \in Slots |-> NULL])
                            EXCEPT !.tags = AllFree]]
         /\ heap' = [heap EXCEPT ![n] = "live"]
         /\ root' = RootStored(w.cur, n)
    /\ UNCHANGED <<grace, w, ret>>

\* The levels above node n at which the search goes on: the lowest one whose
\* slot is not its node's last.
IdrClimbTo(n) ==
    {k \in 1 .. Height :
        /\ Climb(n, MapSize - 1)[k].n # NULL
        /\ Climb(n, MapSize - 1)[k].o # MapSize - 1
        /\ \A j \in 1 .. (k - 1) : Climb(n, MapSize - 1)[j].o = MapSize - 1}

\* One level down, to the slot of start or the next free one; past the node's
\* last slot the search climbs, or grows the tree.
IdrDescend ==
    /\ w.pc = "create"
    /\ w.shift > 0
    /\ AtSlot \in Nodes
    /\ LET n == AtSlot
           o == Offset(node[n].shift, w.op.index)
           next == NextBit(n, o + 1)
           start == Wrap(Base(n, w.op.index) + next * MapSize ^ node[n].shift)
           here == [w EXCEPT !.cur = n, !.shift = node[n].shift]
           on == [here EXCEPT !.op.index = start]
       IN  IF o \in node[n].tags[IDR_FREE] THEN Goto([here EXCEPT !.off = o])
           ELSE IF start > w.op.max THEN Return(-ENOSPC)
           ELSE IF next < MapSize THEN Goto([on EXCEPT !.off = next])
           ELSE IF IdrClimbTo(n) = {} THEN Goto([on EXCEPT !.pc = "alloc"])
           ELSE \E k \in IdrClimbTo(n) :
                  LET up == Climb(n, MapSize - 1)[k] IN
                  Goto([on EXCEPT !.cur = up.n, !.off = up.o + 1, !.shift = node[up.n].shift])
    /\ UNCHANGED tree

\* Mutant: an IDR counts entries like any tree.
IdrCountEntries(n, o, e, old) == IsEntry(e) - IsEntry(old)

\* calculate_count: a slot in use keeps its count whatever it stores.
IdrCount(n, o, e, old) ==
    IF ~IdrFreeAt(n, o) THEN 0 ELSE IF old = NULL THEN 1 ELSE IsEntry(e) - IsEntry(old)

\* radix_tree_iter_replace of the slot found (whose delete_node must not shrink
\* the tree: the iterator's node would be gone) ...
IdrStore ==
    /\ w.pc = "create"
    /\ w.shift = 0 \/ AtSlot \in Items
    /\ LET mem == Stored(node, w.cur, w.off, w.op.item,
                         IdrCount(w.cur, w.off, w.op.item, AtSlot), IsExceptional(w.op.item))
       IN  /\ node' = mem
           /\ Goto([w EXCEPT !.pc = IF /\ root.rnode \in Nodes /\ root.rnode = w.cur
                                       /\ mem[w.cur].count = 1 /\ mem[w.cur].slots[0] # NULL
                                    THEN "shrink" ELSE "tag"])
    /\ root' = RootStored(w.cur, w.op.item)
    /\ UNCHANGED <<heap, grace>>

\* ... and radix_tree_iter_tag_clear, by which the id is taken.
IdrTake ==
    /\ w.pc = "tag"
    /\ node' = TagsCleared(w.cur, w.off, {IDR_FREE})
    /\ root' = [root EXCEPT !.tags = RootTagsCleared(w.cur, w.off, {IDR_FREE})]
    /\ Return(w.op.index)
    /\ UNCHANGED <<heap, grace>>

\* radix_tree_delete_item of an IDR: the slot is free again, up to the root.
IdrDelete ==
    /\ Found("delete")
    /\ IF IdrFreeAt(w.cur, w.off) /\ AtSlot = NULL
       THEN Return(NULL) /\ UNCHANGED tree
       ELSE LET set == TagsSetUp(w.cur, w.off, IDR_FREE) IN
            /\ node' = Stored(set.mem, w.cur, w.off, NULL, -1, -IsExceptional(AtSlot))
            /\ root' = [RootStored(w.cur, NULL)
                           EXCEPT !.tags = IF set.top THEN @ \cup {IDR_FREE} ELSE @]
            /\ PruneFrom(AtSlot)
            /\ UNCHANGED <<heap, grace>>

\* __radix_tree_replace of the slot of an id in use.
IdrReplace ==
    /\ Found("replace")
    /\ IF IdrFreeAt(w.cur, w.off)
       THEN Return(NULL) /\ UNCHANGED tree
       ELSE /\ node' = Stored(node, w.cur, w.off, w.op.item,
                              IdrCount(w.cur, w.off, w.op.item, AtSlot),
                              IsExceptional(w.op.item) - IsExceptional(AtSlot))
            /\ root' = RootStored(w.cur, w.op.item)
            /\ PruneFrom("ok")
            /\ UNCHANGED <<heap, grace>>

\* delete_node leaves an IDR's root tags alone.
IdrPruneNode ==
    /\ w.pc = "prune"
    /\ LET n == w.cur
           p == node[n].parent
       IN  /\ node[n].count = 0
           /\ root' = IF p = NULL THEN [root EXCEPT !.rnode = NULL] ELSE root
           /\ Retire(Stored(node, p, node[n].offset, NULL, -1, 0), n)
           /\ IF p = NULL THEN Return(w.res) ELSE Goto([w EXCEPT !.cur = p])

\* radix_tree_shrink: the root has no free id if slot 0 has none.
IdrShrinkRoot ==
    /\ w.pc = "shrink"
    /\ Shrinkable(root.rnode)
    /\ LET n == root.rnode
           c == node[n].slots[0]
       IN  /\ root' = [rnode |-> c, tags |-> IF 0 \in node[n].tags[IDR_FREE] THEN root.tags
                                             ELSE root.tags \ {IDR_FREE}]
           /\ node' = [Reparented(c, NULL) EXCEPT ![n].count = 0]
           /\ Goto([w EXCEPT !.pc = "retire", !.cur = n])
    /\ UNCHANGED <<heap, grace>>

\* radix_tree_free_nodes of every node below the root, then an empty root with every id free.
IdrDestroy ==
    /\ w.pc = "destroy"
    /\ LET under == {n \in Live : \E k \in 0 .. Height : Climb(n, 0)[k].n = root.rnode} IN
       IF DeferredFree
       THEN /\ heap' = [n \in Nodes |-> IF n \in under THEN "rcu" ELSE heap[n]]
            /\ grace' = [n \in Nodes |-> IF n \in under THEN {r \in Readers : InSection(r)}
                                         ELSE grace[n]]
            /\ UNCHANGED node
       ELSE /\ heap' = [n \in Nodes |-> IF n \in under THEN "free" ELSE heap[n]]
            /\ node' = [n \in Nodes |-> IF n \in under THEN Blank ELSE node[n]]
            /\ UNCHANGED grace
    /\ root' = [rnode |-> NULL, tags |-> root.tags \cup {IDR_FREE}]
    /\ Return("ok")

-----------------------------------------------------------------------------
VARIABLE idr  \* is_idr(root): the flavour of the root, which never changes

PlainInit == IterInit /\ idr = FALSE
IdrInit == /\ root = [rnode |-> NULL, tags |-> {IDR_FREE}]
           /\ node = [n \in Nodes |-> Blank]
           /\ heap = [n \in Nodes |-> "free"]
           /\ grace = [n \in Nodes |-> {}]
           /\ w = Idle
           /\ ret = NULL
           /\ rd = [r \in Readers |-> Out]
           /\ seen = [r \in Readers |-> {}]
           /\ before = Ids
           /\ oom = FALSE
           /\ it = [r \in Readers |-> NoIter]
           /\ owed = [r \in Readers |-> {}]
           /\ held = [r \in Readers |-> {}]
           /\ idr = TRUE

IdrStep == \/ IdrGrow \/ IdrExtend \/ IdrNoMemory \/ IdrChild \/ IdrDescend \/ IdrStore \/ IdrTake
           \/ FindStart \/ FindStep \/ IdrDelete \/ IdrReplace \/ IdrDestroy
           \/ PruneEnd \/ IdrPruneNode \/ ShrinkEnd \/ IdrShrinkRoot \/ ShrinkRetire
IdrNext == \/ (\E o \in IdrOps : IdrCall(o)) /\ UNCHANGED <<oom, rd, seen, it, owed, held>>
           \/ IdrStep /\ UNCHANGED <<before, oom, rd, seen, it, owed, held>>
           \/ (\E n \in Nodes : RcuFree(n)) /\ UNCHANGED <<it, owed, held>>

FlavourInit == PlainInit \/ IdrInit
FlavourNext == /\ \/ ~idr /\ IterNext
                  \/ idr /\ IdrNext
               /\ UNCHANGED idr
FlavourSpec == FlavourInit /\ [][FlavourNext]_<<ivars, idr>>

\* Each call on an IDR has its whole effect and the answer IdrMap allows: the
\* least free id from start to max, ENOSPC only if there is none, whatever was
\* allocated, freed, replaced (by NULL too) or failed for memory before.
IdMap == INSTANCE IdrMap WITH
           Ops <- IdrOps,
           ids <- IF ~idr THEN [i \in {} |-> NULL] ELSE IF AtRest THEN Ids ELSE before,
           op  <- IF ~idr \/ AtRest THEN NULL ELSE [w.op EXCEPT !.index = w.op.from],
           ret <- IF idr THEN ret ELSE NULL
ImplementsIdr == IdMap!Spec
=============================================================================
