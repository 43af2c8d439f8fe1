------------------------------ MODULE RadixIter -----------------------------
(***************************************************************************)
(* The iterators of radix-tree.h and radix-tree.c over the tree of         *)
(* RadixTree.  A thread iterates either under rcu_read_lock, against every *)
(* store of the writer, in the loop of radix_tree_gang_lookup; or holding  *)
(* the tree lock, when its loop body may delete, replace and tag at the    *)
(* iterator's position, and may give the lock up with iter_resume.  Each   *)
(* load of a slot is a step; a node's shift never changes while it lives.  *)
(***************************************************************************)
EXTENDS RadixTree, Sequences

CONSTANTS
    IterCalls,  \* the calls other threads make meanwhile
    Starts,     \* the indices iterations start from
    Kinds       \* the flags of an iteration: {}, {"tagged"} or {"contig"}

ASSUME IterAssumption ==
    /\ IterCalls \subseteq Calls /\ Starts \subseteq 0 .. MaxIndex
    /\ Kinds \subseteq {{}, {"tagged"}, {"contig"}}

VARIABLES
    it,    \* struct radix_tree_iter and the locals of each thread's loop
    owed,  \* history: the indices present (and tagged) since the loop began
           \* that its body has not been given yet
    held   \* history: the entries those and the indices above have had since

ivars == <<vars, it, owed, held>>

\* index, next, tags and node are the struct's; node and off say where slot
\* points (NULL: to the root); child and idx are locals of next_chunk; live is
\* the number of nodes before a deletion; last is the index the loop body was given
\* last.
NoIter == [pc |-> "out", flags |-> {}, locked |-> FALSE, index |-> 0, next |-> 0,
           tags |-> {}, node |-> NULL, off |-> 0, child |-> NULL, idx |-> 0,
           live |-> 0, last |-> -1]

Wrap(i) == i % (MaxIndex + 1)
Tagging(r) == "tagged" \in it[r].flags
IterTo(r, state) == it' = [it EXCEPT ![r] = state]
Done(r) == IterTo(r, [it[r] EXCEPT !.pc = "done"])

\* index & ~node_maxindex(n)
NodeMax(n) == ShiftMaxIndex(node[n].shift)
Base(n, i) == i - (i % (NodeMax(n) + 1))

\* Some thread iterates with the tree lock held.
LockHeld == \E r \in Readers : it[r].locked /\ it[r].pc \notin {"out", "parked"}

-----------------------------------------------------------------------------
(* radix_tree_next_chunk                                                   *)

\* Index i is one a loop from s on with flags f must give its body now.
Wanted(f, s, i) == /\ Value(i) # NULL
                   /\ "tagged" \in f => Tagged(i, 0)
                   /\ "contig" \in f => \A j \in s .. (i - 1) : Value(j) # NULL

\* The history of a loop that starts from s.
Watched(r, s, f) ==
    /\ owed' = [owed EXCEPT ![r] = {i \in Indices : i >= s /\ Wanted(f, s, i)}]
    /\ held' = [held EXCEPT ![r] = {<<i, Value(i)>> : i \in Indices}]

\* radix_tree_iter_init, under rcu_read_lock or the tree lock.
IterBegin(r, s, f, lock) ==
    /\ it[r].pc = "out"
    /\ lock => AtRest /\ ~LockHeld
    /\ IterTo(r, [NoIter EXCEPT !.pc = "chunk", !.flags = f, !.locked = lock, !.next = s])
    /\ rd' = [rd EXCEPT ![r].pc = IF lock THEN "out" ELSE "walk"]
    /\ Watched(r, s, f)

\* Mutant: the wrap of next_index is not noticed.
IterChunkUnwrapped(r) ==
    /\ it[r].pc = "chunk"
    /\ IF Tagging(r) /\ 0 \notin root.tags
       THEN Done(r)
       ELSE IterTo(r, [it[r] EXCEPT !.pc = "restart", !.idx = it[r].next])

IterChunk(r) ==
    /\ it[r].pc = "chunk"
    /\ IF (Tagging(r) /\ 0 \notin root.tags) \/ (it[r].next = 0 /\ it[r].index # 0)
       THEN Done(r)
       ELSE IterTo(r, [it[r] EXCEPT !.pc = "restart", !.idx = it[r].next])

IterRestart(r) ==
    /\ it[r].pc = "restart"
    /\ LET child == root.rnode IN
       IF it[r].idx > RootMaxIndex \/ child = NULL THEN Done(r)
       ELSE IF child \in Nodes THEN IterTo(r, [it[r] EXCEPT !.pc = "node", !.child = child])
       ELSE IterTo(r, [it[r] EXCEPT !.pc = "body", !.index = it[r].idx,
                                    !.next = Wrap(RootMaxIndex + 1), !.tags = {0},
                                    !.node = NULL, !.off = 0])

\* The loop's tail with entry e of slot o of node n, searching from index i.
Land(r, n, o, e, i) ==
    IF e = NULL THEN IterTo(r, [it[r] EXCEPT !.pc = "restart", !.idx = i])
    ELSE IF e \in Nodes
    THEN IterTo(r, [it[r] EXCEPT !.pc = "node", !.child = e, !.idx = i])
    ELSE IterTo(r, [it[r] EXCEPT
            !.pc = "body", !.node = n, !.off = o, !.idx = 0, !.child = NULL,
            !.index = Base(n, i) + o * MapSize ^ node[n].shift,
            !.next = Wrap(Base(n, i) + NodeMax(n) + 1),
            !.tags = IF Tagging(r) THEN {b - o : b \in {k \in node[n].tags[0] : k >= o}} ELSE {}])

NextBit(n, o) == LET s == {b \in node[n].tags[0] : b >= o}
                 IN  IF s = {} THEN MapSize ELSE CHOOSE b \in s : \A c \in s : b <= c

IterDescend(r) ==
    /\ it[r].pc = "node"
    /\ LET n == it[r].child
           o == Offset(node[n].shift, it[r].idx)
           e == node[n].slots[o]
       IN  IF IF Tagging(r) THEN o \in node[n].tags[0] ELSE e # NULL
           THEN Land(r, n, o, e, it[r].idx)
           ELSE IF "contig" \in it[r].flags THEN Done(r)
           ELSE IterTo(r, [it[r] EXCEPT !.pc = "hole", !.node = n,
                              !.off = IF Tagging(r) THEN NextBit(n, o + 1) ELSE o + 1])

\* A hole: one more empty slot is passed over.
IterHole(r) ==
    /\ it[r].pc = "hole"
    /\ ~Tagging(r)
    /\ it[r].off < MapSize
    /\ node[it[r].node].slots[it[r].off] = NULL
    /\ IterTo(r, [it[r] EXCEPT !.off = @ + 1])

\* Mutant: the search goes on at the index it came with.
IterSkipNot(r) ==
    /\ it[r].pc = "hole"
    /\ it[r].off < MapSize
    /\ Tagging(r) \/ node[it[r].node].slots[it[r].off] # NULL
    /\ IterTo(r, [it[r] EXCEPT !.pc = "reread"])

\* The hole ends, at a slot to load again or past the node's last one.
IterSkip(r) ==
    /\ it[r].pc = "hole"
    /\ LET n == it[r].node
           o == it[r].off
           i == Wrap(Base(n, it[r].idx) + o * MapSize ^ node[n].shift)
       IN  /\ ~Tagging(r) /\ o < MapSize => node[n].slots[o] # NULL
           /\ IF i = 0 THEN Done(r)
              ELSE IterTo(r, [it[r] EXCEPT !.pc = IF o = MapSize THEN "restart" ELSE "reread",
                                           !.idx = i])

IterReread(r) ==
    /\ it[r].pc = "reread"
    /\ LET n == it[r].node IN Land(r, n, it[r].off, node[n].slots[it[r].off], it[r].idx)

-----------------------------------------------------------------------------
(* The loop around it.                                                     *)

SlotOf(r) == IF it[r].node = NULL THEN root.rnode ELSE node[it[r].node].slots[it[r].off]

\* The body has been given the entry the iterator stands at.
Given(r, pc) ==
    /\ IterTo(r, [it[r] EXCEPT !.pc = pc, !.last = it[r].index])
    /\ owed' = [owed EXCEPT ![r] = @ \ {it[r].index}]
    /\ held' = [held EXCEPT ![r] = {h \in @ : h[1] > it[r].index}]

\* Mutant: an internal entry is passed over instead of retried.
IterEntryNoRetry(r) ==
    /\ it[r].pc = "body"
    /\ IF SlotOf(r) \in Items THEN Given(r, "next")
       ELSE IterTo(r, [it[r] EXCEPT !.pc = "next"]) /\ UNCHANGED <<owed, held>>

\* radix_tree_gang_lookup's body: an entry is taken, an internal one retried
\* (radix_tree_iter_retry).
IterEntry(r) ==
    /\ it[r].pc = "body"
    /\ LET e == SlotOf(r) IN
       IF e \in Items THEN Given(r, IF it[r].locked THEN "hold" ELSE "next")
       ELSE /\ IterTo(r, IF e = NULL THEN [it[r] EXCEPT !.pc = "next"]
                         ELSE [it[r] EXCEPT !.pc = "next", !.next = it[r].index, !.tags = {}])
            /\ UNCHANGED <<owed, held>>

\* radix_tree_next_slot, tagged: the chunk's remaining tags say where to go.
NextTagged(r) ==
    /\ it[r].pc = "next"
    /\ Tagging(r)
    /\ LET rest == it[r].tags \ {0}
           step == CHOOSE b \in rest : \A c \in rest : b <= c
       IN  IF rest = {} THEN IterTo(r, [it[r] EXCEPT !.pc = "chunk", !.tags = {}])
           ELSE IterTo(r, [it[r] EXCEPT !.pc = "body", !.index = @ + step, !.off = @ + step,
                                        !.tags = {b - step : b \in rest}])

\* radix_tree_next_slot, untagged: one slot further, or the end of the chunk.
NextSlot(r) ==
    /\ it[r].pc = "next"
    /\ ~Tagging(r)
    /\ LET o == it[r].off + 1 IN
       IF Wrap(it[r].next - it[r].index) <= 1 THEN IterTo(r, [it[r] EXCEPT !.pc = "chunk"])
       ELSE IF node[it[r].node].slots[o] # NULL
       THEN IterTo(r, [it[r] EXCEPT !.pc = "body", !.index = @ + 1, !.off = o])
       ELSE IF "contig" \in it[r].flags
       THEN IterTo(r, [it[r] EXCEPT !.pc = "chunk", !.index = @ + 1, !.next = 0])
       ELSE IterTo(r, [it[r] EXCEPT !.index = @ + 1, !.off = o])

\* The loop is over and its lock is released.
IterEnd(r) ==
    /\ it[r].pc = "done"
    /\ IterTo(r, NoIter)
    /\ rd' = [rd EXCEPT ![r] = Out]
    /\ grace' = [n \in Nodes |-> grace[n] \ {r}]
    /\ owed' = [owed EXCEPT ![r] = {}]
    /\ held' = [held EXCEPT ![r] = {}]

-----------------------------------------------------------------------------
(* What a loop body does with the tree lock held.                          *)

IterContinue(r) == it[r].pc = "hold" /\ IterTo(r, [it[r] EXCEPT !.pc = "next"])

BodyCalls == {o \in Deletes : o.item = NULL} \cup {o \in Replaces : o.item # NULL}

\* Calls that start at the iterator's slot in place of a lookup:
\* radix_tree_iter_delete and radix_tree_iter_replace.
IterCall(r, o) ==
    /\ it[r].pc = "hold"
    /\ o.index = it[r].index
    /\ IterTo(r, [it[r] EXCEPT !.pc = o.kind, !.live = Cardinality(Live)])
    /\ w' = [w EXCEPT !.pc = "find", !.op = o, !.cur = it[r].node, !.off = it[r].off]
    /\ ret' = NULL
    /\ before' = Snapshot
    /\ UNCHANGED <<tree, oom>>

\* Mutant: the iterator stays in the chunk whose node was freed.
IterCalledStays(r) ==
    /\ it[r].pc \in {"delete", "replace"}
    /\ AtRest
    /\ IterTo(r, [it[r] EXCEPT !.pc = "next", !.live = 0])
    /\ UNCHANGED <<owed, held>>

\* The iterator leaves its chunk; with index 0 the loop starts over.
IterMoved(r, state) ==
    IF state.index = 0
    THEN IterTo(r, [state EXCEPT !.last = -1]) /\ Watched(r, 0, state.flags)
    ELSE IterTo(r, state) /\ UNCHANGED <<owed, held>>

\* A deletion that freed any node moves the iterator to its chunk's end.
IterCalled(r) ==
    /\ it[r].pc \in {"delete", "replace"}
    /\ AtRest
    /\ LET at == [it[r] EXCEPT !.pc = "next", !.live = 0] IN
       IF it[r].pc = "delete" /\ Cardinality(Live) < it[r].live
       THEN IterMoved(r, [at EXCEPT !.index = at.next])
       ELSE IterTo(r, at) /\ UNCHANGED <<owed, held>>

\* node_tag_set climbs until it meets a node that has the bit already.
TagsSetUp(n, o, t) ==
    LET up == Climb(n, o)
        reached == {k \in 0 .. Height :
                      \A j \in 0 .. (k - 1) : up[j].n # NULL /\ up[j].o \notin node[up[j].n].tags[t]}
    IN  [mem |-> [m \in Nodes |->
                    [node[m] EXCEPT !.tags[t] = @ \cup {up[k].o : k \in {j \in reached : up[j].n = m}}]],
         top |-> \E k \in reached : up[k].n = NULL]

\* radix_tree_iter_tag_set; radix_tree_iter_tag_clear, and radix_tree_clear_tags of
\* all tags.
IterTagSet(r, t) ==
    /\ it[r].pc = "hold"
    /\ LET set == TagsSetUp(it[r].node, it[r].off, t) IN
       /\ node' = set.mem
       /\ root' = IF set.top THEN [root EXCEPT !.tags = @ \cup {t}] ELSE root
    /\ UNCHANGED it
IterTagClear(r, ts) ==
    /\ it[r].pc = "hold"
    /\ node' = TagsCleared(it[r].node, it[r].off, ts)
    /\ root' = [root EXCEPT !.tags = RootTagsCleared(it[r].node, it[r].off, ts)]
    /\ UNCHANGED it

\* radix_tree_iter_resume, before the body gives the lock up ...
IterResume(r) ==
    /\ it[r].pc = "hold"
    /\ LET i == Wrap(it[r].index + 1) IN
       IterMoved(r, [it[r] EXCEPT !.pc = "parked", !.index = i, !.next = i, !.tags = {},
                                  !.node = NULL, !.off = 0])

\* ... and takes it again.
IterRelock(r) ==
    /\ it[r].pc = "parked"
    /\ AtRest /\ ~LockHeld
    /\ IterTo(r, [it[r] EXCEPT !.pc = "next"])

-----------------------------------------------------------------------------
IterInit == /\ Init
            /\ it = [r \in Readers |-> NoIter]
            /\ owed = [r \in Readers |-> {}]
            /\ held = [r \in Readers |-> {}]

\* What a step of the writer does to the indices the loops are about.
Watch ==
    /\ owed' = [r \in Readers |->
                  {i \in owed[r] : \A j \in IF "contig" \in it[r].flags THEN owed[r] ELSE {i} :
                                      j <= i => /\ Value(j)' = Value(j)
                                                /\ Tagging(r) => Tagged(j, 0)'}]
    /\ held' = [r \in Readers |-> IF it[r].pc = "out" THEN {}
                                  ELSE held[r] \cup {<<i, Value(i)'>> : i \in {j \in Indices : j > it[r].last}}]

Search(r) == \/ IterChunk(r) \/ IterRestart(r) \/ IterDescend(r) \/ IterHole(r) \/ IterSkip(r)
             \/ IterReread(r) \/ NextTagged(r) \/ NextSlot(r) \/ IterContinue(r)
             \/ IterRelock(r)

\* A thread's next step; only IterCall hands over to the writer's steps.
IterStep(r) ==
    \/ Search(r) /\ WriterSame /\ UNCHANGED <<tree, rd, owed, held>>
    \/ (IterEntry(r) \/ IterCalled(r) \/ IterResume(r)) /\ WriterSame /\ UNCHANGED <<tree, rd>>
    \/ /\ \E s \in Starts, f \in Kinds, l \in BOOLEAN : IterBegin(r, s, f, l)
       /\ WriterSame /\ UNCHANGED tree
    \/ IterEnd(r) /\ WriterSame /\ UNCHANGED <<root, node, heap>>
    \/ (\E o \in BodyCalls : IterCall(r, o)) /\ UNCHANGED <<rd, owed, held>>
    \/ /\ \E t \in Tags : IterTagSet(r, t) \/ \E ts \in {{t}, Tags} : IterTagClear(r, ts)
       /\ WriterSame /\ Watch /\ UNCHANGED <<heap, grace, rd>>

\* Another thread's call, when no loop holds the lock; those that would change
\* nothing are left out (bound: none begins before the nodes that no loop can
\* reach any more have been freed).
OtherCall == /\ ~LockHeld
             /\ \A n \in Nodes : heap[n] = "rcu" => grace[n] # {}
             /\ \E o \in IterCalls : /\ (o.kind = "insert") = (Value(o.index) = NULL)
                                     /\ Invoke(o)

\* Allocations succeed here: after a failed insertion left the tree too tall,
\* iter_replace would shrink it and free the node the iterator stands on.
IterNext ==
    \/ (OtherCall \/ (WriterStep /\ ~oom')) /\ Watch /\ UNCHANGED <<rd, seen, it>>
    \/ (\E r \in Readers : IterStep(r)) /\ UNCHANGED seen
    \/ (\E n \in Nodes : RcuFree(n)) /\ UNCHANGED <<it, owed, held>>

IterSpec == IterInit /\ [][IterNext]_ivars

-----------------------------------------------------------------------------
(* What is checked.                                                        *)

\* The node a thread is about to load a slot of.
Reading(r) ==
    CASE it[r].pc = "node" -> it[r].child
      [] it[r].pc \in {"hole", "reread", "body", "hold"} -> it[r].node
      [] it[r].pc = "next" /\ ~Tagging(r) /\ Wrap(it[r].next - it[r].index) > 1 -> it[r].node
      [] OTHER -> NULL

\* An iterator never reads a node that was given back to the allocator: under
\* rcu_read_lock the grace period protects it; under the tree lock only
\* radix_tree_iter_delete's jump to the end of the chunk does.
IterSafe == \A r \in Readers : Reading(r) \in Nodes => heap[Reading(r)] # "free"

\* The loop body is given ascending indices, each once, and with each an entry
\* the index had at some time since the loop began, whatever stores of the
\* writer the search raced with.  (A loop that resumes or deletes in the chunk
\* that ends at the last index wraps to 0 and starts over.)
Gives(r) == it[r].pc = "body" /\ it'[r].pc # "body" /\ SlotOf(r) \in Items
IterExact ==
    [][\A r \in Readers :
         Gives(r) => /\ <<it[r].index, SlotOf(r)>> \in held[r]
                     /\ it[r].index > it[r].last]_ivars

\* Nothing that stays is skipped: when the chunk search runs off a node, meets a
\* hole, NULL or RETRY and starts over from a tree that grew or shrank.
IterComplete ==
    \A r \in Readers : \A i \in owed[r] : it[r].pc # "done" /\ i > it[r].last
=============================================================================
