--------------------------- MODULE RadixTree_proof --------------------------
(***************************************************************************)
(* Of RadixTree, for every tree size, node pool and set of readers: type   *)
(* correctness, whatever fresh memory holds, and the facts about its       *)
(* helpers that the other proof modules build on; then that the tree keeps *)
(* its shape, provided the node cache hands out zeroed memory (as the      *)
(* constructor radix_tree_node_ctor would see to): the inductive invariant *)
(* that holds after every store of every call, and what follows from it.   *)
(* Then the way down: the entries a lookup meets, as a function the        *)
(* provers can use, the digits that choose them, and what the digits       *)
(* decide: how high an insertion makes the tree and how low a deletion     *)
(* leaves it.  Last the tags: after every store of every call a tag bit    *)
(* says what hangs below its slot, up to the root's own bits, but for the  *)
(* one slot radix_tree_tag_set has marked and not yet gone down.           *)
(***************************************************************************)
EXTENDS RadixTree, TLAPS, FiniteSetTheorems, NaturalsInduction, WellFoundedInduction

-----------------------------------------------------------------------------
(* The inductive invariant: TypeOK with what the writer's place says about *)
(* the call it is in.                                                      *)

CallInv ==
    /\ w.op = NULL <=> w.pc = "idle"
    /\ w.pc \in {"insert", "extend", "create"} => w.op \in Inserts
    /\ w.pc \in {"prune", "retire"} => w.cur # NULL
    /\ w.pc = "extend" => w.shift <= w.top

TypeInv == TypeOK /\ CallInv

Memory == [Nodes -> NodeType]

-----------------------------------------------------------------------------
(* What the helpers of the model return.                                   *)

LEMMA OffsetType ==
    ASSUME NEW s \in Shifts, NEW i \in Indices
    PROVE  Offset(s, i) \in Slots
<1>1. MapSize ^ s \in Nat \ {0} /\ i \in Nat
    BY SpanAssumption, SizeAssumption, IndexAssumption DEF Shifts
<1>2. \A d \in Nat \ {0} : (i \div d) \in Nat
    BY <1>1
<1>3. \A q \in Nat : q % MapSize \in 0 .. (MapSize - 1)
    BY SizeAssumption
<1> QED BY <1>1, <1>2, <1>3 DEF Offset, Slots

LEMMA OffsetOfZero ==
    ASSUME NEW s \in Shifts
    PROVE  Offset(s, 0) \in Slots
<1>1. MapSize ^ s \in Nat \ {0}
    BY SpanAssumption, SizeAssumption DEF Shifts
<1>2. \A d \in Nat \ {0} : (0 \div d) % MapSize \in 0 .. (MapSize - 1)
    BY SizeAssumption
<1> QED BY <1>1, <1>2 DEF Offset, Slots

LEMMA BlankType == Blank \in NodeType
BY SizeAssumption DEF Blank, NodeType, Shifts, Slots, Entries

LEMMA LeftoversType == [Slots -> Leftovers] \subseteq [Slots -> Entries]
BY EntryAssumption DEF Entries

LEMMA FreshType ==
    ASSUME NEW s \in Shifts, NEW o \in Slots, NEW c \in Int,
           NEW p \in Nodes \cup {NULL}, NEW left \in [Slots -> Entries]
    PROVE  Fresh(s, o, c, p, left) \in NodeType
BY BlankType DEF Fresh, NodeType

LEMMA StoredType ==
    ASSUME NEW mem \in Memory, NEW n \in Nodes \cup {NULL}, NEW o \in Slots,
           NEW e \in Entries, NEW dc \in Int, NEW dx \in Int
    PROVE  Stored(mem, n, o, e, dc, dx) \in Memory
<1>1. CASE n = NULL
    BY <1>1 DEF Stored
<1>2. CASE n # NULL
    <2>1. n \in Nodes /\ mem[n] \in NodeType
        BY <1>2 DEF Memory
    <2>2. /\ [mem[n].slots EXCEPT ![o] = e] \in [Slots -> Entries]
          /\ mem[n].count + dc \in Int /\ mem[n].exceptional + dx \in Int
        BY <2>1 DEF NodeType
    <2>3. ASSUME NEW f \in [Slots -> Entries], NEW c \in Int, NEW x \in Int
          PROVE  [mem[n] EXCEPT !.slots = f, !.count = c, !.exceptional = x] \in NodeType
        BY <2>1 DEF NodeType
    <2> QED BY <1>2, <2>1, <2>2, <2>3 DEF Stored, Memory
<1> QED BY <1>1, <1>2

LEMMA RetireType ==
    ASSUME NEW mem \in Memory, NEW n \in Nodes, TypeOK, Retire(mem, n)
    PROVE  /\ node' \in Memory
           /\ heap' \in [Nodes -> {"free", "live", "rcu"}]
           /\ grace' \in [Nodes -> SUBSET Readers]
BY BlankType DEF Retire, TypeOK, Memory

LEMMA TagsClearedType ==
    ASSUME TypeOK, NEW n, NEW o, NEW ts
    PROVE  TagsCleared(n, o, ts) \in Memory
<1> DEFINE up == Climb(n, o)
           Bits(m, t) == {up[k].o : k \in {j \in ClearedUpTo(n, o, t) : up[j].n = m}}
           Kept(m) == [t \in Tags |-> IF t \in ts THEN node[m].tags[t] \ Bits(m, t)
                                      ELSE node[m].tags[t]]
<1>1. TagsCleared(n, o, ts) = [m \in Nodes |-> [node[m] EXCEPT !.tags = Kept(m)]]
    BY DEF TagsCleared
<1>2. ASSUME NEW m \in Nodes
      PROVE  [node[m] EXCEPT !.tags = Kept(m)] \in NodeType
    <2>1. node[m] \in NodeType
        BY DEF TypeOK
    <2>2. node[m].tags \in [Tags -> SUBSET Slots]
        BY <2>1 DEF NodeType
    <2>3. ASSUME NEW t \in Tags
          PROVE  Kept(m)[t] \in SUBSET Slots
        <3> HIDE DEF Bits
        <3> QED BY <2>2
    <2>4. Kept(m) \in [Tags -> SUBSET Slots]
        BY <2>3
    <2> HIDE DEF Kept
    <2> QED BY <2>1, <2>4 DEF NodeType
<1> HIDE DEF Kept
<1> QED BY <1>1, <1>2 DEF Memory

-----------------------------------------------------------------------------
(* One lemma per action: it keeps TypeInv.                                 *)

\* What the writer's variables hold.
LEMMA WriterFields ==
    ASSUME TypeInv
    PROVE  /\ w.pc \in Places /\ w.cur \in Nodes \cup {NULL} /\ w.off \in Slots
           /\ w.shift \in 0 .. Height /\ w.top \in Shifts /\ w.res \in Entries \cup {"ok"}
           /\ w.op \in Calls \cup {NULL}
BY DEF TypeInv, TypeOK, WriterType

\* The arguments of an insertion in progress.
LEMMA InsertCall ==
    ASSUME TypeInv, w.pc \in {"insert", "extend", "create"}
    PROVE  /\ w.op \in Inserts /\ w.op \in Calls /\ w.op # NULL
           /\ w.op.index \in Indices /\ w.op.item \in Items
<1>1. w.op \in Inserts
    BY DEF TypeInv, CallInv
<1>2. w.op \in Calls /\ w.op # NULL
    BY <1>1, CallAssumption DEF Calls
<1> QED BY <1>1, <1>2 DEF Inserts

\* The writer moves within an insertion.
LEMMA InsertMoves ==
    ASSUME TypeInv, w.pc \in {"insert", "extend", "create"},
           NEW pc \in {"extend", "create"}, NEW s \in 0 .. Height, NEW m \in Shifts,
           NEW c \in Nodes \cup {NULL}, NEW o \in Slots,
           pc = "extend" => s <= m,
           w' = [w EXCEPT !.pc = pc, !.shift = s, !.top = m, !.cur = c, !.off = o]
    PROVE  CallInv' /\ w' \in WriterType
<1>1. /\ w'.pc = pc /\ w'.shift = s /\ w'.top = m /\ w'.cur = c /\ w'.off = o /\ w'.op = w.op
      /\ w' \in WriterType
    BY DEF TypeInv, TypeOK, WriterType, Places
<1> QED BY <1>1, InsertCall DEF CallInv

\* A call returns.
LEMMA Returns ==
    ASSUME NEW r \in Entries \cup {"ok", "EEXIST", "ENOMEM"}, Return(r)
    PROVE  /\ CallInv' /\ w' \in WriterType
           /\ ret' \in Entries \cup {"ok", "EEXIST", "ENOMEM"}
BY SizeAssumption DEF Return, Idle, CallInv, WriterType, Places, Shifts, Slots, Entries

\* The writer moves within another call.
LEMMA Moves ==
    ASSUME TypeInv, w.pc # "idle",
           NEW pc \in {"find", "prune", "shrink", "retire"},
           NEW c \in Nodes \cup {NULL}, NEW o \in Slots, NEW r \in Entries \cup {"ok"},
           pc \in {"prune", "retire"} => c \in Nodes,
           w' = [w EXCEPT !.pc = pc, !.cur = c, !.off = o, !.res = r]
    PROVE  CallInv' /\ w' \in WriterType
<1>1. w'.pc = pc /\ w'.cur = c /\ w'.op = w.op /\ w' \in WriterType
    BY DEF TypeInv, TypeOK, WriterType, Places
<1>2. w.op # NULL
    BY DEF TypeInv, CallInv
<1> QED BY <1>1, <1>2, EntryAssumption DEF CallInv

LEMMA InvokeType ==
    ASSUME TypeInv, NEW o \in Calls, Invoke(o), Observe
    PROVE  TypeInv'
<1>1. w \in WriterType /\ w.pc = "idle"
    BY DEF TypeInv, TypeOK, CallInv, Invoke
<1>2. o \in Calls /\ o # NULL /\ o.kind \in {"insert", "delete", "replace", "tag_set", "tag_clear"}
      /\ (o.kind = "insert" => o \in Inserts)
    BY CallAssumption DEF Calls, Inserts, Deletes, Replaces, TagSets, TagClears
<1>3. w' = [w EXCEPT !.pc = o.kind, !.op = o] /\ ret' = NULL
    BY DEF Invoke
<1>4. CallInv'
    BY <1>1, <1>2, <1>3 DEF CallInv, WriterType
<1>5. TypeOK'
    BY <1>1, <1>2, <1>3 DEF TypeInv, TypeOK, Invoke, Observe, Entries, WriterType, Places
<1> QED BY <1>4, <1>5 DEF TypeInv

LEMMA RootShiftType == ASSUME TypeOK PROVE RootShift \in 0 .. Height
BY SizeAssumption DEF TypeOK, RootShift, NodeType, Shifts

LEMMA InsertStartType == ASSUME TypeInv, InsertStart, Observe, oom' = oom PROVE TypeInv'
<1>1. /\ w.pc = "insert" /\ w \in WriterType
      /\ UNCHANGED <<root, node, heap, grace, ret, rd, oom>>
    BY DEF InsertStart, Goto, Observe, tree, TypeInv, TypeOK
<1>2. RootShift \in 0 .. Height /\ w.op.index \in Indices
    BY <1>1, RootShiftType, InsertCall DEF TypeInv
<1>3. SUFFICES CallInv' /\ w' \in WriterType
    BY <1>1 DEF TypeInv, TypeOK
<1>4. CASE w' = [w EXCEPT !.pc = "create", !.shift = RootShift]
    <2>1. w' = [w EXCEPT !.pc = "create", !.shift = RootShift, !.top = w.top,
                         !.cur = w.cur, !.off = w.off]
        BY <1>1, <1>4 DEF WriterType
    <2> QED BY <1>1, <1>2, <2>1, InsertMoves, WriterFields
<1>5. ASSUME NEW m \in Shifts, Fits(w.op.index, m),
             w' = [w EXCEPT !.pc = "create", !.shift = m + 1]
      PROVE  CallInv' /\ w' \in WriterType
    <2>1. m + 1 \in 0 .. Height
        BY SizeAssumption DEF Shifts
    <2>2. w' = [w EXCEPT !.pc = "create", !.shift = m + 1, !.top = w.top,
                         !.cur = w.cur, !.off = w.off]
        BY <1>1, <1>5 DEF WriterType
    <2> QED BY <1>1, <2>1, <2>2, InsertMoves, WriterFields
<1>6. ASSUME NEW m \in Shifts, Fits(w.op.index, m),
             w' = [w EXCEPT !.pc = "extend", !.shift = RootShift, !.top = m]
      PROVE  CallInv' /\ w' \in WriterType
    <2>1. RootShift <= m
        BY <1>2, <1>6, SizeAssumption DEF Fits, Shifts
    <2>2. w' = [w EXCEPT !.pc = "extend", !.shift = RootShift, !.top = m,
                         !.cur = w.cur, !.off = w.off]
        BY <1>1, <1>6 DEF WriterType
    <2> QED BY <1>1, <1>2, <2>1, <2>2, InsertMoves, WriterFields
<1> QED BY <1>4, <1>5, <1>6 DEF InsertStart, Goto

LEMMA ReparentedType ==
    ASSUME TypeOK, NEW e, NEW p \in Nodes \cup {NULL}
    PROVE  Reparented(e, p) \in Memory
BY DEF TypeOK, Reparented, Memory, NodeType

LEMMA NewTopType ==
    ASSUME TypeOK, NEW left \in [Slots -> Leftovers], w.shift \in Shifts
    PROVE  NewTop(left) \in NodeType
<1> DEFINE slots == [left EXCEPT ![0] = root.rnode]
           bits == [t \in Tags |-> IF t \in root.tags THEN {0} ELSE {}]
<1>1. 0 \in Slots
    BY SizeAssumption DEF Slots
<1>2. slots \in [Slots -> Entries] /\ bits \in [Tags -> SUBSET Slots]
    BY <1>1, EntryAssumption DEF TypeOK, Entries
<1>3. IsExceptional(root.rnode) \in Int
    BY DEF IsExceptional
<1> HIDE DEF slots, bits
<1>4. Fresh(w.shift, 0, 1, NULL, slots) \in NodeType
    BY <1>1, <1>2, FreshType
<1>5. [Fresh(w.shift, 0, 1, NULL, slots)
          EXCEPT !.exceptional = IsExceptional(root.rnode), !.tags = bits] \in NodeType
    BY <1>2, <1>3, <1>4 DEF NodeType
<1> QED BY <1>5 DEF NewTop, slots, bits

LEMMA ExtendType == ASSUME TypeInv, Extend, Observe, oom' = oom PROVE TypeInv'
<1>1. /\ w.pc = "extend" /\ w \in WriterType /\ w.shift <= w.top
      /\ UNCHANGED <<grace, ret, rd, oom>>
      /\ w' = [w EXCEPT !.pc = IF w.shift < w.top THEN "extend" ELSE "create",
                        !.shift = @ + 1]
    BY DEF Extend, Goto, Observe, TypeInv, TypeOK, CallInv
<1>2. w.shift \in Shifts /\ w.shift + 1 \in 0 .. Height
    BY <1>1, WriterFields, SizeAssumption DEF Shifts
<1>3. PICK n \in Nodes, left \in [Slots -> Leftovers] :
         /\ node' = [Reparented(root.rnode, n) EXCEPT ![n] = NewTop(left)]
         /\ heap' = [heap EXCEPT ![n] = "live"]
         /\ root' = [root EXCEPT !.rnode = n]
    BY DEF Extend, Free
<1>4. node' \in Memory
    BY <1>2, <1>3, NewTopType, ReparentedType DEF TypeInv, Memory
<1>5. /\ root' \in [rnode : Entries, tags : SUBSET Tags]
      /\ heap' \in [Nodes -> {"free", "live", "rcu"}]
    BY <1>3 DEF TypeInv, TypeOK, Entries
<1>6. CallInv' /\ w' \in WriterType
    <2> DEFINE s == w.shift + 1
               pc == IF w.shift < w.top THEN "extend" ELSE "create"
    <2>1. w' = [w EXCEPT !.pc = pc, !.shift = s, !.top = w.top, !.cur = w.cur, !.off = w.off]
        BY <1>1 DEF WriterType
    <2>2. pc \in {"extend", "create"} /\ (pc = "extend" => s <= w.top) /\ s \in 0 .. Height
        BY WriterFields, <1>2 DEF Shifts
    <2>3. w.pc = "extend" /\ w.top \in Shifts /\ w.cur \in Nodes \cup {NULL} /\ w.off \in Slots
        BY <1>1, WriterFields
    <2> HIDE DEF s, pc
    <2> QED BY <2>1, <2>2, <2>3, InsertMoves
<1> QED BY <1>1, <1>4, <1>5, <1>6 DEF TypeInv, TypeOK, Memory

\* The slot the writer stands at holds an entry.
LEMMA AtSlotType == ASSUME TypeOK PROVE AtSlot \in Entries
BY DEF TypeOK, AtSlot, NodeType, WriterType

LEMMA DescendType == ASSUME TypeInv, Descend, Observe, oom' = oom PROVE TypeInv'
<1>1. /\ w.pc = "create" /\ w.shift > 0 /\ w \in WriterType
      /\ AtSlot \in Nodes /\ node[AtSlot].shift \in Shifts
      /\ w' = [w EXCEPT !.shift = @ - 1, !.cur = AtSlot,
                        !.off = Offset(node[AtSlot].shift, w.op.index)]
      /\ UNCHANGED <<root, node, heap, grace, ret, rd, oom>>
    BY DEF Descend, Goto, Observe, TypeInv, TypeOK, NodeType, tree
<1>2. w.shift - 1 \in 0 .. Height
    BY <1>1, WriterFields, SizeAssumption
<1>3. Offset(node[AtSlot].shift, w.op.index) \in Slots
    BY <1>1, OffsetType, InsertCall
<1>4. CallInv' /\ w' \in WriterType
    <2> DEFINE s == w.shift - 1
               o == Offset(node[AtSlot].shift, w.op.index)
    <2>1. w' = [w EXCEPT !.pc = "create", !.shift = s, !.top = w.top, !.cur = AtSlot, !.off = o]
        BY <1>1 DEF WriterType
    <2>2. s \in 0 .. Height /\ o \in Slots
        BY <1>2, <1>3
    <2>3. w.pc = "create" /\ w.top \in Shifts /\ AtSlot \in Nodes \cup {NULL}
        BY <1>1, WriterFields
    <2> HIDE DEF s, o
    <2> QED BY <2>1, <2>2, <2>3, InsertMoves
<1> QED BY <1>1, <1>4 DEF TypeInv, TypeOK

LEMMA CreateChildType == ASSUME TypeInv, CreateChild, Observe, oom' = oom PROVE TypeInv'
<1> DEFINE s == w.shift - 1
           o == Offset(s, w.op.index)
<1>1. w.pc = "create" /\ w.shift > 0 /\ w \in WriterType
    BY DEF CreateChild, TypeInv, TypeOK
<1>2. s \in Shifts /\ s \in 0 .. Height
    BY <1>1, WriterFields, SizeAssumption DEF Shifts
<1>3. PICK n \in Nodes, left \in [Slots -> Entries] :
         /\ node' = [Stored(node, w.cur, w.off, n, 1, 0)
                        EXCEPT ![n] = Fresh(s, w.off, 0, w.cur, left)]
         /\ heap' = [heap EXCEPT ![n] = "live"]
         /\ root' = RootStored(w.cur, n)
         /\ w' = [w EXCEPT !.shift = s, !.cur = n, !.off = o]
         /\ UNCHANGED <<ret, rd, grace, oom>>
    BY LeftoversType DEF CreateChild, Free, Goto, Observe
<1> HIDE DEF s
<1>4. n \in Entries
    BY DEF Entries
<1>5. node' \in Memory
    <2>1. \A d, x \in Int : Stored(node, w.cur, w.off, n, d, x) \in Memory
        BY <1>4, StoredType, WriterFields DEF TypeInv, TypeOK, Memory
    <2>2. \A c \in Int : Fresh(s, w.off, c, w.cur, left) \in NodeType
        <3>1. s \in Shifts /\ w.off \in Slots /\ w.cur \in Nodes \cup {NULL}
            BY <1>2, WriterFields
        <3> QED BY <3>1, FreshType
    <2> DEFINE mem == Stored(node, w.cur, w.off, n, 1, 0)
               new == Fresh(s, w.off, 0, w.cur, left)
    <2>3. mem \in Memory /\ new \in NodeType
        BY <2>1, <2>2
    <2>4. node' = [mem EXCEPT ![n] = new]
        BY <1>3
    <2> HIDE DEF mem, new
    <2> QED BY <2>3, <2>4 DEF Memory
<1>6. /\ root' \in [rnode : Entries, tags : SUBSET Tags]
      /\ heap' \in [Nodes -> {"free", "live", "rcu"}]
    BY <1>3, <1>4 DEF TypeInv, TypeOK, RootStored
<1>7. CallInv' /\ w' \in WriterType
    <2>1. w' = [w EXCEPT !.pc = "create", !.shift = s, !.top = w.top, !.cur = n, !.off = o]
        BY <1>1, <1>3 DEF WriterType
    <2>2. o \in Slots
        BY <1>1, <1>2, OffsetType, InsertCall
    <2>3. /\ w.pc = "create" /\ w.top \in Shifts /\ n \in Nodes \cup {NULL}
          /\ s \in 0 .. Height
        BY <1>1, <1>2, WriterFields
    <2> HIDE DEF o
    <2> QED BY <2>1, <2>2, <2>3, InsertMoves
<1> QED BY <1>3, <1>5, <1>6, <1>7 DEF TypeInv, TypeOK, Memory

LEMMA AllocFailsType == ASSUME TypeInv, AllocFails, Observe PROVE TypeInv'
<1>1. /\ Return("ENOMEM") /\ oom' \in BOOLEAN
      /\ UNCHANGED <<root, node, heap, grace, rd>>
    BY DEF AllocFails, ExtendFails, CreateFails, Observe, tree
<1>2. /\ CallInv' /\ w' \in WriterType
      /\ ret' \in Entries \cup {"ok", "EEXIST", "ENOMEM"}
    BY <1>1, Returns
<1> QED BY <1>1, <1>2 DEF TypeInv, TypeOK

\* Storing an entry at the writer's slot.
LEMMA StoredAtSlotType ==
    ASSUME TypeInv, NEW mem \in Memory, NEW e \in Entries, NEW dc \in Int, NEW dx \in Int
    PROVE  /\ Stored(mem, w.cur, w.off, e, dc, dx) \in Memory
           /\ RootStored(w.cur, e) \in [rnode : Entries, tags : SUBSET Tags]
<1>1. w.cur \in Nodes \cup {NULL} /\ w.off \in Slots
    BY WriterFields
<1>2. Stored(mem, w.cur, w.off, e, dc, dx) \in Memory
    BY <1>1, StoredType
<1> QED BY <1>2 DEF RootStored, TypeInv, TypeOK

LEMMA IsExceptionalType == \A e : IsExceptional(e) \in Int /\ IsEntry(e) \in Int
BY DEF IsExceptional, IsEntry

LEMMA InsertEntryType == ASSUME TypeInv, InsertEntry, Observe, oom' = oom PROVE TypeInv'
<1>1. CASE AtSlot # NULL
    <2>1. Return("EEXIST") /\ UNCHANGED <<root, node, heap, grace, rd>>
        BY <1>1 DEF InsertEntry, Observe, tree
    <2>2. CallInv' /\ w' \in WriterType /\ ret' \in Entries \cup {"ok", "EEXIST", "ENOMEM"}
        BY <2>1, Returns
    <2> QED BY <2>1, <2>2 DEF TypeInv, TypeOK
<1>2. CASE AtSlot = NULL
    <2>1. /\ node' = Stored(node, w.cur, w.off, w.op.item, 1, IsExceptional(w.op.item))
          /\ root' = RootStored(w.cur, w.op.item)
          /\ Return("ok")
          /\ UNCHANGED <<heap, grace, rd>>
        BY <1>2 DEF InsertEntry, Observe
    <2>2. w.op.item \in Entries /\ IsExceptional(w.op.item) \in Int /\ 1 \in Int
        BY InsertCall, IsExceptionalType DEF InsertEntry, Entries
    <2>3. node \in Memory
        BY DEF TypeInv, TypeOK, Memory
    <2>4. node' \in Memory /\ root' \in [rnode : Entries, tags : SUBSET Tags]
        <3>1. \A d, x \in Int : Stored(node, w.cur, w.off, w.op.item, d, x) \in Memory
            BY <2>2, <2>3, StoredAtSlotType
        <3>2. RootStored(w.cur, w.op.item) \in [rnode : Entries, tags : SUBSET Tags]
            BY <2>2 DEF RootStored, TypeInv, TypeOK
        <3> QED BY <2>1, <2>2, <3>1, <3>2
    <2>5. CallInv' /\ w' \in WriterType /\ ret' \in Entries \cup {"ok", "EEXIST", "ENOMEM"}
        BY <2>1, Returns
    <2> QED BY <2>1, <2>4, <2>5 DEF TypeInv, TypeOK, Memory
<1> QED BY <1>1, <1>2

\* The index of the call that looks up.
LEMMA FindCall ==
    ASSUME TypeInv, w.pc \notin {"idle", "insert", "extend", "create"}
    PROVE  /\ w.op \in Calls /\ w.op # NULL /\ w.op.index \in Indices
           /\ w.op.kind = "tag_set" => w.op.tag \in Tags
           /\ w.op.kind = "replace" => w.op.item \in Items \cup {NULL}
<1>1. w.op \in Calls /\ w.op # NULL
    BY DEF TypeInv, TypeOK, CallInv, WriterType
<1> QED BY <1>1 DEF Calls, Inserts, Deletes, Replaces, TagSets, TagClears

LEMMA FindStartType == ASSUME TypeInv, FindStart, Observe, oom' = oom PROVE TypeInv'
<1>1. /\ UNCHANGED <<root, node, heap, grace, rd>>
      /\ w.pc \in {"delete", "replace", "tag_clear", "tag_set"} /\ w \in WriterType
      /\ \/ Return(NULL)
         \/ w' = [w EXCEPT !.pc = "find"] /\ ret' = ret
    BY DEF FindStart, Observe, tree, Goto, TypeInv, TypeOK
<1>2. CASE Return(NULL)
    <2>1. NULL \in Entries
        BY DEF Entries
    <2> QED BY <1>1, <1>2, <2>1, Returns DEF TypeInv, TypeOK
<1>3. CASE w' = [w EXCEPT !.pc = "find"] /\ ret' = ret
    <2>1. CallInv' /\ w' \in WriterType
        BY <1>1, <1>3 DEF WriterType, CallInv, TypeInv, Places
    <2> QED BY <1>1, <1>3, <2>1 DEF TypeInv, TypeOK
<1> QED BY <1>1, <1>2, <1>3

LEMMA FindStepType == ASSUME TypeInv, FindStep, Observe, oom' = oom PROVE TypeInv'
<1> DEFINE n == AtSlot
           o == Offset(node[n].shift, w.op.index)
<1>1. /\ w.pc = "find" /\ w \in WriterType /\ n \in Nodes /\ node[n] \in NodeType
      /\ w' = [w EXCEPT !.cur = n, !.off = o]
      /\ node' = IF w.op.kind = "tag_set"
                 THEN [node EXCEPT ![n].tags[w.op.tag] = @ \cup {o}] ELSE node
      /\ UNCHANGED <<root, heap, grace, rd, ret>>
    BY DEF FindStep, Goto, Observe, TypeInv, TypeOK
<1>2. /\ w.op.index \in Indices /\ (w.op.kind = "tag_set" => w.op.tag \in Tags)
      /\ w.op # NULL
    BY <1>1, FindCall
<1>3. o \in Slots
    BY <1>1, <1>2, OffsetType DEF NodeType
<1> HIDE DEF n, o
<1>4. node' \in Memory
    <2>1. node \in [Nodes -> NodeType]
        BY DEF TypeInv, TypeOK
    <2>2. ASSUME NEW t \in Tags
          PROVE  [node EXCEPT ![n].tags[t] = @ \cup {o}] \in Memory
        <3>1. [node[n].tags EXCEPT ![t] = @ \cup {o}] \in [Tags -> SUBSET Slots]
            BY <1>1, <1>3 DEF NodeType
        <3>2. ASSUME NEW f \in [Tags -> SUBSET Slots]
              PROVE  [node[n] EXCEPT !.tags = f] \in NodeType
            BY <1>1 DEF NodeType
        <3> QED BY <1>1, <2>1, <3>1, <3>2 DEF Memory
    <2> QED BY <1>1, <1>2, <2>1, <2>2 DEF Memory
<1>5. w' \in WriterType /\ w'.pc = "find" /\ w'.op = w.op
    BY <1>1, <1>3 DEF WriterType
<1>6. CallInv'
    BY <1>2, <1>5 DEF CallInv
<1> QED BY <1>1, <1>4, <1>5, <1>6 DEF TypeInv, TypeOK, Memory

LEMMA TagSetType == ASSUME TypeInv, TagSet, Observe, oom' = oom PROVE TypeInv'
<1>1. /\ w.pc = "find" /\ w.op.kind = "tag_set" /\ Return(AtSlot)
      /\ root' = [root EXCEPT !.tags = @ \cup {w.op.tag}]
      /\ UNCHANGED <<node, heap, grace, rd>>
    BY DEF TagSet, Found, Observe
<1>2. w.op.tag \in Tags
    BY <1>1, FindCall
<1>3. root' \in [rnode : Entries, tags : SUBSET Tags]
    BY <1>1, <1>2 DEF TypeInv, TypeOK
<1>4. CallInv' /\ w' \in WriterType /\ ret' \in Entries \cup {"ok", "EEXIST", "ENOMEM"}
    BY <1>1, Returns, AtSlotType DEF TypeInv
<1> QED BY <1>1, <1>3, <1>4 DEF TypeInv, TypeOK

LEMMA TagClearType == ASSUME TypeInv, TagClear, Observe, oom' = oom PROVE TypeInv'
<1>1. Return(AtSlot) /\ UNCHANGED <<heap, grace, rd>>
    BY DEF TagClear, tree, Observe
<1>2. CallInv' /\ w' \in WriterType /\ ret' \in Entries \cup {"ok", "EEXIST", "ENOMEM"}
    BY <1>1, Returns, AtSlotType DEF TypeInv
<1>3. node' \in Memory /\ root' \in [rnode : Entries, tags : SUBSET Tags]
    <2>1. CASE AtSlot = NULL
        BY <2>1 DEF TagClear, tree, TypeInv, TypeOK, Memory
    <2>2. CASE AtSlot # NULL
        <3>1. /\ node' = TagsCleared(w.cur, w.off, {w.op.tag})
              /\ root' = [root EXCEPT !.tags = RootTagsCleared(w.cur, w.off, {w.op.tag})]
            BY <2>2 DEF TagClear
        <3>2. RootTagsCleared(w.cur, w.off, {w.op.tag}) \in SUBSET Tags
            BY DEF RootTagsCleared, TypeInv, TypeOK
        <3> QED BY <3>1, <3>2, TagsClearedType DEF TypeInv, TypeOK
    <2> QED BY <2>1, <2>2
<1> QED BY <1>1, <1>2, <1>3 DEF TypeInv, TypeOK, Memory

\* The writer after the store of a deletion or replacement.
LEMMA PruneFromType ==
    ASSUME TypeInv, w.pc # "idle", NEW r \in Entries \cup {"ok"}, PruneFrom(r)
    PROVE  /\ CallInv' /\ w' \in WriterType
           /\ ret' \in Entries \cup {"ok", "EEXIST", "ENOMEM"}
<1>1. CASE w.cur = NULL
    BY <1>1, Returns DEF PruneFrom
<1>2. CASE w.cur # NULL
    <2>1. w' = [w EXCEPT !.pc = "prune", !.res = r] /\ ret' = ret
        BY <1>2 DEF PruneFrom, Goto
    <2>2. w' = [w EXCEPT !.pc = "prune", !.cur = w.cur, !.off = w.off, !.res = r]
        BY <2>1 DEF TypeInv, TypeOK, WriterType
    <2>3. w.cur \in Nodes /\ w.off \in Slots
        BY <1>2, WriterFields
    <2>4. CallInv' /\ w' \in WriterType
        BY <2>2, <2>3, Moves
    <2> QED BY <2>1, <2>4 DEF TypeInv, TypeOK
<1> QED BY <1>1, <1>2

LEMMA DeleteType == ASSUME TypeInv, Delete, Observe, oom' = oom PROVE TypeInv'
<1>1. w.pc = "find" /\ UNCHANGED <<heap, grace, rd>>
    BY DEF Delete, Found, tree, Observe
<1>2. CASE AtSlot = NULL \/ w.op.item \notin {NULL, AtSlot}
    <2>1. Return(NULL) /\ UNCHANGED <<root, node>> /\ NULL \in Entries
        BY <1>2 DEF Delete, tree, Entries
    <2>2. CallInv' /\ w' \in WriterType /\ ret' \in Entries \cup {"ok", "EEXIST", "ENOMEM"}
        BY <2>1, Returns
    <2> QED BY <1>1, <2>1, <2>2 DEF TypeInv, TypeOK
<1>3. CASE ~ (AtSlot = NULL \/ w.op.item \notin {NULL, AtSlot})
    <2> DEFINE mem == TagsCleared(w.cur, w.off, Tags)
    <2>1. /\ node' = Stored(mem, w.cur, w.off, NULL, -1, -IsExceptional(AtSlot))
          /\ root' = [RootStored(w.cur, NULL)
                         EXCEPT !.tags = RootTagsCleared(w.cur, w.off, Tags)]
          /\ PruneFrom(AtSlot)
        BY <1>3 DEF Delete
    <2>2. mem \in Memory /\ NULL \in Entries
        BY TagsClearedType DEF TypeInv, Entries
    <2>3. -IsExceptional(AtSlot) \in Int /\ -1 \in Int
        BY DEF IsExceptional
    <2> HIDE DEF mem
    <2>4. node' \in Memory /\ RootStored(w.cur, NULL) \in [rnode : Entries, tags : SUBSET Tags]
        BY <2>1, <2>2, <2>3, StoredAtSlotType
    <2>5. RootTagsCleared(w.cur, w.off, Tags) \in SUBSET Tags
        BY DEF RootTagsCleared, TypeInv, TypeOK
    <2>6. root' \in [rnode : Entries, tags : SUBSET Tags]
        BY <2>1, <2>4, <2>5
    <2>7. CallInv' /\ w' \in WriterType /\ ret' \in Entries \cup {"ok", "EEXIST", "ENOMEM"}
        BY <1>1, <2>1, PruneFromType, AtSlotType DEF TypeInv
    <2> QED BY <1>1, <2>4, <2>6, <2>7 DEF TypeInv, TypeOK, Memory
<1> QED BY <1>2, <1>3

LEMMA ReplaceType == ASSUME TypeInv, Replace, Observe, oom' = oom PROVE TypeInv'
<1>1. w.pc = "find" /\ w.op.kind = "replace" /\ UNCHANGED <<heap, grace, rd>>
    BY DEF Replace, Found, tree, Observe
<1>2. CASE AtSlot = NULL
    <2>1. Return(NULL) /\ UNCHANGED <<root, node>> /\ NULL \in Entries
        BY <1>2 DEF Replace, tree, Entries
    <2>2. CallInv' /\ w' \in WriterType /\ ret' \in Entries \cup {"ok", "EEXIST", "ENOMEM"}
        BY <2>1, Returns
    <2> QED BY <1>1, <2>1, <2>2 DEF TypeInv, TypeOK
<1>3. CASE AtSlot # NULL
    <2> DEFINE x == w.op.item
               dc == IsEntry(x) - IsEntry(AtSlot)
               dx == IsExceptional(x) - IsExceptional(AtSlot)
    <2>1. /\ node' = Stored(node, w.cur, w.off, x, dc, dx)
          /\ root' = RootStored(w.cur, x)
          /\ PruneFrom("ok")
        BY <1>3 DEF Replace
    <2>2. x \in Entries /\ dc \in Int /\ dx \in Int
        BY <1>1, FindCall DEF Entries, IsEntry, IsExceptional
    <2>3. node \in Memory
        BY DEF TypeInv, TypeOK, Memory
    <2> HIDE DEF x, dc, dx
    <2>4. node' \in Memory /\ root' \in [rnode : Entries, tags : SUBSET Tags]
        BY <2>1, <2>2, <2>3, StoredAtSlotType
    <2>5. CallInv' /\ w' \in WriterType /\ ret' \in Entries \cup {"ok", "EEXIST", "ENOMEM"}
        BY <1>1, <2>1, PruneFromType
    <2> QED BY <1>1, <2>4, <2>5 DEF TypeInv, TypeOK, Memory
<1> QED BY <1>2, <1>3

LEMMA PruneEndType == ASSUME TypeInv, PruneEnd, Observe, oom' = oom PROVE TypeInv'
<1>1. w.pc = "prune" /\ UNCHANGED <<root, node, heap, grace, rd>>
    BY DEF PruneEnd, tree, Observe
<1>2. CASE w' = [w EXCEPT !.pc = "shrink"] /\ ret' = ret
    <2>1. w' = [w EXCEPT !.pc = "shrink", !.cur = w.cur, !.off = w.off, !.res = w.res]
        BY <1>2 DEF TypeInv, TypeOK, WriterType
    <2>2. CallInv' /\ w' \in WriterType
        BY <1>1, <2>1, Moves, WriterFields
    <2> QED BY <1>1, <1>2, <2>2 DEF TypeInv, TypeOK
<1>3. CASE Return(w.res)
    <2>1. CallInv' /\ w' \in WriterType /\ ret' \in Entries \cup {"ok", "EEXIST", "ENOMEM"}
        BY <1>3, Returns, WriterFields
    <2> QED BY <1>1, <2>1 DEF TypeInv, TypeOK
<1> QED BY <1>2, <1>3 DEF PruneEnd, Goto

LEMMA PruneNodeType == ASSUME TypeInv, PruneNode, Observe, oom' = oom PROVE TypeInv'
<1> DEFINE n == w.cur
           p == node[n].parent
           o == node[n].offset
           mem == Stored(node, p, o, NULL, -1, 0)
<1>1. w.pc = "prune" /\ Retire(mem, n) /\ rd' = rd
    BY DEF PruneNode, Observe
<1>2. n \in Nodes /\ p \in Nodes \cup {NULL} /\ o \in Slots /\ w.off \in Slots
    BY <1>1, WriterFields DEF TypeInv, TypeOK, CallInv, NodeType
<1>3. mem \in Memory
    <2>1. node \in Memory /\ NULL \in Entries
        BY DEF TypeInv, TypeOK, Memory, Entries
    <2> HIDE DEF p, o
    <2>2. \A d, x \in Int : Stored(node, p, o, NULL, d, x) \in Memory
        BY <1>2, <2>1, StoredType
    <2> QED BY <2>2
<1>4. /\ node' \in Memory /\ heap' \in [Nodes -> {"free", "live", "rcu"}]
      /\ grace' \in [Nodes -> SUBSET Readers]
    <2> HIDE DEF mem, n
    <2> QED BY <1>1, <1>2, <1>3, RetireType DEF TypeInv
<1>5. root' \in [rnode : Entries, tags : SUBSET Tags]
    BY DEF PruneNode, TypeInv, TypeOK, Entries
<1>6. CASE Return(w.res)
    <2>1. CallInv' /\ w' \in WriterType /\ ret' \in Entries \cup {"ok", "EEXIST", "ENOMEM"}
        BY <1>6, Returns, WriterFields
    <2> QED BY <1>1, <1>4, <1>5, <2>1 DEF TypeInv, TypeOK, Memory
<1>7. CASE p # NULL /\ w' = [w EXCEPT !.cur = p] /\ ret' = ret
    <2>1. w' = [w EXCEPT !.pc = "prune", !.cur = p, !.off = w.off, !.res = w.res]
        BY <1>1, <1>7 DEF TypeInv, TypeOK, WriterType
    <2>2. w.pc # "idle" /\ p \in Nodes /\ w.off \in Slots /\ w.res \in Entries \cup {"ok"}
        BY <1>1, <1>2, <1>7, WriterFields
    <2> HIDE DEF p
    <2>3. CallInv' /\ w' \in WriterType
        BY <2>1, <2>2, Moves
    <2> QED BY <1>1, <1>4, <1>5, <1>7, <2>3 DEF TypeInv, TypeOK, Memory
<1> QED BY <1>6, <1>7 DEF PruneNode, Goto

LEMMA ShrinkEndType == ASSUME TypeInv, ShrinkEnd, Observe, oom' = oom PROVE TypeInv'
<1>1. Return(w.res) /\ UNCHANGED <<root, node, heap, grace, rd>>
    BY DEF ShrinkEnd, tree, Observe
<1>2. CallInv' /\ w' \in WriterType /\ ret' \in Entries \cup {"ok", "EEXIST", "ENOMEM"}
    BY <1>1, Returns, WriterFields
<1> QED BY <1>1, <1>2 DEF TypeInv, TypeOK

LEMMA ShrinkRootType == ASSUME TypeInv, ShrinkRoot, Observe, oom' = oom PROVE TypeInv'
<1> DEFINE n == root.rnode
           c == node[n].slots[0]
<1>1. /\ w.pc = "shrink" /\ n \in Nodes
      /\ root' = [root EXCEPT !.rnode = c]
      /\ node' = [Reparented(c, NULL) EXCEPT ![n].count = 0]
      /\ w' = [w EXCEPT !.pc = "retire", !.cur = n]
      /\ UNCHANGED <<heap, grace, rd, ret>>
    BY DEF ShrinkRoot, Shrinkable, Goto, Observe
<1>2. c \in Entries
    BY <1>1, SizeAssumption DEF TypeInv, TypeOK, NodeType, Slots
<1>3. node' \in Memory
    <2>1. Reparented(c, NULL) \in Memory
        BY ReparentedType DEF TypeInv
    <2>2. ASSUME NEW m \in NodeType PROVE [m EXCEPT !.count = 0] \in NodeType
        BY DEF NodeType
    <2> QED BY <1>1, <2>1, <2>2 DEF Memory
<1>4. root' \in [rnode : Entries, tags : SUBSET Tags]
    BY <1>1, <1>2 DEF TypeInv, TypeOK
<1>5. CallInv' /\ w' \in WriterType
    <2>1. w' = [w EXCEPT !.pc = "retire", !.cur = n, !.off = w.off, !.res = w.res]
        BY <1>1 DEF TypeInv, TypeOK, WriterType
    <2>2. w.pc # "idle" /\ n \in Nodes /\ w.off \in Slots /\ w.res \in Entries \cup {"ok"}
        BY <1>1, WriterFields
    <2> HIDE DEF n
    <2> QED BY <2>1, <2>2, Moves
<1> QED BY <1>1, <1>3, <1>4, <1>5 DEF TypeInv, TypeOK, Memory

LEMMA ShrinkRetireType == ASSUME TypeInv, ShrinkRetire, Observe, oom' = oom PROVE TypeInv'
<1> DEFINE n == w.cur
           mem == IF node[n].slots[0] \in Nodes THEN node
                  ELSE [node EXCEPT ![n].slots[0] = RETRY]
<1>1. /\ w.pc = "retire" /\ Retire(mem, n)
      /\ w' = [w EXCEPT !.pc = "shrink"]
      /\ UNCHANGED <<root, rd, ret>>
    BY DEF ShrinkRetire, Goto, Observe
<1>2. n \in Nodes /\ w.off \in Slots /\ w.res \in Entries \cup {"ok"}
    BY <1>1, WriterFields DEF TypeInv, CallInv
<1>3. mem \in Memory
    <2>1. node[n] \in NodeType /\ 0 \in Slots /\ RETRY \in Entries
        BY <1>2, SizeAssumption DEF TypeInv, TypeOK, Slots, Entries
    <2>2. [node[n].slots EXCEPT ![0] = RETRY] \in [Slots -> Entries]
        BY <2>1 DEF NodeType
    <2>3. ASSUME NEW f \in [Slots -> Entries]
          PROVE  [node[n] EXCEPT !.slots = f] \in NodeType
        BY <2>1 DEF NodeType
    <2> QED BY <1>2, <2>2, <2>3 DEF Memory, TypeInv, TypeOK
<1>4. /\ node' \in Memory /\ heap' \in [Nodes -> {"free", "live", "rcu"}]
      /\ grace' \in [Nodes -> SUBSET Readers]
    <2> HIDE DEF mem, n
    <2> QED BY <1>1, <1>2, <1>3, RetireType DEF TypeInv
<1>5. CallInv' /\ w' \in WriterType
    <2>1. w' = [w EXCEPT !.pc = "shrink", !.cur = n, !.off = w.off, !.res = w.res]
        BY <1>1 DEF TypeInv, TypeOK, WriterType
    <2>2. w.pc # "idle" /\ n \in Nodes \cup {NULL}
        BY <1>1, <1>2
    <2> HIDE DEF n
    <2> QED BY <1>2, <2>1, <2>2, Moves
<1> QED BY <1>1, <1>4, <1>5 DEF TypeInv, TypeOK, Memory

LEMMA ReaderType ==
    ASSUME TypeInv, NEW r \in Readers, Reader(r) PROVE TypeInv'
<1>1. UNCHANGED <<root, node, heap, w, ret, oom>>
    BY DEF Reader, ReadLock, ReadRoot, ReadBound, ReadSlot, ReadRetry, ReadUnlock,
           WriterSame, tree
<1>2. grace' = grace \/ grace' = [n \in Nodes |-> grace[n] \ {r}]
    BY DEF Reader, ReadLock, ReadRoot, ReadBound, ReadSlot, ReadRetry, ReadUnlock, tree
<1>3. grace' \in [Nodes -> SUBSET Readers]
    BY <1>2 DEF TypeInv, TypeOK
<1> DEFINE RdType == [pc : {"out", "restart", "bound", "walk"}, idx : Indices \cup {0},
                      ent : Entries, par : Nodes \cup {NULL}]
<1>4. rd[r] \in RdType /\ rd \in [Readers -> RdType] /\ NULL \in Entries
    BY DEF TypeInv, TypeOK, Entries
<1>5. \E s \in RdType : ReaderStep(r, s)
    <2>1. ASSUME NEW i \in Indices, ReadLock(r, i) PROVE \E s \in RdType : ReaderStep(r, s)
        BY <1>4, <2>1 DEF ReadLock, Out
    <2>2. CASE ReadRoot(r)
        BY <1>4, <2>2 DEF ReadRoot, TypeInv, TypeOK
    <2>3. CASE ReadBound(r)
        BY <1>4, <2>3 DEF ReadBound
    <2>4. CASE ReadSlot(r)
        <3> DEFINE n == node[rd[r].ent]
                   o == Offset(n.shift, rd[r].idx)
                   st == [rd[r] EXCEPT !.ent = n.slots[o], !.par = rd[r].ent]
        <3>1. ReaderStep(r, st) /\ rd[r].ent \in Nodes /\ n \in NodeType
            BY <2>4 DEF ReadSlot, TypeInv, TypeOK
        <3>2. o \in Slots
            <4>1. n.shift \in Shifts /\ rd[r].idx \in Indices \cup {0}
                BY <1>4, <3>1 DEF NodeType
            <4>2. CASE rd[r].idx \in Indices
                BY <4>1, <4>2, OffsetType
            <4>3. CASE rd[r].idx = 0
                BY <4>1, <4>3, OffsetOfZero
            <4> QED BY <4>1, <4>2, <4>3
        <3>3. n.slots[o] \in Entries
            BY <3>1, <3>2 DEF NodeType
        <3> HIDE DEF n, o
        <3>4. st \in RdType
            BY <1>4, <3>1, <3>3
        <3> QED BY <3>1, <3>4
    <2>5. CASE ReadRetry(r)
        BY <1>4, <2>5 DEF ReadRetry
    <2>6. CASE ReadUnlock(r)
        BY <1>4, <2>6 DEF ReadUnlock, Out
    <2> QED BY <2>1, <2>2, <2>3, <2>4, <2>5, <2>6 DEF Reader
<1>6. rd' \in [Readers -> RdType]
    BY <1>4, <1>5 DEF ReaderStep
<1> QED BY <1>1, <1>6, <1>3 DEF TypeInv, TypeOK, CallInv

LEMMA RcuFreeType == ASSUME TypeInv, NEW n \in Nodes, RcuFree(n) PROVE TypeInv'
BY BlankType DEF RcuFree, TypeInv, TypeOK, CallInv, WriterSame

-----------------------------------------------------------------------------
LEMMA InitType == Init => TypeInv
<1> SUFFICES ASSUME Init PROVE TypeInv
    OBVIOUS
<1>1. w \in WriterType
    BY SizeAssumption DEF Init, Idle, WriterType, Places, Slots, Shifts, Entries
<1>2. rd \in [Readers -> [pc : {"out", "restart", "bound", "walk"}, idx : Indices \cup {0},
                          ent : Entries, par : Nodes \cup {NULL}]]
    BY DEF Init, Out, Entries
<1>3. CallInv
    BY DEF Init, Idle, CallInv
<1> QED BY <1>1, <1>2, <1>3, BlankType DEF Init, TypeInv, TypeOK, Entries

LEMMA StepType == TypeInv /\ [Next]_vars => TypeInv'
<1> SUFFICES ASSUME TypeInv, [Next]_vars PROVE TypeInv'
    OBVIOUS
<1>1. ASSUME NEW o \in Calls, Invoke(o), Observe PROVE TypeInv'
    BY <1>1, InvokeType
<1>2. CASE AllocFails /\ Observe
    BY <1>2, AllocFailsType
<1>3. CASE Create /\ Observe /\ oom' = oom
    BY <1>3, InsertStartType, ExtendType, DescendType, CreateChildType, InsertEntryType
       DEF Create
<1>4. CASE (FindStart \/ FindStep \/ TagSet \/ TagClear \/ Delete \/ Replace)
           /\ Observe /\ oom' = oom
    BY <1>4, FindStartType, FindStepType, TagSetType, TagClearType, DeleteType, ReplaceType
<1>5. CASE Prune /\ Observe /\ oom' = oom
    BY <1>5, PruneEndType, PruneNodeType, ShrinkEndType, ShrinkRootType, ShrinkRetireType
       DEF Prune
<1>6. ASSUME NEW r \in Readers, Reader(r) PROVE TypeInv'
    BY <1>6, ReaderType
<1>7. ASSUME NEW n \in Nodes, RcuFree(n) PROVE TypeInv'
    BY <1>7, RcuFreeType
<1>8. CASE UNCHANGED vars
    BY <1>8 DEF vars, TypeInv, TypeOK, CallInv
<1> QED BY <1>1, <1>2, <1>3, <1>4, <1>5, <1>6, <1>7, <1>8 DEF Next, WriterStep

\* TypeInv holds in every state.
LEMMA TypeInvariant == Spec => []TypeInv
BY InitType, StepType, PTL DEF Spec

\* Every variable of the tree, of the node memory and of the threads stays in
\* its domain, whatever fresh memory holds and whether or not call_rcu waits.
THEOREM TypeCorrect == Spec => []TypeOK
BY TypeInvariant, PTL DEF TypeInv
-----------------------------------------------------------------------------
(* The shape.  LinksAgree, NothingLeaked and CountsAgree say what holds    *)
(* between calls; the invariant says what holds after every single store,  *)
(* of a tree with top entry t in memory mem whose nodes are allocated as   *)
(* hp says, while shrink has unlinked its old top z and not yet freed it.  *)

CountIn(slots, S) == Cardinality({o \in Slots : slots[o] \in S})
Present == Items \cup Nodes \cup {RETRY}

Rooted(t, mem, hp) ==
    /\ t # RETRY
    /\ t \in Nodes => hp[t] = "live" /\ mem[t].parent = NULL /\ mem[t].offset = 0

\* What the slots of an allocated node hold.
Down(mem, hp, z) ==
    \A n \in Nodes, o \in Slots :
      hp[n] = "live" =>
        /\ mem[n].slots[o] # RETRY
        /\ mem[n].slots[o] \in Items => mem[n].shift = 0
        /\ mem[n].slots[o] \in Nodes =>
             /\ hp[mem[n].slots[o]] = "live"
             /\ mem[mem[n].slots[o]].shift + 1 = mem[n].shift
             /\ n # z => /\ mem[mem[n].slots[o]].parent = n
                         /\ mem[mem[n].slots[o]].offset = o

\* Every allocated node hangs where its parent and offset say.
Up(t, mem, hp, z) ==
    \A n \in Nodes :
      hp[n] = "live" /\ n # z =>
        IF mem[n].parent = NULL THEN t = n
        ELSE /\ hp[mem[n].parent] = "live"
             /\ mem[n].parent # z
             /\ mem[mem[n].parent].slots[mem[n].offset] = n

Counted(mem, hp, z) ==
    \A n \in Nodes :
      hp[n] = "live" =>
        /\ mem[n].count = IF n = z THEN 0 ELSE CountIn(mem[n].slots, Present)
        /\ mem[n].exceptional = CountIn(mem[n].slots, Exceptional)

Shape(t, mem, hp, z) ==
    Rooted(t, mem, hp) /\ Down(mem, hp, z) /\ Up(t, mem, hp, z) /\ Counted(mem, hp, z)

Retiring == IF w.pc = "retire" THEN w.cur ELSE NULL
ShapeInv == Shape(root.rnode, node, heap, Retiring)

\* Where the writer stands.
CursorInv ==
    /\ w.cur = NULL => w.off = 0
    /\ w.pc \notin {"create", "find", "prune", "shrink", "retire"} => w.cur = NULL
    /\ w.pc \in {"create", "find", "prune", "retire"} /\ w.cur # NULL => heap[w.cur] = "live"
    /\ w.pc = "extend" => /\ root.rnode \in Items \cup Nodes
                          /\ w.shift = RootShift
    /\ w.pc = "create" =>
         IF w.cur # NULL THEN w.shift = node[w.cur].shift
         ELSE root.rnode # NULL => w.shift = RootShift
    /\ w.pc = "retire" => /\ root.rnode # w.cur
                          /\ node[w.cur].parent = NULL

StructInv == TypeInv /\ ShapeInv /\ CursorInv

-----------------------------------------------------------------------------
(* Counting the slots that hold something.                                 *)

LEMMA CountInType ==
    ASSUME NEW f \in [Slots -> Entries], NEW S
    PROVE  /\ IsFiniteSet({o \in Slots : f[o] \in S})
           /\ CountIn(f, S) \in Nat
<1>1. IsFiniteSet(Slots)
    BY FS_Interval, SizeAssumption DEF Slots
<1>2. {o \in Slots : f[o] \in S} \subseteq Slots
    OBVIOUS
<1>3. IsFiniteSet({o \in Slots : f[o] \in S})
    BY <1>1, <1>2, FS_Subset
<1> QED BY <1>3, FS_CardinalityType DEF CountIn

\* One store changes a count by what comes less what goes.
LEMMA CountStore ==
    ASSUME NEW f \in [Slots -> Entries], NEW g \in [Slots -> Entries], NEW S,
           NEW o \in Slots, NEW e,
           \A q \in Slots : g[q] = IF q = o THEN e ELSE f[q]
    PROVE  CountIn(g, S) =
             CountIn(f, S) + (IF e \in S THEN 1 ELSE 0) - (IF f[o] \in S THEN 1 ELSE 0)
<1> DEFINE A == {q \in Slots : f[q] \in S}
           B == {q \in Slots : g[q] \in S}
<1>1. IsFiniteSet(A) /\ Cardinality(A) \in Nat
    BY CountInType, FS_CardinalityType
<1>2. \A q \in Slots : g[q] = IF q = o THEN e ELSE f[q]
    OBVIOUS
<1>3. SUFFICES Cardinality(B) = Cardinality(A) + (IF e \in S THEN 1 ELSE 0)
                                               - (IF f[o] \in S THEN 1 ELSE 0)
    BY DEF CountIn
<1>4. CASE (e \in S) <=> (f[o] \in S)
    <2>1. B = A
        BY <1>2, <1>4
    <2> HIDE DEF A, B
    <2> QED BY <1>1, <1>4, <2>1
<1>5. CASE e \in S /\ f[o] \notin S
    <2>1. B = A \cup {o} /\ o \notin A
        BY <1>2, <1>5
    <2>2. Cardinality(A \cup {o}) = Cardinality(A) + 1
        BY <1>1, <2>1, FS_AddElement
    <2> HIDE DEF A, B
    <2> QED BY <1>1, <1>5, <2>1, <2>2
<1>6. CASE e \notin S /\ f[o] \in S
    <2>1. B = A \ {o} /\ o \in A
        BY <1>2, <1>6
    <2>2. Cardinality(A \ {o}) = Cardinality(A) - 1
        BY <1>1, <2>1, FS_RemoveElement
    <2> HIDE DEF A, B
    <2> QED BY <1>1, <1>6, <2>1, <2>2
<1> QED BY <1>4, <1>5, <1>6

\* A count of zero: all the slots are without.
LEMMA CountZero ==
    ASSUME NEW f \in [Slots -> Entries], NEW S, CountIn(f, S) = 0
    PROVE  \A o \in Slots : f[o] \notin S
<1>1. {o \in Slots : f[o] \in S} = {}
    BY CountInType, FS_EmptySet DEF CountIn
<1> QED BY <1>1

\* A count of one: one slot has, the others have not.
LEMMA CountOne ==
    ASSUME NEW f \in [Slots -> Entries], NEW S, CountIn(f, S) = 1,
           NEW o \in Slots, f[o] \in S
    PROVE  \A q \in Slots \ {o} : f[q] \notin S
<1>1. \E x : {q \in Slots : f[q] \in S} = {x}
    BY CountInType, FS_Singleton DEF CountIn
<1> QED BY <1>1

LEMMA CountNone ==
    ASSUME NEW f \in [Slots -> Entries], NEW S, \A o \in Slots : f[o] \notin S
    PROVE  CountIn(f, S) = 0
<1>1. {o \in Slots : f[o] \in S} = {}
    OBVIOUS
<1> QED BY <1>1, FS_EmptySet DEF CountIn

\* The accounting of one store: what comes in less what goes out.
LEMMA CountAtStore ==
    ASSUME NEW f \in [Slots -> Entries], NEW g \in [Slots -> Entries],
           NEW o \in Slots, NEW e \in Entries,
           \A q \in Slots : g[q] = IF q = o THEN e ELSE f[q]
    PROVE  /\ CountIn(g, Present) = CountIn(f, Present) + (IsEntry(e) - IsEntry(f[o]))
           /\ CountIn(g, Exceptional)
                = CountIn(f, Exceptional) + (IsExceptional(e) - IsExceptional(f[o]))
<1>1. f[o] \in Entries
    OBVIOUS
<1>2. CountIn(g, Present) = CountIn(f, Present) + (IsEntry(e) - IsEntry(f[o]))
    <2>1. \A x \in Entries : IsEntry(x) = IF x \in Present THEN 1 ELSE 0
        BY EntryAssumption DEF IsEntry, Present, Entries
    <2>2. CountIn(g, Present) =
            CountIn(f, Present) + (IF e \in Present THEN 1 ELSE 0)
                                - (IF f[o] \in Present THEN 1 ELSE 0)
        BY CountStore
    <2>3. CountIn(f, Present) \in Nat
        BY CountInType
    <2> QED BY <1>1, <2>1, <2>2, <2>3
<1>3. CountIn(g, Exceptional)
        = CountIn(f, Exceptional) + (IsExceptional(e) - IsExceptional(f[o]))
    <2>1. CountIn(g, Exceptional) =
            CountIn(f, Exceptional) + (IF e \in Exceptional THEN 1 ELSE 0)
                                    - (IF f[o] \in Exceptional THEN 1 ELSE 0)
        BY CountStore
    <2>2. CountIn(f, Exceptional) \in Nat
        BY CountInType
    <2> QED BY <2>1, <2>2 DEF IsExceptional
<1> QED BY <1>2, <1>3

-----------------------------------------------------------------------------
(* What one store does to the shape.                                       *)

\* Two memories that differ in tags only.
SameShape(m1, m2) ==
    \A n \in Nodes :
      /\ m1[n].shift = m2[n].shift /\ m1[n].offset = m2[n].offset
      /\ m1[n].parent = m2[n].parent /\ m1[n].slots = m2[n].slots
      /\ m1[n].count = m2[n].count /\ m1[n].exceptional = m2[n].exceptional

\* new is mem after slot o of node c got entry e, tags aside (c may be NULL).
StoreOf(new, mem, c, o, e, dc, dx) ==
    \A n \in Nodes :
      /\ new[n].shift = mem[n].shift /\ new[n].offset = mem[n].offset
      /\ new[n].parent = mem[n].parent
      /\ n # c => /\ new[n].slots = mem[n].slots /\ new[n].count = mem[n].count
                  /\ new[n].exceptional = mem[n].exceptional
      /\ n = c => /\ \A q \in Slots :
                       new[n].slots[q] = IF q = o THEN e ELSE mem[n].slots[q]
                  /\ new[n].count = mem[n].count + dc
                  /\ new[n].exceptional = mem[n].exceptional + dx

LEMMA MemoryFields ==
    ASSUME NEW mem \in Memory, NEW n \in Nodes
    PROVE  /\ mem[n].shift \in Shifts /\ mem[n].offset \in Slots
           /\ mem[n].count \in Int /\ mem[n].exceptional \in Int
           /\ mem[n].parent \in Nodes \cup {NULL}
           /\ mem[n].slots \in [Slots -> Entries]
           /\ \A o \in Slots : mem[n].slots[o] \in Entries
BY DEF Memory, NodeType

LEMMA StoredStores ==
    ASSUME NEW mem \in Memory, NEW base \in Memory, SameShape(base, mem),
           NEW n \in Nodes \cup {NULL}, NEW o \in Slots,
           NEW e \in Entries, NEW dc \in Int, NEW dx \in Int
    PROVE  StoreOf(Stored(base, n, o, e, dc, dx), mem, n, o, e, dc, dx)
<1>1. CASE n = NULL
    BY <1>1, EntryAssumption DEF Stored, StoreOf, SameShape
<1>2. CASE n # NULL
    <2> SUFFICES ASSUME NEW m \in Nodes
                 PROVE  LET new == Stored(base, n, o, e, dc, dx) IN
                          /\ new[m].shift = base[m].shift /\ new[m].offset = base[m].offset
                          /\ new[m].parent = base[m].parent
                          /\ m # n => /\ new[m].slots = base[m].slots
                                      /\ new[m].count = base[m].count
                                      /\ new[m].exceptional = base[m].exceptional
                          /\ m = n => /\ \A q \in Slots : new[m].slots[q] =
                                           IF q = o THEN e ELSE base[m].slots[q]
                                      /\ new[m].count = base[m].count + dc
                                      /\ new[m].exceptional = base[m].exceptional + dx
        BY DEF StoreOf, SameShape
    <2> QED BY <1>2 DEF Stored, Memory, NodeType
<1> QED BY <1>1, <1>2

LEMMA TagsClearedShape ==
    ASSUME TypeOK, NEW n, NEW o, NEW ts
    PROVE  SameShape(TagsCleared(n, o, ts), node)
<1> DEFINE up == Climb(n, o)
           Bits(m, t) == {up[k].o : k \in {j \in ClearedUpTo(n, o, t) : up[j].n = m}}
           Kept(m) == [t \in Tags |-> IF t \in ts THEN node[m].tags[t] \ Bits(m, t)
                                      ELSE node[m].tags[t]]
<1>1. TagsCleared(n, o, ts) = [m \in Nodes |-> [node[m] EXCEPT !.tags = Kept(m)]]
    BY DEF TagsCleared
<1>2. \A m \in Nodes : node[m] \in NodeType
    BY DEF TypeOK
<1> HIDE DEF Kept
<1> QED BY <1>1, <1>2 DEF SameShape, NodeType

\* Setting and clearing tags leaves the shape as it is.
LEMMA ShapeKept ==
    ASSUME NEW mem \in Memory, NEW new \in Memory, SameShape(new, mem),
           NEW t, NEW hp, NEW z, Shape(t, mem, hp, z)
    PROVE  Shape(t, new, hp, z)
<1>1. \A n \in Nodes : mem[n].parent \in Nodes \cup {NULL}
    BY MemoryFields
<1>2. Rooted(t, new, hp)
    BY DEF Shape, Rooted, SameShape
<1>3. Down(new, hp, z)
    BY DEF Shape, Down, SameShape
<1>4. Up(t, new, hp, z)
    BY <1>1 DEF Shape, Up, SameShape
<1>5. Counted(new, hp, z)
    BY DEF Shape, Counted, SameShape
<1> QED BY <1>2, <1>3, <1>4, <1>5 DEF Shape

\* An entry e that is no node replaces one that is none, old, in slot o of node
\* c or, if that is NULL, in the root.
LEMMA ShapeStored ==
    ASSUME NEW mem \in Memory, NEW new \in Memory, NEW t, NEW u, NEW hp,
           Shape(t, mem, hp, NULL),
           NEW c \in Nodes \cup {NULL}, NEW o \in Slots,
           NEW e \in Items \cup {NULL}, NEW old \in Items \cup {NULL},
           old = IF c = NULL THEN t ELSE mem[c].slots[o],
           u = IF c = NULL THEN e ELSE t,
           NEW dc \in Int, NEW dx \in Int,
           dc = IsEntry(e) - IsEntry(old), dx = IsExceptional(e) - IsExceptional(old),
           e \in Items /\ c # NULL => mem[c].shift = 0,
           StoreOf(new, mem, c, o, e, dc, dx)
    PROVE  Shape(u, new, hp, NULL)
<1>1. /\ NULL \notin Nodes /\ e \in Entries /\ Items \cap Nodes = {}
      /\ RETRY \notin Items /\ RETRY # NULL /\ RETRY \notin Nodes
    BY EntryAssumption DEF Entries
<1>2. \A n \in Nodes :
        /\ mem[n].offset \in Slots /\ mem[n].parent \in Nodes \cup {NULL}
        /\ mem[n].slots \in [Slots -> Entries]
    BY MemoryFields
<1>3. \A n \in Nodes, q \in Slots :
        new[n].slots[q] = IF n = c /\ q = o THEN e ELSE mem[n].slots[q]
    BY <1>2 DEF StoreOf
<1>4. \A n \in Nodes : /\ new[n].shift = mem[n].shift /\ new[n].offset = mem[n].offset
                       /\ new[n].parent = mem[n].parent
    BY DEF StoreOf
<1>5. Rooted(u, new, hp)
    BY <1>1, <1>4 DEF Rooted, Shape
<1>6. Down(new, hp, NULL)
    <2> SUFFICES ASSUME NEW n \in Nodes, NEW q \in Slots, hp[n] = "live"
                 PROVE  LET k == new[n].slots[q] IN
                        /\ k # RETRY
                        /\ k \in Items => new[n].shift = 0
                        /\ k \in Nodes => /\ hp[k] = "live"
                                          /\ new[k].shift + 1 = new[n].shift
                                          /\ new[k].parent = n /\ new[k].offset = q
        BY DEF Down
    <2>1. CASE n = c /\ q = o
        BY <1>1, <1>3, <1>4, <2>1
    <2>2. CASE ~(n = c /\ q = o)
        <3>1. new[n].slots[q] = mem[n].slots[q] /\ n # NULL
            BY <1>1, <1>3, <2>2
        <3> QED BY <1>4, <3>1 DEF Shape, Down
    <2> QED BY <2>1, <2>2
<1>7. Up(u, new, hp, NULL)
    <2> SUFFICES ASSUME NEW n \in Nodes, hp[n] = "live"
                 PROVE  IF new[n].parent = NULL THEN u = n
                        ELSE /\ hp[new[n].parent] = "live"
                             /\ new[new[n].parent].slots[new[n].offset] = n
        BY DEF Up
    <2>1. CASE mem[n].parent = NULL
        <3>1. t = n
            BY <1>1, <2>1 DEF Shape, Up
        <3> QED BY <1>1, <1>4, <2>1, <3>1
    <2>2. CASE mem[n].parent # NULL
        <3>1. /\ mem[n].parent \in Nodes /\ hp[mem[n].parent] = "live"
              /\ mem[mem[n].parent].slots[mem[n].offset] = n /\ mem[n].offset \in Slots
            BY <1>1, <1>2, <2>2 DEF Shape, Up
        <3>2. ~(mem[n].parent = c /\ mem[n].offset = o)
            BY <1>1, <3>1
        <3> QED BY <1>3, <1>4, <2>2, <3>1, <3>2
    <2> QED BY <2>1, <2>2
<1>8. Counted(new, hp, NULL)
    <2> SUFFICES ASSUME NEW n \in Nodes, hp[n] = "live"
                 PROVE  /\ new[n].count = CountIn(new[n].slots, Present)
                        /\ new[n].exceptional = CountIn(new[n].slots, Exceptional)
        BY <1>1 DEF Counted
    <2>1. /\ mem[n].count = CountIn(mem[n].slots, Present)
          /\ mem[n].exceptional = CountIn(mem[n].slots, Exceptional)
        BY <1>1 DEF Shape, Counted
    <2>2. CASE n # c
        BY <2>1, <2>2 DEF StoreOf
    <2>3. CASE n = c
        <3>1. old = mem[n].slots[o]
            BY <1>1, <2>3
        <3>2. \A q \in Slots : new[n].slots[q] = IF q = o THEN e ELSE mem[n].slots[q]
            BY <2>3 DEF StoreOf
        <3>3. mem[n].slots \in [Slots -> Entries] /\ new[n].slots \in [Slots -> Entries]
            BY MemoryFields
        <3> DEFINE f == mem[n].slots
                   g == new[n].slots
        <3>4. /\ CountIn(g, Present) = CountIn(f, Present) + dc
              /\ CountIn(g, Exceptional) = CountIn(f, Exceptional) + dx
            <4>1. /\ f \in [Slots -> Entries] /\ g \in [Slots -> Entries] /\ e \in Entries
                  /\ \A q \in Slots : g[q] = IF q = o THEN e ELSE f[q]
                BY <1>1, <3>2, <3>3
            <4>2. dc = IsEntry(e) - IsEntry(f[o]) /\ dx = IsExceptional(e) - IsExceptional(f[o])
                BY <3>1
            <4> HIDE DEF f, g
            <4>3. /\ CountIn(g, Present) = CountIn(f, Present) + (IsEntry(e) - IsEntry(f[o]))
                  /\ CountIn(g, Exceptional)
                       = CountIn(f, Exceptional) + (IsExceptional(e) - IsExceptional(f[o]))
                BY <4>1, CountAtStore
            <4> QED BY <4>2, <4>3
        <3>5. /\ new[n].count = mem[n].count + dc
              /\ new[n].exceptional = mem[n].exceptional + dx
            BY <2>3 DEF StoreOf
        <3> QED BY <2>1, <3>4, <3>5
    <2> QED BY <2>2, <2>3
<1> QED BY <1>5, <1>6, <1>7, <1>8 DEF Shape

\* A node n that was free is linked below slot o of node c, or as the root.
LEMMA ShapeLinked ==
    ASSUME NEW mem \in Memory, NEW new \in Memory, NEW base \in Memory,
           NEW t, NEW u, NEW hp, NEW hq, Shape(t, mem, hp, NULL),
           NEW n \in Nodes, hp[n] = "free",
           \A m \in Nodes : hq[m] = IF m = n THEN "live" ELSE hp[m],
           NEW c \in Nodes \cup {NULL}, NEW o \in Slots,
           c = NULL => t = NULL /\ u = n /\ o = 0,
           c # NULL => /\ hp[c] = "live" /\ mem[c].slots[o] = NULL /\ u = t
                       /\ new[n].shift + 1 = mem[c].shift,
           StoreOf(base, mem, c, o, n, 1, 0), \A m \in Nodes \ {n} : new[m] = base[m],
           new[n].parent = c, new[n].offset = o, new[n].count = 0, new[n].exceptional = 0,
           \A q \in Slots : new[n].slots[q] = NULL
    PROVE  Shape(u, new, hq, NULL)
<1>1. /\ NULL \notin Nodes /\ n \in Entries /\ NULL \notin Items /\ Items \cap Nodes = {}
      /\ RETRY # NULL /\ RETRY \notin Nodes /\ n \notin Items /\ RETRY \notin Items
    BY EntryAssumption DEF Entries
<1>2. \A m \in Nodes :
        /\ mem[m].offset \in Slots /\ mem[m].parent \in Nodes \cup {NULL}
        /\ mem[m].slots \in [Slots -> Entries] /\ base[m].slots \in [Slots -> Entries]
    BY MemoryFields
<1>3. \A m \in Nodes \ {n} :
        /\ new[m].shift = mem[m].shift /\ new[m].offset = mem[m].offset
        /\ new[m].parent = mem[m].parent
        /\ \A q \in Slots : new[m].slots[q] = IF m = c /\ q = o THEN n ELSE mem[m].slots[q]
    BY <1>2 DEF StoreOf
<1>4. \A m \in Nodes : hp[m] = "live" => m # n /\ hq[m] = "live"
    OBVIOUS
<1>5. c # n
    BY <1>1
<1>6. Rooted(u, new, hq)
    BY <1>1, <1>3, <1>4 DEF Rooted, Shape
<1>7. Down(new, hq, NULL)
    <2> SUFFICES ASSUME NEW m \in Nodes, NEW q \in Slots, hq[m] = "live"
                 PROVE  LET k == new[m].slots[q] IN
                        /\ k # RETRY
                        /\ k \in Items => new[m].shift = 0
                        /\ k \in Nodes => /\ hq[k] = "live"
                                          /\ new[k].shift + 1 = new[m].shift
                                          /\ new[k].parent = m /\ new[k].offset = q
        BY DEF Down
    <2>1. CASE m = n
        BY <1>1, <2>1
    <2>2. CASE m = c /\ q = o
        BY <1>1, <1>3, <1>5, <2>2
    <2>3. CASE m # n /\ ~(m = c /\ q = o)
        <3> DEFINE k == mem[m].slots[q]
        <3>1. new[m].slots[q] = k /\ hp[m] = "live" /\ new[m].shift = mem[m].shift
            BY <1>3, <2>3
        <3>2. /\ k # RETRY
              /\ k \in Items => mem[m].shift = 0
              /\ k \in Nodes => /\ hp[k] = "live" /\ mem[k].shift + 1 = mem[m].shift
                                /\ mem[k].parent = m /\ mem[k].offset = q
            BY <1>1, <3>1 DEF Shape, Down
        <3> HIDE DEF k
        <3>3. k \in Nodes => /\ k # n /\ hq[k] = "live" /\ new[k].shift = mem[k].shift
                             /\ new[k].parent = mem[k].parent /\ new[k].offset = mem[k].offset
            BY <1>3, <1>4, <3>2
        <3> QED BY <3>1, <3>2, <3>3
    <2> QED BY <2>1, <2>2, <2>3
<1>8. Up(u, new, hq, NULL)
    <2> SUFFICES ASSUME NEW m \in Nodes, hq[m] = "live"
                 PROVE  IF new[m].parent = NULL THEN u = m
                        ELSE /\ hq[new[m].parent] = "live"
                             /\ new[new[m].parent].slots[new[m].offset] = m
        <3>1. \A m \in Nodes : new[m].parent \in Nodes \cup {NULL}
            BY MemoryFields
        <3> QED BY <1>1, <3>1 DEF Up
    <2>1. CASE m = n
        BY <1>3, <1>4, <1>5, <2>1
    <2>2. CASE m # n
        <3>1. hp[m] = "live"
            BY <2>2
        <3>2. CASE mem[m].parent = NULL
            <4>1. t = m
                BY <1>1, <3>1, <3>2 DEF Shape, Up
            <4> QED BY <1>1, <1>3, <2>2, <3>2, <4>1
        <3>3. CASE mem[m].parent # NULL
            <4> DEFINE p == mem[m].parent
            <4>1. /\ p \in Nodes /\ hp[p] = "live"
                  /\ mem[p].slots[mem[m].offset] = m /\ mem[m].offset \in Slots
                BY <1>1, <1>2, <3>1, <3>3 DEF Shape, Up
            <4>2. new[m].parent = p /\ new[m].offset = mem[m].offset
                BY <1>3, <2>2
            <4> HIDE DEF p
            <4>3. ~(p = c /\ mem[m].offset = o)
                BY <1>1, <4>1
            <4>4. p # n /\ hq[p] = "live"
                BY <1>4, <4>1
            <4> QED BY <1>1, <1>3, <4>1, <4>2, <4>3, <4>4
        <3> QED BY <3>2, <3>3
    <2> QED BY <2>1, <2>2
<1>9. Counted(new, hq, NULL)
    <2> SUFFICES ASSUME NEW m \in Nodes, hq[m] = "live"
                 PROVE  /\ new[m].count = CountIn(new[m].slots, Present)
                        /\ new[m].exceptional = CountIn(new[m].slots, Exceptional)
        BY <1>1 DEF Counted
    <2>1. new[m].slots \in [Slots -> Entries]
        BY MemoryFields
    <2>2. CASE m = n
        <3>1. \A q \in Slots : new[m].slots[q] \notin Present /\ new[m].slots[q] \notin Exceptional
            BY <1>1, <2>2, EntryAssumption DEF Present
        <3>2. CountIn(new[m].slots, Present) = 0 /\ CountIn(new[m].slots, Exceptional) = 0
            BY <2>1, <3>1, CountNone
        <3> QED BY <2>2, <3>2
    <2>3. CASE m # n
        <3>1. /\ mem[m].count = CountIn(mem[m].slots, Present)
              /\ mem[m].exceptional = CountIn(mem[m].slots, Exceptional)
            BY <1>1, <2>3 DEF Shape, Counted
        <3>2. CASE m # c
            BY <2>3, <3>1, <3>2 DEF StoreOf
        <3>3. CASE m = c
            <4> DEFINE f == mem[m].slots
                       g == new[m].slots
            <4>1. /\ f \in [Slots -> Entries] /\ g \in [Slots -> Entries] /\ f[o] = NULL
                  /\ \A q \in Slots : g[q] = IF q = o THEN n ELSE f[q]
                BY <1>1, <1>2, <1>3, <2>1, <2>3, <3>3
            <4>2. /\ IsEntry(n) = 1 /\ IsEntry(NULL) = 0
                  /\ IsExceptional(n) = 0 /\ IsExceptional(NULL) = 0
                BY <1>1, EntryAssumption DEF IsEntry, IsExceptional
            <4>3. new[m].count = mem[m].count + 1 /\ new[m].exceptional = mem[m].exceptional + 0
                BY <2>3, <3>3 DEF StoreOf
            <4>4. /\ CountIn(g, Present) = CountIn(f, Present) + (IsEntry(n) - IsEntry(f[o]))
                  /\ CountIn(g, Exceptional)
                       = CountIn(f, Exceptional) + (IsExceptional(n) - IsExceptional(f[o]))
                <5> HIDE DEF f, g
                <5> QED BY <1>1, <4>1, CountAtStore
            <4> HIDE DEF f, g
            <4>5. CountIn(g, Present) = CountIn(f, Present) + 1
                  /\ CountIn(g, Exceptional) = CountIn(f, Exceptional) + 0
                BY <4>1, <4>2, <4>4
            <4> QED BY <3>1, <4>3, <4>5 DEF f, g
        <3> QED BY <3>2, <3>3
    <2> QED BY <2>2, <2>3
<1> QED BY <1>6, <1>7, <1>8, <1>9 DEF Shape

\* A node n that was free goes on top of the tree, over the old top entry.
LEMMA ShapeRaised ==
    ASSUME NEW mem \in Memory, NEW new \in Memory,
           NEW t \in Items \cup Nodes, NEW hp, NEW hq, Shape(t, mem, hp, NULL),
           NEW n \in Nodes, hp[n] = "free",
           \A m \in Nodes : hq[m] = IF m = n THEN "live" ELSE hp[m],
           \A m \in Nodes \ {n} :
             /\ new[m].shift = mem[m].shift /\ new[m].offset = mem[m].offset
             /\ new[m].parent = IF m = t THEN n ELSE mem[m].parent
             /\ new[m].slots = mem[m].slots /\ new[m].count = mem[m].count
             /\ new[m].exceptional = mem[m].exceptional,
           new[n].parent = NULL, new[n].offset = 0, new[n].count = 1,
           new[n].exceptional = IsExceptional(t),
           \A q \in Slots : new[n].slots[q] = IF q = 0 THEN t ELSE NULL,
           t \in Items => new[n].shift = 0,
           t \in Nodes => mem[t].shift + 1 = new[n].shift
    PROVE  Shape(n, new, hq, NULL)
<1>1. /\ NULL \notin Nodes /\ NULL \notin Items /\ Items \cap Nodes = {}
      /\ RETRY # NULL /\ RETRY \notin Nodes /\ n \notin Items /\ RETRY \notin Items
      /\ 0 \in Slots
    BY EntryAssumption, SizeAssumption DEF Slots
<1>2. \A m \in Nodes :
        /\ mem[m].offset \in Slots /\ mem[m].parent \in Nodes \cup {NULL}
        /\ mem[m].slots \in [Slots -> Entries] /\ new[m].slots \in [Slots -> Entries]
    BY MemoryFields
<1>3. \A m \in Nodes : hp[m] = "live" => m # n /\ hq[m] = "live"
    OBVIOUS
<1>4. t \in Nodes => hp[t] = "live" /\ mem[t].parent = NULL /\ mem[t].offset = 0 /\ t # n
    BY DEF Shape, Rooted
<1>5. Rooted(n, new, hq)
    BY <1>1 DEF Rooted
<1>6. Down(new, hq, NULL)
    <2> SUFFICES ASSUME NEW m \in Nodes, NEW q \in Slots, hq[m] = "live"
                 PROVE  LET k == new[m].slots[q] IN
                        /\ k # RETRY
                        /\ k \in Items => new[m].shift = 0
                        /\ k \in Nodes => /\ hq[k] = "live"
                                          /\ new[k].shift + 1 = new[m].shift
                                          /\ new[k].parent = m /\ new[k].offset = q
        BY DEF Down
    <2>1. CASE m = n
        BY <1>1, <1>3, <1>4, <2>1
    <2>2. CASE m # n
        <3> DEFINE k == mem[m].slots[q]
        <3>1. new[m].slots[q] = k /\ hp[m] = "live" /\ new[m].shift = mem[m].shift
            BY <2>2
        <3>2. /\ k # RETRY
              /\ k \in Items => mem[m].shift = 0
              /\ k \in Nodes => /\ hp[k] = "live" /\ mem[k].shift + 1 = mem[m].shift
                                /\ mem[k].parent = m /\ mem[k].offset = q
            BY <1>1, <3>1 DEF Shape, Down
        <3> HIDE DEF k
        <3>3. k \in Nodes => k # n /\ k # t
            BY <1>1, <1>3, <1>4, <3>2
        <3>4. k \in Nodes => /\ hq[k] = "live" /\ new[k].shift = mem[k].shift
                             /\ new[k].parent = mem[k].parent /\ new[k].offset = mem[k].offset
            BY <1>3, <3>2, <3>3
        <3> QED BY <3>1, <3>2, <3>4
    <2> QED BY <2>1, <2>2
<1>7. Up(n, new, hq, NULL)
    <2> SUFFICES ASSUME NEW m \in Nodes, hq[m] = "live"
                 PROVE  IF new[m].parent = NULL THEN n = m
                        ELSE /\ hq[new[m].parent] = "live"
                             /\ new[new[m].parent].slots[new[m].offset] = m
        <3>1. \A k \in Nodes : new[k].parent \in Nodes \cup {NULL}
            BY MemoryFields
        <3> QED BY <1>1, <3>1 DEF Up
    <2>1. CASE m = n
        BY <2>1
    <2>2. CASE m = t
        BY <1>1, <1>4, <2>2
    <2>3. CASE m # n /\ m # t
        <3> DEFINE p == mem[m].parent
        <3>1. hp[m] = "live"
            BY <2>3
        <3>2. p # NULL /\ hp[p] = "live" /\ mem[p].slots[mem[m].offset] = m
            BY <1>1, <2>3, <3>1 DEF Shape, Up
        <3>3. p \in Nodes /\ new[m].parent = p /\ new[m].offset = mem[m].offset
            BY <1>2, <2>3, <3>2
        <3> HIDE DEF p
        <3> QED BY <1>1, <1>3, <3>2, <3>3
    <2> QED BY <2>1, <2>2, <2>3
<1>8. Counted(new, hq, NULL)
    <2> SUFFICES ASSUME NEW m \in Nodes, hq[m] = "live"
                 PROVE  /\ new[m].count = CountIn(new[m].slots, Present)
                        /\ new[m].exceptional = CountIn(new[m].slots, Exceptional)
        BY <1>1 DEF Counted
    <2>1. CASE m = n
        <3> DEFINE f == [q \in Slots |-> NULL]
                   g == new[n].slots
        <3>1. f \in [Slots -> Entries] /\ \A q \in Slots : f[q] \notin Present /\ f[q] \notin Exceptional
            BY <1>1, EntryAssumption DEF Present, Entries
        <3>2. CountIn(f, Present) = 0 /\ CountIn(f, Exceptional) = 0
            <4> HIDE DEF f
            <4> QED BY <3>1, CountNone
        <3>3. /\ g \in [Slots -> Entries] /\ f[0] = NULL /\ t \in Entries
              /\ \A q \in Slots : g[q] = IF q = 0 THEN t ELSE f[q]
            BY <1>1, <1>2 DEF Entries
        <3>4. /\ IsEntry(t) = 1 /\ IsEntry(NULL) = 0 /\ IsExceptional(NULL) = 0
              /\ IsExceptional(t) \in Int
            BY <1>1, EntryAssumption DEF IsEntry, IsExceptional
        <3> HIDE DEF f, g
        <3>5. /\ CountIn(g, Present) = CountIn(f, Present) + (IsEntry(t) - IsEntry(f[0]))
              /\ CountIn(g, Exceptional)
                   = CountIn(f, Exceptional) + (IsExceptional(t) - IsExceptional(f[0]))
            BY <1>1, <3>1, <3>3, CountAtStore
        <3>6. CountIn(g, Present) = 1 /\ CountIn(g, Exceptional) = IsExceptional(t)
            BY <3>2, <3>3, <3>4, <3>5
        <3> QED BY <2>1, <3>6 DEF g
    <2>2. CASE m # n
        BY <1>1, <2>2 DEF Shape, Counted
    <2> QED BY <2>1, <2>2
<1> QED BY <1>5, <1>6, <1>7, <1>8 DEF Shape

\* An empty node n is unlinked from its parent, or as the root, and given up.
LEMMA ShapePruned ==
    ASSUME NEW mem \in Memory, NEW new \in Memory, NEW base \in Memory,
           NEW t, NEW u, NEW hp, NEW hq, Shape(t, mem, hp, NULL),
           NEW n \in Nodes, hp[n] = "live", mem[n].count = 0,
           u = IF mem[n].parent = NULL THEN NULL ELSE t,
           hq[n] # "live", \A m \in Nodes \ {n} : hq[m] = hp[m],
           StoreOf(base, mem, mem[n].parent, mem[n].offset, NULL, -1, 0),
           \A m \in Nodes \ {n} : new[m] = base[m]
    PROVE  /\ Shape(u, new, hq, NULL)
           /\ mem[n].parent # NULL => mem[n].parent \in Nodes /\ hq[mem[n].parent] = "live"
           /\ \A o \in Slots : mem[n].slots[o] = NULL
<1> DEFINE p == mem[n].parent
           o == mem[n].offset
<1>1. /\ NULL \notin Nodes /\ NULL \notin Items /\ Items \cap Nodes = {}
      /\ RETRY # NULL /\ RETRY \notin Nodes /\ n \notin Items /\ RETRY \notin Items
      /\ NULL \in Entries
    BY EntryAssumption DEF Entries
<1>2. \A m \in Nodes :
        /\ mem[m].offset \in Slots /\ mem[m].parent \in Nodes \cup {NULL}
        /\ mem[m].slots \in [Slots -> Entries] /\ new[m].slots \in [Slots -> Entries]
        /\ base[m].slots \in [Slots -> Entries] /\ mem[m].shift \in Int
    BY MemoryFields DEF Shifts
<1>3. \A q \in Slots : mem[n].slots[q] = NULL
    <2>1. CountIn(mem[n].slots, Present) = 0
        BY <1>1 DEF Shape, Counted
    <2>2. \A q \in Slots : mem[n].slots[q] \notin Present /\ mem[n].slots[q] \in Entries
        BY <1>2, <2>1, CountZero
    <2> QED BY <2>2 DEF Present, Entries
<1>4. p # NULL => p \in Nodes /\ hp[p] = "live" /\ mem[p].slots[o] = n /\ p # n
    <2>1. p # NULL => p \in Nodes /\ hp[p] = "live" /\ mem[p].slots[o] = n
        BY <1>1, <1>2 DEF Shape, Up
    <2> QED BY <1>1, <1>2, <1>3, <2>1
<1>5. p = NULL => t = n
    BY <1>1 DEF Shape, Up
<1>6. \A m \in Nodes \ {n} :
        /\ new[m].shift = mem[m].shift /\ new[m].offset = mem[m].offset
        /\ new[m].parent = mem[m].parent
        /\ \A q \in Slots : new[m].slots[q] = IF m = p /\ q = o THEN NULL ELSE mem[m].slots[q]
    BY <1>2 DEF StoreOf
<1>7. \A m \in Nodes, q \in Slots :
        hp[m] = "live" /\ mem[m].slots[q] = n => m = p /\ q = o
    BY <1>1 DEF Shape, Down
<1>8. Rooted(u, new, hq)
    BY <1>1, <1>4, <1>5, <1>6 DEF Rooted, Shape
<1>9. Down(new, hq, NULL)
    <2> SUFFICES ASSUME NEW m \in Nodes, NEW q \in Slots, hq[m] = "live"
                 PROVE  LET k == new[m].slots[q] IN
                        /\ k # RETRY
                        /\ k \in Items => new[m].shift = 0
                        /\ k \in Nodes => /\ hq[k] = "live"
                                          /\ new[k].shift + 1 = new[m].shift
                                          /\ new[k].parent = m /\ new[k].offset = q
        BY DEF Down
    <2>1. m # n /\ hp[m] = "live"
        OBVIOUS
    <2>2. CASE m = p /\ q = o
        BY <1>1, <1>6, <2>1, <2>2
    <2>3. CASE ~(m = p /\ q = o)
        <3> DEFINE k == mem[m].slots[q]
        <3>1. new[m].slots[q] = k /\ new[m].shift = mem[m].shift /\ k # n
            BY <1>6, <1>7, <2>1, <2>3
        <3>2. /\ k # RETRY
              /\ k \in Items => mem[m].shift = 0
              /\ k \in Nodes => /\ hp[k] = "live" /\ mem[k].shift + 1 = mem[m].shift
                                /\ mem[k].parent = m /\ mem[k].offset = q
            BY <1>1, <2>1 DEF Shape, Down
        <3> HIDE DEF k
        <3>3. k \in Nodes => /\ hq[k] = "live" /\ new[k].shift = mem[k].shift
                             /\ new[k].parent = mem[k].parent /\ new[k].offset = mem[k].offset
            BY <1>6, <3>1, <3>2
        <3> QED BY <3>1, <3>2, <3>3
    <2> QED BY <2>2, <2>3
<1>10. Up(u, new, hq, NULL)
    <2> SUFFICES ASSUME NEW m \in Nodes, hq[m] = "live"
                 PROVE  IF new[m].parent = NULL THEN u = m
                        ELSE /\ hq[new[m].parent] = "live"
                             /\ new[new[m].parent].slots[new[m].offset] = m
        <3>1. \A k \in Nodes : new[k].parent \in Nodes \cup {NULL}
            BY MemoryFields
        <3> QED BY <1>1, <3>1 DEF Up
    <2>1. /\ m # n /\ hp[m] = "live"
          /\ new[m].parent = mem[m].parent /\ new[m].offset = mem[m].offset
        BY <1>6
    <2>2. CASE mem[m].parent = NULL
        <3>1. t = m
            BY <1>1, <2>1, <2>2 DEF Shape, Up
        <3> QED BY <1>5, <2>1, <2>2, <3>1
    <2>3. CASE mem[m].parent # NULL
        <3> DEFINE r == mem[m].parent
        <3>1. r \in Nodes /\ hp[r] = "live" /\ mem[r].slots[mem[m].offset] = m
            BY <1>1, <1>2, <2>1, <2>3 DEF Shape, Up
        <3>2. r # n /\ ~(r = p /\ mem[m].offset = o)
            <4>1. mem[m].offset \in Slots
                BY <1>2
            <4> HIDE DEF r, o
            <4> QED BY <1>1, <1>3, <1>4, <2>1, <3>1, <4>1
        <3> HIDE DEF r
        <3> QED BY <1>1, <1>2, <1>6, <2>1, <3>1, <3>2 DEF r
    <2> QED BY <2>2, <2>3
<1>11. Counted(new, hq, NULL)
    <2> SUFFICES ASSUME NEW m \in Nodes, hq[m] = "live"
                 PROVE  /\ new[m].count = CountIn(new[m].slots, Present)
                        /\ new[m].exceptional = CountIn(new[m].slots, Exceptional)
        BY <1>1 DEF Counted
    <2>1. /\ mem[m].count = CountIn(mem[m].slots, Present)
          /\ mem[m].exceptional = CountIn(mem[m].slots, Exceptional) /\ m # n
        BY <1>1 DEF Shape, Counted
    <2>2. CASE m # p
        BY <2>1, <2>2 DEF StoreOf
    <2>3. CASE m = p
        <3> DEFINE f == mem[m].slots
                   g == new[m].slots
        <3>1. /\ f \in [Slots -> Entries] /\ g \in [Slots -> Entries] /\ f[o] = n /\ o \in Slots
              /\ \A q \in Slots : g[q] = IF q = o THEN NULL ELSE f[q]
            BY <1>1, <1>2, <1>4, <1>6, <2>1, <2>3
        <3>2. /\ IsEntry(n) = 1 /\ IsEntry(NULL) = 0
              /\ IsExceptional(n) = 0 /\ IsExceptional(NULL) = 0
            BY <1>1, EntryAssumption DEF IsEntry, IsExceptional
        <3>3. new[m].count = mem[m].count + (-1)
              /\ new[m].exceptional = mem[m].exceptional + 0
            BY <2>1, <2>3 DEF StoreOf
        <3>4. /\ CountIn(g, Present) = CountIn(f, Present) + (IsEntry(NULL) - IsEntry(f[o]))
              /\ CountIn(g, Exceptional)
                   = CountIn(f, Exceptional) + (IsExceptional(NULL) - IsExceptional(f[o]))
            <4> HIDE DEF f, g, o
            <4> QED BY <1>1, <3>1, CountAtStore
        <3>5. CountIn(f, Present) \in Nat /\ CountIn(f, Exceptional) \in Nat
            <4> HIDE DEF f
            <4> QED BY <3>1, CountInType
        <3> HIDE DEF f, g
        <3>6. CountIn(g, Present) = CountIn(f, Present) + (-1)
              /\ CountIn(g, Exceptional) = CountIn(f, Exceptional) + 0
            BY <3>1, <3>2, <3>4, <3>5
        <3> QED BY <2>1, <3>3, <3>6 DEF f, g
    <2> QED BY <2>2, <2>3
<1> QED BY <1>3, <1>4, <1>8, <1>9, <1>10, <1>11 DEF Shape

\* The top node t, whose only entry is c in slot 0, gives way to c.
LEMMA ShapeUnrooted ==
    ASSUME NEW mem \in Memory, NEW new \in Memory,
           NEW t \in Nodes, NEW c, NEW hp, Shape(t, mem, hp, NULL),
           mem[t].count = 1, c = mem[t].slots[0], c # NULL,
           c \in Nodes \/ mem[t].shift = 0,
           \A m \in Nodes :
             /\ new[m].shift = mem[m].shift /\ new[m].offset = mem[m].offset
             /\ new[m].parent = IF m = c THEN NULL ELSE mem[m].parent
             /\ new[m].slots = mem[m].slots /\ new[m].exceptional = mem[m].exceptional
             /\ new[m].count = IF m = t THEN 0 ELSE mem[m].count
    PROVE  Shape(c, new, hp, t) /\ c # t /\ new[t].parent = NULL /\ hp[t] = "live"
<1>1. /\ NULL \notin Nodes /\ RETRY \notin Nodes /\ 0 \in Slots /\ RETRY # NULL
    BY EntryAssumption, SizeAssumption DEF Slots
<1>2. \A m \in Nodes :
        /\ mem[m].offset \in Slots /\ mem[m].parent \in Nodes \cup {NULL}
        /\ mem[m].slots \in [Slots -> Entries] /\ mem[m].shift \in Int
    BY MemoryFields DEF Shifts
<1>3. hp[t] = "live" /\ mem[t].parent = NULL
    BY DEF Shape, Rooted
<1>4. c # RETRY /\ c \in Entries
    BY <1>1, <1>2, <1>3 DEF Shape, Down
<1>5. c \in Nodes => /\ hp[c] = "live" /\ mem[c].parent = t /\ mem[c].offset = 0
                     /\ mem[c].shift + 1 = mem[t].shift
    BY <1>1, <1>3 DEF Shape, Down
<1>6. c # t
    BY <1>2, <1>5
<1>7. \A q \in Slots \ {0} : mem[t].slots[q] = NULL
    <2>1. CountIn(mem[t].slots, Present) = 1
        BY <1>1, <1>3 DEF Shape, Counted
    <2>2. mem[t].slots[0] \in Present
        BY <1>4 DEF Present, Entries
    <2>3. \A q \in Slots \ {0} : mem[t].slots[q] \notin Present
        BY <1>1, <1>2, <2>1, <2>2, CountOne
    <2> QED BY <1>2, <2>3 DEF Present, Entries
<1>8. Rooted(c, new, hp)
    BY <1>4, <1>5 DEF Rooted
<1>9. Down(new, hp, t)
    <2> SUFFICES ASSUME NEW m \in Nodes, NEW q \in Slots, hp[m] = "live"
                 PROVE  LET k == new[m].slots[q] IN
                        /\ k # RETRY
                        /\ k \in Items => new[m].shift = 0
                        /\ k \in Nodes => /\ hp[k] = "live"
                                          /\ new[k].shift + 1 = new[m].shift
                                          /\ m # t => new[k].parent = m /\ new[k].offset = q
        BY DEF Down
    <2> DEFINE k == mem[m].slots[q]
    <2>1. /\ k # RETRY
          /\ k \in Items => mem[m].shift = 0
          /\ k \in Nodes => /\ hp[k] = "live" /\ mem[k].shift + 1 = mem[m].shift
                            /\ mem[k].parent = m /\ mem[k].offset = q
        BY <1>1 DEF Shape, Down
    <2>2. new[m].slots[q] = k /\ new[m].shift = mem[m].shift
        OBVIOUS
    <2> HIDE DEF k
    <2>3. k \in Nodes /\ m # t => k # c
        BY <1>5, <2>1
    <2> QED BY <2>1, <2>2, <2>3
<1>10. Up(c, new, hp, t)
    <2> SUFFICES ASSUME NEW m \in Nodes, hp[m] = "live", m # t
                 PROVE  IF new[m].parent = NULL THEN c = m
                        ELSE /\ hp[new[m].parent] = "live" /\ new[m].parent # t
                             /\ new[new[m].parent].slots[new[m].offset] = m
        BY DEF Up
    <2>1. CASE m = c
        BY <2>1
    <2>2. CASE m # c
        <3> DEFINE r == mem[m].parent
        <3>1. /\ r \in Nodes /\ hp[r] = "live"
              /\ mem[r].slots[mem[m].offset] = m /\ mem[m].offset \in Slots
            BY <1>1, <1>2 DEF Shape, Up
        <3>2. new[m].parent = r /\ new[m].offset = mem[m].offset
            BY <2>2
        <3> HIDE DEF r
        <3>3. r # t
            BY <1>1, <1>7, <2>2, <3>1
        <3> QED BY <1>1, <3>1, <3>2, <3>3
    <2> QED BY <2>1, <2>2
<1>11. Counted(new, hp, t)
    BY <1>1 DEF Shape, Counted
<1> QED BY <1>3, <1>6, <1>8, <1>9, <1>10, <1>11 DEF Shape

\* A node z that is not in the tree is given up, whatever becomes of its memory.
LEMMA ShapeWithout ==
    ASSUME NEW mem \in Memory, NEW new \in Memory, NEW t, NEW hp, NEW hq,
           NEW y \in Nodes \cup {NULL}, NEW z \in Nodes, Shape(t, mem, hp, y), y \in {NULL, z} \/ hp[z] # "live",
           t # z, hp[z] = "live" => y = z /\ mem[z].parent = NULL,
           hq[z] # "live", \A m \in Nodes \ {z} : hq[m] = hp[m],
           \A m \in Nodes \ {z} : new[m] = mem[m]
    PROVE  Shape(t, new, hq, IF y = z THEN NULL ELSE y)
<1> DEFINE x == IF y = z THEN NULL ELSE y
<1>1. NULL \notin Nodes
    BY EntryAssumption
<1>2. \A m \in Nodes : mem[m].offset \in Slots /\ mem[m].parent \in Nodes \cup {NULL}
    BY MemoryFields
<1>3. \A m \in Nodes, q \in Slots : hp[m] = "live" /\ m # z => mem[m].slots[q] # z
    BY <1>1 DEF Shape, Down
<1>4. Rooted(t, new, hq)
    BY DEF Rooted, Shape
<1>5. Down(new, hq, x)
    <2> SUFFICES ASSUME NEW m \in Nodes, NEW q \in Slots, hq[m] = "live"
                 PROVE  LET k == new[m].slots[q] IN
                        /\ k # RETRY
                        /\ k \in Items => new[m].shift = 0
                        /\ k \in Nodes => /\ hq[k] = "live"
                                          /\ new[k].shift + 1 = new[m].shift
                                          /\ m # x => new[k].parent = m /\ new[k].offset = q
        BY DEF Down
    <2>1. m # z /\ hp[m] = "live" /\ new[m] = mem[m] /\ mem[m].slots[q] # z
        BY <1>3
    <2> QED BY <2>1 DEF Shape, Down
<1>6. Up(t, new, hq, x)
    <2> SUFFICES ASSUME NEW m \in Nodes, hq[m] = "live", m # x
                 PROVE  IF new[m].parent = NULL THEN t = m
                        ELSE /\ hq[new[m].parent] = "live" /\ new[m].parent # x
                             /\ new[new[m].parent].slots[new[m].offset] = m
        BY DEF Up
    <2>1. m # z /\ hp[m] = "live" /\ new[m] = mem[m] /\ m # y
        OBVIOUS
    <2>2. mem[m].parent # z
        BY <1>1, <2>1 DEF Shape, Up
    <2> QED BY <1>1, <1>2, <2>1, <2>2 DEF Shape, Up
<1>7. Counted(new, hq, x)
    BY <1>1 DEF Shape, Counted
<1> QED BY <1>4, <1>5, <1>6, <1>7 DEF Shape

-----------------------------------------------------------------------------
(* The actions: one lemma each.                                            *)

\* A call returns and leaves the tree as it is.
LEMMA ReturnCursor == ASSUME NEW r, Return(r) PROVE CursorInv' /\ w'.pc = "idle"
BY DEF Return, Idle, CursorInv

\* Steps that do not touch the tree.
LEMMA QuietShape ==
    ASSUME StructInv, root'.rnode = root.rnode, node' \in Memory, SameShape(node', node),
           heap' = heap, w.pc # "retire", w'.pc # "retire"
    PROVE  ShapeInv'
<1>1. node \in Memory /\ Shape(root.rnode, node, heap, NULL)
    BY DEF StructInv, TypeInv, TypeOK, Memory, ShapeInv, Retiring
<1>2. Shape(root.rnode, node', heap, NULL)
    BY <1>1, ShapeKept
<1> QED BY <1>2 DEF ShapeInv, Retiring

LEMMA SameMemory == ASSUME TypeInv PROVE SameShape(node, node) /\ node \in Memory
BY DEF SameShape, TypeInv, TypeOK, Memory

\* What the writer's place says of the slot it stands at.
LEMMA AtSlotEntry ==
    ASSUME StructInv, w.pc \in {"create", "find"}
    PROVE  /\ AtSlot \in Items \cup Nodes \cup {NULL}
           /\ AtSlot \in Nodes => heap[AtSlot] = "live"
           /\ AtSlot \in Nodes /\ w.cur # NULL => node[AtSlot].shift + 1 = node[w.cur].shift
           /\ AtSlot \in Nodes /\ w.cur = NULL => node[AtSlot].shift + 1 = RootShift
           /\ AtSlot \in Items /\ w.cur # NULL => node[w.cur].shift = 0
<1>1. AtSlot \in Entries
    BY AtSlotType DEF StructInv, TypeInv
<1>2. Shape(root.rnode, node, heap, NULL) /\ NULL \notin Nodes
    BY EntryAssumption DEF StructInv, ShapeInv, Retiring
<1>3. CASE w.cur = NULL
    BY <1>1, <1>2, <1>3 DEF AtSlot, Shape, Rooted, Entries, RootShift
<1>4. CASE w.cur # NULL
    <2>1. w.cur \in Nodes /\ w.off \in Slots /\ heap[w.cur] = "live"
        BY <1>4, WriterFields DEF StructInv, CursorInv
    <2>2. AtSlot = node[w.cur].slots[w.off]
        BY <1>4 DEF AtSlot
    <2> QED BY <1>1, <1>2, <1>4, <2>1, <2>2 DEF Shape, Down, Entries
<1> QED BY <1>3, <1>4

LEMMA InvokeStruct ==
    ASSUME StructInv, NEW o \in Calls, Invoke(o) PROVE ShapeInv' /\ CursorInv'
<1>1. w.pc = "idle" /\ w.cur = NULL /\ w.off = 0 /\ w \in WriterType
    BY DEF Invoke, StructInv, TypeInv, TypeOK, CallInv, CursorInv
<1>2. o.kind \in {"insert", "delete", "replace", "tag_set", "tag_clear"}
    BY DEF Calls, Inserts, Deletes, Replaces, TagSets, TagClears
<1>3. w'.pc = o.kind /\ w'.cur = NULL /\ w'.off = 0 /\ UNCHANGED <<root, node, heap>>
    BY <1>1 DEF Invoke, WriterType
<1>4. ShapeInv'
    BY <1>1, <1>2, <1>3, QuietShape, SameMemory DEF StructInv
<1> QED BY <1>2, <1>3, <1>4 DEF CursorInv

LEMMA AllocFailsStruct == ASSUME StructInv, AllocFails PROVE ShapeInv' /\ CursorInv'
<1>1. /\ Return("ENOMEM") /\ w.pc \in {"extend", "create"}
      /\ UNCHANGED <<root, node, heap>>
    BY DEF AllocFails, ExtendFails, CreateFails, tree
<1> QED BY <1>1, ReturnCursor, QuietShape, SameMemory DEF StructInv

LEMMA InsertStartStruct == ASSUME StructInv, InsertStart PROVE ShapeInv' /\ CursorInv'
<1>1. /\ w.pc = "insert" /\ w.cur = NULL /\ w.off = 0 /\ w \in WriterType
      /\ UNCHANGED <<root, node, heap>>
    BY DEF InsertStart, StructInv, TypeInv, TypeOK, CursorInv, tree
<1>2. /\ w'.cur = NULL /\ w'.off = 0
      /\ \/ w'.pc = "create" /\ (root.rnode # NULL => w'.shift = RootShift)
         \/ w'.pc = "extend" /\ w'.shift = RootShift /\ root.rnode # NULL
    BY <1>1 DEF InsertStart, Goto, WriterType
<1>3. ShapeInv'
    BY <1>1, <1>2, QuietShape, SameMemory DEF StructInv
<1>4. RootShift' = RootShift
    BY <1>1 DEF RootShift
<1>5. root.rnode # NULL => root.rnode \in Items \cup Nodes
    BY <1>1 DEF StructInv, ShapeInv, Shape, Rooted, TypeInv, TypeOK, Entries
<1> QED BY <1>1, <1>2, <1>3, <1>4, <1>5 DEF CursorInv

LEMMA DescendStruct == ASSUME StructInv, Descend PROVE ShapeInv' /\ CursorInv'
<1>1. /\ w.pc = "create" /\ w \in WriterType /\ AtSlot \in Nodes
      /\ UNCHANGED <<root, node, heap>>
    BY DEF Descend, StructInv, TypeInv, TypeOK, tree
<1>2. w'.pc = "create" /\ w'.cur = AtSlot /\ w'.shift = w.shift - 1
    BY <1>1 DEF Descend, Goto, WriterType
<1>3. ShapeInv'
    BY <1>1, <1>2, QuietShape, SameMemory DEF StructInv
<1>4. w'.shift = node[AtSlot].shift
    <2>1. w.shift = node[AtSlot].shift + 1
        <3>1. CASE w.cur = NULL
            BY <1>1, <3>1, AtSlotEntry, EntryAssumption DEF StructInv, CursorInv, AtSlot
        <3>2. CASE w.cur # NULL
            BY <1>1, <3>2, AtSlotEntry DEF StructInv, CursorInv
        <3> QED BY <3>1, <3>2
    <2>2. node[AtSlot].shift \in Int
        BY <1>1, MemoryFields, SameMemory DEF StructInv, Shifts
    <2> QED BY <1>2, <2>1, <2>2
<1>5. heap[AtSlot] = "live" /\ AtSlot # NULL
    BY <1>1, AtSlotEntry, EntryAssumption
<1> HIDE DEF AtSlot
<1> QED BY <1>1, <1>2, <1>3, <1>4, <1>5 DEF CursorInv

LEMMA InsertEntryStruct ==
    ASSUME StructInv, TypeInv', InsertEntry PROVE ShapeInv' /\ CursorInv'
<1>1. w.pc = "create" /\ UNCHANGED heap
    BY DEF InsertEntry, tree
<1>2. CASE AtSlot # NULL
    <2>1. Return("EEXIST") /\ UNCHANGED <<root, node>>
        BY <1>2 DEF InsertEntry, tree
    <2> QED BY <1>1, <2>1, ReturnCursor, QuietShape, SameMemory DEF StructInv
<1>3. CASE AtSlot = NULL
    <2> DEFINE e == w.op.item
               dx == IsExceptional(e)
    <2>1. /\ node' = Stored(node, w.cur, w.off, e, 1, dx)
          /\ root' = RootStored(w.cur, e) /\ Return("ok") /\ w.shift = 0
        BY <1>3, EntryAssumption DEF InsertEntry
    <2>2. e \in Items /\ e \in Entries /\ e # NULL
        BY <1>1, InsertCall, EntryAssumption DEF StructInv, Entries
    <2>3. /\ w.cur \in Nodes \cup {NULL} /\ w.off \in Slots
          /\ node \in Memory /\ node' \in Memory /\ SameShape(node, node)
        BY WriterFields, SameMemory DEF StructInv, TypeInv, TypeOK, Memory
    <2>4. /\ dx \in Int /\ dx = IsExceptional(e) - IsExceptional(NULL)
          /\ 1 = IsEntry(e) - IsEntry(NULL)
        BY <2>2, EntryAssumption DEF IsEntry, IsExceptional
    <2>5. w.cur # NULL => node[w.cur].shift = 0
        BY <1>1, <2>1 DEF StructInv, CursorInv
    <2>6. NULL = IF w.cur = NULL THEN root.rnode ELSE node[w.cur].slots[w.off]
        BY <1>3 DEF AtSlot
    <2>7. root'.rnode = IF w.cur = NULL THEN e ELSE root.rnode
        BY <2>1 DEF RootStored, StructInv, TypeInv, TypeOK
    <2>8. Shape(root.rnode, node, heap, NULL)
        BY <1>1 DEF StructInv, ShapeInv, Retiring
    <2> HIDE DEF e, dx
    <2>9. StoreOf(node', node, w.cur, w.off, e, 1, dx)
        BY <2>1, <2>2, <2>3, <2>4, StoredStores
    <2>10. Shape(root'.rnode, node', heap, NULL)
        BY <2>2, <2>3, <2>4, <2>5, <2>6, <2>7, <2>8, <2>9, ShapeStored
    <2> QED BY <1>1, <2>1, <2>10, ReturnCursor DEF ShapeInv, Retiring
<1> QED BY <1>2, <1>3

LEMMA FindStartStruct == ASSUME StructInv, FindStart PROVE ShapeInv' /\ CursorInv'
<1>1. /\ UNCHANGED <<root, node, heap>> /\ w.cur = NULL /\ w.off = 0 /\ w \in WriterType
      /\ w.pc \in {"delete", "replace", "tag_clear", "tag_set"}
      /\ \/ Return(NULL)
         \/ w' = [w EXCEPT !.pc = "find"]
    BY DEF FindStart, tree, Goto, StructInv, CursorInv, TypeInv, TypeOK
<1>2. CASE Return(NULL)
    BY <1>1, <1>2, ReturnCursor, QuietShape, SameMemory DEF StructInv
<1>3. CASE w' = [w EXCEPT !.pc = "find"]
    <2>1. w'.pc = "find" /\ w'.cur = NULL /\ w'.off = 0
        BY <1>1, <1>3 DEF WriterType
    <2>2. ShapeInv'
        BY <1>1, <2>1, QuietShape, SameMemory DEF StructInv
    <2> QED BY <2>1, <2>2 DEF CursorInv
<1> QED BY <1>1, <1>2, <1>3

LEMMA FindStepStruct == ASSUME StructInv, TypeInv', FindStep PROVE ShapeInv' /\ CursorInv'
<1>1. /\ w.pc = "find" /\ w \in WriterType /\ AtSlot \in Nodes /\ UNCHANGED <<root, heap>>
      /\ node \in Memory /\ node' \in Memory
    BY DEF FindStep, StructInv, TypeInv, TypeOK, Memory
<1>2. w'.pc = "find" /\ w'.cur = AtSlot
    BY <1>1 DEF FindStep, Goto, WriterType
<1>3. SameShape(node', node)
    BY <1>1 DEF FindStep, SameShape, Memory, NodeType
<1>4. ShapeInv'
    BY <1>1, <1>2, <1>3, QuietShape
<1>5. heap[AtSlot] = "live" /\ AtSlot # NULL
    BY <1>1, AtSlotEntry, EntryAssumption
<1> HIDE DEF AtSlot
<1> QED BY <1>1, <1>2, <1>4, <1>5 DEF CursorInv

LEMMA TagStruct ==
    ASSUME StructInv, TypeInv', TagSet \/ TagClear PROVE ShapeInv' /\ CursorInv'
<1>1. w.pc = "find" /\ UNCHANGED heap /\ Return(AtSlot) /\ node' \in Memory
    BY DEF TagSet, TagClear, Found, tree, TypeInv, TypeOK, Memory
<1>2. root'.rnode = root.rnode
    BY DEF TagSet, TagClear, tree, StructInv, TypeInv, TypeOK
<1>3. SameShape(node', node)
    <2>1. CASE node' = node
        BY <2>1 DEF SameShape
    <2>2. CASE node' = TagsCleared(w.cur, w.off, {w.op.tag})
        BY <2>2, TagsClearedShape DEF StructInv, TypeInv
    <2> QED BY <2>1, <2>2 DEF TagSet, TagClear, tree
<1> QED BY <1>1, <1>2, <1>3, QuietShape, ReturnCursor

\* After the store of a deletion or replacement.
LEMMA PruneFromStruct ==
    ASSUME StructInv, NEW r, w.pc = "find", PruneFrom(r), heap' = heap
    PROVE  CursorInv' /\ w'.pc # "retire"
<1>1. CASE w.cur = NULL
    BY <1>1, ReturnCursor DEF PruneFrom
<1>2. CASE w.cur # NULL
    <2>1. w'.pc = "prune" /\ w'.cur = w.cur
        BY <1>2 DEF PruneFrom, Goto, StructInv, TypeInv, TypeOK, WriterType
    <2> QED BY <1>2, <2>1 DEF StructInv, CursorInv
<1> QED BY <1>1, <1>2

LEMMA DeleteStruct == ASSUME StructInv, TypeInv', Delete PROVE ShapeInv' /\ CursorInv'
<1>1. w.pc = "find" /\ UNCHANGED heap /\ AtSlot \notin Nodes
    BY DEF Delete, Found, tree
<1>2. CASE AtSlot = NULL \/ w.op.item \notin {NULL, AtSlot}
    <2>1. Return(NULL) /\ UNCHANGED <<root, node>>
        BY <1>2 DEF Delete, tree
    <2> QED BY <1>1, <2>1, ReturnCursor, QuietShape, SameMemory DEF StructInv
<1>3. CASE ~ (AtSlot = NULL \/ w.op.item \notin {NULL, AtSlot})
    <2> DEFINE base == TagsCleared(w.cur, w.off, Tags)
               dx == -IsExceptional(AtSlot)
    <2>1. /\ node' = Stored(base, w.cur, w.off, NULL, -1, dx)
          /\ root' = [RootStored(w.cur, NULL) EXCEPT !.tags = RootTagsCleared(w.cur, w.off, Tags)]
          /\ PruneFrom(AtSlot)
        BY <1>3 DEF Delete
    <2>2. AtSlot \in Items /\ NULL \in Entries
        BY <1>1, <1>3, AtSlotEntry DEF Entries
    <2>3. /\ w.cur \in Nodes \cup {NULL} /\ w.off \in Slots
          /\ node \in Memory /\ node' \in Memory /\ base \in Memory /\ SameShape(base, node)
        BY WriterFields, SameMemory, TagsClearedType, TagsClearedShape
           DEF StructInv, TypeInv, TypeOK, Memory
    <2>4. /\ dx \in Int /\ dx = IsExceptional(NULL) - IsExceptional(AtSlot)
          /\ -1 \in Int /\ -1 = IsEntry(NULL) - IsEntry(AtSlot)
        BY <2>2, EntryAssumption DEF IsEntry, IsExceptional
    <2>5. AtSlot = IF w.cur = NULL THEN root.rnode ELSE node[w.cur].slots[w.off]
        BY DEF AtSlot
    <2>6. root'.rnode = IF w.cur = NULL THEN NULL ELSE root.rnode
        BY <2>1 DEF RootStored, StructInv, TypeInv, TypeOK
    <2>7. Shape(root.rnode, node, heap, NULL)
        BY <1>1 DEF StructInv, ShapeInv, Retiring
    <2> HIDE DEF base, dx
    <2>8. StoreOf(node', node, w.cur, w.off, NULL, -1, dx)
        BY <2>1, <2>2, <2>3, <2>4, StoredStores
    <2>9. Shape(root'.rnode, node', heap, NULL)
        <3>1. /\ NULL \in Items \cup {NULL} /\ AtSlot \in Items \cup {NULL}
              /\ NULL \in Items /\ w.cur # NULL => node[w.cur].shift = 0
            BY <2>2, EntryAssumption
        <3> HIDE DEF AtSlot
        <3> QED BY <3>1, <2>3, <2>4, <2>5, <2>6, <2>7, <2>8, ShapeStored
    <2> QED BY <1>1, <2>1, <2>9, PruneFromStruct DEF ShapeInv, Retiring
<1> QED BY <1>2, <1>3

LEMMA ReplaceStruct == ASSUME StructInv, TypeInv', Replace PROVE ShapeInv' /\ CursorInv'
<1>1. w.pc = "find" /\ w.op.kind = "replace" /\ UNCHANGED heap /\ AtSlot \notin Nodes
    BY DEF Replace, Found, tree
<1>2. CASE AtSlot = NULL
    <2>1. Return(NULL) /\ UNCHANGED <<root, node>>
        BY <1>2 DEF Replace, tree
    <2> QED BY <1>1, <2>1, ReturnCursor, QuietShape, SameMemory DEF StructInv
<1>3. CASE AtSlot # NULL
    <2> DEFINE x == w.op.item
               dc == IsEntry(x) - IsEntry(AtSlot)
               dx == IsExceptional(x) - IsExceptional(AtSlot)
    <2>1. /\ node' = Stored(node, w.cur, w.off, x, dc, dx)
          /\ root' = RootStored(w.cur, x) /\ PruneFrom("ok")
        BY <1>3 DEF Replace
    <2>2. AtSlot \in Items
        BY <1>1, <1>3, AtSlotEntry
    <2>3. /\ w.cur \in Nodes \cup {NULL} /\ w.off \in Slots
          /\ node \in Memory /\ node' \in Memory /\ SameShape(node, node)
        BY WriterFields, SameMemory DEF StructInv, TypeInv, TypeOK, Memory
    <2>4. x \in Items \cup {NULL} /\ x \in Entries /\ dc \in Int /\ dx \in Int
        BY <1>1, FindCall, IsExceptionalType DEF StructInv, Entries
    <2>5. w.cur # NULL => node[w.cur].shift = 0
        BY <1>1, <2>2, AtSlotEntry
    <2>6. AtSlot = IF w.cur = NULL THEN root.rnode ELSE node[w.cur].slots[w.off]
        BY DEF AtSlot
    <2>7. root'.rnode = IF w.cur = NULL THEN x ELSE root.rnode
        BY <2>1 DEF RootStored, StructInv, TypeInv, TypeOK
    <2>8. Shape(root.rnode, node, heap, NULL)
        BY <1>1 DEF StructInv, ShapeInv, Retiring
    <2>9. dc = IsEntry(x) - IsEntry(AtSlot) /\ dx = IsExceptional(x) - IsExceptional(AtSlot)
        OBVIOUS
    <2> HIDE DEF x, dc, dx
    <2>10. StoreOf(node', node, w.cur, w.off, x, dc, dx)
        BY <2>1, <2>3, <2>4, StoredStores
    <2>11. Shape(root'.rnode, node', heap, NULL)
        <3>1. AtSlot \in Items \cup {NULL}
            BY <2>2
        <3> HIDE DEF AtSlot
        <3> QED BY <3>1, <2>3, <2>4, <2>5, <2>6, <2>7, <2>8, <2>9, <2>10, ShapeStored
    <2> QED BY <1>1, <2>1, <2>11, PruneFromStruct DEF ShapeInv, Retiring
<1> QED BY <1>2, <1>3

LEMMA PruneEndStruct ==
    ASSUME StructInv, PruneEnd \/ ShrinkEnd PROVE ShapeInv' /\ CursorInv'
<1>1. /\ w.pc \in {"prune", "shrink"} /\ w \in WriterType /\ UNCHANGED <<root, node, heap>>
      /\ Return(w.res) \/ w' = [w EXCEPT !.pc = "shrink"]
    BY DEF PruneEnd, ShrinkEnd, Goto, tree, StructInv, TypeInv, TypeOK
<1>2. CASE Return(w.res)
    BY <1>1, <1>2, ReturnCursor, QuietShape, SameMemory DEF StructInv
<1>3. CASE w' = [w EXCEPT !.pc = "shrink"]
    <2>1. w'.pc = "shrink" /\ w'.cur = w.cur /\ w'.off = w.off
        BY <1>1, <1>3 DEF WriterType
    <2>2. ShapeInv'
        BY <1>1, <2>1, QuietShape, SameMemory DEF StructInv
    <2> QED BY <2>1, <2>2 DEF CursorInv, StructInv
<1> QED BY <1>1, <1>2, <1>3

LEMMA RetireFields ==
    ASSUME NEW mem \in Memory, NEW n \in Nodes, TypeOK, Retire(mem, n)
    PROVE  /\ heap'[n] # "live" /\ \A m \in Nodes \ {n} : heap'[m] = heap[m]
           /\ \A m \in Nodes \ {n} : node'[m] = mem[m]
BY DEF Retire, TypeOK, Memory

LEMMA PruneNodeStruct == ASSUME StructInv, TypeInv', PruneNode PROVE ShapeInv' /\ CursorInv'
<1> DEFINE n == w.cur
           p == node[n].parent
           o == node[n].offset
           base == Stored(node, p, o, NULL, -1, 0)
<1>1. /\ w.pc = "prune" /\ w \in WriterType /\ node[n].count = 0 /\ Retire(base, n)
      /\ root' = IF p = NULL THEN [rnode |-> NULL, tags |-> {}] ELSE root
      /\ IF p = NULL THEN Return(w.res) ELSE w' = [w EXCEPT !.cur = p]
    BY DEF PruneNode, Goto, StructInv, TypeInv, TypeOK
<1>2. n \in Nodes /\ heap[n] = "live" /\ NULL \in Entries /\ NULL \notin Nodes
    BY <1>1, WriterFields, EntryAssumption DEF StructInv, CursorInv, TypeInv, CallInv, Entries
<1>3. p \in Nodes \cup {NULL} /\ o \in Slots /\ node \in Memory /\ node' \in Memory
      /\ SameShape(node, node)
    BY <1>2, MemoryFields, SameMemory DEF StructInv, TypeInv, TypeOK, Memory
<1>4. base \in Memory /\ StoreOf(base, node, p, o, NULL, -1, 0)
    <2>1. -1 \in Int /\ 0 \in Int
        OBVIOUS
    <2> HIDE DEF p, o
    <2> QED BY <1>2, <1>3, <2>1, StoredType, StoredStores
<1>5. /\ heap'[n] # "live" /\ \A m \in Nodes \ {n} : heap'[m] = heap[m]
      /\ \A m \in Nodes \ {n} : node'[m] = base[m]
    <2> HIDE DEF base, n
    <2> QED BY <1>1, <1>2, <1>4, RetireFields DEF StructInv, TypeInv
<1>6. Shape(root.rnode, node, heap, NULL)
    BY <1>1 DEF StructInv, ShapeInv, Retiring
<1>7. root'.rnode = IF p = NULL THEN NULL ELSE root.rnode
    BY <1>1
<1>8. /\ Shape(root'.rnode, node', heap', NULL)
      /\ p # NULL => p \in Nodes /\ heap'[p] = "live"
    <2> HIDE DEF n, base
    <2> QED BY <1>1, <1>2, <1>3, <1>4, <1>5, <1>6, <1>7, ShapePruned
<1>9. CASE p = NULL
    BY <1>1, <1>8, <1>9, ReturnCursor DEF ShapeInv, Retiring
<1>10. CASE p # NULL
    <2>1. w'.pc = "prune" /\ w'.cur = p
        BY <1>1, <1>10 DEF WriterType
    <2> HIDE DEF p
    <2> QED BY <1>2, <1>8, <1>10, <2>1 DEF ShapeInv, Retiring, CursorInv
<1> QED BY <1>9, <1>10

LEMMA ShrinkRootStruct == ASSUME StructInv, TypeInv', ShrinkRoot PROVE ShapeInv' /\ CursorInv'
<1> DEFINE n == root.rnode
           c == node[n].slots[0]
<1>1. /\ w.pc = "shrink" /\ w \in WriterType /\ UNCHANGED heap
      /\ n \in Nodes /\ node[n].count = 1 /\ c # NULL /\ (c \in Nodes \/ node[n].shift = 0)
      /\ root'.rnode = c
      /\ node' = [Reparented(c, NULL) EXCEPT ![n].count = 0]
      /\ w' = [w EXCEPT !.pc = "retire", !.cur = n]
    BY DEF ShrinkRoot, Shrinkable, Goto, StructInv, TypeInv, TypeOK
<1>2. node \in Memory /\ node' \in Memory /\ NULL \notin Nodes
    BY EntryAssumption DEF StructInv, TypeInv, TypeOK, Memory
<1>3. \A m \in Nodes :
        /\ node'[m].shift = node[m].shift /\ node'[m].offset = node[m].offset
        /\ node'[m].parent = IF m = c THEN NULL ELSE node[m].parent
        /\ node'[m].slots = node[m].slots /\ node'[m].exceptional = node[m].exceptional
        /\ node'[m].count = IF m = n THEN 0 ELSE node[m].count
    <2> DEFINE mid == Reparented(c, NULL)
    <2>1. \A m \in Nodes :
            /\ mid[m].shift = node[m].shift /\ mid[m].offset = node[m].offset
            /\ mid[m].parent = IF m = c THEN NULL ELSE node[m].parent
            /\ mid[m].slots = node[m].slots /\ mid[m].exceptional = node[m].exceptional
            /\ mid[m].count = node[m].count
        <3> HIDE DEF c
        <3> QED BY <1>2 DEF Reparented, Memory, NodeType
    <2>2. mid \in Memory
        BY ReparentedType DEF StructInv, TypeInv
    <2>3. node' = [mid EXCEPT ![n].count = 0]
        BY <1>1
    <2> HIDE DEF mid, c, n
    <2> QED BY <2>1, <2>2, <2>3 DEF Memory, NodeType
<1>4. Shape(n, node, heap, NULL)
    BY <1>1 DEF StructInv, ShapeInv, Retiring
<1>5. Shape(c, node', heap, n) /\ c # n /\ node'[n].parent = NULL /\ heap[n] = "live"
    <2>1. c = node[n].slots[0]
        OBVIOUS
    <2>2. n \in Nodes /\ node[n].count = 1 /\ c # NULL /\ (c \in Nodes \/ node[n].shift = 0)
        BY <1>1
    <2> HIDE DEF c, n
    <2> QED BY <1>2, <1>3, <1>4, <2>1, <2>2, ShapeUnrooted
<1>6. w'.pc = "retire" /\ w'.cur = n /\ w'.off = w.off
    BY <1>1 DEF WriterType
<1> HIDE DEF c, n
<1> QED BY <1>1, <1>2, <1>5, <1>6 DEF ShapeInv, Retiring, CursorInv

LEMMA ShrinkRetireStruct ==
    ASSUME StructInv, TypeInv', ShrinkRetire PROVE ShapeInv' /\ CursorInv'
<1> DEFINE n == w.cur
           mem == IF node[n].slots[0] \in Nodes THEN node
                  ELSE [node EXCEPT ![n].slots[0] = RETRY]
<1>1. /\ w.pc = "retire" /\ w \in WriterType /\ Retire(mem, n) /\ UNCHANGED root
      /\ w' = [w EXCEPT !.pc = "shrink"]
    BY DEF ShrinkRetire, Goto, StructInv, TypeInv, TypeOK
<1>2. n \in Nodes /\ root.rnode # n /\ node[n].parent = NULL /\ NULL \notin Nodes
    BY <1>1, WriterFields, EntryAssumption DEF StructInv, TypeInv, CallInv, CursorInv
<1>3. /\ node \in Memory /\ node' \in Memory /\ TypeOK
      /\ \A m \in Nodes \ {n} : mem[m] = node[m]
    BY <1>2 DEF StructInv, TypeInv, TypeOK, Memory
<1>4. /\ heap'[n] # "live" /\ \A m \in Nodes \ {n} : heap'[m] = heap[m]
      /\ \A m \in Nodes \ {n} : node'[m] = mem[m]
    <2> HIDE DEF mem, n
    <2> QED BY <1>1, <1>2 DEF Retire, TypeInv, TypeOK, StructInv
<1>5. Shape(root.rnode, node, heap, n)
    BY <1>1 DEF StructInv, ShapeInv, Retiring
<1>6. Shape(root.rnode, node', heap', NULL)
    <2>1. \A m \in Nodes \ {n} : node'[m] = node[m]
        BY <1>3, <1>4
    <2> HIDE DEF n, mem
    <2> QED BY <1>2, <1>3, <1>4, <1>5, <2>1, ShapeWithout
<1>7. w'.pc = "shrink" /\ w'.off = w.off /\ w'.cur = n
    BY <1>1 DEF WriterType
<1> HIDE DEF n
<1> QED BY <1>1, <1>2, <1>6, <1>7 DEF ShapeInv, Retiring, CursorInv

\* Memory from the constructor is zeroed.
LEMMA ZeroedSlots ==
    ASSUME Leftovers = {NULL}, NEW left \in [Slots -> Leftovers]
    PROVE  \A q \in Slots : left[q] = NULL
OBVIOUS

LEMMA NewTopFields ==
    ASSUME TypeOK, NEW left \in [Slots -> Leftovers], Leftovers = {NULL}
    PROVE  LET top == NewTop(left) IN
           /\ top.shift = w.shift /\ top.parent = NULL /\ top.offset = 0 /\ top.count = 1
           /\ top.exceptional = IsExceptional(root.rnode)
           /\ \A q \in Slots : top.slots[q] = IF q = 0 THEN root.rnode ELSE NULL
<1>1. NewTop(left).slots = [left EXCEPT ![0] = root.rnode]
    BY DEF NewTop, Fresh, Blank
<1>2. \A q \in Slots : left[q] = NULL
    BY ZeroedSlots
<1>3. \A q \in Slots : NewTop(left).slots[q] = IF q = 0 THEN root.rnode ELSE NULL
    BY <1>1, <1>2
<1>4. LET top == NewTop(left) IN
        /\ top.shift = w.shift /\ top.parent = NULL /\ top.offset = 0 /\ top.count = 1
        /\ top.exceptional = IsExceptional(root.rnode)
    BY DEF NewTop, Fresh, Blank
<1> QED BY <1>3, <1>4

LEMMA ExtendStruct ==
    ASSUME StructInv, TypeInv', Extend, Leftovers = {NULL} PROVE ShapeInv' /\ CursorInv'
<1> DEFINE t == root.rnode
<1>1. /\ w.pc = "extend" /\ w \in WriterType /\ TypeOK /\ w.cur = NULL /\ w.off = 0
      /\ t \in Items \cup Nodes /\ w.shift = RootShift
    BY DEF Extend, StructInv, TypeInv, TypeOK, CursorInv
<1>2. /\ w'.pc \in {"extend", "create"} /\ w'.shift = w.shift + 1
      /\ w'.cur = NULL /\ w'.off = 0
    BY <1>1 DEF Extend, Goto, WriterType
<1>3. PICK n \in Nodes, left \in [Slots -> Leftovers] :
         /\ heap[n] = "free"
         /\ node' = [Reparented(t, n) EXCEPT ![n] = NewTop(left)]
         /\ heap' = [heap EXCEPT ![n] = "live"]
         /\ root' = [root EXCEPT !.rnode = n]
    BY DEF Extend, Free
<1>4. node \in Memory /\ node' \in Memory /\ root'.rnode = n
    BY <1>1, <1>3 DEF TypeInv, TypeOK, Memory
<1>5. \A m \in Nodes : heap'[m] = IF m = n THEN "live" ELSE heap[m]
    BY <1>1, <1>3 DEF TypeOK
<1>6. node'[n] = NewTop(left) /\ \A m \in Nodes \ {n} : node'[m] = Reparented(t, n)[m]
    <2>1. Reparented(t, n) \in Memory
        BY <1>1, ReparentedType
    <2> QED BY <1>3, <2>1 DEF Memory
<1>7. \A m \in Nodes \ {n} :
        /\ node'[m].shift = node[m].shift /\ node'[m].offset = node[m].offset
        /\ node'[m].parent = IF m = t THEN n ELSE node[m].parent
        /\ node'[m].slots = node[m].slots /\ node'[m].count = node[m].count
        /\ node'[m].exceptional = node[m].exceptional
    <2> HIDE DEF t
    <2> QED BY <1>4, <1>6 DEF Reparented, Memory, NodeType
<1>8. /\ node'[n].shift = w.shift /\ node'[n].parent = NULL /\ node'[n].offset = 0
      /\ node'[n].count = 1 /\ node'[n].exceptional = IsExceptional(t)
      /\ \A q \in Slots : node'[n].slots[q] = IF q = 0 THEN t ELSE NULL
    BY <1>1, <1>6, NewTopFields
<1>9. /\ t \in Items => node'[n].shift = 0
      /\ t \in Nodes => node[t].shift + 1 = node'[n].shift
    BY <1>1, <1>8, EntryAssumption DEF RootShift
<1>10. Shape(t, node, heap, NULL)
    BY <1>1 DEF StructInv, ShapeInv, Retiring
<1>11. Shape(n, node', heap', NULL)
    <2>1. t \in Items \cup Nodes /\ heap[n] = "free" /\ node \in Memory /\ node' \in Memory
        BY <1>1, <1>3, <1>4
    <2>2. /\ node'[n].parent = NULL /\ node'[n].offset = 0
          /\ node'[n].count = 1 /\ node'[n].exceptional = IsExceptional(t)
          /\ \A q \in Slots : node'[n].slots[q] = IF q = 0 THEN t ELSE NULL
        BY <1>8
    <2> HIDE DEF t
    <2> QED BY <1>5, <1>7, <1>9, <1>10, <2>1, <2>2, ShapeRaised
<1>12. RootShift' = w'.shift
    BY <1>2, <1>4, <1>8 DEF RootShift
<1> QED BY <1>2, <1>4, <1>11, <1>12 DEF ShapeInv, Retiring, CursorInv

LEMMA CreateChildStruct ==
    ASSUME StructInv, TypeInv', CreateChild, Leftovers = {NULL} PROVE ShapeInv' /\ CursorInv'
<1> DEFINE c == w.cur
           o == w.off
<1>1. /\ w.pc = "create" /\ w \in WriterType /\ TypeOK /\ w.shift > 0 /\ AtSlot = NULL
      /\ c \in Nodes \cup {NULL} /\ o \in Slots
    BY WriterFields DEF CreateChild, StructInv, TypeInv, TypeOK
<1>2. PICK n \in Nodes, left \in [Slots -> Leftovers] :
         /\ heap[n] = "free"
         /\ node' = [Stored(node, c, o, n, 1, 0)
                        EXCEPT ![n] = Fresh(w.shift - 1, o, 0, c, left)]
         /\ heap' = [heap EXCEPT ![n] = "live"]
         /\ root' = RootStored(c, n)
         /\ w' = [w EXCEPT !.shift = @ - 1, !.cur = n,
                           !.off = Offset(w.shift - 1, w.op.index)]
    BY DEF CreateChild, Free, Goto
<1>3. w'.pc = "create" /\ w'.shift = w.shift - 1 /\ w'.cur = n
    BY <1>1, <1>2 DEF WriterType
<1>4. /\ node \in Memory /\ node' \in Memory /\ SameShape(node, node)
      /\ \A m \in Nodes : heap'[m] = IF m = n THEN "live" ELSE heap[m]
      /\ root'.rnode = IF c = NULL THEN n ELSE root.rnode
    BY <1>1, <1>2, SameMemory DEF StructInv, TypeInv, TypeOK, Memory, RootStored
<1> DEFINE base == Stored(node, c, o, n, 1, 0)
<1>5. base \in Memory /\ StoreOf(base, node, c, o, n, 1, 0)
    <2>1. 1 \in Int /\ 0 \in Int /\ n \in Entries
        BY DEF Entries
    <2> HIDE DEF c, o
    <2> QED BY <1>1, <1>4, <2>1, StoredType, StoredStores
<1>6. node'[n] = Fresh(w.shift - 1, o, 0, c, left) /\ \A m \in Nodes \ {n} : node'[m] = base[m]
    <2>1. node' = [base EXCEPT ![n] = Fresh(w.shift - 1, o, 0, c, left)]
        BY <1>2
    <2> HIDE DEF base
    <2> QED BY <1>5, <2>1 DEF Memory
<1>7. /\ node'[n].parent = c /\ node'[n].offset = o /\ node'[n].count = 0
      /\ node'[n].exceptional = 0 /\ node'[n].shift = w.shift - 1
      /\ \A q \in Slots : node'[n].slots[q] = NULL
    BY <1>6, ZeroedSlots DEF Fresh, Blank
<1>8. Shape(root.rnode, node, heap, NULL)
    BY <1>1 DEF StructInv, ShapeInv, Retiring
<1>9. c = NULL => root.rnode = NULL /\ o = 0
    BY <1>1 DEF AtSlot, StructInv, CursorInv
<1>10. c # NULL => /\ heap[c] = "live" /\ node[c].slots[o] = NULL
                   /\ node'[n].shift + 1 = node[c].shift
    BY <1>1, <1>7, WriterFields DEF AtSlot, StructInv, CursorInv
<1>11. Shape(root'.rnode, node', heap', NULL)
    <2> DEFINE u == root'.rnode
    <2>1. /\ c = NULL => root.rnode = NULL /\ u = n /\ o = 0
          /\ c # NULL => /\ heap[c] = "live" /\ node[c].slots[o] = NULL /\ u = root.rnode
                         /\ node'[n].shift + 1 = node[c].shift
        BY <1>4, <1>9, <1>10
    <2>2. /\ c \in Nodes \cup {NULL} /\ o \in Slots /\ heap[n] = "free"
          /\ node \in Memory /\ node' \in Memory
          /\ \A m \in Nodes : heap'[m] = IF m = n THEN "live" ELSE heap[m]
          /\ \A m \in Nodes \ {n} : node'[m] = base[m]
        BY <1>1, <1>2, <1>4, <1>6
    <2>3. /\ node'[n].parent = c /\ node'[n].offset = o /\ node'[n].count = 0
          /\ node'[n].exceptional = 0 /\ \A q \in Slots : node'[n].slots[q] = NULL
        BY <1>7
    <2> HIDE DEF base, c, o, u
    <2>4. Shape(u, node', heap', NULL)
        BY <1>5, <1>8, <2>1, <2>2, <2>3, ShapeLinked
    <2> QED BY <2>4 DEF u
<1>12. heap'[n] = "live" /\ n # NULL /\ w'.shift = node'[n].shift
    BY <1>3, <1>4, <1>7, EntryAssumption
<1> QED BY <1>3, <1>11, <1>12 DEF ShapeInv, Retiring, CursorInv

\* A lookup stores nothing to the tree.
LEMMA ReaderStruct ==
    ASSUME StructInv, NEW r \in Readers, Reader(r) PROVE ShapeInv' /\ CursorInv'
<1>1. UNCHANGED <<root, node, heap, w>>
    BY DEF Reader, ReadLock, ReadRoot, ReadBound, ReadSlot, ReadRetry, ReadUnlock,
           WriterSame, tree
<1> QED BY <1>1 DEF StructInv, ShapeInv, Retiring, CursorInv, RootShift

\* What a grace period gives back was out of the tree.
LEMMA RcuFreeStruct ==
    ASSUME StructInv, NEW n \in Nodes, RcuFree(n) PROVE ShapeInv' /\ CursorInv'
<1>1. /\ heap[n] = "rcu" /\ heap' = [heap EXCEPT ![n] = "free"]
      /\ node' = [node EXCEPT ![n] = Blank] /\ UNCHANGED <<root, w>>
    BY DEF RcuFree, WriterSame
<1>2. /\ heap'[n] # "live" /\ \A m \in Nodes \ {n} : heap'[m] = heap[m]
      /\ \A m \in Nodes \ {n} : node'[m] = node[m]
      /\ node \in Memory /\ node' \in Memory
    BY <1>1, BlankType DEF StructInv, TypeInv, TypeOK, Memory
<1>3. Shape(root.rnode, node, heap, Retiring) /\ root.rnode # n
    BY <1>1 DEF StructInv, ShapeInv, Shape, Rooted
<1>4. Retiring \in Nodes \cup {NULL} /\ Retiring # n
    BY <1>1, EntryAssumption, WriterFields
       DEF Retiring, StructInv, TypeInv, CallInv, CursorInv
<1>5. Shape(root.rnode, node', heap', Retiring)
    <2> DEFINE y == Retiring
    <2>1. y \in Nodes \cup {NULL} /\ y # n /\ heap[n] # "live" /\ root.rnode # n
          /\ Shape(root.rnode, node, heap, y)
        BY <1>1, <1>3, <1>4
    <2> HIDE DEF y
    <2>2. Shape(root.rnode, node', heap', IF y = n THEN NULL ELSE y)
        BY <1>2, <2>1, ShapeWithout
    <2>3. Shape(root.rnode, node', heap', y)
        BY <2>1, <2>2
    <2> QED BY <2>3 DEF y
<1>6. ShapeInv'
    BY <1>1, <1>5 DEF ShapeInv, Retiring
<1>7. CursorInv'
    <2>1. RootShift' = RootShift
        BY <1>1, <1>2, <1>3 DEF RootShift
    <2>2. w.cur # n \/ w.pc \notin {"create", "find", "prune", "retire"}
        BY <1>1, EntryAssumption DEF StructInv, CursorInv
    <2>3. w.cur \in Nodes \cup {NULL}
        BY WriterFields DEF StructInv, TypeInv, TypeOK
    <2> QED BY <1>1, <1>2, <2>1, <2>2, <2>3 DEF StructInv, CursorInv
<1> QED BY <1>6, <1>7

-----------------------------------------------------------------------------
(* The invariant, and what it says between calls.                          *)

LEMMA InitStruct == Init => StructInv
<1> SUFFICES ASSUME Init PROVE ShapeInv /\ CursorInv
    BY InitType DEF StructInv
<1>1. /\ root.rnode = NULL /\ w.pc = "idle" /\ w.cur = NULL /\ w.off = 0
      /\ \A n \in Nodes : heap[n] = "free"
    BY DEF Init, Idle
<1>2. CursorInv
    BY <1>1 DEF CursorInv
<1>3. Shape(root.rnode, node, heap, NULL)
    BY <1>1, EntryAssumption DEF Shape, Rooted, Down, Up, Counted
<1> QED BY <1>1, <1>2, <1>3 DEF ShapeInv, Retiring

LEMMA StepStruct ==
    ASSUME Leftovers = {NULL}, StructInv, [Next]_vars PROVE StructInv'
<1> SUFFICES ShapeInv' /\ CursorInv'
    BY StepType DEF StructInv
<1>1. TypeInv'
    BY StepType DEF StructInv
<1>2. ASSUME NEW o \in Calls, Invoke(o) PROVE ShapeInv' /\ CursorInv'
    BY <1>2, InvokeStruct
<1>3. CASE AllocFails
    BY <1>3, AllocFailsStruct
<1>4. CASE Create
    BY <1>1, <1>4, InsertStartStruct, ExtendStruct, DescendStruct, CreateChildStruct,
       InsertEntryStruct DEF Create
<1>5. CASE FindStart \/ FindStep \/ TagSet \/ TagClear
    BY <1>1, <1>5, FindStartStruct, FindStepStruct, TagStruct
<1>6. CASE Delete \/ Replace
    BY <1>1, <1>6, DeleteStruct, ReplaceStruct
<1>7. CASE Prune
    BY <1>1, <1>7, PruneEndStruct, PruneNodeStruct, ShrinkRootStruct, ShrinkRetireStruct
       DEF Prune
<1>8. ASSUME NEW r \in Readers, Reader(r) PROVE ShapeInv' /\ CursorInv'
    BY <1>8, ReaderStruct
<1>9. ASSUME NEW n \in Nodes, RcuFree(n) PROVE ShapeInv' /\ CursorInv'
    BY <1>9, RcuFreeStruct
<1>10. CASE UNCHANGED vars
    BY <1>10 DEF vars, StructInv, ShapeInv, Retiring, CursorInv, RootShift
<1> QED BY <1>2, <1>3, <1>4, <1>5, <1>6, <1>7, <1>8, <1>9, <1>10 DEF Next, WriterStep

\* The tree has its shape after every store of every call.
THEOREM ShapeHolds == ASSUME Leftovers = {NULL} PROVE Spec => []StructInv
<1>1. Leftovers = {NULL}
    OBVIOUS
<1>2. StructInv /\ [Next]_vars => StructInv'
    BY <1>1, StepStruct
<1> QED BY <1>2, InitStruct, PTL DEF Spec

LEMMA AtRestShape ==
    ASSUME StructInv, AtRest PROVE Shape(root.rnode, node, heap, NULL)
BY DEF StructInv, TypeInv, CallInv, AtRest, ShapeInv, Retiring

LEMMA ShapeLinks == StructInv => LinksAgree
<1> SUFFICES ASSUME StructInv, AtRest PROVE LinksAgree
    BY DEF LinksAgree
<1>1. Shape(root.rnode, node, heap, NULL) /\ NULL \notin Nodes
    BY AtRestShape, EntryAssumption
<1> QED BY <1>1 DEF LinksAgree, Live, Shape, Rooted, Down

LEMMA ShapeLeaks == StructInv => NothingLeaked
<1> SUFFICES ASSUME StructInv, AtRest PROVE NothingLeaked
    BY DEF NothingLeaked
<1>1. Shape(root.rnode, node, heap, NULL) /\ NULL \notin Nodes
    BY AtRestShape, EntryAssumption
<1>2. \A n \in Nodes : node[n].parent \in Nodes \cup {NULL}
    BY MemoryFields, SameMemory DEF StructInv
<1> QED BY <1>1, <1>2 DEF NothingLeaked, Live, Shape, Up

LEMMA ShapeCounts == StructInv => CountsAgree
<1> SUFFICES ASSUME StructInv, AtRest, NEW n \in Live
             PROVE  /\ node[n].count = Cardinality({o \in Slots : node[n].slots[o] # NULL})
                    /\ node[n].exceptional =
                         Cardinality({o \in Slots : node[n].slots[o] \in Exceptional})
    BY DEF CountsAgree
<1>1. Shape(root.rnode, node, heap, NULL) /\ NULL \notin Nodes
    BY AtRestShape, EntryAssumption
<1>2. n \in Nodes /\ heap[n] = "live"
    BY DEF Live
<1>3. \A o \in Slots : node[n].slots[o] # NULL <=> node[n].slots[o] \in Present
    BY <1>2, MemoryFields, SameMemory, EntryAssumption DEF StructInv, Present, Entries
<1>4. {o \in Slots : node[n].slots[o] # NULL} = {o \in Slots : node[n].slots[o] \in Present}
    BY <1>3
<1> QED BY <1>1, <1>2, <1>4 DEF Shape, Counted, CountIn

\* Between calls the parent and offset of every node lead to the one slot that
\* holds it, whatever calls went before and wherever an allocation failed.
THEOREM LinksCorrect == ASSUME Leftovers = {NULL} PROVE Spec => []LinksAgree
BY ShapeHolds, ShapeLinks, PTL

\* Between calls every allocated node hangs in the tree.
THEOREM LeaksCorrect == ASSUME Leftovers = {NULL} PROVE Spec => []NothingLeaked
BY ShapeHolds, ShapeLeaks, PTL

\* Between calls count and exceptional are what the slots hold.
THEOREM CountsCorrect == ASSUME Leftovers = {NULL} PROVE Spec => []CountsAgree
BY ShapeHolds, ShapeCounts, PTL

-----------------------------------------------------------------------------
(* Counting up.                                                            *)

\* A set of numbers that has 0 and with each number the next has them all.
LEMMA CountingUp ==
    ASSUME NEW h \in Nat, NEW S, 0 \in S, \A k \in 0 .. (h - 1) : k \in S => k + 1 \in S
    PROVE  \A k \in 0 .. h : k \in S
<1> DEFINE T == {k \in Nat : k <= h /\ k \notin S}
<1>1. SUFFICES ASSUME T # {} PROVE FALSE
    OBVIOUS
<1>2. \E k \in T : \A y \in T : <<y, k>> \notin OpToRel(<, Nat)
    BY <1>1, NatLessThanWellFounded, WFMin
<1>3. PICK k \in T : \A y \in T : <<y, k>> \notin OpToRel(<, Nat)
    BY <1>2
<1>a. \A y \in T : ~(y < k)
    BY <1>3 DEF OpToRel
<1>4. k # 0 /\ k - 1 \in Nat /\ k - 1 \in 0 .. (h - 1) /\ k - 1 < k
    OBVIOUS
<1>5. k - 1 \notin T
    BY <1>4, <1>a
<1>6. k - 1 \in S
    BY <1>4, <1>5
<1> QED BY <1>4, <1>6

\* What is defined by its first value and a step from each to the next exists.
LEMMA StepsExist ==
    \A h \in Nat : \A X : \A a \in X : \A next \in [X -> X] :
      \E f : /\ f \in [0 .. h -> X] /\ f[0] = a
             /\ \A k \in 1 .. h : f[k] = next[f[k - 1]]
<1> SUFFICES ASSUME NEW h \in Nat, NEW X, NEW a \in X, NEW next \in [X -> X]
             PROVE  \E f : /\ f \in [0 .. h -> X] /\ f[0] = a
                           /\ \A k \in 1 .. h : f[k] = next[f[k - 1]]
    OBVIOUS
<1> DEFINE Good(f, n) == f[0] = a /\ \A k \in 1 .. n : f[k] = next[f[k - 1]]
           S == {n \in 0 .. h : \E f \in [0 .. h -> X] : Good(f, n)}
<1>1. 0 \in S
    <2> DEFINE f == [k \in 0 .. h |-> a]
    <2>1. f \in [0 .. h -> X] /\ Good(f, 0)
        OBVIOUS
    <2> HIDE DEF f, Good
    <2> QED BY <2>1
<1>2. ASSUME NEW n \in 0 .. (h - 1), n \in S PROVE n + 1 \in S
    <2>1. PICK f \in [0 .. h -> X] : Good(f, n)
        BY <1>2
    <2> DEFINE g == [k \in 0 .. h |-> IF k = n + 1 THEN next[f[n]] ELSE f[k]]
    <2>2. g \in [0 .. h -> X] /\ n + 1 \in 0 .. h
        OBVIOUS
    <2>3. Good(g, n + 1)
        BY <2>1
    <2> HIDE DEF g, Good
    <2> QED BY <2>2, <2>3
<1>3. h \in S
    <2> HIDE DEF S
    <2>1. \A k \in 0 .. h : k \in S
        BY <1>1, <1>2, CountingUp
    <2> QED BY <2>1
<1> QED BY <1>3

-----------------------------------------------------------------------------
(* The entries a lookup meets.                                             *)

NextEntry(mem, e, i) == IF e \in Nodes THEN mem[e].slots[Offset(mem[e].shift, i)] ELSE e

\* f[k] is the entry k steps below t on the way to index i.
IsWalk(f, t, mem, i) ==
    /\ f \in [0 .. Height -> Entries]
    /\ f[0] = t
    /\ \A k \in 1 .. Height : f[k] = NextEntry(mem, f[k - 1], i)

LEMMA WalkExists ==
    ASSUME NEW t \in Entries, NEW mem \in Memory, NEW i \in Indices
    PROVE  \E f : IsWalk(f, t, mem, i)
<1> DEFINE step == [e \in Entries |-> NextEntry(mem, e, i)]
<1>1. \A e \in Entries : NextEntry(mem, e, i) \in Entries
    BY OffsetType, MemoryFields DEF NextEntry
<1>2. step \in [Entries -> Entries] /\ Height \in Nat
    BY <1>1, SizeAssumption
<1>3. \A e \in Entries : step[e] = NextEntry(mem, e, i)
    OBVIOUS
<1>a. t \in Entries
    OBVIOUS
<1> HIDE DEF step
<1>b. \A X : \A a \in X : \A next \in [X -> X] :
        \E f : /\ f \in [0 .. Height -> X] /\ f[0] = a
               /\ \A k \in 1 .. Height : f[k] = next[f[k - 1]]
    BY <1>2, StepsExist, Zenon
<1>4. PICK f : /\ f \in [0 .. Height -> Entries] /\ f[0] = t
               /\ \A k \in 1 .. Height : f[k] = step[f[k - 1]]
    BY <1>2, <1>a, <1>b
<1>5. \A k \in 1 .. Height : k - 1 \in 0 .. Height
    BY <1>2
<1>6. IsWalk(f, t, mem, i)
    BY <1>3, <1>4, <1>5 DEF IsWalk
<1> QED BY <1>6

LEMMA WalkUnique ==
    ASSUME NEW t, NEW mem, NEW i, NEW f, NEW g, IsWalk(f, t, mem, i), IsWalk(g, t, mem, i)
    PROVE  f = g
<1> DEFINE S == {k \in 0 .. Height : f[k] = g[k]}
<1>1. Height \in Nat
    BY SizeAssumption
<1>2. 0 \in S
    BY <1>1 DEF IsWalk
<1>3. ASSUME NEW k \in 0 .. (Height - 1), k \in S PROVE k + 1 \in S
    <2>1. k + 1 \in 1 .. Height /\ (k + 1) - 1 = k /\ k + 1 \in 0 .. Height
        BY <1>1
    <2>2. f[k + 1] = NextEntry(mem, f[k], i) /\ g[k + 1] = NextEntry(mem, g[k], i)
        BY <2>1 DEF IsWalk
    <2>3. f[k] = g[k]
        BY <1>3
    <2> QED BY <2>1, <2>2, <2>3
<1>4. \A k \in 0 .. Height : k \in S
    <2> HIDE DEF S
    <2> QED BY <1>1, <1>2, <1>3, CountingUp
<1>5. f \in [0 .. Height -> Entries] /\ g \in [0 .. Height -> Entries]
    BY DEF IsWalk
<1>6. \A k \in 0 .. Height : f[k] = g[k]
    BY <1>4
<1>7. f = [k \in 0 .. Height |-> f[k]] /\ g = [k \in 0 .. Height |-> g[k]]
    BY <1>5
<1>8. [k \in 0 .. Height |-> f[k]] = [k \in 0 .. Height |-> g[k]]
    BY <1>6
<1> QED BY <1>7, <1>8, Zenon

\* The loop of the model, as an equation.
Looked(f, t, mem, i) ==
    [k \in 0 .. Height |->
       IF k = 0 THEN t
       ELSE IF f[k - 1] \in Nodes THEN mem[f[k - 1]].slots[Offset(mem[f[k - 1]].shift, i)]
       ELSE f[k - 1]]

LEMMA LookedIsWalk ==
    ASSUME NEW t \in Entries, NEW mem \in Memory, NEW i \in Indices
    PROVE  IsWalk(CHOOSE f : f = Looked(f, t, mem, i), t, mem, i)
<1>1. Height \in Nat /\ \A k \in 1 .. Height : k \in 0 .. Height /\ k # 0
    BY SizeAssumption
<1>2. PICK f : IsWalk(f, t, mem, i)
    BY WalkExists
<1>3. f = Looked(f, t, mem, i)
    BY <1>1, <1>2 DEF IsWalk, NextEntry, Looked
<1> DEFINE g == CHOOSE g : g = Looked(g, t, mem, i)
<1>4. g = Looked(g, t, mem, i)
    BY <1>3
<1> HIDE DEF g
<1>5. /\ DOMAIN g = 0 .. Height /\ g = [k \in 0 .. Height |-> g[k]] /\ g[0] = t
      /\ \A k \in 1 .. Height : g[k] = NextEntry(mem, g[k - 1], i)
    <2>1. DOMAIN g = 0 .. Height /\ g = [k \in 0 .. Height |-> g[k]]
        BY <1>4, Zenon DEF Looked
    <2>2. \A k \in 0 .. Height :
            g[k] = IF k = 0 THEN t
                   ELSE IF g[k - 1] \in Nodes
                        THEN mem[g[k - 1]].slots[Offset(mem[g[k - 1]].shift, i)]
                   ELSE g[k - 1]
        BY <1>4, Zenon DEF Looked
    <2>3. g[0] = t
        BY <1>1, <2>2
    <2>4. ASSUME NEW k \in 1 .. Height PROVE g[k] = NextEntry(mem, g[k - 1], i)
        <3>1. k \in 0 .. Height /\ k # 0
            BY <1>1
        <3> QED BY <2>2, <3>1, Zenon DEF NextEntry
    <2> QED BY <2>1, <2>3, <2>4
<1> DEFINE S == {k \in 0 .. Height : g[k] \in Entries}
<1>6. 0 \in S
    BY <1>1, <1>5
<1>7. ASSUME NEW k \in 0 .. (Height - 1), k \in S PROVE k + 1 \in S
    <2>1. k + 1 \in 1 .. Height /\ (k + 1) - 1 = k /\ k + 1 \in 0 .. Height /\ g[k] \in Entries
        BY <1>1, <1>7
    <2>2. g[k + 1] = NextEntry(mem, g[k], i)
        BY <1>5, <2>1
    <2> QED BY <2>1, <2>2, OffsetType, MemoryFields DEF NextEntry
<1>8. \A k \in 0 .. Height : k \in S
    <2> HIDE DEF S
    <2> QED BY <1>1, <1>6, <1>7, CountingUp
<1>9. g \in [0 .. Height -> Entries]
    BY <1>5, <1>8
<1> QED BY <1>5, <1>9 DEF IsWalk, g

\* What the walk of the model is, in this state and the next.
LEMMA WalkIs ==
    ASSUME NEW i \in Indices
    PROVE  /\ TypeOK => IsWalk(Walk(i), root.rnode, node, i)
           /\ TypeOK' => IsWalk(Walk(i)', root'.rnode, node', i)
<1>1. Walk(i) = CHOOSE f : f = Looked(f, root.rnode, node, i)
    BY DEF Walk, Looked
<1>2. Walk(i)' = CHOOSE f : f = Looked(f, root'.rnode, node', i)
    BY DEF Walk, Looked
<1>3. /\ TypeOK => root.rnode \in Entries /\ node \in Memory
      /\ TypeOK' => root'.rnode \in Entries /\ node' \in Memory
    BY DEF TypeOK, Memory
<1> QED BY <1>1, <1>2, <1>3, LookedIsWalk

\* Below the top every node of a walk is allocated and one level lower than the
\* one before it.
LEMMA WalkDown ==
    ASSUME NEW t \in Entries, NEW mem \in Memory, NEW hp, NEW z, NEW i \in Indices, NEW f,
           Rooted(t, mem, hp), Down(mem, hp, z), IsWalk(f, t, mem, i)
    PROVE  \A k \in 0 .. Height :
             /\ f[k] \in Items \cup Nodes \cup {NULL}
             /\ f[k] \in Nodes => /\ t \in Nodes /\ hp[f[k]] = "live"
                                  /\ mem[f[k]].shift + k = mem[t].shift
<1> DEFINE S == {k \in 0 .. Height :
                   /\ f[k] \in Items \cup Nodes \cup {NULL}
                   /\ f[k] \in Nodes => /\ t \in Nodes /\ hp[f[k]] = "live"
                                        /\ mem[f[k]].shift + k = mem[t].shift}
<1>1. Height \in Nat
    BY SizeAssumption
<1>2. 0 \in S
    <2>1. f[0] = t /\ t \in Items \cup Nodes \cup {NULL}
        BY DEF IsWalk, Rooted, Entries
    <2>2. t \in Nodes => hp[t] = "live" /\ mem[t].shift \in Int
        BY MemoryFields DEF Rooted, Shifts
    <2> QED BY <1>1, <2>1, <2>2
<1>3. ASSUME NEW k \in 0 .. (Height - 1), k \in S PROVE k + 1 \in S
    <2>1. k + 1 \in 1 .. Height /\ (k + 1) - 1 = k /\ k + 1 \in 0 .. Height /\ k \in Int
        BY <1>1
    <2>2. f[k + 1] = NextEntry(mem, f[k], i)
        BY <2>1 DEF IsWalk
    <2>3. /\ f[k] \in Items \cup Nodes \cup {NULL}
          /\ f[k] \in Nodes => /\ t \in Nodes /\ hp[f[k]] = "live"
                               /\ mem[f[k]].shift + k = mem[t].shift
        BY <1>3
    <2> HIDE DEF S
    <2>4. CASE f[k] \notin Nodes
        BY <2>1, <2>2, <2>3, <2>4 DEF NextEntry, S
    <2>5. CASE f[k] \in Nodes
        <3> DEFINE n == f[k]
                   o == Offset(mem[n].shift, i)
                   c == mem[n].slots[o]
        <3>1. n \in Nodes /\ o \in Slots /\ c \in Entries /\ hp[n] = "live" /\ t \in Nodes
              /\ mem[n].shift \in Int /\ mem[t].shift \in Int /\ mem[n].shift + k = mem[t].shift
            BY <2>3, <2>5, OffsetType, MemoryFields DEF Shifts
        <3>2. f[k + 1] = c
            BY <2>2, <2>5 DEF NextEntry
        <3> HIDE DEF n, o
        <3>3. c # RETRY /\ (c \in Nodes => hp[c] = "live" /\ mem[c].shift + 1 = mem[n].shift)
            BY <3>1 DEF Down
        <3>4. c \in Nodes => mem[c].shift \in Int
            BY MemoryFields DEF Shifts
        <3> HIDE DEF c
        <3>5. c \in Nodes => mem[c].shift + (k + 1) = mem[t].shift
            BY <2>1, <3>1, <3>3, <3>4
        <3> QED BY <2>1, <3>1, <3>2, <3>3, <3>5 DEF S, Entries
    <2> QED BY <2>4, <2>5
<1>4. \A k \in 0 .. Height : k \in S
    <2> HIDE DEF S
    <2> QED BY <1>1, <1>2, <1>3, CountingUp
<1> QED BY <1>4

\* The last entry of a walk is no node.
LEMMA WalkEnds ==
    ASSUME NEW t \in Entries, NEW mem \in Memory, NEW hp, NEW z, NEW i \in Indices, NEW f,
           Rooted(t, mem, hp), Down(mem, hp, z), IsWalk(f, t, mem, i)
    PROVE  f[Height] \in Items \cup {NULL}
<1>1. Height \in Nat /\ Height \in 0 .. Height
    BY SizeAssumption
<1>2. f[Height] \in Nodes => /\ t \in Nodes /\ mem[f[Height]].shift + Height = mem[t].shift
    BY <1>1, WalkDown
<1>3. \A n \in Nodes : mem[n].shift \in 0 .. (Height - 1)
    BY MemoryFields DEF Shifts
<1>4. f[Height] \notin Nodes
    BY <1>1, <1>2, <1>3
<1> QED BY <1>1, <1>4, WalkDown

\* Beyond an entry that is no node a walk stays where it is.
LEMMA WalkStays ==
    ASSUME NEW t, NEW mem, NEW i, NEW f, IsWalk(f, t, mem, i),
           NEW k \in 0 .. Height, f[k] \notin Nodes
    PROVE  f[Height] = f[k]
<1> DEFINE S == {j \in 0 .. (Height - k) : f[k + j] = f[k]}
<1>1. Height \in Nat /\ k \in Int /\ Height - k \in Nat
    BY SizeAssumption
<1>2. 0 \in S
    BY <1>1
<1>3. ASSUME NEW j \in 0 .. (Height - k - 1), j \in S PROVE j + 1 \in S
    <2>1. /\ k + (j + 1) \in 1 .. Height /\ (k + (j + 1)) - 1 = k + j
          /\ j + 1 \in 0 .. (Height - k)
        BY <1>1
    <2>2. f[k + (j + 1)] = NextEntry(mem, f[k + j], i)
        BY <2>1 DEF IsWalk
    <2>3. f[k + j] = f[k]
        BY <1>3
    <2> QED BY <2>1, <2>2, <2>3 DEF NextEntry
<1>4. \A j \in 0 .. (Height - k) : j \in S
    <2> DEFINE h == Height - k
    <2>1. h \in Nat /\ 0 \in S /\ \A j \in 0 .. (h - 1) : j \in S => j + 1 \in S
        BY <1>1, <1>2, <1>3
    <2> HIDE DEF S, h
    <2>2. \A j \in 0 .. h : j \in S
        BY <2>1, CountingUp
    <2> QED BY <2>2 DEF h
<1>5. Height - k \in S /\ k + (Height - k) = Height
    BY <1>1, <1>4
<1> QED BY <1>5

\* Changes to memory that is not in the tree, and to tags, leave a walk as it is.
LEMMA WalkKept ==
    ASSUME NEW t \in Entries, NEW mem \in Memory, NEW new \in Memory, NEW hp, NEW z,
           NEW i \in Indices, NEW f,
           Rooted(t, mem, hp), Down(mem, hp, z), IsWalk(f, t, mem, i),
           \A n \in Nodes : hp[n] = "live" => /\ new[n].slots = mem[n].slots
                                              /\ new[n].shift = mem[n].shift
    PROVE  IsWalk(f, t, new, i)
<1> SUFFICES ASSUME NEW k \in 1 .. Height
             PROVE  f[k] = NextEntry(new, f[k - 1], i)
    BY DEF IsWalk
<1>1. k - 1 \in 0 .. Height
    BY SizeAssumption
<1>2. f[k - 1] \in Nodes => hp[f[k - 1]] = "live"
    BY <1>1, WalkDown
<1>3. f[k] = NextEntry(mem, f[k - 1], i)
    BY DEF IsWalk
<1> QED BY <1>2, <1>3 DEF NextEntry

\* The same of the model's walk and of what a lookup returns.
LEMMA WalkSame ==
    ASSUME StructInv, TypeOK', NEW i \in Indices, root'.rnode = root.rnode,
           \A n \in Nodes : heap[n] = "live" => /\ node'[n].slots = node[n].slots
                                                /\ node'[n].shift = node[n].shift
    PROVE  /\ Walk(i)' = Walk(i)
           /\ RootMaxIndex' = RootMaxIndex
           /\ Value(i)' = Value(i)
<1> DEFINE t == root.rnode
           z == Retiring
<1>1. /\ t \in Entries /\ node \in Memory /\ node' \in Memory /\ TypeOK
      /\ Rooted(t, node, heap) /\ Down(node, heap, z)
    BY DEF StructInv, TypeInv, TypeOK, Memory, ShapeInv, Shape
<1>2. IsWalk(Walk(i), t, node, i) /\ IsWalk(Walk(i)', t, node', i)
    BY <1>1, WalkIs
<1> DEFINE f == Walk(i)
           g == Walk(i)'
<1>3. IsWalk(f, t, node, i) /\ IsWalk(g, t, node', i)
    BY <1>2
<1>4. f = g
    <2> HIDE DEF f, g, t, z
    <2>1. IsWalk(f, t, node', i)
        BY <1>1, <1>3, WalkKept
    <2> QED BY <1>3, <2>1, WalkUnique
<1>5. RootMaxIndex' = RootMaxIndex
    BY <1>1 DEF RootMaxIndex, Rooted, ShiftMaxIndex
<1> QED BY <1>4, <1>5 DEF Value

-----------------------------------------------------------------------------
(* The digits of an index.                                                 *)

LEMMA Quotient ==
    ASSUME NEW a \in Nat, NEW b \in Nat \ {0}
    PROVE  \E q \in Nat, r \in 0 .. (b - 1) : a = b * q + r
<1> DEFINE q == a \div b
           r == a - b * q
<1>1. q \in Nat /\ r \in 0 .. (b - 1)
    OBVIOUS
<1>2. b * q \in Int /\ a \in Int
    BY <1>1
<1>3. a = b * q + r
    <2> DEFINE p == b * q
    <2>1. p \in Int
        BY <1>2
    <2> HIDE DEF p
    <2>2. a = p + (a - p)
        BY <2>1
    <2> QED BY <2>2 DEF p
<1> HIDE DEF q, r
<1> QED BY <1>1, <1>3

LEMMA QuotientIs ==
    ASSUME NEW b \in Nat \ {0}, NEW q \in Nat, NEW r \in 0 .. (b - 1)
    PROVE  (b * q + r) \div b = q /\ (b * q + r) % b = r
OBVIOUS

LEMMA ShiftMaxIndexType ==
    ASSUME NEW s \in Shifts PROVE ShiftMaxIndex(s) \in 0 .. MaxIndex
<1>1. s + 1 \in 0 .. Height
    BY SizeAssumption DEF Shifts
<1>2. MapSize ^ (s + 1) \in Nat \ {0}
    BY <1>1, SpanAssumption
<1> DEFINE q == MapSize ^ (s + 1) - 1
<1>3. q \in Nat
    BY <1>2
<1> HIDE DEF q
<1>4. q % (MaxIndex + 1) \in 0 .. MaxIndex
    BY <1>3, IndexAssumption
<1> QED BY <1>4 DEF ShiftMaxIndex, q

LEMMA RootMaxIndexType ==
    ASSUME TypeOK PROVE RootMaxIndex \in 0 .. MaxIndex
<1>1. root.rnode \in Nodes => node[root.rnode].shift \in Shifts
    BY DEF TypeOK, NodeType
<1>2. 0 \in 0 .. MaxIndex
    BY IndexAssumption
<1> QED BY <1>1, <1>2, ShiftMaxIndexType DEF RootMaxIndex

\* The largest index below a node, whether or not the index is too narrow for it.
LEMMA LargestIndex ==
    ASSUME NEW s \in Shifts
    PROVE  \A i \in 0 .. MaxIndex : i <= ShiftMaxIndex(s) <=> i < MapSize ^ (s + 1)
<1> DEFINE p == MapSize ^ (s + 1)
           v == MaxIndex + 1
<1>1. /\ p \in Nat \ {0} /\ v \in Nat \ {0} /\ MaxIndex \in Nat
      /\ p <= v \/ p % v = 0
    <2>1. s + 1 \in 0 .. Height
        BY SizeAssumption DEF Shifts
    <2> QED BY <2>1, SpanAssumption, WidthAssumption, IndexAssumption
<1> SUFFICES \A i \in 0 .. MaxIndex : i <= (p - 1) % v <=> i < p
    BY DEF ShiftMaxIndex
<1>2. v = MaxIndex + 1
    OBVIOUS
<1> HIDE DEF p, v
<1>3. CASE p <= v
    <2>1. (p - 1) % v = p - 1
        BY <1>1, <1>3
    <2> QED BY <1>1, <2>1
<1>4. CASE p > v
    <2>1. (p - 1) % v = v - 1
        <3>1. p \in Nat /\ p % v = 0 /\ p > 0
            BY <1>1, <1>4
        <3>2. \E q \in Nat, r \in 0 .. (v - 1) : p = v * q + r
            BY <1>1, Quotient
        <3>3. PICK q \in Nat, r \in 0 .. (v - 1) : p = v * q + r
            BY <3>2
        <3>4. r = 0 /\ q # 0
            BY <1>1, <3>1, <3>3, QuotientIs
        <3>5. p - 1 = v * (q - 1) + (v - 1) /\ q - 1 \in Nat /\ v - 1 \in 0 .. (v - 1)
            BY <1>1, <3>3, <3>4
        <3> QED BY <1>1, <3>5, QuotientIs
    <2> QED BY <1>1, <1>2, <1>4, <2>1
<1> QED BY <1>1, <1>3, <1>4

\* The highest digit of an index that needs a node of its height is not zero ...
LEMMA HighDigit ==
    ASSUME NEW s \in Shifts, NEW i \in 0 .. MaxIndex,
           i >= MapSize ^ s, i < MapSize ^ (s + 1)
    PROVE  Offset(s, i) # 0
<1> DEFINE p == MapSize ^ s
<1>1. /\ p \in Nat \ {0} /\ MapSize \in Nat \ {0} /\ i \in Nat
      /\ i >= p /\ i < MapSize * p
    BY SizeAssumption, SpanAssumption, PowerAssumption, IndexAssumption DEF Shifts
<1>2. Offset(s, i) = (i \div p) % MapSize
    BY DEF Offset
<1> HIDE DEF p
<1>3. i \div p \in Nat /\ i \div p >= 1 /\ i \div p < MapSize
    BY <1>1
<1> QED BY <1>1, <1>2, <1>3

\* ... and that of an index that does not is.
LEMMA LeadingZero ==
    ASSUME NEW s \in Shifts, NEW i \in 0 .. MaxIndex, i < MapSize ^ s
    PROVE  Offset(s, i) = 0
<1> DEFINE p == MapSize ^ s
<1>1. p \in Nat \ {0} /\ MapSize \in Nat \ {0} /\ i \in Nat /\ i < p
    BY SizeAssumption, SpanAssumption, IndexAssumption DEF Shifts
<1>2. Offset(s, i) = (i \div p) % MapSize
    BY DEF Offset
<1> HIDE DEF p
<1>3. i \div p = 0
    BY <1>1
<1> QED BY <1>1, <1>2, <1>3

\* The height radix_tree_extend chooses is needed: its top node gets the index in
\* a slot other than the one that takes the old tree.
LEMMA FitsHigh ==
    ASSUME TypeOK, NEW i \in Indices, NEW m \in Shifts, Fits(i, m), i > RootMaxIndex
    PROVE  Offset(m, i) # 0 /\ i >= MapSize ^ m
<1>1. i \in 0 .. MaxIndex /\ m \in Int /\ m >= 0
    BY IndexAssumption DEF Shifts
<1>2. i < MapSize ^ (m + 1)
    BY <1>1, LargestIndex DEF Fits
<1>3. i >= MapSize ^ m
    <2>1. CASE m = 0
        <3>1. i # 0
            <4>1. RootMaxIndex \in 0 .. MaxIndex /\ MaxIndex \in Nat
                BY RootMaxIndexType, IndexAssumption
            <4> QED BY <1>1, <4>1
        <3> QED BY <1>1, <2>1, <3>1, PowerAssumption
    <2>2. CASE m # 0
        <3>1. m - 1 \in Shifts /\ (m - 1) + 1 = m
            BY <1>1, <2>2, SizeAssumption DEF Shifts
        <3>2. ~(i <= ShiftMaxIndex(m - 1))
            <4> DEFINE s == node[root.rnode].shift
            <4>1. root.rnode \in Nodes => s \in Shifts
                BY DEF TypeOK, NodeType
            <4>2. \A j \in Shifts : ShiftMaxIndex(j) \in Int
                BY ShiftMaxIndexType
            <4>3. CASE m - 1 >= RootShift
                <5>1. RootShift \in Int
                    BY RootShiftType, SizeAssumption
                <5>2. m - 1 \in RootShift .. (m - 1)
                    BY <1>1, <4>3, <5>1
                <5> QED BY <1>1, <3>1, <4>2, <5>2 DEF Fits
            <4>4. CASE ~(m - 1 >= RootShift)
                <5>1. RootShift = m /\ RootShift \in Int
                    BY <1>1, <4>4, RootShiftType, SizeAssumption DEF Fits
                <5>2. root.rnode \in Nodes /\ s = m - 1
                    BY <1>1, <2>2, <4>1, <5>1 DEF RootShift, Shifts
                <5> QED BY <1>1, <3>1, <4>2, <5>2 DEF RootMaxIndex
            <4> QED BY <4>3, <4>4
        <3>3. ~(i < MapSize ^ m)
            BY <1>1, <3>1, <3>2, LargestIndex
        <3>4. MapSize ^ m \in Int
            BY SpanAssumption, SizeAssumption DEF Shifts
        <3> QED BY <1>1, <3>3, <3>4
    <2> QED BY <2>1, <2>2
<1> QED BY <1>1, <1>2, <1>3, HighDigit

-----------------------------------------------------------------------------
(* No empty node and no needless level.  Compact says it between calls;    *)
(* the inductive invariant says which node may be empty, and the top be    *)
(* needless, on the way: the one the writer stands at, which an insertion  *)
(* is about to fill - in a slot other than the first, if the node is new - *)
(* and a deletion about to drop.                                           *)

Growing == {"extend", "create"}
Pruning == {"prune", "shrink", "retire"}

NoneEmpty ==
    \A n \in Nodes :
      heap[n] = "live" /\ node[n].count = 0 =>
        n = w.cur /\ w.pc \in {"create", "prune", "retire"}

\* The top an insertion finds needless, or empty, gets the index beside slot 0.
CreateTidy ==
    w.pc = "create" =>
      /\ w.cur = NULL /\ root.rnode = NULL /\ w.shift > 0 =>
           Offset(w.shift - 1, w.op.index) # 0
      /\ root.rnode \in Nodes /\ (Shrinkable(root.rnode) \/ node[root.rnode].count = 0) =>
           /\ Offset(node[root.rnode].shift, w.op.index) # 0
           /\ w.cur \in {NULL, root.rnode}
      /\ root.rnode \in Nodes /\ w.cur = root.rnode =>
           w.off = Offset(node[root.rnode].shift, w.op.index)

TopNeeded ==
    /\ w.pc \notin Growing \cup Pruning => ~Shrinkable(root.rnode)
    /\ w.pc = "extend" => Offset(w.top, w.op.index) # 0
    /\ w.pc = "prune" /\ root.rnode # w.cur => ~Shrinkable(root.rnode)

Tidy == NoneEmpty /\ CreateTidy /\ TopNeeded
TidyInv == ~oom => Tidy

\* Steps that leave counts and slots alone.
LEMMA QuietTidy ==
    ASSUME StructInv, NoneEmpty, ~Shrinkable(root.rnode), SameShape(node', node),
           heap' = heap, root'.rnode = root.rnode, w.pc \notin Growing \cup Pruning,
           w'.pc \notin Growing \cup Pruning
    PROVE  Tidy'
<1>1. NoneEmpty'
    BY DEF NoneEmpty, SameShape, Growing, Pruning
<1>3. ~Shrinkable(root.rnode)'
    <2>1. CASE root.rnode \notin Nodes
        BY <2>1 DEF Shrinkable
    <2>2. CASE root.rnode \in Nodes
        BY <2>2 DEF Shrinkable, SameShape
    <2> QED BY <2>1, <2>2
<1> QED BY <1>1, <1>3 DEF Tidy, CreateTidy, TopNeeded, Growing, Pruning

\* What the counts say of the slots.
LEMMA CountedSlots ==
    ASSUME StructInv, w.pc # "retire", NEW n \in Nodes, heap[n] = "live"
    PROVE  /\ node[n].count \in Nat
           /\ node[n].count = 0 => \A o \in Slots : node[n].slots[o] = NULL
           /\ node[n].count = 1 /\ node[n].slots[0] # NULL =>
                \A o \in Slots \ {0} : node[n].slots[o] = NULL
<1>1. /\ node[n].slots \in [Slots -> Entries] /\ 0 \in Slots /\ NULL \notin Nodes
    BY MemoryFields, SameMemory, EntryAssumption, SizeAssumption DEF StructInv, Slots
<1>2. node[n].count = CountIn(node[n].slots, Present)
    BY <1>1 DEF StructInv, ShapeInv, Shape, Counted, Retiring
<1>3. \A o \in Slots : node[n].slots[o] = NULL <=> node[n].slots[o] \notin Present
    BY <1>1, EntryAssumption DEF Present, Entries
<1> DEFINE f == node[n].slots
<1>4. f \in [Slots -> Entries] /\ node[n].count = CountIn(f, Present)
    BY <1>1, <1>2
<1>5. \A o \in Slots : f[o] = NULL <=> f[o] \notin Present
    BY <1>3
<1> HIDE DEF f
<1>6. node[n].count \in Nat
    BY <1>4, CountInType
<1>7. node[n].count = 0 => \A o \in Slots : f[o] = NULL
    BY <1>4, <1>5, CountZero
<1>8. node[n].count = 1 /\ f[0] # NULL => \A o \in Slots \ {0} : f[o] = NULL
    BY <1>1, <1>4, <1>5, CountOne
<1> QED BY <1>6, <1>7, <1>8 DEF f

LEMMA ShrinkableSame ==
    ASSUME root'.rnode = root.rnode,
           root.rnode \in Nodes => /\ node'[root.rnode].count = node[root.rnode].count
                                   /\ node'[root.rnode].slots = node[root.rnode].slots
                                   /\ node'[root.rnode].shift = node[root.rnode].shift
    PROVE  Shrinkable(root.rnode)' = Shrinkable(root.rnode)
<1>1. CASE root.rnode \notin Nodes
    BY <1>1 DEF Shrinkable
<1>2. CASE root.rnode \in Nodes
    BY <1>2 DEF Shrinkable
<1> QED BY <1>1, <1>2

\* The writer's place and a step that changes only that.
LEMMA InvokeTidy ==
    ASSUME StructInv, Tidy, NEW o \in Calls, Invoke(o) PROVE Tidy'
<1>1. w.pc = "idle" /\ w.cur = NULL /\ w \in WriterType
    BY DEF Invoke, StructInv, TypeInv, TypeOK, CallInv, CursorInv
<1>2. o.kind \in {"insert", "delete", "replace", "tag_set", "tag_clear"}
    BY DEF Calls, Inserts, Deletes, Replaces, TagSets, TagClears
<1>3. w'.pc = o.kind /\ UNCHANGED <<root, node, heap>>
    BY <1>1 DEF Invoke, WriterType
<1>4. w.pc \notin Growing \cup Pruning /\ w'.pc \notin Growing \cup Pruning
    BY <1>1, <1>2, <1>3 DEF Growing, Pruning
<1>5. NoneEmpty /\ ~Shrinkable(root.rnode) /\ SameShape(node', node)
    BY <1>3, <1>4, SameMemory DEF Tidy, TopNeeded, StructInv
<1> QED BY <1>3, <1>4, <1>5, QuietTidy

LEMMA InsertStartTidy == ASSUME StructInv, Tidy, InsertStart PROVE Tidy'
<1>1. /\ w.pc = "insert" /\ w.cur = NULL /\ w \in WriterType /\ TypeOK
      /\ UNCHANGED <<root, node, heap>> /\ w.op.index \in Indices
    BY InsertCall DEF InsertStart, StructInv, TypeInv, TypeOK, CursorInv, tree
<1>2. /\ \A n \in Nodes : heap[n] = "live" => node[n].count # 0
      /\ ~Shrinkable(root.rnode) /\ NULL \notin Nodes
    BY <1>1, EntryAssumption DEF Tidy, NoneEmpty, TopNeeded, Growing, Pruning
<1>3. root.rnode \in Nodes => heap[root.rnode] = "live"
    BY DEF StructInv, ShapeInv, Shape, Rooted
<1>4. NoneEmpty' /\ Shrinkable(root.rnode)' = Shrinkable(root.rnode)
    BY <1>1, <1>2 DEF NoneEmpty, Shrinkable
<1>5. CASE w.op.index <= RootMaxIndex
    <2>1. w'.pc = "create" /\ w'.shift = RootShift /\ w'.cur = NULL /\ w'.op = w.op
        BY <1>1, <1>5 DEF InsertStart, Goto, WriterType
    <2>2. root.rnode = NULL => w'.shift = 0
        BY <1>2, <2>1 DEF RootShift
    <2>3. CreateTidy'
        BY <1>1, <1>2, <1>3, <1>4, <2>1, <2>2 DEF CreateTidy
    <2> QED BY <1>4, <2>1, <2>3 DEF Tidy, TopNeeded, Growing, Pruning
<1>6. CASE ~(w.op.index <= RootMaxIndex)
    <2>1. PICK m \in Shifts :
             /\ Fits(w.op.index, m)
             /\ Goto(IF root.rnode = NULL
                     THEN [w EXCEPT !.pc = "create", !.shift = m + 1]
                     ELSE [w EXCEPT !.pc = "extend", !.shift = RootShift, !.top = m])
        BY <1>6 DEF InsertStart
    <2>2. Offset(m, w.op.index) # 0
        <3>1. w.op.index > RootMaxIndex
            <4>1. RootMaxIndex \in 0 .. MaxIndex /\ MaxIndex \in Nat
                BY <1>1, RootMaxIndexType, IndexAssumption
            <4>2. w.op.index \in 0 .. MaxIndex
                BY <1>1, IndexAssumption, Zenon
            <4> QED BY <1>6, <4>1, <4>2
        <3> QED BY <1>1, <2>1, <3>1, FitsHigh
    <2>3. CASE root.rnode = NULL
        <3>1. w'.pc = "create" /\ w'.shift = m + 1 /\ w'.op = w.op /\ w'.shift - 1 = m
            BY <1>1, <2>1, <2>3, SizeAssumption DEF Goto, WriterType, Shifts
        <3>2. CreateTidy'
            BY <1>1, <1>2, <2>2, <2>3, <3>1 DEF CreateTidy
        <3> QED BY <1>4, <3>1, <3>2 DEF Tidy, TopNeeded, Growing, Pruning
    <2>4. CASE root.rnode # NULL
        <3>1. w'.pc = "extend" /\ w'.top = m /\ w'.op = w.op
            BY <1>1, <2>1, <2>4 DEF Goto, WriterType
        <3> QED BY <1>4, <2>2, <3>1 DEF Tidy, CreateTidy, TopNeeded, Growing, Pruning
    <2> QED BY <2>3, <2>4
<1> QED BY <1>5, <1>6

\* A node that goes on top has one entry, and the index beside it.
LEMMA ExtendTidy ==
    ASSUME StructInv, Tidy, Extend, Leftovers = {NULL} PROVE Tidy'
<1>1. /\ w.pc = "extend" /\ w \in WriterType /\ TypeOK /\ w.cur = NULL /\ w.shift <= w.top
      /\ NULL \notin Nodes /\ w.shift \in Int /\ w.top \in Int
    BY EntryAssumption, WriterFields, SizeAssumption
       DEF Extend, StructInv, TypeInv, TypeOK, CallInv, CursorInv, Shifts
<1>2. /\ w'.pc = IF w.shift < w.top THEN "extend" ELSE "create"
      /\ w'.cur = NULL /\ w'.top = w.top /\ w'.op = w.op
    BY <1>1 DEF Extend, Goto, WriterType
<1>3. PICK n \in Nodes, left \in [Slots -> Leftovers] :
         /\ heap[n] = "free"
         /\ node' = [Reparented(root.rnode, n) EXCEPT ![n] = NewTop(left)]
         /\ heap' = [heap EXCEPT ![n] = "live"]
         /\ root' = [root EXCEPT !.rnode = n]
    BY DEF Extend, Free
<1>4. /\ root'.rnode = n /\ \A m \in Nodes : heap'[m] = IF m = n THEN "live" ELSE heap[m]
    BY <1>1, <1>3 DEF TypeOK
<1>5. node'[n] = NewTop(left) /\ \A m \in Nodes \ {n} : node'[m] = Reparented(root.rnode, n)[m]
    <2>1. Reparented(root.rnode, n) \in Memory
        BY <1>1, ReparentedType
    <2> QED BY <1>3, <2>1 DEF Memory
<1>6. node'[n].count = 1 /\ node'[n].shift = w.shift
    BY <1>1, <1>5, NewTopFields
<1>7. \A m \in Nodes \ {n} : node'[m].count = node[m].count
    BY <1>1, <1>5 DEF Reparented, TypeOK, NodeType
<1>8. NoneEmpty'
    BY <1>1, <1>4, <1>6, <1>7 DEF Tidy, NoneEmpty
<1>9. Offset(w.top, w.op.index) # 0
    BY <1>1 DEF Tidy, TopNeeded
<1>10. CASE w.shift < w.top
    BY <1>2, <1>8, <1>9, <1>10 DEF Tidy, CreateTidy, TopNeeded, Growing, Pruning
<1>11. CASE ~(w.shift < w.top)
    <2>1. w'.pc = "create" /\ w.shift = w.top
        BY <1>1, <1>2, <1>11
    <2>2. CreateTidy'
        BY <1>1, <1>2, <1>4, <1>6, <1>9, <2>1 DEF CreateTidy
    <2> QED BY <1>8, <2>1, <2>2 DEF Tidy, TopNeeded, Growing, Pruning
<1> QED BY <1>10, <1>11

\* Through a needless top the way down ends in an empty slot.
LEMMA DescendTidy == ASSUME StructInv, Tidy, Descend PROVE Tidy'
<1>1. /\ w.pc = "create" /\ w \in WriterType /\ TypeOK /\ AtSlot \in Nodes /\ w.shift > 0
      /\ UNCHANGED <<root, node, heap>> /\ NULL \notin Nodes
    BY EntryAssumption DEF Descend, StructInv, TypeInv, TypeOK, tree
<1>2. /\ w'.pc = "create" /\ w'.cur = AtSlot /\ w'.op = w.op
      /\ w'.off = Offset(node[AtSlot].shift, w.op.index)
    BY <1>1 DEF Descend, Goto, WriterType
<1>3. heap[AtSlot] = "live" /\ (root.rnode \in Nodes => heap[root.rnode] = "live")
    BY <1>1, AtSlotEntry DEF StructInv, ShapeInv, Shape, Rooted
<1>4. w.cur # NULL => /\ w.cur \in Nodes /\ w.off \in Slots /\ heap[w.cur] = "live"
                      /\ AtSlot = node[w.cur].slots[w.off]
    BY <1>1, WriterFields DEF StructInv, CursorInv, AtSlot
<1>5. w.cur = NULL => AtSlot = root.rnode
    BY DEF AtSlot
<1>6. w.cur # NULL => node[w.cur].count # 0
    BY <1>1, <1>4, CountedSlots
<1>7. w.cur # NULL /\ w.cur = root.rnode =>
        ~(Shrinkable(root.rnode) /\ Offset(node[root.rnode].shift, w.op.index) # 0)
    <2> SUFFICES ASSUME w.cur # NULL, w.cur = root.rnode, Shrinkable(root.rnode),
                        Offset(node[root.rnode].shift, w.op.index) # 0
                 PROVE  FALSE
        OBVIOUS
    <2>1. w.off # 0
        BY <1>1, <1>4 DEF Tidy, CreateTidy
    <2>2. node[w.cur].count = 1 /\ node[w.cur].slots[0] # NULL
        BY DEF Shrinkable
    <2>3. node[w.cur].slots[w.off] = NULL
        BY <1>1, <1>4, <2>1, <2>2, CountedSlots
    <2> QED BY <1>1, <1>4, <2>3
<1>8. NoneEmpty'
    BY <1>1, <1>4, <1>6 DEF Tidy, NoneEmpty
<1>9. Shrinkable(root.rnode)' = Shrinkable(root.rnode)
    BY <1>1, ShrinkableSame
<1>10. CreateTidy'
    <2>2. root.rnode \in Nodes /\ (Shrinkable(root.rnode) \/ node[root.rnode].count = 0) =>
             /\ Offset(node[root.rnode].shift, w.op.index) # 0
             /\ AtSlot = root.rnode
        <3> SUFFICES ASSUME root.rnode \in Nodes,
                            Shrinkable(root.rnode) \/ node[root.rnode].count = 0
                     PROVE  /\ Offset(node[root.rnode].shift, w.op.index) # 0
                            /\ AtSlot = root.rnode
            OBVIOUS
        <3>1. /\ Offset(node[root.rnode].shift, w.op.index) # 0
              /\ w.cur \in {NULL, root.rnode}
            BY <1>1 DEF Tidy, CreateTidy
        <3>2. w.cur = NULL
            BY <1>6, <1>7, <3>1
        <3> QED BY <1>5, <3>1, <3>2
    <2> HIDE DEF AtSlot
    <2> QED BY <1>1, <1>2, <1>9, <2>2 DEF CreateTidy
<1> QED BY <1>2, <1>8, <1>10 DEF Tidy, TopNeeded, Growing, Pruning

\* A child that is linked is not the only entry of a top that gets it beside slot 0.
LEMMA CreateChildTidy ==
    ASSUME StructInv, Tidy, CreateChild, Leftovers = {NULL} PROVE Tidy'
<1> DEFINE c == w.cur
           o == w.off
<1>1. /\ w.pc = "create" /\ w \in WriterType /\ TypeOK /\ w.shift > 0 /\ AtSlot = NULL
      /\ c \in Nodes \cup {NULL} /\ o \in Slots /\ NULL \notin Nodes /\ NULL \notin Items
    BY WriterFields, EntryAssumption DEF CreateChild, StructInv, TypeInv, TypeOK
<1>2. PICK n \in Nodes, left \in [Slots -> Leftovers] :
         /\ heap[n] = "free"
         /\ node' = [Stored(node, c, o, n, 1, 0)
                        EXCEPT ![n] = Fresh(w.shift - 1, o, 0, c, left)]
         /\ heap' = [heap EXCEPT ![n] = "live"]
         /\ root' = RootStored(c, n)
         /\ w' = [w EXCEPT !.shift = @ - 1, !.cur = n,
                           !.off = Offset(w.shift - 1, w.op.index)]
    BY DEF CreateChild, Free, Goto
<1>3. /\ w'.pc = "create" /\ w'.cur = n /\ w'.op = w.op
      /\ w'.off = Offset(w.shift - 1, w.op.index)
    BY <1>1, <1>2 DEF WriterType
<1>4. /\ node \in Memory /\ SameShape(node, node)
      /\ \A m \in Nodes : heap'[m] = IF m = n THEN "live" ELSE heap[m]
      /\ root'.rnode = IF c = NULL THEN n ELSE root.rnode
    BY <1>1, <1>2, SameMemory DEF StructInv, TypeInv, TypeOK, Memory, RootStored
<1> DEFINE base == Stored(node, c, o, n, 1, 0)
<1>5. base \in Memory /\ StoreOf(base, node, c, o, n, 1, 0)
    <2>1. 1 \in Int /\ 0 \in Int /\ n \in Entries
        BY DEF Entries
    <2> HIDE DEF c, o
    <2> QED BY <1>1, <1>4, <2>1, StoredType, StoredStores
<1>6. node'[n] = Fresh(w.shift - 1, o, 0, c, left) /\ \A m \in Nodes \ {n} : node'[m] = base[m]
    <2>1. node' = [base EXCEPT ![n] = Fresh(w.shift - 1, o, 0, c, left)]
        BY <1>2
    <2> HIDE DEF base
    <2> QED BY <1>5, <2>1 DEF Memory
<1>7. /\ node'[n].count = 0 /\ node'[n].shift = w.shift - 1
      /\ \A q \in Slots : node'[n].slots[q] = NULL
    BY <1>6, ZeroedSlots DEF Fresh, Blank
<1>8. c # NULL => /\ c \in Nodes /\ c # n /\ heap[c] = "live" /\ node[c].count \in Nat
                  /\ node'[c].count = node[c].count + 1 /\ node'[c].shift = node[c].shift
                  /\ \A q \in Slots : node'[c].slots[q] = IF q = o THEN n ELSE node[c].slots[q]
    <2> SUFFICES ASSUME c # NULL
                 PROVE  /\ c \in Nodes /\ c # n /\ heap[c] = "live" /\ node[c].count \in Nat
                        /\ node'[c].count = node[c].count + 1 /\ node'[c].shift = node[c].shift
                        /\ \A q \in Slots :
                             node'[c].slots[q] = IF q = o THEN n ELSE node[c].slots[q]
        BY Zenon
    <2>1. c \in Nodes /\ c # n /\ heap[c] = "live"
        BY <1>1, <1>2 DEF StructInv, CursorInv
    <2>2. node[c].count \in Nat /\ node'[c] = base[c]
        BY <1>1, <1>6, <2>1, CountedSlots
    <2> HIDE DEF base, c, o
    <2> QED BY <1>5, <2>1, <2>2 DEF StoreOf
<1>9. \A m \in Nodes \ {n, c} : /\ node'[m].count = node[m].count
                                /\ node'[m].slots = node[m].slots
                                /\ node'[m].shift = node[m].shift
    <2> HIDE DEF base, c, o
    <2> QED BY <1>5, <1>6 DEF StoreOf
<1>10. NoneEmpty'
    <2> SUFFICES ASSUME NEW m \in Nodes, heap'[m] = "live", node'[m].count = 0, m # n
                 PROVE  FALSE
        BY <1>3 DEF NoneEmpty
    <2>1. CASE m = c
        BY <1>1, <1>8, <2>1
    <2>2. CASE m # c
        BY <1>1, <1>4, <1>9, <2>2 DEF Tidy, NoneEmpty
    <2> QED BY <2>1, <2>2
<1>11. CreateTidy'
    <2>1. w'.cur # NULL
        BY <1>1, <1>3
    <2>2. CASE c = NULL
        <3>1. root'.rnode = n /\ root.rnode = NULL
            BY <1>1, <1>4, <2>2 DEF AtSlot
        <3>2. Offset(w.shift - 1, w.op.index) # 0
            BY <1>1, <2>2, <3>1 DEF Tidy, CreateTidy
        <3> QED BY <1>3, <1>7, <2>1, <3>1, <3>2 DEF CreateTidy
    <2>3. CASE c # NULL
        <3> DEFINE t == root.rnode
        <3>1. root'.rnode = t /\ (t \in Nodes => heap[t] = "live" /\ t # n)
            BY <1>2, <1>4, <2>3 DEF StructInv, ShapeInv, Shape, Rooted
        <3>2. ASSUME t \in Nodes PROVE ~Shrinkable(root.rnode)' /\ node'[t].count # 0
            <4>1. CASE t = c
                <5>1. 0 \in Slots /\ w.off = Offset(node[t].shift, w.op.index)
                    BY <1>1, <3>2, <4>1, SizeAssumption DEF Tidy, CreateTidy, Slots
                <5>2. node[t].count = 0 => node'[t].slots[0] = NULL
                    <6> SUFFICES ASSUME node[t].count = 0 PROVE node'[t].slots[0] = NULL
                        OBVIOUS
                    <6>1. o # 0
                        BY <1>1, <3>2, <5>1 DEF Tidy, CreateTidy
                    <6>2. node[t].slots[0] = NULL
                        BY <1>1, <3>1, <3>2, <5>1, CountedSlots
                    <6> QED BY <1>8, <2>3, <4>1, <5>1, <6>1, <6>2
                <5>3. node'[t].count = node[t].count + 1 /\ node[t].count \in Nat
                    BY <1>8, <2>3, <4>1
                <5> HIDE DEF t
                <5>4. ~(node'[t].count = 1 /\ node'[t].slots[0] # NULL) /\ node'[t].count # 0
                    BY <5>2, <5>3
                <5> QED BY <3>1, <5>4 DEF Shrinkable, t
            <4>2. CASE t # c
                <5>1. ~Shrinkable(t) /\ node[t].count # 0
                    BY <1>1, <2>3, <3>2, <4>2 DEF Tidy, CreateTidy
                <5>2. /\ node'[t].count = node[t].count /\ node'[t].slots = node[t].slots
                      /\ node'[t].shift = node[t].shift
                    BY <1>9, <3>1, <3>2, <4>2
                <5> QED BY <3>1, <5>1, <5>2, ShrinkableSame
            <4> QED BY <4>1, <4>2
        <3>3. t # n
            BY <1>2, <3>1
        <3> QED BY <1>3, <2>1, <3>1, <3>2, <3>3 DEF CreateTidy
    <2> QED BY <2>2, <2>3
<1> QED BY <1>3, <1>10, <1>11 DEF Tidy, TopNeeded, Growing, Pruning

LEMMA InsertEntryTidy == ASSUME StructInv, Tidy, TypeInv', InsertEntry PROVE Tidy'
<1>1. /\ w.pc = "create" /\ UNCHANGED heap
      /\ w.shift = 0 \/ AtSlot \in Items
      /\ NULL \notin Nodes /\ NULL \notin Items /\ 0 \in Slots
    BY EntryAssumption, SizeAssumption DEF InsertEntry, tree, Slots
<1>2. w.cur # NULL => /\ w.cur \in Nodes /\ w.off \in Slots /\ heap[w.cur] = "live"
                      /\ AtSlot = node[w.cur].slots[w.off] /\ node[w.cur].count \in Nat
    BY <1>1, WriterFields, CountedSlots DEF StructInv, CursorInv, AtSlot
<1>3. w.cur = NULL => AtSlot = root.rnode
    BY DEF AtSlot
<1>4. root.rnode \in Nodes => heap[root.rnode] = "live"
    BY DEF StructInv, ShapeInv, Shape, Rooted
<1>5. w.cur # NULL /\ w.cur = root.rnode =>
        w.off = Offset(node[root.rnode].shift, w.op.index)
    BY <1>1, <1>2 DEF Tidy, CreateTidy
<1>6. root.rnode \in Nodes /\ (Shrinkable(root.rnode) \/ node[root.rnode].count = 0) =>
        /\ Offset(node[root.rnode].shift, w.op.index) # 0
        /\ w.cur \in {NULL, root.rnode}
    BY <1>1 DEF Tidy, CreateTidy
<1>7. w'.pc = "idle"
    BY DEF InsertEntry, Return, Idle
<1>8. SUFFICES NoneEmpty' /\ ~Shrinkable(root.rnode)'
    BY <1>7 DEF Tidy, CreateTidy, TopNeeded
<1>9. CASE AtSlot # NULL
    <2>1. UNCHANGED <<root, node>>
        BY <1>9 DEF InsertEntry, tree
    <2>2. w.cur # NULL => node[w.cur].count # 0
        BY <1>1, <1>2, <1>9, CountedSlots
    <2>3. NoneEmpty'
        BY <1>1, <1>2, <2>1, <2>2 DEF Tidy, NoneEmpty
    <2>4. ~Shrinkable(root.rnode)
        <3> SUFFICES ASSUME Shrinkable(root.rnode) PROVE FALSE
            OBVIOUS
        <3>1. root.rnode \in Nodes /\ node[root.rnode].count = 1 /\ node[root.rnode].slots[0] # NULL
            BY DEF Shrinkable
        <3>2. CASE w.cur = NULL
            <4>1. AtSlot \in Nodes /\ w.shift = RootShift /\ AtSlot \notin Items
                BY <1>1, <1>3, <3>1, <3>2, EntryAssumption DEF StructInv, CursorInv
            <4>2. RootShift # 0
                <5>1. node[root.rnode].shift \in Nat
                    BY <3>1, SizeAssumption DEF StructInv, TypeInv, TypeOK, NodeType, Shifts
                <5> QED BY <3>1, <5>1 DEF RootShift
            <4> QED BY <1>1, <4>1, <4>2
        <3>3. CASE w.cur # NULL
            <4>1. w.cur = root.rnode /\ w.off # 0
                BY <1>5, <1>6, <3>1, <3>3
            <4>2. AtSlot = NULL
                BY <1>1, <1>2, <3>1, <3>3, <4>1, CountedSlots
            <4> QED BY <1>9, <4>2
        <3> QED BY <3>2, <3>3
    <2> QED BY <2>1, <2>3, <2>4, ShrinkableSame
<1>10. CASE AtSlot = NULL
    <2> DEFINE e == w.op.item
               dx == IsExceptional(e)
    <2>1. /\ node' = Stored(node, w.cur, w.off, e, 1, dx) /\ root' = RootStored(w.cur, e)
          /\ w.shift = 0
        BY <1>1, <1>10 DEF InsertEntry
    <2>2. e \in Items /\ e \in Entries /\ dx \in Int /\ 1 \in Int /\ e \notin Nodes
        BY <1>1, InsertCall, IsExceptionalType, EntryAssumption DEF StructInv, Entries
    <2>3. /\ w.cur \in Nodes \cup {NULL} /\ w.off \in Slots
          /\ node \in Memory /\ SameShape(node, node)
        BY WriterFields, SameMemory DEF StructInv
    <2>4. root'.rnode = IF w.cur = NULL THEN e ELSE root.rnode
        BY <2>1 DEF RootStored, StructInv, TypeInv, TypeOK
    <2> HIDE DEF e, dx
    <2>5. StoreOf(node', node, w.cur, w.off, e, 1, dx)
        BY <2>1, <2>2, <2>3, StoredStores
    <2>6. \A m \in Nodes : node'[m].count = IF m = w.cur THEN node[m].count + 1 ELSE node[m].count
        BY <2>5 DEF StoreOf
    <2>7. NoneEmpty'
        <3> SUFFICES ASSUME NEW m \in Nodes, heap[m] = "live", node'[m].count = 0 PROVE FALSE
            BY <1>1 DEF NoneEmpty
        <3>1. m # w.cur
            BY <1>1, <1>2, <2>6
        <3> QED BY <1>1, <2>6, <3>1 DEF Tidy, NoneEmpty
    <2>8. ~Shrinkable(root.rnode)'
        <3>1. CASE w.cur = NULL
            BY <2>2, <2>4, <3>1 DEF Shrinkable
        <3>2. CASE w.cur # NULL /\ root.rnode # w.cur
            <4>1. /\ ~Shrinkable(root.rnode) /\ root'.rnode = root.rnode
                BY <1>6, <2>4, <3>2 DEF Shrinkable
            <4>2. root.rnode \in Nodes => /\ node'[root.rnode].count = node[root.rnode].count
                                          /\ node'[root.rnode].slots = node[root.rnode].slots
                                          /\ node'[root.rnode].shift = node[root.rnode].shift
                BY <2>5, <3>2 DEF StoreOf
            <4> QED BY <4>1, <4>2, ShrinkableSame
        <3>3. CASE w.cur # NULL /\ root.rnode = w.cur
            <4> DEFINE t == root.rnode
            <4>1. /\ root'.rnode = t /\ t \in Nodes /\ node[t].count \in Nat /\ heap[t] = "live"
                  /\ node'[t].count = node[t].count + 1
                BY <1>2, <1>4, <2>4, <2>6, <3>3
            <4>2. node[t].count = 0 => node'[t].slots[0] = NULL
                <5> SUFFICES ASSUME node[t].count = 0 PROVE node'[t].slots[0] = NULL
                    OBVIOUS
                <5>1. w.off # 0
                    BY <1>5, <1>6, <3>3, <4>1
                <5>2. node[t].slots[0] = NULL
                    BY <1>1, <4>1, CountedSlots
                <5> QED BY <1>1, <2>5, <3>3, <4>1, <5>1, <5>2 DEF StoreOf
            <4> HIDE DEF t
            <4>3. ~(node'[t].count = 1 /\ node'[t].slots[0] # NULL)
                BY <4>1, <4>2
            <4> QED BY <4>1, <4>3 DEF Shrinkable
        <3> QED BY <3>1, <3>2, <3>3
    <2> QED BY <2>7, <2>8
<1> QED BY <1>9, <1>10

\* The steps of a lookup, and tags: counts and slots stay.
LEMMA FindTidy ==
    ASSUME StructInv, Tidy, TypeInv', FindStart \/ FindStep \/ TagSet \/ TagClear
    PROVE  Tidy'
<1>1. /\ w.pc \in {"delete", "replace", "tag_clear", "tag_set", "find"} /\ heap' = heap
      /\ w \in WriterType
    BY DEF FindStart, FindStep, TagSet, TagClear, Found, tree, StructInv, TypeInv, TypeOK
<1>2. w'.pc \in {"idle", "find"}
    <2>1. CASE FindStep
        <3>1. \E o : w' = [w EXCEPT !.cur = AtSlot, !.off = o]
            BY <2>1 DEF FindStep, Goto
        <3>2. w.pc = "find"
            BY <2>1 DEF FindStep
        <3> QED BY <1>1, <3>1, <3>2 DEF WriterType
    <2>2. CASE FindStart
        <3>1. w' = Idle \/ w' = [w EXCEPT !.pc = "find"]
            BY <2>2 DEF FindStart, Return, Goto
        <3> QED BY <1>1, <3>1 DEF WriterType, Idle
    <2>3. CASE TagSet \/ TagClear
        <3>1. w' = Idle
            BY <2>3 DEF TagSet, TagClear, Return
        <3> QED BY <3>1 DEF Idle
    <2> QED BY <2>1, <2>2, <2>3
<1>3. root'.rnode = root.rnode
    BY DEF FindStart, FindStep, TagSet, TagClear, tree, StructInv, TypeInv, TypeOK
<1>4. SameShape(node', node)
    <2>1. CASE node' = node
        BY <2>1 DEF SameShape
    <2>2. CASE FindStep
        BY <2>2 DEF FindStep, SameShape, StructInv, TypeInv, TypeOK, NodeType
    <2>3. CASE node' = TagsCleared(w.cur, w.off, {w.op.tag})
        BY <2>3, TagsClearedShape DEF StructInv, TypeInv
    <2> QED BY <2>1, <2>2, <2>3 DEF FindStart, TagSet, TagClear, tree
<1>5. w.pc \notin Growing \cup Pruning /\ w'.pc \notin Growing \cup Pruning
    BY <1>1, <1>2 DEF Growing, Pruning
<1> QED BY <1>1, <1>3, <1>4, <1>5, QuietTidy DEF Tidy, TopNeeded

\* After the store of a deletion or replacement only its node may be empty.
LEMMA StoreTidy ==
    ASSUME StructInv, Tidy, w.pc = "find", heap' = heap, NEW r, PruneFrom(r),
           NEW e \in Items \cup {NULL}, NEW dc \in Int, NEW dx \in Int,
           StoreOf(node', node, w.cur, w.off, e, dc, dx),
           root'.rnode = IF w.cur = NULL THEN e ELSE root.rnode
    PROVE  Tidy'
<1>1. NULL \notin Nodes /\ e \notin Nodes /\ w \in WriterType
    BY EntryAssumption DEF StructInv, TypeInv, TypeOK
<1>2. /\ \A m \in Nodes : heap[m] = "live" => node[m].count # 0
      /\ ~Shrinkable(root.rnode)
    BY DEF Tidy, NoneEmpty, TopNeeded, Growing, Pruning
<1>3. \A m \in Nodes : m # w.cur => /\ node'[m].count = node[m].count
                                    /\ node'[m].slots = node[m].slots
                                    /\ node'[m].shift = node[m].shift
    BY DEF StoreOf
<1>4. CASE w.cur = NULL
    <2>1. w'.pc = "idle"
        BY <1>4 DEF PruneFrom, Return, Idle
    <2>2. NoneEmpty'
        BY <1>1, <1>2, <1>3, <1>4 DEF NoneEmpty
    <2>3. ~Shrinkable(root.rnode)'
        BY <1>1, <1>4 DEF Shrinkable
    <2> QED BY <2>1, <2>2, <2>3 DEF Tidy, CreateTidy, TopNeeded
<1>5. CASE w.cur # NULL
    <2>1. w'.pc = "prune" /\ w'.cur = w.cur
        BY <1>1, <1>5 DEF PruneFrom, Goto, WriterType
    <2>2. NoneEmpty'
        BY <1>2, <1>3, <2>1 DEF NoneEmpty
    <2>3. root.rnode # w.cur => ~Shrinkable(root.rnode)'
        BY <1>2, <1>3, <1>5, ShrinkableSame
    <2> QED BY <1>5, <2>1, <2>2, <2>3 DEF Tidy, CreateTidy, TopNeeded, Growing, Pruning
<1> QED BY <1>4, <1>5

LEMMA DeleteTidy == ASSUME StructInv, Tidy, Delete PROVE Tidy'
<1>1. w.pc = "find" /\ UNCHANGED heap /\ AtSlot \notin Nodes
    BY DEF Delete, Found, tree
<1>2. CASE AtSlot = NULL \/ w.op.item \notin {NULL, AtSlot}
    <2>1. w'.pc = "idle" /\ UNCHANGED <<root, node>>
        BY <1>2 DEF Delete, tree, Return, Idle
    <2> QED BY <1>1, <2>1, QuietTidy, SameMemory
            DEF StructInv, Tidy, TopNeeded, Growing, Pruning
<1>3. CASE ~ (AtSlot = NULL \/ w.op.item \notin {NULL, AtSlot})
    <2> DEFINE base == TagsCleared(w.cur, w.off, Tags)
               dx == -IsExceptional(AtSlot)
    <2>1. /\ node' = Stored(base, w.cur, w.off, NULL, -1, dx)
          /\ root' = [RootStored(w.cur, NULL) EXCEPT !.tags = RootTagsCleared(w.cur, w.off, Tags)]
          /\ PruneFrom(AtSlot)
        BY <1>3 DEF Delete
    <2>2. NULL \in Entries /\ NULL \in Items \cup {NULL} /\ dx \in Int /\ -1 \in Int
        BY IsExceptionalType DEF Entries
    <2>3. /\ w.cur \in Nodes \cup {NULL} /\ w.off \in Slots
          /\ node \in Memory /\ base \in Memory /\ SameShape(base, node)
        BY WriterFields, SameMemory, TagsClearedType, TagsClearedShape DEF StructInv, TypeInv
    <2>4. root'.rnode = IF w.cur = NULL THEN NULL ELSE root.rnode
        BY <2>1 DEF RootStored, StructInv, TypeInv, TypeOK
    <2> HIDE DEF base, dx
    <2>5. StoreOf(node', node, w.cur, w.off, NULL, -1, dx)
        BY <2>1, <2>2, <2>3, StoredStores
    <2> QED BY <1>1, <2>1, <2>2, <2>4, <2>5, StoreTidy
<1> QED BY <1>2, <1>3

LEMMA ReplaceTidy == ASSUME StructInv, Tidy, Replace PROVE Tidy'
<1>1. w.pc = "find" /\ w.op.kind = "replace" /\ UNCHANGED heap /\ AtSlot \notin Nodes
    BY DEF Replace, Found, tree
<1>2. CASE AtSlot = NULL
    <2>1. w'.pc = "idle" /\ UNCHANGED <<root, node>>
        BY <1>2 DEF Replace, tree, Return, Idle
    <2> QED BY <1>1, <2>1, QuietTidy, SameMemory
            DEF StructInv, Tidy, TopNeeded, Growing, Pruning
<1>3. CASE AtSlot # NULL
    <2> DEFINE x == w.op.item
               dc == IsEntry(x) - IsEntry(AtSlot)
               dx == IsExceptional(x) - IsExceptional(AtSlot)
    <2>1. /\ node' = Stored(node, w.cur, w.off, x, dc, dx)
          /\ root' = RootStored(w.cur, x) /\ PruneFrom("ok")
        BY <1>3 DEF Replace
    <2>2. /\ w.cur \in Nodes \cup {NULL} /\ w.off \in Slots
          /\ node \in Memory /\ SameShape(node, node)
        BY WriterFields, SameMemory DEF StructInv
    <2>3. x \in Items \cup {NULL} /\ x \in Entries /\ dc \in Int /\ dx \in Int
        BY <1>1, FindCall, IsExceptionalType DEF StructInv, Entries
    <2>4. root'.rnode = IF w.cur = NULL THEN x ELSE root.rnode
        BY <2>1 DEF RootStored, StructInv, TypeInv, TypeOK
    <2> HIDE DEF x, dc, dx
    <2>5. StoreOf(node', node, w.cur, w.off, x, dc, dx)
        BY <2>1, <2>2, <2>3, StoredStores
    <2> QED BY <1>1, <2>1, <2>3, <2>4, <2>5, StoreTidy
<1> QED BY <1>2, <1>3

LEMMA PruneEndTidy == ASSUME StructInv, Tidy, PruneEnd \/ ShrinkEnd PROVE Tidy'
<1>1. /\ w.pc \in {"prune", "shrink"} /\ w \in WriterType /\ UNCHANGED <<root, node, heap>>
    BY DEF PruneEnd, ShrinkEnd, tree, StructInv, TypeInv, TypeOK
<1>2. Shrinkable(root.rnode)' = Shrinkable(root.rnode)
    BY <1>1, ShrinkableSame
<1>3. \A m \in Nodes : heap[m] = "live" => node[m].count # 0
    BY DEF PruneEnd, ShrinkEnd, Tidy, NoneEmpty
<1>4. NoneEmpty'
    BY <1>1, <1>3 DEF NoneEmpty
<1>5. \/ w'.pc = "shrink"
      \/ w'.pc = "idle" /\ ~Shrinkable(root.rnode)
    BY <1>1 DEF PruneEnd, ShrinkEnd, Goto, Return, Idle, WriterType, Tidy, TopNeeded
<1> QED BY <1>2, <1>4, <1>5 DEF Tidy, CreateTidy, TopNeeded, Growing, Pruning

LEMMA PruneNodeTidy == ASSUME StructInv, Tidy, PruneNode PROVE Tidy'
<1> DEFINE n == w.cur
           p == node[n].parent
           o == node[n].offset
           base == Stored(node, p, o, NULL, -1, 0)
<1>1. /\ w.pc = "prune" /\ w \in WriterType /\ node[n].count = 0 /\ Retire(base, n)
      /\ root' = IF p = NULL THEN [rnode |-> NULL, tags |-> {}] ELSE root
      /\ IF p = NULL THEN Return(w.res) ELSE w' = [w EXCEPT !.cur = p]
    BY DEF PruneNode, Goto, StructInv, TypeInv, TypeOK
<1>2. n \in Nodes /\ heap[n] = "live" /\ NULL \in Entries /\ NULL \notin Nodes
    BY <1>1, WriterFields, EntryAssumption DEF StructInv, CursorInv, TypeInv, CallInv, Entries
<1>3. p \in Nodes \cup {NULL} /\ o \in Slots /\ node \in Memory /\ SameShape(node, node)
    BY <1>2, MemoryFields, SameMemory DEF StructInv
<1>4. base \in Memory /\ StoreOf(base, node, p, o, NULL, -1, 0)
    <2>1. -1 \in Int /\ 0 \in Int
        OBVIOUS
    <2> HIDE DEF p, o
    <2> QED BY <1>2, <1>3, <2>1, StoredType, StoredStores
<1>5. /\ heap'[n] # "live" /\ \A m \in Nodes \ {n} : heap'[m] = heap[m]
      /\ \A m \in Nodes \ {n} : node'[m] = base[m]
    <2> HIDE DEF base, n
    <2> QED BY <1>1, <1>2, <1>4, RetireFields DEF StructInv, TypeInv
<1>6. \A m \in Nodes \ {n, p} : /\ node'[m].count = node[m].count
                                /\ node'[m].slots = node[m].slots
                                /\ node'[m].shift = node[m].shift
    <2> HIDE DEF base, n, p, o
    <2> QED BY <1>4, <1>5 DEF StoreOf
<1>7. \A m \in Nodes \ {n} : heap[m] = "live" => node[m].count # 0
    BY DEF Tidy, NoneEmpty
<1>8. CASE p = NULL
    <2>1. w'.pc = "idle" /\ root'.rnode = NULL
        BY <1>1, <1>8 DEF Return, Idle
    <2>2. \A m \in Nodes : heap'[m] = "live" => node'[m].count # 0
        BY <1>2, <1>5, <1>6, <1>7, <1>8
    <2>3. NoneEmpty' /\ ~Shrinkable(root.rnode)'
        BY <1>2, <2>1, <2>2 DEF NoneEmpty, Shrinkable
    <2> QED BY <2>1, <2>3 DEF Tidy, CreateTidy, TopNeeded
<1>9. CASE p # NULL
    <2>1. w'.pc = "prune" /\ w'.cur = p /\ root' = root
        BY <1>1, <1>9 DEF WriterType
    <2>2. \A m \in Nodes : heap'[m] = "live" /\ m # p => node'[m].count # 0
        BY <1>5, <1>6, <1>7
    <2>3. NoneEmpty'
        BY <2>1, <2>2 DEF NoneEmpty
    <2>4. root.rnode # n
        BY <1>2, <1>9 DEF StructInv, ShapeInv, Shape, Rooted
    <2>5. root.rnode # p => ~Shrinkable(root.rnode)'
        <3> SUFFICES ASSUME root.rnode # p PROVE ~Shrinkable(root.rnode)'
            OBVIOUS
        <3>1. ~Shrinkable(root.rnode)
            BY <1>1, <2>4 DEF Tidy, TopNeeded
        <3>2. root.rnode \in Nodes => /\ node'[root.rnode].count = node[root.rnode].count
                                      /\ node'[root.rnode].slots = node[root.rnode].slots
                                      /\ node'[root.rnode].shift = node[root.rnode].shift
            BY <1>6, <2>4
        <3> QED BY <2>1, <3>1, <3>2, ShrinkableSame
    <2> HIDE DEF p
    <2> QED BY <2>1, <2>3, <2>5 DEF Tidy, CreateTidy, TopNeeded, Growing, Pruning
<1> QED BY <1>8, <1>9

LEMMA ShrinkRootTidy == ASSUME StructInv, Tidy, ShrinkRoot PROVE Tidy'
<1> DEFINE n == root.rnode
           c == node[n].slots[0]
           mid == Reparented(c, NULL)
<1>1. /\ w.pc = "shrink" /\ w \in WriterType /\ UNCHANGED heap /\ n \in Nodes
      /\ node' = [mid EXCEPT ![n].count = 0]
      /\ w' = [w EXCEPT !.pc = "retire", !.cur = n]
    BY DEF ShrinkRoot, Shrinkable, Goto, StructInv, TypeInv, TypeOK
<1>2. \A m \in Nodes : mid[m].count = node[m].count
    <2> HIDE DEF c
    <2> QED BY DEF Reparented, StructInv, TypeInv, TypeOK, NodeType
<1>3. mid \in Memory
    BY ReparentedType DEF StructInv, TypeInv
<1>4. \A m \in Nodes \ {n} : node'[m].count = node[m].count
    <2> HIDE DEF mid, n
    <2> QED BY <1>1, <1>2, <1>3 DEF Memory
<1>5. w'.pc = "retire" /\ w'.cur = n
    BY <1>1 DEF WriterType
<1>6. NoneEmpty'
    <2> HIDE DEF n
    <2> QED BY <1>1, <1>4, <1>5 DEF Tidy, NoneEmpty
<1> QED BY <1>5, <1>6 DEF Tidy, CreateTidy, TopNeeded, Growing, Pruning

LEMMA ShrinkRetireTidy == ASSUME StructInv, Tidy, ShrinkRetire PROVE Tidy'
<1> DEFINE n == w.cur
           mem == IF node[n].slots[0] \in Nodes THEN node
                  ELSE [node EXCEPT ![n].slots[0] = RETRY]
<1>1. /\ w.pc = "retire" /\ w \in WriterType /\ Retire(mem, n)
      /\ w' = [w EXCEPT !.pc = "shrink"]
    BY DEF ShrinkRetire, Goto, StructInv, TypeInv, TypeOK
<1>2. n \in Nodes
    BY <1>1, WriterFields DEF StructInv, TypeInv, CallInv
<1>3. \A m \in Nodes \ {n} : mem[m] = node[m]
    BY <1>2 DEF StructInv, TypeInv, TypeOK
<1>4. /\ heap'[n] # "live" /\ \A m \in Nodes \ {n} : heap'[m] = heap[m]
      /\ \A m \in Nodes \ {n} : node'[m] = mem[m]
    <2>1. mem \in [Nodes -> NodeType] \/ TRUE
        OBVIOUS
    <2>2. DOMAIN mem = Nodes /\ heap \in [Nodes -> {"free", "live", "rcu"}]
        BY DEF StructInv, TypeInv, TypeOK
    <2> HIDE DEF mem, n
    <2> QED BY <1>1, <1>2, <2>2 DEF Retire
<1>5. w'.pc = "shrink"
    BY <1>1 DEF WriterType
<1>6. NoneEmpty'
    <2> HIDE DEF mem
    <2> QED BY <1>3, <1>4, <1>5 DEF Tidy, NoneEmpty
<1> QED BY <1>5, <1>6 DEF Tidy, CreateTidy, TopNeeded, Growing, Pruning

\* What a grace period gives back was out of the tree.
LEMMA RcuFreeTidy == ASSUME StructInv, Tidy, NEW n \in Nodes, RcuFree(n) PROVE Tidy'
<1>1. /\ heap[n] = "rcu" /\ heap' = [heap EXCEPT ![n] = "free"]
      /\ node' = [node EXCEPT ![n] = Blank] /\ UNCHANGED <<root, w>>
    BY DEF RcuFree, WriterSame
<1>2. /\ heap'[n] # "live" /\ \A m \in Nodes \ {n} : heap'[m] = heap[m]
      /\ \A m \in Nodes \ {n} : node'[m] = node[m]
    BY <1>1 DEF StructInv, TypeInv, TypeOK
<1>3. root.rnode # n
    BY <1>1 DEF StructInv, ShapeInv, Shape, Rooted
<1>4. NoneEmpty'
    BY <1>1, <1>2 DEF Tidy, NoneEmpty
<1>5. Shrinkable(root.rnode)' = Shrinkable(root.rnode)
    BY <1>1, <1>2, <1>3, ShrinkableSame
<1>6. root.rnode \in Nodes => node'[root.rnode] = node[root.rnode]
    BY <1>2, <1>3
<1> QED BY <1>1, <1>4, <1>5, <1>6 DEF Tidy, CreateTidy, TopNeeded

LEMMA StepTidy ==
    ASSUME Leftovers = {NULL}, StructInv, TidyInv, [Next]_vars PROVE TidyInv'
<1>1. StructInv'
    BY StepStruct
<1>2. TypeInv'
    BY <1>1 DEF StructInv
<1> SUFFICES ASSUME ~oom' PROVE Tidy'
    BY DEF TidyInv
<1>3. CASE UNCHANGED vars
    BY <1>3 DEF vars, TidyInv, Tidy, NoneEmpty, CreateTidy, TopNeeded, Shrinkable
<1>4. ASSUME NEW o \in Calls, Invoke(o) PROVE Tidy'
    BY <1>4, InvokeTidy DEF Invoke, TidyInv
<1>5. ASSUME WriterStep PROVE Tidy'
    <2>1. ~AllocFails /\ oom' = oom
        BY <1>5 DEF WriterStep, AllocFails
    <2>2. Tidy
        BY <2>1 DEF TidyInv
    <2>3. CASE Create
        BY <1>2, <2>2, <2>3, InsertStartTidy, ExtendTidy, DescendTidy, CreateChildTidy,
           InsertEntryTidy DEF Create
    <2>4. CASE FindStart \/ FindStep \/ TagSet \/ TagClear
        BY <1>2, <2>2, <2>4, FindTidy
    <2>5. CASE Delete \/ Replace
        BY <2>2, <2>5, DeleteTidy, ReplaceTidy
    <2>6. CASE Prune
        BY <2>2, <2>6, PruneEndTidy, PruneNodeTidy, ShrinkRootTidy, ShrinkRetireTidy DEF Prune
    <2> QED BY <1>5, <2>1, <2>3, <2>4, <2>5, <2>6 DEF WriterStep
<1>6. ASSUME NEW r \in Readers, Reader(r) PROVE Tidy'
    <2>1. UNCHANGED <<root, node, heap, w, oom>>
        BY <1>6 DEF Reader, ReadLock, ReadRoot, ReadBound, ReadSlot, ReadRetry, ReadUnlock,
                    WriterSame, tree
    <2> QED BY <2>1 DEF TidyInv, Tidy, NoneEmpty, CreateTidy, TopNeeded, Shrinkable
<1>7. ASSUME NEW n \in Nodes, RcuFree(n) PROVE Tidy'
    BY <1>7, RcuFreeTidy DEF RcuFree, WriterSame, TidyInv
<1> QED BY <1>3, <1>4, <1>5, <1>6, <1>7 DEF Next

LEMMA InitTidy == Init => TidyInv
<1> SUFFICES ASSUME Init PROVE Tidy
    BY DEF TidyInv
<1>1. root.rnode = NULL /\ w.pc = "idle" /\ \A n \in Nodes : heap[n] = "free"
    BY DEF Init, Idle
<1> QED BY <1>1, EntryAssumption DEF Tidy, NoneEmpty, CreateTidy, TopNeeded, Shrinkable

\* While no allocation has failed, calls leave no node without entries and no top
\* that radix_tree_shrink (radix-tree.c:760-818) would drop.
THEOREM CompactCorrect == ASSUME Leftovers = {NULL} PROVE Spec => []Compact
<1>1. Leftovers = {NULL}
    OBVIOUS
<1>2. StructInv /\ TidyInv => Compact
    <2> SUFFICES ASSUME StructInv, TidyInv, AtRest, ~oom
                 PROVE  ~Shrinkable(root.rnode) /\ \A n \in Live : node[n].count > 0
        BY DEF Compact
    <2>1. w.pc = "idle" /\ Tidy
        BY DEF StructInv, TypeInv, CallInv, AtRest, TidyInv
    <2>2. ~Shrinkable(root.rnode) /\ \A n \in Live : node[n].count # 0
        BY <2>1 DEF Tidy, NoneEmpty, TopNeeded, Growing, Pruning, Live
    <2>3. \A n \in Live : node[n].count \in Nat
        BY <2>1, CountedSlots DEF Live
    <2> QED BY <2>2, <2>3
<1>3. StructInv /\ TidyInv /\ [Next]_vars => StructInv' /\ TidyInv'
    BY <1>1, StepStruct, StepTidy
<1> QED BY <1>2, <1>3, InitStruct, InitTidy, PTL DEF Spec

-----------------------------------------------------------------------------
(* The inductive invariant.  TagsSummarise says what holds between calls;  *)
(* it says what holds after every store, of a tree with top entry t and    *)
(* root tags ts in memory mem, while slot o of node c (if c is a node) has *)
(* tag g ahead of what it holds.                                           *)

RootMarked(ts, t, mem, c, g) ==
    /\ t = NULL => ts = {}
    /\ t \in Nodes =>
         \A x \in Tags : (x \in ts \/ (c # NULL /\ x = g)) <=> mem[t].tags[x] # {}

SlotsMarked(mem, hp, c, o, g) ==
    \A n \in Nodes, s \in Slots, x \in Tags :
      hp[n] = "live" =>
        /\ mem[n].slots[s] \in Nodes =>
             (s \in mem[n].tags[x] <=>
                \/ mem[mem[n].slots[s]].tags[x] # {}
                \/ n = c /\ s = o /\ x = g)
        /\ mem[n].slots[s] = NULL /\ s \in mem[n].tags[x] => n = c /\ s = o /\ x = g

Marked(ts, t, mem, hp, c, o, g) ==
    RootMarked(ts, t, mem, c, g) /\ SlotsMarked(mem, hp, c, o, g)

\* The node whose slot has its tag ahead.
Ahead == IF w.pc = "find" /\ w.op.kind = "tag_set" THEN w.cur ELSE NULL
TagsInv == Marked(root.tags, root.rnode, node, heap, Ahead, w.off, w.op.tag)

LEMMA TagFields ==
    ASSUME NEW mem \in Memory, NEW n \in Nodes
    PROVE  /\ mem[n].tags \in [Tags -> SUBSET Slots]
           /\ \A x \in Tags : mem[n].tags[x] \subseteq Slots
BY DEF Memory, NodeType

\* Where no slot is ahead, it does not matter of which tag.
LEMMA NoneAhead ==
    ASSUME NEW ts, NEW t, NEW mem, NEW hp, NEW o, NEW g, Marked(ts, t, mem, hp, NULL, o, g),
           NEW p, NEW h
    PROVE  Marked(ts, t, mem, hp, NULL, p, h)
BY EntryAssumption DEF Marked, RootMarked, SlotsMarked

\* Changes to what is out of the tree, and to links upward, leave the marks alone.
LEMMA MarkedSame ==
    ASSUME NEW ts, NEW t, NEW mem, NEW new, NEW hp, NEW hq, NEW z, NEW c, NEW o, NEW g,
           Marked(ts, t, mem, hp, c, o, g), Rooted(t, new, hq), Down(new, hq, z),
           \A n \in Nodes : hq[n] = "live" =>
             /\ hp[n] = "live"
             /\ new[n].slots = mem[n].slots /\ new[n].tags = mem[n].tags
    PROVE  Marked(ts, t, new, hq, c, o, g)
<1>1. RootMarked(ts, t, new, c, g)
    BY DEF Marked, RootMarked, Rooted
<1>2. SlotsMarked(new, hq, c, o, g)
    <2> SUFFICES ASSUME NEW n \in Nodes, NEW s \in Slots, NEW x \in Tags, hq[n] = "live"
                 PROVE  /\ new[n].slots[s] \in Nodes =>
                             (s \in new[n].tags[x] <=>
                                \/ new[new[n].slots[s]].tags[x] # {}
                                \/ n = c /\ s = o /\ x = g)
                        /\ new[n].slots[s] = NULL /\ s \in new[n].tags[x] =>
                             n = c /\ s = o /\ x = g
        BY DEF SlotsMarked
    <2>1. hp[n] = "live" /\ new[n].slots = mem[n].slots /\ new[n].tags = mem[n].tags
        OBVIOUS
    <2>2. new[n].slots[s] \in Nodes => new[new[n].slots[s]].tags = mem[new[n].slots[s]].tags
        BY DEF Down
    <2> QED BY <2>1, <2>2 DEF Marked, SlotsMarked
<1> QED BY <1>1, <1>2 DEF Marked

\* An item, or nothing in a slot without tags, is stored at slot o of node c.
LEMMA MarkedStored ==
    ASSUME NEW ts, NEW us, NEW t, NEW u, NEW mem \in Memory, NEW new, NEW base, NEW hp, NEW p, NEW g,
           Marked(ts, t, mem, hp, NULL, p, g), Down(mem, hp, NULL),
           NEW c \in Nodes \cup {NULL}, NEW o \in Slots,
           NEW e \in Items \cup {NULL}, NEW dc, NEW dx,
           StoreOf(new, base, c, o, e, dc, dx),
           \A n \in Nodes : base[n].slots = mem[n].slots /\ new[n].tags = mem[n].tags,
           (IF c = NULL THEN t ELSE mem[c].slots[o]) \notin Nodes,
           u = IF c = NULL THEN e ELSE t,
           us = ts,
           e = NULL => IF c = NULL THEN ts = {} ELSE \A x \in Tags : o \notin mem[c].tags[x]
    PROVE  Marked(us, u, new, hp, NULL, p, g)
<1>1. NULL \notin Nodes /\ e \notin Nodes
    BY EntryAssumption
<1>2. RootMarked(us, u, new, NULL, g)
    BY <1>1, EntryAssumption DEF Marked, RootMarked
<1>3. SlotsMarked(new, hp, NULL, p, g)
    <2> SUFFICES ASSUME NEW n \in Nodes, NEW s \in Slots, NEW x \in Tags, hp[n] = "live"
                 PROVE  /\ new[n].slots[s] \in Nodes =>
                             (s \in new[n].tags[x] <=> new[new[n].slots[s]].tags[x] # {})
                        /\ new[n].slots[s] = NULL => s \notin new[n].tags[x]
        BY <1>1 DEF SlotsMarked
    <2>1. CASE n = c /\ s = o
        <3>1. new[n].slots[s] = e
            BY <2>1 DEF StoreOf
        <3> QED BY <1>1, <2>1, <3>1
    <2>2. CASE ~(n = c /\ s = o)
        <3>1. new[n].slots[s] = mem[n].slots[s]
            BY <2>2 DEF StoreOf
        <3> QED BY <1>1, <3>1 DEF Marked, SlotsMarked
    <2> QED BY <2>1, <2>2
<1> QED BY <1>2, <1>3 DEF Marked

\* An empty node without tags is linked into an empty slot.
LEMMA MarkedLinked ==
    ASSUME NEW ts, NEW t, NEW u, NEW mem \in Memory, NEW new, NEW base, NEW hp, NEW hq, NEW p, NEW g,
           Marked(ts, t, mem, hp, NULL, p, g), Rooted(t, mem, hp), Down(mem, hp, NULL),
           NEW n \in Nodes, hp[n] = "free",
           \A m \in Nodes : hq[m] = IF m = n THEN "live" ELSE hp[m],
           NEW c \in Nodes \cup {NULL}, NEW o \in Slots,
           (IF c = NULL THEN t ELSE mem[c].slots[o]) = NULL,
           u = IF c = NULL THEN n ELSE t,
           c # NULL => hp[c] = "live",
           StoreOf(base, mem, c, o, n, 1, 0),
           \A m \in Nodes \ {n} : new[m].slots = base[m].slots /\ new[m].tags = mem[m].tags,
           \A q \in Slots : new[n].slots[q] = NULL,
           \A x \in Tags : new[n].tags[x] = {}
    PROVE  Marked(ts, u, new, hq, NULL, p, g)
<1>1. NULL \notin Nodes
    BY EntryAssumption
<1>2. RootMarked(ts, u, new, NULL, g)
    <2>1. CASE c = NULL
        BY <1>1, <2>1 DEF Marked, RootMarked
    <2>2. CASE c # NULL
        BY <1>1, <2>2 DEF Marked, RootMarked, Rooted
    <2> QED BY <2>1, <2>2
<1>3. SlotsMarked(new, hq, NULL, p, g)
    <2> SUFFICES ASSUME NEW m \in Nodes, NEW s \in Slots, NEW x \in Tags, hq[m] = "live"
                 PROVE  /\ new[m].slots[s] \in Nodes =>
                             (s \in new[m].tags[x] <=> new[new[m].slots[s]].tags[x] # {})
                        /\ new[m].slots[s] = NULL => s \notin new[m].tags[x]
        BY <1>1 DEF SlotsMarked
    <2>1. CASE m = n
        BY <1>1, <2>1
    <2>2. CASE m # n /\ m = c /\ s = o
        <3>1. new[m].slots[s] = n /\ mem[m].slots[s] = NULL /\ hp[m] = "live"
            BY <1>1, <2>2 DEF StoreOf
        <3>2. s \notin new[m].tags[x]
            BY <1>1, <2>2, <3>1 DEF Marked, SlotsMarked
        <3> QED BY <1>1, <3>1, <3>2
    <2>3. CASE m # n /\ ~(m = c /\ s = o)
        <3>1. new[m].slots[s] = mem[m].slots[s] /\ new[m].tags = mem[m].tags /\ hp[m] = "live"
            BY <2>3 DEF StoreOf
        <3>2. mem[m].slots[s] \in Nodes => new[mem[m].slots[s]].tags = mem[mem[m].slots[s]].tags
            BY <3>1 DEF Down
        <3>3. /\ mem[m].slots[s] \in Nodes =>
                   (s \in mem[m].tags[x] <=> mem[mem[m].slots[s]].tags[x] # {})
              /\ mem[m].slots[s] = NULL => s \notin mem[m].tags[x]
            BY <1>1, <3>1 DEF Marked, SlotsMarked
        <3> QED BY <3>1, <3>2, <3>3
    <2> QED BY <2>1, <2>2, <2>3
<1> QED BY <1>2, <1>3 DEF Marked

\* A node with the root's tags at slot 0 goes on top.
LEMMA MarkedRaised ==
    ASSUME NEW ts \in SUBSET Tags, NEW t \in Items \cup Nodes,
           NEW mem, NEW new, NEW hp, NEW hq, NEW p, NEW g,
           Marked(ts, t, mem, hp, NULL, p, g), Rooted(t, mem, hp), Down(mem, hp, NULL),
           NEW n \in Nodes, hp[n] = "free",
           \A m \in Nodes : hq[m] = IF m = n THEN "live" ELSE hp[m],
           \A m \in Nodes \ {n} : new[m].slots = mem[m].slots /\ new[m].tags = mem[m].tags,
           \A q \in Slots : new[n].slots[q] = IF q = 0 THEN t ELSE NULL,
           \A x \in ts : new[n].tags[x] = {0},
           \A x \in Tags \ ts : new[n].tags[x] = {}
    PROVE  Marked(ts, n, new, hq, NULL, p, g)
<1>1. NULL \notin Nodes /\ t # NULL
    BY EntryAssumption
<1>2. RootMarked(ts, n, new, NULL, g)
    BY <1>1 DEF RootMarked
<1>3. SlotsMarked(new, hq, NULL, p, g)
    <2> SUFFICES ASSUME NEW m \in Nodes, NEW s \in Slots, NEW x \in Tags, hq[m] = "live"
                 PROVE  /\ new[m].slots[s] \in Nodes =>
                             (s \in new[m].tags[x] <=> new[new[m].slots[s]].tags[x] # {})
                        /\ new[m].slots[s] = NULL => s \notin new[m].tags[x]
        BY <1>1 DEF SlotsMarked
    <2>1. CASE m = n
        <3>1. t \in Nodes => t # n /\ (x \in ts <=> new[t].tags[x] # {})
            BY DEF Marked, RootMarked, Rooted
        <3> QED BY <1>1, <2>1, <3>1
    <2>2. CASE m # n
        <3>1. new[m].slots = mem[m].slots /\ new[m].tags = mem[m].tags /\ hp[m] = "live"
            BY <2>2
        <3>2. mem[m].slots[s] \in Nodes => mem[m].slots[s] # n
            BY <3>1 DEF Down
        <3>3. /\ mem[m].slots[s] \in Nodes =>
                   (s \in mem[m].tags[x] <=> mem[mem[m].slots[s]].tags[x] # {})
              /\ mem[m].slots[s] = NULL => s \notin mem[m].tags[x]
            BY <1>1, <3>1 DEF Marked, SlotsMarked
        <3>4. mem[m].slots[s] \in Nodes => new[mem[m].slots[s]].tags = mem[mem[m].slots[s]].tags
            BY <3>2
        <3> QED BY <3>1, <3>3, <3>4
    <2> QED BY <2>1, <2>2
<1> QED BY <1>2, <1>3 DEF Marked

\* Node n is unlinked from its parent p and retired.
Unlinked(new, hq, base, mem, hp, n, p, o) ==
    /\ p = mem[n].parent /\ o = mem[n].offset
    /\ hq[n] # "live" /\ \A m \in Nodes \ {n} : hq[m] = hp[m]
    /\ StoreOf(base, mem, p, o, NULL, -1, 0)
    /\ \A m \in Nodes \ {n} : new[m].slots = base[m].slots /\ new[m].tags = mem[m].tags

\* A node without entries has no tags to take along.
LEMMA MarkedPruned ==
    ASSUME NEW ts, NEW t, NEW mem \in Memory, NEW new, NEW base, NEW hp, NEW hq, NEW q, NEW g,
           Marked(ts, t, mem, hp, NULL, q, g), Shape(t, mem, hp, NULL), NEW n \in Nodes,
           hp[n] = "live", \A s \in Slots : mem[n].slots[s] = NULL, NEW p, NEW o,
           Unlinked(new, hq, base, mem, hp, n, p, o)
    PROVE  IF p = NULL THEN Marked({}, NULL, new, hq, NULL, q, g)
           ELSE Marked(ts, t, new, hq, NULL, q, g)
<1> USE DEF Unlinked
<1>1. NULL \notin Nodes /\ o \in Slots /\ p \in Nodes \cup {NULL}
    BY EntryAssumption, MemoryFields
<1>2. \A x \in Tags : mem[n].tags[x] = {}
    BY <1>1, TagFields DEF Marked, SlotsMarked
<1>3. p # NULL => p \in Nodes /\ mem[p].slots[o] = n
    BY <1>1 DEF Shape, Up
<1>4. /\ p = NULL => RootMarked({}, NULL, new, NULL, g)
      /\ p # NULL => RootMarked(ts, t, new, NULL, g)
    <2>1. p # NULL /\ t \in Nodes => t # n
        BY DEF Shape, Rooted
    <2> QED BY <1>1, <2>1 DEF Marked, RootMarked
<1>5. SlotsMarked(new, hq, NULL, q, g)
    <2> SUFFICES ASSUME NEW m \in Nodes, NEW s \in Slots, NEW x \in Tags, hq[m] = "live"
                 PROVE  /\ new[m].slots[s] \in Nodes =>
                             (s \in new[m].tags[x] <=> new[new[m].slots[s]].tags[x] # {})
                        /\ new[m].slots[s] = NULL => s \notin new[m].tags[x]
        BY <1>1 DEF SlotsMarked
    <2>1. m # n /\ hp[m] = "live" /\ new[m].tags = mem[m].tags /\ new[m].slots = base[m].slots
        OBVIOUS
    <2>2. /\ mem[m].slots[s] \in Nodes =>
               (s \in mem[m].tags[x] <=> mem[mem[m].slots[s]].tags[x] # {})
          /\ mem[m].slots[s] = NULL => s \notin mem[m].tags[x]
        BY <1>1, <2>1 DEF Marked, SlotsMarked
    <2>3. CASE m = p /\ s = o
        <3>1. base[m].slots[s] = NULL
            BY <2>3 DEF StoreOf
        <3> QED BY <1>1, <1>2, <1>3, <2>1, <2>2, <2>3, <3>1
    <2>4. CASE ~(m = p /\ s = o)
        <3>1. base[m].slots[s] = mem[m].slots[s]
            BY <2>4 DEF StoreOf
        <3>2. mem[m].slots[s] \in Nodes => mem[m].slots[s] # n
            BY <1>1, <2>1, <2>4 DEF Shape, Down
        <3>3. mem[m].slots[s] \in Nodes => new[mem[m].slots[s]].tags = mem[mem[m].slots[s]].tags
            BY <3>2
        <3> QED BY <2>1, <2>2, <3>1, <3>3
    <2> QED BY <2>3, <2>4
<1> QED BY <1>4, <1>5 DEF Marked

\* The one entry of the top, at slot 0, becomes the root: the marks agree.
LEMMA MarkedUnrooted ==
    ASSUME NEW ts, NEW t \in Nodes, NEW mem \in Memory, NEW new, NEW hp, NEW q, NEW g,
           Marked(ts, t, mem, hp, NULL, q, g), Rooted(t, mem, hp),
           NEW c, c = mem[t].slots[0], c # NULL,
           \A s \in Slots \ {0} : mem[t].slots[s] = NULL,
           \A m \in Nodes : new[m].slots = mem[m].slots /\ new[m].tags = mem[m].tags
    PROVE  Marked(ts, c, new, hp, NULL, q, g)
<1>1. NULL \notin Nodes /\ 0 \in Slots /\ hp[t] = "live"
    BY EntryAssumption, SizeAssumption DEF Slots, Rooted
<1>2. RootMarked(ts, c, new, NULL, g)
    <2> SUFFICES ASSUME c \in Nodes, NEW x \in Tags
                 PROVE  x \in ts <=> mem[c].tags[x] # {}
        BY DEF RootMarked
    <2>1. x \in ts <=> mem[t].tags[x] # {}
        BY DEF Marked, RootMarked
    <2>2. 0 \in mem[t].tags[x] <=> mem[c].tags[x] # {}
        BY <1>1 DEF Marked, SlotsMarked
    <2>3. \A s \in Slots \ {0} : s \notin mem[t].tags[x]
        BY <1>1 DEF Marked, SlotsMarked
    <2>4. mem[t].tags[x] \subseteq Slots
        BY TagFields
    <2> QED BY <2>1, <2>2, <2>3, <2>4
<1>3. SlotsMarked(new, hp, NULL, q, g)
    BY <1>1 DEF Marked, SlotsMarked
<1> QED BY <1>2, <1>3 DEF Marked

\* Memory new is mem with tag g at slot q of node a.
TagAdded(new, mem, a, g, q) ==
    \A m \in Nodes : /\ new[m].slots = mem[m].slots
                     /\ \A x \in Tags : new[m].tags[x] =
                          IF m = a /\ x = g THEN mem[m].tags[x] \cup {q} ELSE mem[m].tags[x]

\* radix_tree_tag_set marks slot q of the node it goes down to.
LEMMA MarkedDown ==
    ASSUME NEW ts, NEW t, NEW mem \in Memory, NEW new, NEW hp, NEW c, NEW o \in Slots,
           NEW g \in Tags, Marked(ts, t, mem, hp, c, o, g), Shape(t, mem, hp, NULL),
           c \in Nodes \cup {NULL}, c # NULL => hp[c] = "live",
           NEW a \in Nodes, a = IF c = NULL THEN t ELSE mem[c].slots[o],
           NEW q \in Slots,
           TagAdded(new, mem, a, g, q)
    PROVE  Marked(ts, t, new, hp, a, q, g)
<1> USE DEF TagAdded
<1>1. NULL \notin Nodes
    BY EntryAssumption
<1>2. RootMarked(ts, t, new, a, g)
    <2>1. c = NULL \/ t # a \/ t \notin Nodes
        BY <1>1 DEF Shape, Rooted, Down
    <2>2. CASE c = NULL
        BY <1>1, <2>2 DEF Marked, RootMarked
    <2>3. CASE c # NULL
        BY <1>1, <2>1, <2>3 DEF Marked, RootMarked
    <2> QED BY <2>2, <2>3
<1>3. SlotsMarked(new, hp, a, q, g)
    <2> SUFFICES ASSUME NEW n \in Nodes, NEW s \in Slots, NEW x \in Tags, hp[n] = "live"
                 PROVE  /\ mem[n].slots[s] \in Nodes =>
                             (s \in new[n].tags[x] <=>
                                \/ new[mem[n].slots[s]].tags[x] # {}
                                \/ n = a /\ s = q /\ x = g)
                        /\ mem[n].slots[s] = NULL /\ s \in new[n].tags[x] =>
                             n = a /\ s = q /\ x = g
        BY DEF SlotsMarked
    <2>1. /\ mem[n].slots[s] \in Nodes =>
               (s \in mem[n].tags[x] <=>
                  \/ mem[mem[n].slots[s]].tags[x] # {}
                  \/ n = c /\ s = o /\ x = g)
          /\ mem[n].slots[s] = NULL /\ s \in mem[n].tags[x] => n = c /\ s = o /\ x = g
        BY DEF Marked, SlotsMarked
    <2>2. \A m \in Nodes : new[m].tags[x] =
            IF m = a /\ x = g THEN mem[m].tags[x] \cup {q} ELSE mem[m].tags[x]
        OBVIOUS
    <2>3. CASE x # g
        BY <2>1, <2>2, <2>3
    <2>4. CASE x = g /\ mem[n].slots[s] = a
        \* The slot that leads to a: its bit was ahead, or a had the tag.
        <3>1. n # a
            BY <2>4, MemoryFields DEF Shape, Down, Shifts
        <3>2. c # NULL => n = c /\ s = o
            BY <1>1, <2>4 DEF Shape, Down
        <3>3. c # NULL
            BY <1>1, <2>4 DEF Shape, Rooted, Down
        <3>4. s \in mem[n].tags[x] /\ new[n].tags[x] = mem[n].tags[x]
            BY <2>1, <2>2, <2>4, <3>1, <3>2, <3>3
        <3>5. new[a].tags[x] # {}
            BY <2>2, <2>4
        <3> QED BY <1>1, <2>4, <3>4, <3>5
    <2>5. CASE x = g /\ mem[n].slots[s] # a
        <3>1. ~(n = c /\ s = o)
            BY <1>1, <2>5
        <3>2. mem[n].slots[s] \in Nodes => new[mem[n].slots[s]].tags[x] = mem[mem[n].slots[s]].tags[x]
            BY <2>2, <2>5
        <3>3. s \in new[n].tags[x] <=> s \in mem[n].tags[x] \/ (n = a /\ s = q)
            BY <2>2, <2>5
        <3>4. /\ mem[n].slots[s] \in Nodes =>
                   (s \in mem[n].tags[x] <=> mem[mem[n].slots[s]].tags[x] # {})
              /\ mem[n].slots[s] = NULL => s \notin mem[n].tags[x]
            BY <2>1, <3>1
        <3>5. CASE n = a /\ s = q
            BY <1>1, <2>5, <3>3, <3>5
        <3>6. CASE ~(n = a /\ s = q)
            BY <2>5, <3>2, <3>3, <3>4, <3>6
        <3> QED BY <3>5, <3>6
    <2> QED BY <2>3, <2>4, <2>5
<1> QED BY <1>2, <1>3 DEF Marked

\* At an item the tag stands on every level; the root's follows.
LEMMA MarkedDone ==
    ASSUME NEW ts, NEW t, NEW mem, NEW hp, NEW c, NEW o, NEW g,
           Marked(ts, t, mem, hp, c, o, g), t # NULL,
           (IF c = NULL THEN t ELSE mem[c].slots[o]) \in Items
    PROVE  Marked(ts \cup {g}, t, mem, hp, NULL, o, g)
<1>1. NULL \notin Nodes \cup Items /\ Nodes \cap Items = {}
    BY EntryAssumption
<1>2. RootMarked(ts \cup {g}, t, mem, NULL, g)
    <2>1. CASE c = NULL
        BY <1>1, <2>1 DEF RootMarked
    <2>2. CASE c # NULL
        BY <2>2 DEF Marked, RootMarked
    <2> QED BY <2>1, <2>2
<1>3. SlotsMarked(mem, hp, NULL, o, g)
    BY <1>1 DEF Marked, SlotsMarked
<1> QED BY <1>2, <1>3 DEF Marked

-----------------------------------------------------------------------------
(* The way up: node_tag_clear's loop.                                      *)

SlotPlaces == [n : Nodes \cup {NULL}, o : Slots]
NextUp(a) ==
    IF a.n = NULL THEN a ELSE [n |-> node[a.n].parent, o |-> node[a.n].offset]

\* f[k] is the slot k levels above slot o of node n.
IsClimb(f, n, o) ==
    /\ f \in [0 .. Height -> SlotPlaces]
    /\ f[0] = [n |-> n, o |-> o]
    /\ \A k \in 1 .. Height : f[k] = NextUp(f[k - 1])

LEMMA NextUpType == ASSUME TypeOK PROVE \A a \in SlotPlaces : NextUp(a) \in SlotPlaces
<1> SUFFICES ASSUME NEW a \in SlotPlaces, a.n # NULL
             PROVE  [n |-> node[a.n].parent, o |-> node[a.n].offset] \in SlotPlaces
    BY DEF NextUp
<1>1. a.n \in Nodes /\ node \in Memory
    BY DEF SlotPlaces, TypeOK, Memory
<1> QED BY <1>1, MemoryFields DEF SlotPlaces

LEMMA ClimbExists ==
    ASSUME TypeOK, NEW n \in Nodes \cup {NULL}, NEW o \in Slots
    PROVE  \E f : IsClimb(f, n, o)
<1> DEFINE a == [n |-> n, o |-> o]
           step == [e \in SlotPlaces |-> NextUp(e)]
<1>1. a \in SlotPlaces /\ Height \in Nat
    BY SizeAssumption DEF SlotPlaces
<1>2. step \in [SlotPlaces -> SlotPlaces]
    BY NextUpType
<1>3. \A e \in SlotPlaces : step[e] = NextUp(e)
    OBVIOUS
<1> HIDE DEF step, a
<1>4. \A X : \A b \in X : \A next \in [X -> X] :
        \E f : /\ f \in [0 .. Height -> X] /\ f[0] = b
               /\ \A k \in 1 .. Height : f[k] = next[f[k - 1]]
    BY <1>1, StepsExist, Zenon
<1>5. PICK f : /\ f \in [0 .. Height -> SlotPlaces] /\ f[0] = a
               /\ \A k \in 1 .. Height : f[k] = step[f[k - 1]]
    BY <1>1, <1>2, <1>4
<1>6. \A k \in 1 .. Height : k - 1 \in 0 .. Height
    BY <1>1
<1>7. IsClimb(f, n, o)
    BY <1>3, <1>5, <1>6 DEF IsClimb, a
<1> QED BY <1>7

\* The loop of the model, as an equation.
Climbing(f, n, o) ==
    [k \in 0 .. Height |->
       IF k = 0 THEN [n |-> n, o |-> o]
       ELSE IF f[k - 1].n = NULL THEN f[k - 1]
       ELSE [n |-> node[f[k - 1].n].parent, o |-> node[f[k - 1].n].offset]]

LEMMA ClimbIs ==
    ASSUME TypeOK, NEW n \in Nodes \cup {NULL}, NEW o \in Slots
    PROVE  IsClimb(Climb(n, o), n, o)
<1>1. Height \in Nat /\ \A k \in 1 .. Height : k \in 0 .. Height /\ k # 0
    BY SizeAssumption
<1>2. PICK f : IsClimb(f, n, o)
    BY ClimbExists
<1>3. f = Climbing(f, n, o)
    <2>1. f = [k \in 0 .. Height |-> f[k]]
        BY <1>2 DEF IsClimb
    <2>2. ASSUME NEW k \in 0 .. Height
          PROVE  f[k] = IF k = 0 THEN [n |-> n, o |-> o]
                        ELSE IF f[k - 1].n = NULL THEN f[k - 1]
                        ELSE [n |-> node[f[k - 1].n].parent, o |-> node[f[k - 1].n].offset]
        <3>1. CASE k = 0
            BY <1>2, <3>1 DEF IsClimb
        <3>2. CASE k # 0
            <4>1. k \in 1 .. Height
                BY <1>1, <3>2
            <4>2. f[k] = NextUp(f[k - 1])
                BY <1>2, <4>1, Zenon DEF IsClimb
            <4> QED BY <3>2, <4>2, Zenon DEF NextUp
        <3> QED BY <3>1, <3>2, Zenon
    <2>3. [k \in 0 .. Height |-> f[k]] = Climbing(f, n, o)
        BY <2>2, Zenon DEF Climbing
    <2> QED BY <2>1, <2>3, Zenon
<1> DEFINE g == CHOOSE g : g = Climbing(g, n, o)
<1>4. g = Climbing(g, n, o) /\ Climb(n, o) = g
    <2>1. g = Climbing(g, n, o)
        BY <1>3
    <2> QED BY <2>1 DEF Climb, Climbing
<1> HIDE DEF g
<1>5. DOMAIN g = 0 .. Height /\ g = [k \in 0 .. Height |-> g[k]]
    BY <1>4, Zenon DEF Climbing
<1>6. \A k \in 0 .. Height :
        g[k] = IF k = 0 THEN [n |-> n, o |-> o]
               ELSE IF g[k - 1].n = NULL THEN g[k - 1]
               ELSE [n |-> node[g[k - 1].n].parent, o |-> node[g[k - 1].n].offset]
    BY <1>4, Zenon DEF Climbing
<1>7. g[0] = [n |-> n, o |-> o] /\ \A k \in 1 .. Height : g[k] = NextUp(g[k - 1])
    <2>1. g[0] = [n |-> n, o |-> o]
        <3>1. 0 \in 0 .. Height
            BY <1>1
        <3> QED BY <1>6, <3>1, Zenon
    <2>2. ASSUME NEW k \in 1 .. Height PROVE g[k] = NextUp(g[k - 1])
        <3>1. k \in 0 .. Height /\ k # 0
            BY <1>1
        <3> QED BY <1>6, <3>1, Zenon DEF NextUp
    <2> QED BY <2>1, <2>2
<1> DEFINE S == {k \in 0 .. Height : g[k] \in SlotPlaces}
<1>8. 0 \in S
    BY <1>1, <1>7 DEF SlotPlaces
<1>9. ASSUME NEW k \in 0 .. (Height - 1), k \in S PROVE k + 1 \in S
    <2>1. k + 1 \in 1 .. Height /\ (k + 1) - 1 = k /\ k + 1 \in 0 .. Height /\ g[k] \in SlotPlaces
        BY <1>1, <1>9
    <2>2. g[k + 1] = NextUp(g[k])
        BY <1>7, <2>1
    <2> QED BY <2>1, <2>2, NextUpType
<1>10. \A k \in 0 .. Height : k \in S
    <2> HIDE DEF S
    <2> QED BY <1>1, <1>8, <1>9, CountingUp
<1>11. g \in [0 .. Height -> SlotPlaces]
    BY <1>5, <1>10
<1> QED BY <1>4, <1>7, <1>11 DEF IsClimb

\* Each node on the way up holds the one before it, one level higher; the way
\* ends above the top.
LEMMA ClimbUp ==
    ASSUME TypeOK, Shape(root.rnode, node, heap, NULL),
           NEW n \in Nodes, heap[n] = "live", NEW o \in Slots, NEW f, IsClimb(f, n, o)
    PROVE  /\ \A k \in 0 .. Height : f[k].n \in Nodes =>
                /\ heap[f[k].n] = "live"
                /\ node[f[k].n].shift = node[n].shift + k
           /\ \A k \in 0 .. (Height - 1) : f[k].n \in Nodes =>
                IF f[k + 1].n = NULL THEN root.rnode = f[k].n
                ELSE node[f[k + 1].n].slots[f[k + 1].o] = f[k].n
           /\ f[Height].n = NULL
<1> DEFINE S == {k \in 0 .. Height : f[k].n \in Nodes =>
                   /\ heap[f[k].n] = "live"
                   /\ node[f[k].n].shift = node[n].shift + k}
<1>1. /\ Height \in Nat /\ NULL \notin Nodes /\ node \in Memory
      /\ \A m \in Nodes : node[m].shift \in Int
    <2>1. node \in Memory
        BY DEF TypeOK, Memory
    <2> QED BY <2>1, SizeAssumption, EntryAssumption, MemoryFields DEF Shifts
<1>2. 0 \in S
    BY <1>1 DEF IsClimb
<1>3. \A k \in 0 .. Height : f[k] \in SlotPlaces /\ f[k].n \in Nodes \cup {NULL}
    BY DEF IsClimb, SlotPlaces
<1>4. ASSUME NEW k \in 0 .. (Height - 1), f[k].n \in Nodes, heap[f[k].n] = "live"
      PROVE  /\ f[k + 1].n = node[f[k].n].parent /\ f[k + 1].o = node[f[k].n].offset
             /\ IF f[k + 1].n = NULL THEN root.rnode = f[k].n
                ELSE /\ heap[f[k + 1].n] = "live"
                     /\ node[f[k + 1].n].slots[f[k + 1].o] = f[k].n
                     /\ node[f[k + 1].n].shift = node[f[k].n].shift + 1
    <2>1. k + 1 \in 1 .. Height /\ (k + 1) - 1 = k /\ k + 1 \in 0 .. Height
        BY <1>1
    <2>2. f[k + 1] = [n |-> node[f[k].n].parent, o |-> node[f[k].n].offset]
        BY <1>1, <1>4, <2>1 DEF IsClimb, NextUp
    <2>3. f[k + 1].n \in Nodes \cup {NULL} /\ f[k + 1].o \in Slots
        BY <2>1, <1>3 DEF SlotPlaces
    <2> DEFINE m == f[k].n
               p == f[k + 1].n
               q == f[k + 1].o
    <2>4. p = node[m].parent /\ q = node[m].offset /\ p \in Nodes \cup {NULL} /\ q \in Slots
          /\ m \in Nodes /\ heap[m] = "live"
        BY <1>4, <2>2, <2>3
    <2> HIDE DEF m, p, q
    <2>5. IF p = NULL THEN root.rnode = m
          ELSE heap[p] = "live" /\ node[p].slots[q] = m
        BY <1>1, <2>4 DEF Shape, Up
    <2>6. p # NULL => node[p].shift = node[m].shift + 1
        BY <1>1, <2>4, <2>5 DEF Shape, Down
    <2> QED BY <2>4, <2>5, <2>6 DEF m, p, q
<1>5. ASSUME NEW k \in 0 .. (Height - 1), k \in S PROVE k + 1 \in S
    <2>1. k + 1 \in 1 .. Height /\ (k + 1) - 1 = k /\ k + 1 \in 0 .. Height /\ k \in 0 .. Height
        BY <1>1
    <2>2. CASE f[k].n \notin Nodes
        <3>1. f[k + 1].n = NULL
            BY <1>3, <2>1, <2>2 DEF IsClimb, NextUp
        <3> QED BY <1>1, <2>1, <3>1
    <2>3. CASE f[k].n \in Nodes
        <3>1. heap[f[k].n] = "live" /\ node[f[k].n].shift = node[n].shift + k
            BY <1>5, <2>3
        <3>2. f[k + 1].n # NULL =>
                heap[f[k + 1].n] = "live" /\ node[f[k + 1].n].shift = node[f[k].n].shift + 1
            BY <1>4, <2>3, <3>1
        <3>3. f[k + 1].n \in Nodes => /\ heap[f[k + 1].n] = "live"
                                      /\ node[f[k + 1].n].shift = node[n].shift + (k + 1)
            BY <1>1, <2>1, <3>1, <3>2
        <3> QED BY <2>1, <3>3
    <2> QED BY <2>2, <2>3
<1>6. \A k \in 0 .. Height : k \in S
    <2> HIDE DEF S
    <2> QED BY <1>1, <1>2, <1>5, CountingUp
<1>7. f[Height].n = NULL
    <2>1. Height \in 0 .. Height
        BY <1>1
    <2>2. f[Height].n \in Nodes => node[f[Height].n].shift = node[n].shift + Height
        BY <1>6, <2>1
    <2>3. \A m \in Nodes : node[m].shift \in 0 .. (Height - 1)
        BY <1>1, MemoryFields DEF Shifts
    <2> QED BY <1>1, <1>3, <2>1, <2>2, <2>3
<1>8. \A k \in 0 .. (Height - 1) : k \in 0 .. Height
    BY <1>1
<1> QED BY <1>4, <1>6, <1>7, <1>8

\* The levels of the way f up at which bits of a tag are cleared, T having its bits.
Levels(f, T) ==
    {k \in 0 .. Height : \A j \in 0 .. (k - 1) : f[j].n # NULL /\ T[f[j].n] = {f[j].o}}

LEMMA LevelsAre ==
    ASSUME NEW f, NEW T
    PROVE  /\ 0 \in Levels(f, T) /\ Levels(f, T) \subseteq 0 .. Height
           /\ \A k \in 0 .. (Height - 1) :
                k + 1 \in Levels(f, T) <=>
                  k \in Levels(f, T) /\ f[k].n # NULL /\ T[f[k].n] = {f[k].o}
           /\ \A k \in Levels(f, T), j \in 0 .. Height :
                j < k => j \in Levels(f, T) /\ f[j].n # NULL
<1>1. Height \in Nat
    BY SizeAssumption
<1>2. 0 \in Levels(f, T) /\ Levels(f, T) \subseteq 0 .. Height
    BY <1>1 DEF Levels
<1>3. ASSUME NEW k \in 0 .. (Height - 1)
      PROVE  k + 1 \in Levels(f, T) <=>
               k \in Levels(f, T) /\ f[k].n # NULL /\ T[f[k].n] = {f[k].o}
    <2>1. k \in 0 .. Height /\ k + 1 \in 0 .. Height
          /\ \A j : j \in 0 .. ((k + 1) - 1) <=> j \in 0 .. (k - 1) \/ j = k
        BY <1>1
    <2> QED BY <2>1 DEF Levels
<1>4. ASSUME NEW k \in Levels(f, T), NEW j \in 0 .. Height, j < k
      PROVE  j \in Levels(f, T) /\ f[j].n # NULL
    <2>1. /\ k \in 0 .. Height /\ j \in 0 .. (k - 1)
          /\ \A i \in 0 .. (j - 1) : i \in 0 .. (k - 1)
        BY <1>1, <1>2, <1>4
    <2> QED BY <2>1 DEF Levels
<1> QED BY <1>2, <1>3, <1>4

\* N is T without the bits on those levels.
BitsLess(N, T, C, f) ==
    /\ T \in [Nodes -> SUBSET Slots] /\ N \in [Nodes -> SUBSET Slots]
    /\ \A m \in Nodes, s \in Slots :
         s \in N[m] <=> s \in T[m] /\ \A k \in C : f[k].n = m => f[k].o # s

\* The bits T of one tag, with on for the root's, say what hangs below.
Agreed(T, on) ==
    /\ \A m \in Nodes, s \in Slots : heap[m] = "live" /\ node[m].slots[s] \in Nodes =>
         (s \in T[m] <=> T[node[m].slots[s]] # {})
    /\ root.rnode \in Nodes => (on <=> T[root.rnode] # {})

\* node_tag_clear keeps the bits in agreement and clears the one it started at.
LEMMA ClearedLevels ==
    ASSUME TypeOK, Shape(root.rnode, node, heap, NULL),
           NEW n \in Nodes, heap[n] = "live", NEW o \in Slots, node[n].slots[o] \notin Nodes,
           NEW f, IsClimb(f, n, o), NEW T, NEW N, NEW C, NEW on \in BOOLEAN,
           C = Levels(f, T), BitsLess(N, T, C, f), Agreed(T, on)
    PROVE  /\ Agreed(N, on /\ \A k \in C : f[k].n # NULL)
           /\ o \notin N[n]
<1>1. /\ Height \in Nat /\ NULL \notin Nodes
      /\ \A m \in Nodes : node[m].shift \in Int /\ node[m].parent \in Nodes \cup {NULL}
    <2>1. node \in Memory
        BY DEF TypeOK, Memory
    <2> QED BY <2>1, SizeAssumption, EntryAssumption, MemoryFields DEF Shifts
<1>2. /\ \A k \in 0 .. Height : f[k] \in SlotPlaces /\ f[k].n \in Nodes \cup {NULL}
      /\ f[0].n = n /\ f[0].o = o
    BY DEF IsClimb, SlotPlaces
<1>3. /\ \A k \in 0 .. Height : f[k].n \in Nodes =>
           heap[f[k].n] = "live" /\ node[f[k].n].shift = node[n].shift + k
      /\ \A k \in 0 .. (Height - 1) : f[k].n \in Nodes =>
           IF f[k + 1].n = NULL THEN root.rnode = f[k].n
           ELSE node[f[k + 1].n].slots[f[k + 1].o] = f[k].n
      /\ f[Height].n = NULL
    BY ClimbUp
<1>4. \A j, k \in 0 .. Height : f[j].n \in Nodes /\ f[j].n = f[k].n => j = k
    BY <1>1, <1>3
<1>5. ASSUME NEW k \in 0 .. Height, f[k].n \in Nodes
      PROVE  /\ k + 1 \in 0 .. Height /\ k \in 0 .. (Height - 1)
             /\ f[k + 1].n = node[f[k].n].parent /\ f[k + 1].o = node[f[k].n].offset
    <2>1. k # Height
        BY <1>1, <1>3, <1>5
    <2>2. k + 1 \in 1 .. Height /\ (k + 1) - 1 = k /\ k + 1 \in 0 .. Height
          /\ k \in 0 .. (Height - 1)
        BY <1>1, <2>1
    <2>3. f[k + 1] = [n |-> node[f[k].n].parent, o |-> node[f[k].n].offset]
        BY <1>1, <1>5, <2>2 DEF IsClimb, NextUp
    <2> QED BY <2>2, <2>3
<1>6. /\ 0 \in C /\ C \subseteq 0 .. Height
      /\ \A k \in 0 .. (Height - 1) :
           k + 1 \in C <=> k \in C /\ f[k].n # NULL /\ T[f[k].n] = {f[k].o}
      /\ \A k \in C, j \in 0 .. Height : j < k => j \in C /\ f[j].n # NULL
    BY LevelsAre
<1>7. ASSUME NEW m \in Nodes, NEW k \in 0 .. Height, f[k].n = m
      PROVE  N[m] = IF k \in C THEN T[m] \ {f[k].o} ELSE T[m]
    <2>1. \A j \in C : f[j].n = m => j = k
        BY <1>4, <1>6, <1>7
    <2> DEFINE M == IF k \in C THEN T[m] \ {f[k].o} ELSE T[m]
    <2>2. \A s \in Slots : s \in N[m] <=> s \in M
        BY <1>7, <2>1 DEF BitsLess
    <2>3. N[m] \subseteq Slots /\ M \subseteq Slots
        BY DEF BitsLess
    <2> HIDE DEF M
    <2>4. N[m] = M
        BY <2>2, <2>3
    <2> QED BY <2>4 DEF M
<1>8. ASSUME NEW m \in Nodes, \A k \in C : f[k].n # m PROVE N[m] = T[m]
    <2>1. \A s \in Slots : s \in N[m] <=> s \in T[m]
        BY <1>8 DEF BitsLess
    <2>2. N[m] \subseteq Slots /\ T[m] \subseteq Slots
        BY DEF BitsLess
    <2> QED BY <2>1, <2>2
\* A cleared level is empty afterwards if it was, or if the next one is cleared.
<1>9. ASSUME NEW k \in C, f[k].n \in Nodes
      PROVE  N[f[k].n] = {} <=> T[f[k].n] = {} \/ k + 1 \in C
    <2> DEFINE m == f[k].n
               q == f[k].o
    <2>1. N[m] = T[m] \ {q}
        BY <1>6, <1>7, <1>9
    <2>2. k + 1 \in C <=> T[m] = {q}
        BY <1>1, <1>5, <1>6, <1>9
    <2> HIDE DEF m, q
    <2>3. N[m] = {} <=> T[m] = {} \/ k + 1 \in C
        BY <2>1, <2>2
    <2> QED BY <2>3 DEF m
<1>10. ASSUME NEW m \in Nodes, NEW s \in Slots, heap[m] = "live", node[m].slots[s] \in Nodes
       PROVE  s \in N[m] <=> N[node[m].slots[s]] # {}
    <2> DEFINE e == node[m].slots[s]
    <2>1. /\ e \in Nodes /\ heap[e] = "live" /\ node[e].parent = m /\ node[e].offset = s
          /\ (s \in T[m] <=> T[e] # {})
        BY <1>1, <1>10 DEF Shape, Down, Agreed
    <2>2. \A j \in 0 .. (Height - 1) : f[j + 1].n = m /\ f[j + 1].o = s /\ f[j].n \in Nodes =>
            f[j].n = e
        BY <1>1, <1>3
    <2>3. node[m].slots[s] # node[n].slots[o]
        BY <1>10
    <2> HIDE DEF e
    <2>4. CASE \E k \in C : f[k].n = e
        <3>1. PICK k \in C : f[k].n = e
            BY <2>4
        <3>2. k + 1 \in 0 .. Height /\ f[k + 1].n = m /\ f[k + 1].o = s
            BY <1>5, <1>6, <2>1, <3>1
        <3>3. N[e] = {} <=> T[e] = {} \/ k + 1 \in C
            BY <1>9, <2>1, <3>1
        <3>4. N[m] = IF k + 1 \in C THEN T[m] \ {s} ELSE T[m]
            BY <1>7, <3>2
        <3>5. s \in N[m] <=> N[e] # {}
            <4>1. CASE k + 1 \in C
                <5>1. N[m] = T[m] \ {s} /\ N[e] = {}
                    BY <3>3, <3>4, <4>1
                <5> QED BY <5>1
            <4>2. CASE k + 1 \notin C
                <5>1. N[m] = T[m] /\ (N[e] = {} <=> T[e] = {})
                    BY <3>3, <3>4, <4>2
                <5> QED BY <2>1, <5>1
            <4> QED BY <4>1, <4>2
        <3> QED BY <3>5 DEF e
    <2>5. CASE \A k \in C : f[k].n # e
        <3>1. N[e] = T[e]
            BY <1>8, <2>1, <2>5
        <3>2. ASSUME NEW k \in C, f[k].n = m PROVE f[k].o # s
            <4>1. k # 0 \/ f[k].o # s
                BY <1>2, <2>3, <3>2
            <4>2. k # 0 => /\ k - 1 \in 0 .. (Height - 1) /\ k - 1 \in 0 .. Height
                           /\ (k - 1) + 1 = k /\ k - 1 < k
                BY <1>1, <1>6
            <4>3. k # 0 => k - 1 \in C /\ f[k - 1].n \in Nodes
                BY <1>2, <1>6, <4>2
            <4>4. k # 0 => f[k].o # s
                BY <2>2, <2>5, <3>2, <4>2, <4>3
            <4> QED BY <4>1, <4>4
        <3>3. s \in N[m] <=> s \in T[m]
            BY <3>2 DEF BitsLess
        <3> QED BY <2>1, <3>1, <3>3 DEF e
    <2> QED BY <2>4, <2>5
<1>11. ASSUME root.rnode \in Nodes
       PROVE  (on /\ \A k \in C : f[k].n # NULL) <=> N[root.rnode] # {}
    <2> DEFINE t == root.rnode
    <2>1. t \in Nodes /\ node[t].parent = NULL /\ (on <=> T[t] # {})
        BY <1>11 DEF Shape, Rooted, Agreed
    <2> HIDE DEF t
    <2>2. CASE \E k \in C : f[k].n = t
        <3>1. PICK k \in C : f[k].n = t
            BY <2>2
        <3>2. k \in 0 .. Height /\ k + 1 \in 0 .. Height /\ f[k + 1].n = NULL
            BY <1>5, <1>6, <2>1, <3>1
        <3>3. N[t] = {} <=> T[t] = {} \/ k + 1 \in C
            BY <1>9, <2>1, <3>1
        <3>4. ASSUME k + 1 \notin C, NEW j \in C PROVE f[j].n # NULL
            <4>1. j \in 0 .. Height /\ ~(k + 1 < j) /\ j # k + 1
                BY <1>6, <3>2, <3>4
            <4>2. j < k \/ j = k
                BY <3>2, <4>1
            <4> QED BY <1>1, <1>6, <2>1, <3>1, <4>1, <4>2
        <3>5. CASE k + 1 \in C
            BY <3>2, <3>3, <3>5 DEF t
        <3>6. CASE k + 1 \notin C
            BY <2>1, <3>3, <3>4, <3>6 DEF t
        <3> QED BY <3>5, <3>6
    <2>3. CASE \A k \in C : f[k].n # t
        <3>1. N[t] = T[t]
            BY <1>8, <2>1, <2>3
        <3>2. ASSUME NEW k \in C PROVE f[k].n # NULL
            <4>1. k # 0 => /\ k - 1 \in 0 .. (Height - 1) /\ k - 1 \in 0 .. Height
                           /\ (k - 1) + 1 = k /\ k - 1 < k
                BY <1>1, <1>6
            <4>2. k # 0 => k - 1 \in C /\ f[k - 1].n \in Nodes
                BY <1>2, <1>6, <4>1
            <4>3. k # 0 /\ f[k].n = NULL => t = f[k - 1].n
                BY <1>3, <4>1, <4>2 DEF t
            <4> QED BY <1>1, <1>2, <2>3, <4>2, <4>3
        <3> QED BY <2>1, <3>1, <3>2 DEF t
    <2> QED BY <2>2, <2>3
<1>12. o \notin N[n]
    <2>1. 0 \in C /\ f[0].n = n /\ f[0].o = o
        BY <1>2, <1>6
    <2> QED BY <2>1 DEF BitsLess
<1> QED BY <1>10, <1>11, <1>12, Zenon DEF Agreed

\* The bits of one tag in memory mem.
BitsOf(mem, x) == [m \in Nodes |-> mem[m].tags[x]]

LEMMA ClearedUpToIs ==
    ASSUME TypeOK, NEW n \in Nodes \cup {NULL}, NEW o \in Slots, NEW x \in Tags
    PROVE  ClearedUpTo(n, o, x) = Levels(Climb(n, o), BitsOf(node, x))
<1> DEFINE f == Climb(n, o)
<1>1. IsClimb(f, n, o)
    BY ClimbIs
<1>2. ClearedUpTo(n, o, x) =
        {k \in 0 .. Height :
           \A j \in 0 .. (k - 1) : f[j].n # NULL /\ node[f[j].n].tags[x] = {f[j].o}}
    BY DEF ClearedUpTo
<1> HIDE DEF f
<1>3. \A k \in 0 .. Height : \A j \in 0 .. (k - 1) : j \in 0 .. Height /\ f[j].n \in Nodes \cup {NULL}
    BY <1>1, SizeAssumption DEF IsClimb, SlotPlaces
<1>4. \A k \in 0 .. Height : \A j \in 0 .. (k - 1) :
        f[j].n # NULL => BitsOf(node, x)[f[j].n] = node[f[j].n].tags[x]
    BY <1>3 DEF BitsOf
<1>5. ClearedUpTo(n, o, x) = Levels(f, BitsOf(node, x))
    BY <1>2, <1>4 DEF Levels
<1> QED BY <1>5 DEF f

LEMMA ClearedFields ==
    ASSUME TypeOK, NEW n, NEW o, NEW ts, NEW m \in Nodes, NEW x \in Tags
    PROVE  LET new == TagsCleared(n, o, ts) IN
           /\ new[m].slots = node[m].slots
           /\ new[m].tags[x] \subseteq node[m].tags[x]
           /\ \A s \in Slots :
                s \in new[m].tags[x] <=>
                  /\ s \in node[m].tags[x]
                  /\ x \in ts => \A k \in ClearedUpTo(n, o, x) :
                                   Climb(n, o)[k].n = m => Climb(n, o)[k].o # s
<1> DEFINE up == Climb(n, o)
           Bits(t) == {up[k].o : k \in {j \in ClearedUpTo(n, o, t) : up[j].n = m}}
           Kept == [t \in Tags |-> IF t \in ts THEN node[m].tags[t] \ Bits(t) ELSE node[m].tags[t]]
           new == TagsCleared(n, o, ts)
<1>1. node[m] \in NodeType /\ node[m].tags[x] \subseteq Slots
    BY DEF TypeOK, NodeType
<1>2. new[m] = [node[m] EXCEPT !.tags = Kept]
    BY DEF TagsCleared
<1>3. new[m].slots = node[m].slots /\ new[m].tags = Kept
    <2> HIDE DEF Kept, new
    <2> QED BY <1>1, <1>2 DEF NodeType
<1>4. new[m].tags[x] = IF x \in ts THEN node[m].tags[x] \ Bits(x) ELSE node[m].tags[x]
    <2> HIDE DEF Bits, new
    <2> QED BY <1>3
<1>5. \A s : s \in Bits(x) <=> \E k \in ClearedUpTo(n, o, x) : up[k].n = m /\ up[k].o = s
    <2> HIDE DEF up
    <2> QED OBVIOUS
<1>6. \A s : s \in new[m].tags[x] <=>
               s \in node[m].tags[x] /\ (x \in ts => s \notin Bits(x))
    <2> HIDE DEF Bits, new
    <2> QED BY <1>4
<1>7. \A s : s \in new[m].tags[x] <=>
               /\ s \in node[m].tags[x]
               /\ x \in ts => \A k \in ClearedUpTo(n, o, x) : up[k].n = m => up[k].o # s
    <2> HIDE DEF Bits, new, up
    <2> QED BY <1>5, <1>6
<1>8. new[m].tags[x] \subseteq node[m].tags[x]
    <2> HIDE DEF Bits, new
    <2> QED BY <1>6
<1> QED BY <1>3, <1>7, <1>8, Zenon

\* node_tag_clear at an entry keeps the marks.
LEMMA MarkedCleared ==
    ASSUME TypeOK, Shape(root.rnode, node, heap, NULL), NEW p, NEW g,
           Marked(root.tags, root.rnode, node, heap, NULL, p, g),
           NEW n \in Nodes \cup {NULL}, n # NULL => heap[n] = "live", NEW o \in Slots,
           (IF n = NULL THEN root.rnode ELSE node[n].slots[o]) \notin Nodes,
           NEW ts \in SUBSET Tags
    PROVE  /\ Marked(RootTagsCleared(n, o, ts), root.rnode, TagsCleared(n, o, ts), heap, NULL, p, g)
           /\ RootTagsCleared(n, o, ts) \subseteq root.tags
           /\ n = NULL => RootTagsCleared(n, o, ts) \cap ts = {}
           /\ n # NULL => \A x \in ts : o \notin TagsCleared(n, o, ts)[n].tags[x]
<1> DEFINE f == Climb(n, o)
           C(x) == ClearedUpTo(n, o, x)
           new == TagsCleared(n, o, ts)
           rt == RootTagsCleared(n, o, ts)
<1>1. /\ IsClimb(f, n, o) /\ NULL \notin Nodes /\ node \in Memory
      /\ f[0].n = n /\ f[0].o = o /\ root.tags \subseteq Tags
    BY ClimbIs, EntryAssumption DEF IsClimb, TypeOK, Memory
<1>2. \A x \in Tags : C(x) = Levels(f, BitsOf(node, x)) /\ 0 \in C(x)
    <2> SUFFICES ASSUME NEW x \in Tags PROVE C(x) = Levels(f, BitsOf(node, x)) /\ 0 \in C(x)
        OBVIOUS
    <2>1. C(x) = Levels(f, BitsOf(node, x))
        BY ClearedUpToIs
    <2> HIDE DEF f, C
    <2>2. 0 \in Levels(f, BitsOf(node, x))
        BY LevelsAre
    <2> QED BY <2>1, <2>2
<1>3. /\ rt \subseteq root.tags
      /\ \A x \in Tags :
           x \in rt <=> x \in root.tags /\ (x \in ts => \A k \in C(x) : f[k].n # NULL)
    BY <1>1 DEF RootTagsCleared
<1>4. \A m \in Nodes, x \in Tags :
        /\ new[m].slots = node[m].slots
        /\ new[m].tags[x] \subseteq node[m].tags[x]
        /\ \A s \in Slots :
             s \in new[m].tags[x] <=>
               /\ s \in node[m].tags[x]
               /\ x \in ts => \A k \in C(x) : f[k].n = m => f[k].o # s
    BY ClearedFields
<1>5. new \in Memory
    BY TagsClearedType
<1>6. \A m \in Nodes, x \in Tags :
        node[m].tags[x] \subseteq Slots /\ new[m].tags[x] \subseteq Slots
    BY <1>1, <1>5, TagFields
<1> HIDE DEF f, C, new, rt
<1>7. ASSUME NEW x \in Tags, x \notin ts, NEW m \in Nodes PROVE new[m].tags[x] = node[m].tags[x]
    <2>1. \A s \in Slots : s \in new[m].tags[x] <=> s \in node[m].tags[x]
        BY <1>4, <1>7
    <2> QED BY <1>6, <2>1
<1>8. CASE n = NULL
    <2>1. ASSUME NEW x \in Tags, NEW m \in Nodes PROVE new[m].tags[x] = node[m].tags[x]
        <3>1. ASSUME NEW k \in C(x), x \in ts PROVE f[k].n # m
            <4>1. \A i \in 0 .. Height : 0 < i /\ i \in C(x) => f[0].n # NULL
                <5>1. 0 \in 0 .. Height
                    BY SizeAssumption
                <5> QED BY <1>2, <5>1, LevelsAre
            <4>2. k \in 0 .. Height
                BY <1>2, LevelsAre
            <4>3. k = 0
                BY <1>1, <1>8, <3>1, <4>1, <4>2
            <4> QED BY <1>1, <1>8, <4>3
        <3>2. \A s \in Slots : s \in new[m].tags[x] <=> s \in node[m].tags[x]
            BY <1>4, <3>1
        <3> QED BY <1>6, <3>2
    <2>2. SlotsMarked(new, heap, NULL, p, g)
        <3>1. SlotsMarked(node, heap, NULL, p, g)
            BY DEF Marked
        <3>2. \A m \in Nodes, x \in Tags :
                new[m].slots = node[m].slots /\ new[m].tags[x] = node[m].tags[x]
            BY <1>4, <2>1
        <3> SUFFICES ASSUME NEW m \in Nodes, NEW s \in Slots, NEW x \in Tags, heap[m] = "live"
                     PROVE  /\ new[m].slots[s] \in Nodes =>
                                 (s \in new[m].tags[x] <=>
                                    \/ new[new[m].slots[s]].tags[x] # {}
                                    \/ m = NULL /\ s = p /\ x = g)
                            /\ new[m].slots[s] = NULL /\ s \in new[m].tags[x] =>
                                 m = NULL /\ s = p /\ x = g
            BY DEF SlotsMarked
        <3> DEFINE e == node[m].slots[s]
        <3>3. new[m].slots[s] = e /\ new[m].tags[x] = node[m].tags[x]
            BY <3>2
        <3>4. e \in Nodes => new[e].tags[x] = node[e].tags[x]
            BY <3>2
        <3>5. /\ e \in Nodes => (s \in node[m].tags[x] <=>
                                   node[e].tags[x] # {} \/ (m = NULL /\ s = p /\ x = g))
              /\ e = NULL /\ s \in node[m].tags[x] => m = NULL /\ s = p /\ x = g
            BY <3>1 DEF SlotsMarked
        <3> HIDE DEF e
        <3> QED BY <3>3, <3>4, <3>5
    <2>3. root.rnode \notin Nodes
        BY <1>8
    <2>4. RootMarked(rt, root.rnode, new, NULL, g)
        BY <1>3, <2>3 DEF Marked, RootMarked
    <2>5. rt \cap ts = {}
        BY <1>1, <1>2, <1>3, <1>8
    <2> QED BY <1>3, <1>8, <2>2, <2>4, <2>5 DEF Marked, rt, new
<1>9. CASE n # NULL
    <2>1. n \in Nodes /\ heap[n] = "live" /\ node[n].slots[o] \notin Nodes
        BY <1>9
    <2>2. ASSUME NEW x \in ts
          PROVE  /\ Agreed(BitsOf(new, x), x \in rt)
                 /\ o \notin new[n].tags[x]
        <3> DEFINE T == BitsOf(node, x)
                   N == BitsOf(new, x)
                   on == x \in root.tags
                   D == C(x)
        <3>1. x \in Tags /\ on \in BOOLEAN
            OBVIOUS
        <3>2. D = Levels(f, T)
            BY <1>2, <3>1
        <3>3. \A m \in Nodes : T[m] = node[m].tags[x] /\ N[m] = new[m].tags[x]
            BY DEF BitsOf
        <3>4. T \in [Nodes -> SUBSET Slots] /\ N \in [Nodes -> SUBSET Slots]
            BY <1>6, <3>1 DEF BitsOf
        <3>5. \A m \in Nodes, s \in Slots :
                s \in new[m].tags[x] <=>
                  s \in node[m].tags[x] /\ \A k \in D : f[k].n = m => f[k].o # s
            BY <1>4, <3>1
        <3>6. /\ \A m \in Nodes, s \in Slots : heap[m] = "live" /\ node[m].slots[s] \in Nodes =>
                   (s \in node[m].tags[x] <=> node[node[m].slots[s]].tags[x] # {})
              /\ root.rnode \in Nodes => (x \in root.tags <=> node[root.rnode].tags[x] # {})
            BY <1>1, <3>1 DEF Marked, RootMarked, SlotsMarked
        <3>7. x \in rt <=> on /\ \A k \in D : f[k].n # NULL
            BY <1>3, <3>1
        <3> HIDE DEF T, N, D
        <3>8. BitsLess(N, T, D, f) /\ Agreed(T, on)
            <4>1. \A m \in Nodes, s \in Slots :
                    s \in N[m] <=> s \in T[m] /\ \A k \in D : f[k].n = m => f[k].o # s
                BY <3>3, <3>5
            <4>2. \A m \in Nodes, s \in Slots : heap[m] = "live" /\ node[m].slots[s] \in Nodes =>
                    (s \in T[m] <=> T[node[m].slots[s]] # {})
                BY <3>3, <3>6
            <4>3. root.rnode \in Nodes => (on <=> T[root.rnode] # {})
                BY <3>3, <3>6
            <4> HIDE DEF on
            <4> QED BY <3>4, <4>1, <4>2, <4>3 DEF BitsLess, Agreed
        <3>9. Agreed(N, on /\ \A k \in D : f[k].n # NULL) /\ o \notin N[n]
            <4> HIDE DEF on
            <4>1. on \in BOOLEAN
                BY DEF on
            <4> QED BY <1>1, <2>1, <3>2, <3>8, <4>1, ClearedLevels
        <3>10. Agreed(N, x \in rt)
            BY <3>7, <3>9 DEF Agreed
        <3> QED BY <2>1, <3>3, <3>9, <3>10 DEF N
    <2>3. SlotsMarked(new, heap, NULL, p, g)
        <3> SUFFICES ASSUME NEW m \in Nodes, NEW s \in Slots, NEW x \in Tags, heap[m] = "live"
                     PROVE  /\ node[m].slots[s] \in Nodes =>
                                 (s \in new[m].tags[x] <=> new[node[m].slots[s]].tags[x] # {})
                            /\ node[m].slots[s] = NULL => s \notin new[m].tags[x]
            BY <1>1, <1>4 DEF SlotsMarked
        <3>1. /\ node[m].slots[s] \in Nodes =>
                   (s \in node[m].tags[x] <=> node[node[m].slots[s]].tags[x] # {})
              /\ node[m].slots[s] = NULL => s \notin node[m].tags[x]
            BY <1>1 DEF Marked, SlotsMarked
        <3>2. node[m].slots[s] = NULL => s \notin new[m].tags[x]
            BY <1>4, <3>1
        <3>3. CASE x \notin ts
            BY <1>7, <3>1, <3>2, <3>3
        <3>4. CASE x \in ts
            <4>1. Agreed(BitsOf(new, x), x \in rt)
                BY <2>2, <3>4
            <4>2. \A k \in Nodes : BitsOf(new, x)[k] = new[k].tags[x]
                BY DEF BitsOf
            <4> QED BY <3>2, <4>1, <4>2 DEF Agreed
        <3> QED BY <3>3, <3>4
    <2>4. RootMarked(rt, root.rnode, new, NULL, g)
        <3>1. root.rnode = NULL => rt = {}
            BY <1>3 DEF Marked, RootMarked
        <3>2. ASSUME root.rnode \in Nodes, NEW x \in Tags
              PROVE  x \in rt <=> new[root.rnode].tags[x] # {}
            <4>1. CASE x \notin ts
                <5>1. x \in rt <=> x \in root.tags
                    BY <1>3, <4>1
                <5>2. new[root.rnode].tags[x] = node[root.rnode].tags[x]
                    BY <1>7, <3>2, <4>1
                <5>3. x \in root.tags <=> node[root.rnode].tags[x] # {}
                    BY <3>2 DEF Marked, RootMarked
                <5> QED BY <5>1, <5>2, <5>3
            <4>2. CASE x \in ts
                <5>1. Agreed(BitsOf(new, x), x \in rt)
                    BY <2>2, <4>2
                <5>2. BitsOf(new, x)[root.rnode] = new[root.rnode].tags[x]
                    BY <3>2 DEF BitsOf
                <5> QED BY <3>2, <5>1, <5>2 DEF Agreed
            <4> QED BY <4>1, <4>2
        <3> QED BY <3>1, <3>2 DEF RootMarked
    <2> QED BY <1>3, <1>9, <2>2, <2>3, <2>4 DEF Marked, rt, new
<1> QED BY <1>8, <1>9

-----------------------------------------------------------------------------
(* Where the calls that look an index up stand: on the way to it, with     *)
(* what their caller had seen of it still true.                            *)

Asking == {"delete", "replace", "tag_clear", "tag_set"}

OnWay(i, k) ==
    /\ AtSlot = Walk(i)[k]
    /\ w.cur = NULL => k = 0
    /\ w.cur # NULL => /\ k # 0 /\ Walk(i)[k - 1] = w.cur
                       /\ w.off = Offset(node[w.cur].shift, i)

PlaceInv ==
    \A a \in Calls :
      w.op = a /\ w.pc \in Asking \cup {"find"} =>
        /\ a.kind \in Asking /\ (w.pc \in Asking => a.kind = w.pc)
        /\ Callable(a)
        /\ w.pc = "find" => a.index <= RootMaxIndex /\ \E k \in 0 .. Height : OnWay(a.index, k)

LEMMA CallIndex == \A a \in Calls : a.index \in Indices
BY DEF Calls, Inserts, Deletes, Replaces, TagSets, TagClears

\* Changes to what is out of the tree do not change a tag.
LEMMA TaggedSame ==
    ASSUME StructInv, TypeOK', NEW i \in Indices, root' = root,
           \A n \in Nodes : heap[n] = "live" => /\ node'[n].slots = node[n].slots
                                                /\ node'[n].shift = node[n].shift
                                                /\ node'[n].tags = node[n].tags
    PROVE  \A x \in Tags : Tagged(i, x)' <=> Tagged(i, x)
<1>1. Walk(i)' = Walk(i) /\ RootMaxIndex' = RootMaxIndex
    BY WalkSame
<1>2. /\ root.rnode \in Entries /\ node \in Memory /\ TypeOK
      /\ Rooted(root.rnode, node, heap) /\ Down(node, heap, Retiring)
    BY DEF StructInv, TypeInv, TypeOK, Memory, ShapeInv, Shape
<1>3. IsWalk(Walk(i), root.rnode, node, i)
    BY <1>2, WalkIs
<1>4. \A k \in 0 .. Height : Walk(i)[k] \in Nodes => heap[Walk(i)[k]] = "live"
    BY <1>2, <1>3, WalkDown
<1> DEFINE e == Walk(i)
<1>5. \A k \in 0 .. Height : e[k] \in Nodes =>
        /\ node'[e[k]].shift = node[e[k]].shift /\ node'[e[k]].tags = node[e[k]].tags
    BY <1>4
<1>6. \A x \in Tags : Tagged(i, x) <=>
        /\ x \in root.tags /\ i <= RootMaxIndex
        /\ \A k \in 0 .. Height :
             e[k] \in Nodes => Offset(node[e[k]].shift, i) \in node[e[k]].tags[x]
    BY DEF Tagged
<1>7. \A x \in Tags : Tagged(i, x)' <=>
        /\ x \in root'.tags /\ i <= RootMaxIndex'
        /\ \A k \in 0 .. Height :
             Walk(i)'[k] \in Nodes =>
               Offset(node'[Walk(i)'[k]].shift, i) \in node'[Walk(i)'[k]].tags[x]
    BY DEF Tagged, Offset
<1>8. \A x \in Tags : Tagged(i, x)' <=>
        /\ x \in root.tags /\ i <= RootMaxIndex
        /\ \A k \in 0 .. Height :
             e[k] \in Nodes => Offset(node'[e[k]].shift, i) \in node'[e[k]].tags[x]
    BY <1>1, <1>7, Zenon
<1> HIDE DEF e
<1> QED BY <1>5, <1>6, <1>8

LEMMA CallableSame ==
    ASSUME StructInv, TypeOK', NEW a \in Calls, root' = root,
           \A n \in Nodes : heap[n] = "live" => /\ node'[n].slots = node[n].slots
                                                /\ node'[n].shift = node[n].shift
                                                /\ a.kind = "replace" => node'[n].tags = node[n].tags
    PROVE  Callable(a)' <=> Callable(a)
<1>1. a.index \in Indices
    BY CallIndex
<1>2. Value(a.index)' = Value(a.index)
    BY <1>1, WalkSame
<1>3. a.kind = "replace" => \A x \in Tags : Tagged(a.index, x)' <=> Tagged(a.index, x)
    BY <1>1, TaggedSame
<1> QED BY <1>2, <1>3 DEF Callable

LEMMA OnWaySame ==
    ASSUME StructInv, TypeOK', NEW i \in Indices, NEW k \in 0 .. Height, OnWay(i, k),
           w.pc = "find", w'.cur = w.cur, w'.off = w.off, root' = root,
           \A n \in Nodes : heap[n] = "live" => /\ node'[n].slots = node[n].slots
                                                /\ node'[n].shift = node[n].shift
    PROVE  OnWay(i, k)'
<1>1. Walk(i)' = Walk(i)
    BY WalkSame
<1>2. w.cur # NULL => w.cur \in Nodes /\ heap[w.cur] = "live"
    BY WriterFields DEF StructInv, TypeInv, CursorInv
<1>3. AtSlot' = AtSlot
    BY <1>2 DEF AtSlot
<1>4. w.cur # NULL => Offset(node'[w.cur].shift, i) = Offset(node[w.cur].shift, i)
    BY <1>2
<1> HIDE DEF AtSlot
<1> QED BY <1>1, <1>3, <1>4 DEF OnWay, Offset

\* Steps that leave the writer and the nodes in the tree alone.
LEMMA PlaceKept ==
    ASSUME StructInv, TypeOK', PlaceInv, w' = w, root' = root,
           \A n \in Nodes : heap[n] = "live" => /\ node'[n].slots = node[n].slots
                                                /\ node'[n].shift = node[n].shift
                                                /\ node'[n].tags = node[n].tags
    PROVE  PlaceInv'
<1> SUFFICES ASSUME NEW a \in Calls, w.op = a, w.pc \in Asking \cup {"find"}
             PROVE  /\ a.kind \in Asking /\ (w.pc \in Asking => a.kind = w.pc)
                    /\ Callable(a)'
                    /\ w.pc = "find" => /\ a.index <= RootMaxIndex'
                                        /\ \E k \in 0 .. Height : OnWay(a.index, k)'
    BY DEF PlaceInv
<1>1. /\ a.kind \in Asking /\ (w.pc \in Asking => a.kind = w.pc)
      /\ Callable(a)
      /\ w.pc = "find" => a.index <= RootMaxIndex /\ \E k \in 0 .. Height : OnWay(a.index, k)
    BY DEF PlaceInv
<1>2. a.index \in Indices
    BY CallIndex
<1>3. Callable(a)'
    BY <1>1, CallableSame
<1>4. RootMaxIndex' = RootMaxIndex
    BY <1>2, WalkSame
<1>5. ASSUME w.pc = "find", NEW k \in 0 .. Height, OnWay(a.index, k) PROVE OnWay(a.index, k)'
    BY <1>2, <1>5, OnWaySame
<1> QED BY <1>1, <1>3, <1>4, <1>5

LEMMA InvokePlace ==
    ASSUME StructInv, TypeOK', NEW o \in Calls, Invoke(o) PROVE PlaceInv'
<1>1. /\ w'.pc = o.kind /\ w'.op = o /\ Callable(o) /\ UNCHANGED <<root, node>>
      /\ w'.pc # "find"
    BY DEF Invoke, StructInv, TypeInv, TypeOK, WriterType,
           Calls, Inserts, Deletes, Replaces, TagSets, TagClears
<1>2. Callable(o)'
    BY <1>1, CallableSame
<1> QED BY <1>1, <1>2 DEF PlaceInv

LEMMA FindStartPlace == ASSUME StructInv, TypeOK', PlaceInv, FindStart PROVE PlaceInv'
<1>1. /\ w \in WriterType /\ w.pc \in Asking /\ UNCHANGED <<root, node>>
      /\ w.cur = NULL /\ 0 \in 0 .. Height
    BY SizeAssumption DEF FindStart, Asking, tree, StructInv, TypeInv, TypeOK, CursorInv
<1>2. CASE w.op.index > RootMaxIndex
    BY <1>2 DEF FindStart, Return, Idle, PlaceInv, Asking
<1>3. CASE ~(w.op.index > RootMaxIndex)
    <2>1. w'.pc = "find" /\ w'.op = w.op /\ w'.cur = NULL
        BY <1>1, <1>3 DEF FindStart, Goto, WriterType
    <2> SUFFICES ASSUME NEW a \in Calls, w.op = a
                 PROVE  /\ a.kind \in Asking /\ Callable(a)'
                        /\ a.index <= RootMaxIndex' /\ OnWay(a.index, 0)'
        BY <1>1, <2>1 DEF PlaceInv, Asking
    <2>2. a.kind \in Asking /\ Callable(a) /\ a.index \in Indices
        BY <1>1, CallIndex DEF PlaceInv
    <2>3. Callable(a)' /\ RootMaxIndex' = RootMaxIndex
        BY <1>1, <2>2, CallableSame, WalkSame
    <2>4. a.index <= RootMaxIndex
        <3>1. RootMaxIndex \in 0 .. MaxIndex /\ a.index \in 0 .. MaxIndex /\ MaxIndex \in Nat
            BY <2>2, IndexAssumption, RootMaxIndexType DEF StructInv, TypeInv
        <3>2. ~(a.index > RootMaxIndex)
            BY <1>3
        <3> QED BY <3>1, <3>2
    <2>5. Walk(a.index)'[0] = root'.rnode
        <3>1. root'.rnode \in Entries /\ node' \in Memory
            BY DEF TypeOK, Memory
        <3>2. IsWalk(Walk(a.index)', root'.rnode, node', a.index)
            BY <2>2, WalkIs
        <3> QED BY <3>2 DEF IsWalk
    <2>6. OnWay(a.index, 0)'
        BY <2>1, <2>5 DEF OnWay, AtSlot
    <2> QED BY <2>2, <2>3, <2>4, <2>6
<1> QED BY <1>2, <1>3

LEMMA FindStepFields ==
    ASSUME StructInv, FindStep
    PROVE  /\ w.pc = "find" /\ AtSlot \in Nodes /\ heap[AtSlot] = "live" /\ UNCHANGED <<root, heap>>
           /\ w'.pc = "find" /\ w'.op = w.op /\ w'.cur = AtSlot
           /\ w'.off = Offset(node[AtSlot].shift, w.op.index) /\ w'.off \in Slots
           /\ \A m \in Nodes :
                /\ node'[m].slots = node[m].slots /\ node'[m].shift = node[m].shift
                /\ w.op.kind # "tag_set" => node'[m].tags = node[m].tags
                /\ w.op.kind = "tag_set" => \A x \in Tags : node'[m].tags[x] =
                     IF m = AtSlot /\ x = w.op.tag THEN node[m].tags[x] \cup {w'.off}
                     ELSE node[m].tags[x]
<1> DEFINE n == AtSlot
           o == Offset(node[n].shift, w.op.index)
           g == w.op.tag
<1>1. /\ w.pc = "find" /\ w \in WriterType /\ n \in Nodes /\ node \in [Nodes -> NodeType]
      /\ w' = [w EXCEPT !.cur = n, !.off = o]
      /\ node' = IF w.op.kind = "tag_set" THEN [node EXCEPT ![n].tags[g] = @ \cup {o}] ELSE node
      /\ UNCHANGED <<root, heap>>
    BY DEF FindStep, Goto, StructInv, TypeInv, TypeOK
<1>2. heap[n] = "live" /\ w.op.index \in Indices /\ node[n].shift \in Shifts
    BY <1>1, AtSlotEntry, FindCall DEF StructInv, NodeType
<1>3. o \in Slots
    BY <1>1, <1>2, OffsetType
<1>4. w'.pc = "find" /\ w'.op = w.op /\ w'.cur = n /\ w'.off = o
    <2> HIDE DEF n, o
    <2> QED BY <1>1 DEF WriterType
<1>5. \A m \in Nodes :
        /\ node'[m].slots = node[m].slots /\ node'[m].shift = node[m].shift
        /\ w.op.kind # "tag_set" => node'[m].tags = node[m].tags
        /\ w.op.kind = "tag_set" => \A x \in Tags : node'[m].tags[x] =
             IF m = n /\ x = g THEN node[m].tags[x] \cup {o} ELSE node[m].tags[x]
    <2> HIDE DEF n, o, g
    <2> QED BY <1>1 DEF NodeType
<1>6. \A m \in Nodes :
        /\ node'[m].slots = node[m].slots /\ node'[m].shift = node[m].shift
        /\ w.op.kind # "tag_set" => node'[m].tags = node[m].tags
        /\ w.op.kind = "tag_set" => \A x \in Tags : node'[m].tags[x] =
             IF m = n /\ x = g THEN node[m].tags[x] \cup {w'.off} ELSE node[m].tags[x]
    <2> HIDE DEF n, o, g
    <2> QED BY <1>4, <1>5
<1>7. w'.off \in Slots /\ w'.cur = AtSlot /\ w'.off = Offset(node[AtSlot].shift, w.op.index)
    BY <1>3, <1>4
<1> QED BY <1>1, <1>2, <1>4, <1>6, <1>7, Zenon

LEMMA FindStepPlace == ASSUME StructInv, TypeOK', PlaceInv, FindStep PROVE PlaceInv'
<1>1. /\ w.pc = "find" /\ AtSlot \in Nodes /\ heap[AtSlot] = "live" /\ UNCHANGED <<root, heap>>
      /\ w'.pc = "find" /\ w'.op = w.op /\ w'.cur = AtSlot
      /\ w'.off = Offset(node[AtSlot].shift, w.op.index) /\ w'.off \in Slots
      /\ \A m \in Nodes :
           /\ node'[m].slots = node[m].slots /\ node'[m].shift = node[m].shift
           /\ w.op.kind # "tag_set" => node'[m].tags = node[m].tags
    BY FindStepFields
<1> SUFFICES ASSUME NEW a \in Calls, w.op = a
             PROVE  /\ a.kind \in Asking /\ Callable(a)' /\ a.index <= RootMaxIndex'
                    /\ \E k \in 0 .. Height : OnWay(a.index, k)'
    BY <1>1 DEF PlaceInv, Asking
<1> DEFINE i == a.index
<1>2. PICK k \in 0 .. Height :
         a.kind \in Asking /\ Callable(a) /\ i <= RootMaxIndex /\ OnWay(i, k)
    BY <1>1 DEF PlaceInv
<1>3. i \in Indices
    BY CallIndex
<1> HIDE DEF i
<1>4. Callable(a)'
    BY <1>1, <1>2, CallableSame
<1>5. Walk(i)' = Walk(i) /\ RootMaxIndex' = RootMaxIndex
    BY <1>1, <1>3, WalkSame
<1>6. /\ root.rnode \in Entries /\ node \in Memory /\ TypeOK
      /\ Rooted(root.rnode, node, heap) /\ Down(node, heap, Retiring)
    BY DEF StructInv, TypeInv, TypeOK, Memory, ShapeInv, Shape
<1>7. IsWalk(Walk(i), root.rnode, node, i)
    BY <1>3, <1>6, WalkIs
<1>8. k # Height /\ Walk(i)[k] = AtSlot
    BY <1>1, <1>2, <1>3, <1>6, <1>7, WalkEnds, EntryAssumption DEF OnWay
<1>9. k + 1 \in 1 .. Height /\ k + 1 \in 0 .. Height /\ (k + 1) - 1 = k /\ k + 1 # 0
    BY <1>8, SizeAssumption
<1>10. Walk(i)[k + 1] = node[AtSlot].slots[w'.off]
    BY <1>1, <1>7, <1>8, <1>9 DEF IsWalk, NextEntry, i
<1>11. AtSlot' = node'[w'.cur].slots[w'.off] /\ w'.cur # NULL
    BY <1>1, EntryAssumption DEF AtSlot
<1> DEFINE e == AtSlot
<1>12. OnWay(i, k + 1)'
    <2>1. /\ e \in Nodes /\ w'.cur = e /\ Walk(i)'[k] = e
          /\ AtSlot' = Walk(i)'[k + 1] /\ w'.cur # NULL
          /\ w'.off = Offset(node'[e].shift, i)
        BY <1>1, <1>5, <1>8, <1>10, <1>11 DEF i
    <2> HIDE DEF e
    <2> QED BY <1>9, <2>1 DEF OnWay, Offset
<1> QED BY <1>2, <1>4, <1>5, <1>9, <1>12 DEF i

\* The other steps of the writer leave the way.
LEMMA OtherPlace ==
    ASSUME StructInv, AllocFails \/ Create \/ TagSet \/ TagClear \/ Delete \/ Replace \/ Prune
    PROVE  PlaceInv'
<1> SUFFICES w'.pc \notin Asking \cup {"find"}
    BY DEF PlaceInv
<1>1. w \in WriterType
    BY DEF StructInv, TypeInv, TypeOK
<1>2. ASSUME NEW r, Return(r) PROVE w'.pc \notin Asking \cup {"find"}
    BY <1>2 DEF Return, Idle, Asking
<1>3. CASE AllocFails
    BY <1>2, <1>3 DEF AllocFails, ExtendFails, CreateFails
<1>4. CASE InsertStart \/ Extend \/ Descend \/ CreateChild
    BY <1>1, <1>4 DEF InsertStart, Extend, Descend, CreateChild, Goto, WriterType, Asking
<1>5. CASE InsertEntry \/ TagSet \/ TagClear
    BY <1>2, <1>5 DEF InsertEntry, TagSet, TagClear
<1>6. CASE Delete \/ Replace
    <2>1. ASSUME NEW r, PruneFrom(r) PROVE w'.pc \notin Asking \cup {"find"}
        BY <1>1, <1>2, <2>1 DEF PruneFrom, Goto, WriterType, Asking
    <2> QED BY <1>2, <1>6, <2>1 DEF Delete, Replace
<1>7. CASE Prune
    BY <1>1, <1>2, <1>7 DEF Prune, PruneEnd, PruneNode, ShrinkEnd, ShrinkRoot, ShrinkRetire,
                            Goto, WriterType, Asking
<1> QED BY <1>3, <1>4, <1>5, <1>6, <1>7 DEF Create

-----------------------------------------------------------------------------
(* The tags: one lemma for each action.                                    *)

LEMMA NowMarked ==
    ASSUME TagsInv, Ahead = NULL, NEW p, NEW g
    PROVE  Marked(root.tags, root.rnode, node, heap, NULL, p, g)
<1>1. Marked(root.tags, root.rnode, node, heap, NULL, w.off, w.op.tag)
    BY DEF TagsInv
<1> QED BY <1>1, NoneAhead

LEMMA NothingAhead ==
    /\ w.pc # "find" \/ w.op.kind # "tag_set" \/ w.cur = NULL => Ahead = NULL
    /\ w'.pc # "find" \/ w'.op.kind # "tag_set" \/ w'.cur = NULL => Ahead' = NULL
BY DEF Ahead

\* A tree that is left alone keeps its marks.
LEMMA QuietTags ==
    ASSUME TagsInv, Ahead = NULL, Ahead' = NULL, UNCHANGED <<root, node, heap>> PROVE TagsInv'
<1>1. Marked(root.tags, root.rnode, node, heap, NULL, w'.off, w'.op.tag)
    BY NowMarked
<1> QED BY <1>1 DEF TagsInv

LEMMA StillTags ==
    ASSUME StructInv, TagsInv, WriterStep,
           \/ AllocFails \/ InsertStart \/ Descend \/ FindStart \/ PruneEnd \/ ShrinkEnd
    PROVE  TagsInv'
<1>1. /\ UNCHANGED <<root, node, heap>> /\ w.pc # "find" /\ w \in WriterType
    BY DEF AllocFails, ExtendFails, CreateFails, InsertStart, Descend, FindStart, PruneEnd,
           ShrinkEnd, tree, StructInv, TypeInv, TypeOK
<1>2. Ahead' = NULL
    <2>1. ASSUME NEW r, Return(r) PROVE w'.pc # "find"
        BY <2>1 DEF Return, Idle
    <2>2. CASE AllocFails \/ PruneEnd \/ ShrinkEnd
        <3>1. w'.pc # "find"
            BY <1>1, <2>1, <2>2 DEF AllocFails, ExtendFails, CreateFails, PruneEnd, ShrinkEnd,
                                    Goto, WriterType
        <3> QED BY <3>1, NothingAhead
    <2>3. CASE InsertStart \/ Descend
        <3>1. w'.pc # "find"
            BY <1>1, <2>3 DEF InsertStart, Descend, Goto, WriterType
        <3> QED BY <3>1, NothingAhead
    <2>4. CASE FindStart
        <3>1. w.cur = NULL
            BY <2>4 DEF FindStart, StructInv, CursorInv
        <3>2. w'.cur = NULL
            BY <1>1, <2>4, <3>1 DEF FindStart, Return, Goto, Idle, WriterType
        <3> QED BY <3>2, NothingAhead
    <2> QED BY <2>2, <2>3, <2>4
<1> QED BY <1>1, <1>2, NothingAhead, QuietTags

LEMMA InvokeTags ==
    ASSUME StructInv, TagsInv, NEW o \in Calls, Invoke(o) PROVE TagsInv'
<1>1. w.pc = "idle" /\ w'.pc # "find" /\ UNCHANGED <<root, node, heap>>
    BY DEF Invoke, StructInv, TypeInv, TypeOK, WriterType, CallInv,
           Calls, Inserts, Deletes, Replaces, TagSets, TagClears
<1> QED BY <1>1, NothingAhead, QuietTags

\* The store accounts for nothing in the tags.
LEMMA StoredTags ==
    ASSUME NEW mem \in Memory, NEW n \in Nodes \cup {NULL}, NEW o, NEW e, NEW dc, NEW dx
    PROVE  \A m \in Nodes : Stored(mem, n, o, e, dc, dx)[m].tags = mem[m].tags
<1>1. CASE n = NULL
    BY <1>1 DEF Stored
<1>2. CASE n # NULL
    <2> SUFFICES ASSUME NEW m \in Nodes PROVE Stored(mem, n, o, e, dc, dx)[m].tags = mem[m].tags
        OBVIOUS
    <2> QED BY <1>2 DEF Stored, Memory, NodeType
<1> QED BY <1>1, <1>2

\* An entry that is no node replaces one that is none where the writer stands.
LEMMA StoreMarks ==
    ASSUME StructInv, w.pc \in {"create", "find"}, NEW p, NEW g,
           NEW ts \in SUBSET Tags, NEW base \in Memory, SameShape(base, node),
           Marked(ts, root.rnode, base, heap, NULL, p, g), AtSlot \notin Nodes,
           NEW e \in Items \cup {NULL}, NEW dc \in Int, NEW dx \in Int,
           node' = Stored(base, w.cur, w.off, e, dc, dx),
           root'.rnode = IF w.cur = NULL THEN e ELSE root.rnode,
           e = NULL => IF w.cur = NULL THEN ts = {} ELSE \A x \in Tags : w.off \notin base[w.cur].tags[x]
    PROVE  Marked(ts, root'.rnode, node', heap, NULL, p, g)
<1> DEFINE c == w.cur
           o == w.off
           t == root.rnode
           u == root'.rnode
<1>1. /\ c \in Nodes \cup {NULL} /\ o \in Slots /\ node \in Memory /\ e \in Entries
      /\ Shape(t, node, heap, NULL)
    BY WriterFields, SameMemory DEF StructInv, TypeInv, Entries, ShapeInv, Retiring
<1>2. Down(base, heap, NULL)
    BY <1>1, ShapeKept DEF Shape
<1>3. \A n \in Nodes : base[n].slots = base[n].slots /\ node'[n].tags = base[n].tags
    BY <1>1, StoredTags
<1>4. SameShape(base, base)
    BY DEF SameShape
<1>5. (IF c = NULL THEN t ELSE base[c].slots[o]) \notin Nodes
    BY <1>1 DEF AtSlot, SameShape
<1>6. /\ u = IF c = NULL THEN e ELSE t
      /\ e = NULL => IF c = NULL THEN ts = {} ELSE \A x \in Tags : o \notin base[c].tags[x]
      /\ node' = Stored(base, c, o, e, dc, dx)
    OBVIOUS
<1> HIDE DEF c, o, t, u
<1>7. StoreOf(node', base, c, o, e, dc, dx)
    BY <1>1, <1>4, <1>6, StoredStores
<1>8. Marked(ts, t, base, heap, NULL, p, g)
    BY DEF t
<1>9. Marked(ts, u, node', heap, NULL, p, g)
    BY <1>1, <1>2, <1>3, <1>5, <1>6, <1>7, <1>8, MarkedStored
<1> QED BY <1>9 DEF u

LEMMA InsertEntryTags == ASSUME StructInv, TagsInv, InsertEntry PROVE TagsInv'
<1>1. w.pc = "create" /\ heap' = heap /\ w'.pc = "idle" /\ Ahead = NULL /\ Ahead' = NULL
    <2>1. w.pc = "create" /\ heap' = heap /\ w'.pc = "idle"
        BY DEF InsertEntry, tree, Return, Idle
    <2> QED BY <2>1, NothingAhead
<1>2. CASE AtSlot # NULL
    <2>1. UNCHANGED <<root, node, heap>>
        BY <1>2 DEF InsertEntry, tree
    <2> QED BY <1>1, <2>1, QuietTags
<1>3. CASE AtSlot = NULL
    <2> DEFINE e == w.op.item
               dx == IsExceptional(e)
               p == w'.off
               g == w'.op.tag
    <2>1. /\ node' = Stored(node, w.cur, w.off, e, 1, dx)
          /\ root' = RootStored(w.cur, e) /\ AtSlot \notin Nodes
        BY <1>3, EntryAssumption DEF InsertEntry
    <2>2. /\ e \in Items \cup {NULL} /\ e # NULL /\ dx \in Int /\ 1 \in Int
          /\ node \in Memory /\ SameShape(node, node) /\ root.tags \in SUBSET Tags
        BY <1>1, InsertCall, EntryAssumption, IsExceptionalType, SameMemory
           DEF StructInv, TypeInv, TypeOK
    <2>3. /\ root'.rnode = IF w.cur = NULL THEN e ELSE root.rnode
          /\ root'.tags = root.tags
        BY <2>1 DEF RootStored, StructInv, TypeInv, TypeOK
    <2> HIDE DEF e, dx, p, g
    <2>4. Marked(root.tags, root.rnode, node, heap, NULL, p, g)
        BY <1>1, NowMarked
    <2>5. Marked(root.tags, root'.rnode, node', heap, NULL, p, g)
        BY <1>1, <2>1, <2>2, <2>3, <2>4, StoreMarks
    <2> QED BY <1>1, <2>3, <2>5 DEF TagsInv, p, g
<1> QED BY <1>2, <1>3

LEMMA TagClearTags == ASSUME StructInv, TypeInv', TagsInv, TagClear PROVE TagsInv'
<1>1. /\ w.pc = "find" /\ w.op.kind = "tag_clear" /\ AtSlot \notin Nodes /\ heap' = heap
      /\ w'.pc = "idle" /\ Ahead = NULL /\ Ahead' = NULL
    <2>1. /\ w.pc = "find" /\ w.op.kind = "tag_clear" /\ AtSlot \notin Nodes /\ heap' = heap
          /\ w'.pc = "idle"
        BY DEF TagClear, Found, tree, Return, Idle
    <2> QED BY <2>1, NothingAhead
<1>2. CASE AtSlot = NULL
    <2>1. UNCHANGED <<root, node, heap>>
        BY <1>2 DEF TagClear, tree
    <2> QED BY <1>1, <2>1, QuietTags
<1>3. CASE AtSlot # NULL
    <2> DEFINE c == w.cur
               o == w.off
               ts == {w.op.tag}
               p == w'.off
               g == w'.op.tag
    <2>1. /\ node' = TagsCleared(c, o, ts)
          /\ root' = [root EXCEPT !.tags = RootTagsCleared(c, o, ts)]
        BY <1>3 DEF TagClear
    <2>2. w.op.tag \in Tags
        <3>1. w.op \in Calls
            BY <1>1, FindCall DEF StructInv
        <3> QED BY <1>1, <3>1 DEF Calls, Inserts, Deletes, Replaces, TagSets, TagClears
    <2>3. /\ c \in Nodes \cup {NULL} /\ o \in Slots /\ (c # NULL => heap[c] = "live")
          /\ TypeOK /\ Shape(root.rnode, node, heap, NULL) /\ ts \in SUBSET Tags
          /\ (IF c = NULL THEN root.rnode ELSE node[c].slots[o]) \notin Nodes
        BY <1>1, <2>2, WriterFields DEF StructInv, TypeInv, CursorInv, ShapeInv, Retiring, AtSlot
    <2>4. root'.rnode = root.rnode /\ root'.tags = RootTagsCleared(c, o, ts)
        BY <2>1, <2>3 DEF TypeOK
    <2> HIDE DEF c, o, ts, p, g
    <2>5. Marked(root.tags, root.rnode, node, heap, NULL, p, g)
        BY <1>1, NowMarked
    <2>6. Marked(RootTagsCleared(c, o, ts), root.rnode, TagsCleared(c, o, ts), heap, NULL, p, g)
        BY <2>3, <2>5, MarkedCleared
    <2> QED BY <1>1, <2>1, <2>4, <2>6 DEF TagsInv, p, g
<1> QED BY <1>2, <1>3

\* After the store of a deletion or replacement the lookup is over.
LEMMA PruneFromLeaves == ASSUME StructInv, NEW r, PruneFrom(r) PROVE w'.pc # "find"
<1>1. CASE w.cur = NULL
    BY <1>1 DEF PruneFrom, Return, Idle
<1>2. CASE w.cur # NULL
    <2>1. w'.pc = "prune"
        BY <1>2 DEF PruneFrom, Goto, StructInv, TypeInv, TypeOK, WriterType
    <2> QED BY <2>1
<1> QED BY <1>1, <1>2

LEMMA DeleteTags == ASSUME StructInv, TypeInv', TagsInv, Delete PROVE TagsInv'
<1>1. /\ w.pc = "find" /\ w.op.kind = "delete" /\ AtSlot \notin Nodes /\ heap' = heap
      /\ w \in WriterType /\ Ahead = NULL
    <2>1. /\ w.pc = "find" /\ w.op.kind = "delete" /\ AtSlot \notin Nodes /\ heap' = heap
        BY DEF Delete, Found, tree
    <2> QED BY <2>1, NothingAhead DEF StructInv, TypeInv, TypeOK
<1>2. CASE AtSlot = NULL \/ w.op.item \notin {NULL, AtSlot}
    <2>1. UNCHANGED <<root, node, heap>> /\ w'.pc = "idle"
        BY <1>2 DEF Delete, tree, Return, Idle
    <2> QED BY <1>1, <2>1, NothingAhead, QuietTags
<1>3. CASE ~ (AtSlot = NULL \/ w.op.item \notin {NULL, AtSlot})
    <2> DEFINE c == w.cur
               o == w.off
               base == TagsCleared(c, o, Tags)
               rt == RootTagsCleared(c, o, Tags)
               dx == -IsExceptional(AtSlot)
               p == w'.off
               g == w'.op.tag
    <2>1. /\ node' = Stored(base, c, o, NULL, -1, dx)
          /\ root' = [RootStored(c, NULL) EXCEPT !.tags = rt]
          /\ PruneFrom(AtSlot)
        BY <1>3 DEF Delete
    <2>2. Ahead' = NULL
        <3>1. w'.pc # "find"
            BY <2>1, PruneFromLeaves
        <3> QED BY <3>1, NothingAhead
    <2>3. /\ c \in Nodes \cup {NULL} /\ o \in Slots /\ (c # NULL => heap[c] = "live")
          /\ TypeOK /\ Shape(root.rnode, node, heap, NULL)
          /\ (IF c = NULL THEN root.rnode ELSE node[c].slots[o]) \notin Nodes
        BY <1>1, WriterFields DEF StructInv, TypeInv, CursorInv, ShapeInv, Retiring, AtSlot
    <2>4. /\ base \in Memory /\ SameShape(base, node) /\ dx \in Int /\ -1 \in Int
          /\ root.tags \in SUBSET Tags
        BY <2>3, TagsClearedType, TagsClearedShape, IsExceptionalType DEF TypeOK
    <2>5. root'.rnode = (IF c = NULL THEN NULL ELSE root.rnode) /\ root'.tags = rt
        BY <2>1, <2>3 DEF RootStored, TypeOK
    <2> HIDE DEF dx, p, g
    <2>6. Marked(root.tags, root.rnode, node, heap, NULL, p, g)
        BY <1>1, NowMarked
    <2>7. /\ Marked(rt, root.rnode, base, heap, NULL, p, g) /\ rt \subseteq root.tags
          /\ c = NULL => rt \cap Tags = {}
          /\ c # NULL => \A x \in Tags : o \notin base[c].tags[x]
        <3> DEFINE ts == Tags
        <3>1. ts \in SUBSET Tags
            OBVIOUS
        <3> HIDE DEF c, o, ts
        <3>2. /\ Marked(RootTagsCleared(c, o, ts), root.rnode, TagsCleared(c, o, ts), heap, NULL, p, g)
              /\ RootTagsCleared(c, o, ts) \subseteq root.tags
              /\ c = NULL => RootTagsCleared(c, o, ts) \cap ts = {}
              /\ c # NULL => \A x \in ts : o \notin TagsCleared(c, o, ts)[c].tags[x]
            BY <2>3, <2>6, <3>1, MarkedCleared
        <3> QED BY <3>2 DEF ts
    <2> HIDE DEF base, rt
    <2>8. /\ rt \in SUBSET Tags
          /\ IF w.cur = NULL THEN rt = {} ELSE \A x \in Tags : w.off \notin base[w.cur].tags[x]
        BY <2>4, <2>7 DEF c, o
    <2>9. /\ node' = Stored(base, w.cur, w.off, NULL, -1, dx) /\ NULL \in Items \cup {NULL}
          /\ root'.rnode = IF w.cur = NULL THEN NULL ELSE root.rnode
          /\ w.pc \in {"create", "find"}
        BY <1>1, <2>1, <2>5 DEF c, o
    <2>10. Marked(rt, root'.rnode, node', heap, NULL, p, g)
        BY <1>1, <2>4, <2>7, <2>8, <2>9, StoreMarks
    <2> QED BY <1>1, <2>2, <2>5, <2>10 DEF TagsInv, p, g
<1> QED BY <1>2, <1>3

\* A bit above an item is part of a tag of its index: it is set all the way up.
LEMMA BitTagged ==
    ASSUME StructInv, w.pc = "find", NEW p, NEW g,
           Marked(root.tags, root.rnode, node, heap, NULL, p, g),
           NEW i \in Indices, i <= RootMaxIndex, NEW k \in 0 .. Height, OnWay(i, k),
           AtSlot \in Items, NEW x \in Tags,
           IF w.cur = NULL THEN x \in root.tags ELSE w.off \in node[w.cur].tags[x]
    PROVE  Tagged(i, x)
<1> DEFINE f == Walk(i)
           t == root.rnode
           bit(j) == Offset(node[f[j]].shift, i) \in node[f[j]].tags[x]
<1>1. /\ t \in Entries /\ node \in Memory /\ TypeOK /\ NULL \notin Nodes /\ Nodes \cap Items = {}
      /\ Rooted(t, node, heap) /\ Down(node, heap, NULL) /\ Height \in Nat
    BY EntryAssumption, SizeAssumption
       DEF StructInv, TypeInv, TypeOK, Memory, ShapeInv, Shape, Retiring
<1>2. IsWalk(f, t, node, i)
    BY <1>1, WalkIs
<1>3. /\ f[0] = t
      /\ \A j \in 1 .. Height : f[j] = NextEntry(node, f[j - 1], i)
    BY <1>2 DEF IsWalk
<1>4. Tagged(i, x) <=> /\ x \in root.tags /\ \A j \in 0 .. Height : f[j] \in Nodes => bit(j)
    BY DEF Tagged
<1> HIDE DEF f
<1>5. \A j \in 0 .. Height : f[j] \in Nodes =>
        t \in Nodes /\ heap[f[j]] = "live" /\ node[f[j]].shift + j = node[t].shift
    BY <1>1, <1>2, WalkDown
<1>6. CASE w.cur = NULL
    <2>1. x \in root.tags /\ t \notin Nodes
        BY <1>1, <1>6 DEF AtSlot
    <2> QED BY <1>4, <1>5, <2>1
<1>7. CASE w.cur # NULL
    <2>1. /\ w.cur \in Nodes /\ k \in 1 .. Height /\ k - 1 \in 0 .. Height /\ k - 1 \in Nat
          /\ f[k - 1] = w.cur /\ w.off = Offset(node[w.cur].shift, i)
        BY <1>1, <1>7, WriterFields DEF OnWay, f, StructInv
    <2>2. bit(k - 1)
        BY <1>7, <2>1
    <2>3. node[w.cur].shift = 0
        BY <1>7, AtSlotEntry
    <2> DEFINE h == k - 1
               S == {m \in 0 .. h : f[h - m] \in Nodes /\ bit(h - m)}
    <2>4. h \in Nat /\ 0 \in S /\ h - 0 = h
        BY <2>1, <2>2
    <2>5. ASSUME NEW m \in 0 .. (h - 1), m \in S PROVE m + 1 \in S
        <3>1. /\ h - m \in 1 .. Height /\ (h - m) - 1 = h - (m + 1) /\ h - (m + 1) \in 0 .. Height
              /\ m + 1 \in 0 .. h
            BY <1>1, <2>1
        <3> DEFINE n == f[h - m]
                   e == f[h - (m + 1)]
        <3>2. n \in Nodes /\ node[n].tags[x] # {} /\ n = NextEntry(node, e, i)
            BY <1>3, <2>5, <3>1
        <3>3. e \in Nodes /\ heap[e] = "live"
            BY <1>5, <3>1, <3>2 DEF NextEntry
        <3> DEFINE q == Offset(node[e].shift, i)
        <3>4. q \in Slots /\ n = node[e].slots[q]
            BY <1>1, <3>2, <3>3, MemoryFields, OffsetType DEF NextEntry
        <3> HIDE DEF n, e, q
        <3>5. q \in node[e].tags[x]
            BY <1>1, <3>2, <3>3, <3>4 DEF Marked, SlotsMarked
        <3> QED BY <3>1, <3>3, <3>5 DEF e, q
    <2>6. \A m \in 0 .. h : m \in S
        <3> HIDE DEF S, h
        <3> QED BY <2>4, <2>5, CountingUp
    <2>7. ASSUME NEW j \in 0 .. h PROVE f[j] \in Nodes /\ bit(j)
        <3>1. h - j \in 0 .. h /\ h - (h - j) = j
            BY <2>4
        <3> HIDE DEF h, bit
        <3> QED BY <2>6, <3>1
    <2>8. x \in root.tags
        <3>1. t \in Nodes /\ node[t].tags[x] # {}
            BY <1>3, <2>4, <2>7
        <3> QED BY <3>1 DEF Marked, RootMarked
    <2>9. ASSUME NEW j \in 0 .. Height, f[j] \in Nodes PROVE j \in 0 .. h
        <3>1. /\ node[f[j]].shift + j = node[t].shift /\ node[f[h]].shift + h = node[t].shift
              /\ node[f[h]].shift = 0
            BY <1>5, <2>1, <2>3, <2>9
        <3>2. node[f[j]].shift \in Nat /\ node[f[j]].shift + j = h
            BY <1>1, <2>1, <2>9, <3>1, MemoryFields DEF Shifts
        <3> HIDE DEF h
        <3> QED BY <2>4, <3>2
    <2> QED BY <1>4, <2>7, <2>8, <2>9
<1> QED BY <1>6, <1>7

LEMMA ReplaceTags == ASSUME StructInv, PlaceInv, TagsInv, Replace PROVE TagsInv'
<1>1. /\ w.pc = "find" /\ w.op.kind = "replace" /\ AtSlot \notin Nodes /\ heap' = heap
      /\ Ahead = NULL
    <2>1. /\ w.pc = "find" /\ w.op.kind = "replace" /\ AtSlot \notin Nodes /\ heap' = heap
        BY DEF Replace, Found, tree
    <2> QED BY <2>1, NothingAhead
<1>2. CASE AtSlot = NULL
    <2>1. UNCHANGED <<root, node, heap>> /\ w'.pc = "idle"
        BY <1>2 DEF Replace, tree, Return, Idle
    <2> QED BY <1>1, <2>1, NothingAhead, QuietTags
<1>3. CASE AtSlot # NULL
    <2> DEFINE e == w.op.item
               dc == IsEntry(e) - IsEntry(AtSlot)
               dx == IsExceptional(e) - IsExceptional(AtSlot)
               p == w'.off
               g == w'.op.tag
    <2>1. /\ node' = Stored(node, w.cur, w.off, e, dc, dx)
          /\ root' = RootStored(w.cur, e) /\ PruneFrom("ok")
        BY <1>3 DEF Replace
    <2>2. Ahead' = NULL
        <3>1. w'.pc # "find"
            BY <2>1, PruneFromLeaves
        <3> QED BY <3>1, NothingAhead
    <2>3. /\ e \in Items \cup {NULL} /\ dc \in Int /\ dx \in Int
          /\ node \in Memory /\ SameShape(node, node) /\ root.tags \in SUBSET Tags
        BY <1>1, FindCall, IsExceptionalType, SameMemory DEF StructInv, TypeInv, TypeOK
    <2>4. /\ root'.rnode = IF w.cur = NULL THEN e ELSE root.rnode
          /\ root'.tags = root.tags
        BY <2>1 DEF RootStored, StructInv, TypeInv, TypeOK
    <2>5. AtSlot \in Items
        BY <1>1, <1>3, AtSlotEntry
    <2>6. \A i : Marked(root.tags, root.rnode, node, heap, NULL, p, g)
        BY <1>1, NowMarked
    <2>7. ASSUME e = NULL, NEW x \in Tags
          PROVE  IF w.cur = NULL THEN x \notin root.tags ELSE w.off \notin node[w.cur].tags[x]
        <3>1. w.op \in Calls
            BY <1>1, FindCall DEF StructInv
        <3>2. PICK a \in Calls : w.op = a
            BY <3>1
        <3> DEFINE i == a.index
        <3>3. PICK k \in 0 .. Height : Callable(a) /\ i <= RootMaxIndex /\ OnWay(i, k)
            BY <1>1, <3>2 DEF PlaceInv
        <3>4. ~Tagged(i, x)
            BY <1>1, <2>7, <3>2, <3>3 DEF Callable
        <3>5. i \in Indices
            BY CallIndex
        <3> HIDE DEF i, p, g
        <3> QED BY <1>1, <2>5, <2>6, <3>3, <3>4, <3>5, BitTagged
    <2>8. e = NULL => IF w.cur = NULL THEN root.tags = {}
                      ELSE \A x \in Tags : w.off \notin node[w.cur].tags[x]
        BY <2>3, <2>7
    <2>9. Marked(root.tags, root'.rnode, node', heap, NULL, p, g)
        <3> HIDE DEF e, dc, dx, p, g
        <3> QED BY <1>1, <2>1, <2>3, <2>4, <2>6, <2>8, StoreMarks
    <2> QED BY <1>1, <2>2, <2>4, <2>9 DEF TagsInv
<1> QED BY <1>2, <1>3

\* The caller sets a tag on an index that is present, so the writer finds an item.
LEMMA PresentSlot ==
    ASSUME StructInv, PlaceInv, w.pc = "find", w.op.kind = "tag_set", AtSlot \notin Nodes
    PROVE  AtSlot \in Items /\ root.rnode # NULL
<1>1. w.op \in Calls
    BY FindCall DEF StructInv
<1>2. PICK a \in Calls : w.op = a
    BY <1>1
<1> DEFINE i == a.index
<1>3. PICK k \in 0 .. Height : Callable(a) /\ i <= RootMaxIndex /\ OnWay(i, k)
    BY <1>2 DEF PlaceInv
<1>4. i \in Indices /\ Value(i) # NULL
    BY <1>2, <1>3, CallIndex DEF Callable
<1>5. RootMaxIndex \in 0 .. MaxIndex /\ i \in 0 .. MaxIndex /\ MaxIndex \in Nat /\ Height \in Nat
    BY <1>4, IndexAssumption, RootMaxIndexType, SizeAssumption DEF StructInv, TypeInv
<1> HIDE DEF i
<1>6. Walk(i)[Height] # NULL
    <2>1. ~(i > RootMaxIndex)
        BY <1>3, <1>5
    <2> QED BY <1>4, <2>1 DEF Value
<1>7. IsWalk(Walk(i), root.rnode, node, i)
    <2>1. root.rnode \in Entries /\ node \in Memory
        BY DEF StructInv, TypeInv, TypeOK, Memory
    <2> QED BY <1>4, <2>1, WalkIs DEF StructInv, TypeInv
<1>8. Walk(i)[k] = AtSlot /\ Walk(i)[0] = root.rnode
    BY <1>3, <1>7 DEF OnWay, IsWalk
<1>9. AtSlot # NULL
    <2>1. Walk(i)[k] \notin Nodes
        BY <1>8
    <2>2. Walk(i)[Height] = Walk(i)[k]
        BY <1>7, <2>1, WalkStays
    <2> QED BY <1>6, <1>8, <2>2
<1>10. root.rnode # NULL
    <2> SUFFICES ASSUME root.rnode = NULL PROVE FALSE
        OBVIOUS
    <2>1. 0 \in 0 .. Height /\ Walk(i)[0] \notin Nodes
        BY <1>5, <1>8, EntryAssumption
    <2>2. Walk(i)[Height] = Walk(i)[0]
        BY <1>7, <2>1, WalkStays
    <2> QED BY <1>6, <1>8, <2>2
<1> QED BY <1>9, <1>10, AtSlotEntry

LEMMA TagSetTags == ASSUME StructInv, PlaceInv, TagsInv, TagSet PROVE TagsInv'
<1> DEFINE g == w.op.tag
<1>1. /\ w.pc = "find" /\ w.op.kind = "tag_set" /\ AtSlot \notin Nodes /\ UNCHANGED <<node, heap>>
      /\ w'.pc = "idle" /\ root'.tags = root.tags \cup {g} /\ root'.rnode = root.rnode
    BY DEF TagSet, Found, Return, Idle, StructInv, TypeInv, TypeOK
<1>2. AtSlot \in Items /\ root.rnode # NULL
    BY <1>1, PresentSlot
<1>3. Ahead = w.cur /\ Ahead' = NULL
    BY <1>1 DEF Ahead
<1>4. Marked(root.tags, root.rnode, node, heap, w.cur, w.off, g)
    BY <1>3 DEF TagsInv
<1>5. (IF w.cur = NULL THEN root.rnode ELSE node[w.cur].slots[w.off]) \in Items
    BY <1>2 DEF AtSlot
<1>6. Marked(root.tags \cup {g}, root.rnode, node, heap, NULL, w.off, g)
    <2> HIDE DEF g
    <2> QED BY <1>2, <1>4, <1>5, MarkedDone
<1>7. Marked(root'.tags, root'.rnode, node', heap', NULL, w'.off, w'.op.tag)
    BY <1>1, <1>6, NoneAhead
<1> QED BY <1>3, <1>7 DEF TagsInv

LEMMA FindStepTags == ASSUME StructInv, StructInv', TagsInv, FindStep PROVE TagsInv'
<1> DEFINE a == AtSlot
           c == w.cur
           o == w.off
           g == w.op.tag
<1>1. /\ w.pc = "find" /\ a \in Nodes /\ heap[a] = "live" /\ UNCHANGED <<root, heap>>
      /\ w'.pc = "find" /\ w'.op = w.op /\ w'.cur = a /\ w'.off \in Slots
      /\ \A m \in Nodes :
           /\ node'[m].slots = node[m].slots /\ node'[m].shift = node[m].shift
           /\ w.op.kind # "tag_set" => node'[m].tags = node[m].tags
           /\ w.op.kind = "tag_set" => \A x \in Tags : node'[m].tags[x] =
                IF m = a /\ x = g THEN node[m].tags[x] \cup {w'.off} ELSE node[m].tags[x]
    BY FindStepFields
<1>2. CASE w.op.kind # "tag_set"
    <2>1. node' = node
        BY <1>2 DEF FindStep
    <2> QED BY <1>1, <1>2, <2>1, NothingAhead, QuietTags
<1>3. CASE w.op.kind = "tag_set"
    <2>1. Ahead = c /\ Ahead' = a
        BY <1>1, <1>3 DEF Ahead
    <2>2. /\ c \in Nodes \cup {NULL} /\ o \in Slots /\ g \in Tags /\ (c # NULL => heap[c] = "live")
          /\ Shape(root.rnode, node, heap, NULL) /\ node \in Memory
          /\ a = IF c = NULL THEN root.rnode ELSE node[c].slots[o]
        BY <1>1, <1>3, WriterFields, FindCall, SameMemory
           DEF StructInv, TypeInv, CursorInv, ShapeInv, Retiring, AtSlot
    <2>3. Marked(root.tags, root.rnode, node, heap, c, o, g)
        BY <2>1 DEF TagsInv
    <2> DEFINE q == w'.off
    <2>4. a \in Nodes /\ q \in Slots /\ TagAdded(node', node, a, g, q)
        BY <1>1, <1>3 DEF TagAdded
    <2>5. w'.op.tag = g
        BY <1>1
    <2> HIDE DEF a, c, o, g, q
    <2>6. Marked(root.tags, root.rnode, node', heap, a, q, g)
        BY <2>2, <2>3, <2>4, MarkedDown
    <2> QED BY <1>1, <2>1, <2>5, <2>6 DEF TagsInv, q
<1> QED BY <1>2, <1>3

LEMMA ExtendTags ==
    ASSUME StructInv, TypeInv', TagsInv, Extend, Leftovers = {NULL} PROVE TagsInv'
<1> DEFINE t == root.rnode
           ts == root.tags
           p == w'.off
           g == w'.op.tag
<1>1. /\ w.pc = "extend" /\ w \in WriterType /\ TypeOK /\ t \in Items \cup Nodes
      /\ ts \in SUBSET Tags /\ Shape(t, node, heap, NULL) /\ node \in Memory
    BY DEF Extend, StructInv, TypeInv, TypeOK, CursorInv, ShapeInv, Retiring, Memory
<1>2. Ahead = NULL /\ Ahead' = NULL
    <2>1. w'.pc # "find"
        BY <1>1 DEF Extend, Goto, WriterType
    <2> QED BY <1>1, <2>1, NothingAhead
<1>3. PICK n \in Nodes, left \in [Slots -> Leftovers] :
         /\ heap[n] = "free"
         /\ node' = [Reparented(t, n) EXCEPT ![n] = NewTop(left)]
         /\ heap' = [heap EXCEPT ![n] = "live"]
         /\ root' = [root EXCEPT !.rnode = n]
    BY DEF Extend, Free
<1>4. root'.rnode = n /\ root'.tags = ts
    BY <1>1, <1>3 DEF TypeOK
<1>5. \A m \in Nodes : heap'[m] = IF m = n THEN "live" ELSE heap[m]
    BY <1>1, <1>3 DEF TypeOK
<1>6. node'[n] = NewTop(left) /\ \A m \in Nodes \ {n} : node'[m] = Reparented(t, n)[m]
    <2>1. Reparented(t, n) \in Memory
        BY <1>1, ReparentedType
    <2> QED BY <1>3, <2>1 DEF Memory
<1>7. \A m \in Nodes \ {n} : node'[m].slots = node[m].slots /\ node'[m].tags = node[m].tags
    <2> HIDE DEF t
    <2> QED BY <1>1, <1>6 DEF Reparented, Memory, NodeType
<1>8. \A q \in Slots : node'[n].slots[q] = IF q = 0 THEN t ELSE NULL
    BY <1>1, <1>6, NewTopFields
<1>9. /\ \A x \in ts : node'[n].tags[x] = {0}
      /\ \A x \in Tags \ ts : node'[n].tags[x] = {}
    <2>1. NewTop(left).tags = [x \in Tags |-> IF x \in ts THEN {0} ELSE {}]
        BY DEF NewTop, Fresh, Blank
    <2> QED BY <1>1, <1>6, <2>1
<1>13. heap[n] = "free"
    BY <1>3
<1> HIDE DEF t, ts, p, g
<1>10. Marked(ts, t, node, heap, NULL, p, g)
    BY <1>2, NowMarked DEF t, ts
<1>11. Rooted(t, node, heap) /\ Down(node, heap, NULL)
    BY <1>1 DEF Shape
<1>12. Marked(ts, n, node', heap', NULL, p, g)
    BY <1>1, <1>5, <1>7, <1>8, <1>9, <1>10, <1>11, <1>13, MarkedRaised
<1> QED BY <1>2, <1>4, <1>12 DEF TagsInv, p, g

LEMMA CreateChildTags ==
    ASSUME StructInv, TypeInv', TagsInv, CreateChild, Leftovers = {NULL} PROVE TagsInv'
<1> DEFINE c == w.cur
           o == w.off
           t == root.rnode
           u == root'.rnode
           p == w'.off
           g == w'.op.tag
<1>1. /\ w.pc = "create" /\ w \in WriterType /\ TypeOK /\ AtSlot = NULL
      /\ c \in Nodes \cup {NULL} /\ o \in Slots /\ (c # NULL => heap[c] = "live")
      /\ Shape(t, node, heap, NULL) /\ node \in Memory /\ SameShape(node, node)
    BY WriterFields, SameMemory
       DEF CreateChild, StructInv, TypeInv, TypeOK, CursorInv, ShapeInv, Retiring
<1>2. Ahead = NULL /\ Ahead' = NULL
    <2>1. w'.pc # "find"
        BY <1>1 DEF CreateChild, Goto, WriterType
    <2> QED BY <1>1, <2>1, NothingAhead
<1>3. PICK n \in Nodes, left \in [Slots -> Leftovers] :
         /\ heap[n] = "free"
         /\ node' = [Stored(node, c, o, n, 1, 0)
                        EXCEPT ![n] = Fresh(w.shift - 1, o, 0, c, left)]
         /\ heap' = [heap EXCEPT ![n] = "live"]
         /\ root' = RootStored(c, n)
    BY DEF CreateChild, Free
<1>4. /\ \A m \in Nodes : heap'[m] = IF m = n THEN "live" ELSE heap[m]
      /\ u = (IF c = NULL THEN n ELSE t) /\ root'.tags = root.tags
    BY <1>1, <1>3 DEF TypeOK, RootStored
<1> DEFINE base == Stored(node, c, o, n, 1, 0)
<1>5. base \in Memory /\ StoreOf(base, node, c, o, n, 1, 0)
    <2>1. 1 \in Int /\ 0 \in Int /\ n \in Entries
        BY DEF Entries
    <2> HIDE DEF c, o
    <2> QED BY <1>1, <2>1, StoredType, StoredStores
<1>6. node'[n] = Fresh(w.shift - 1, o, 0, c, left) /\ \A m \in Nodes \ {n} : node'[m] = base[m]
    <2>1. node' = [base EXCEPT ![n] = Fresh(w.shift - 1, o, 0, c, left)]
        BY <1>3
    <2> HIDE DEF base
    <2> QED BY <1>5, <2>1 DEF Memory
<1>7. /\ \A q \in Slots : node'[n].slots[q] = NULL
      /\ \A x \in Tags : node'[n].tags[x] = {}
    BY <1>6, ZeroedSlots DEF Fresh, Blank
<1>8. \A m \in Nodes \ {n} : node'[m].slots = base[m].slots /\ node'[m].tags = node[m].tags
    <2>1. \A m \in Nodes : base[m].tags = node[m].tags
        BY <1>1, StoredTags
    <2> QED BY <1>6, <2>1
<1>9. (IF c = NULL THEN t ELSE node[c].slots[o]) = NULL
    BY <1>1 DEF AtSlot
<1>13. heap[n] = "free"
    BY <1>3
<1> HIDE DEF c, o, t, u, p, g, base
<1>10. Marked(root.tags, t, node, heap, NULL, p, g)
    BY <1>2, NowMarked DEF t
<1>11. Rooted(t, node, heap) /\ Down(node, heap, NULL)
    BY <1>1 DEF Shape
<1>12. Marked(root.tags, u, node', heap', NULL, p, g)
    BY <1>1, <1>4, <1>5, <1>7, <1>8, <1>9, <1>10, <1>11, <1>13, MarkedLinked
<1> QED BY <1>2, <1>4, <1>12 DEF TagsInv, u, p, g

LEMMA PruneNodeTags == ASSUME StructInv, TypeInv', TagsInv, PruneNode PROVE TagsInv'
<1> DEFINE n == w.cur
           k == node[n].parent
           o == node[n].offset
           t == root.rnode
           u == root'.rnode
           us == root'.tags
           p == w'.off
           g == w'.op.tag
           base == Stored(node, k, o, NULL, -1, 0)
<1>1. /\ w.pc = "prune" /\ w \in WriterType /\ node[n].count = 0 /\ Retire(base, n)
      /\ root' = IF k = NULL THEN [rnode |-> NULL, tags |-> {}] ELSE root
      /\ IF k = NULL THEN Return(w.res) ELSE w' = [w EXCEPT !.cur = k]
    BY DEF PruneNode, Goto, StructInv, TypeInv, TypeOK
<1>2. n \in Nodes /\ heap[n] = "live" /\ NULL \in Entries
    BY <1>1, WriterFields, EntryAssumption DEF StructInv, CursorInv, TypeInv, CallInv, Entries
<1>3. k \in Nodes \cup {NULL} /\ o \in Slots /\ node \in Memory /\ SameShape(node, node)
    BY <1>2, MemoryFields, SameMemory DEF StructInv
<1>4. Ahead = NULL /\ Ahead' = NULL
    <2>1. w'.pc # "find"
        BY <1>1 DEF Return, Idle, WriterType
    <2> QED BY <1>1, <2>1, NothingAhead
<1>5. base \in Memory /\ StoreOf(base, node, k, o, NULL, -1, 0)
    <2>1. -1 \in Int /\ 0 \in Int
        OBVIOUS
    <2> HIDE DEF k, o
    <2> QED BY <1>2, <1>3, <2>1, StoredType, StoredStores
<1>6. /\ heap'[n] # "live" /\ \A m \in Nodes \ {n} : heap'[m] = heap[m]
      /\ \A m \in Nodes \ {n} : node'[m] = base[m]
    <2> HIDE DEF base, n
    <2> QED BY <1>1, <1>2, <1>5, RetireFields DEF StructInv, TypeInv
<1>7. \A m \in Nodes \ {n} : node'[m].slots = base[m].slots /\ node'[m].tags = node[m].tags
    <2>1. \A m \in Nodes : base[m].tags = node[m].tags
        BY <1>3, StoredTags
    <2> QED BY <1>6, <2>1
<1>8. Shape(t, node, heap, NULL) /\ \A s \in Slots : node[n].slots[s] = NULL
    <2>1. Shape(t, node, heap, NULL)
        BY <1>1 DEF StructInv, ShapeInv, Retiring
    <2> HIDE DEF n
    <2>2. \A s \in Slots : node[n].slots[s] = NULL
        BY <1>1, <1>2, CountedSlots
    <2> QED BY <2>1, <2>2
<1>9. (k = NULL => u = NULL /\ us = {}) /\ (k # NULL => u = t /\ us = root.tags)
    BY <1>1
<1>10. k = node[n].parent /\ o = node[n].offset
    OBVIOUS
<1> HIDE DEF n, k, o, t, u, us, p, g, base
<1>11. Marked(root.tags, t, node, heap, NULL, p, g)
    BY <1>4, NowMarked DEF t
<1>12. IF k = NULL THEN Marked({}, NULL, node', heap', NULL, p, g)
       ELSE Marked(root.tags, t, node', heap', NULL, p, g)
    <2>1. Unlinked(node', heap', base, node, heap, n, k, o)
        BY <1>5, <1>6, <1>7, <1>10 DEF Unlinked
    <2> QED BY <1>2, <1>3, <1>8, <1>11, <2>1, MarkedPruned
<1>13. Marked(us, u, node', heap', NULL, p, g)
    BY <1>9, <1>12
<1> QED BY <1>4, <1>13 DEF TagsInv, u, us, p, g

LEMMA ShrinkRootTags == ASSUME StructInv, TypeInv', TagsInv, ShrinkRoot PROVE TagsInv'
<1> DEFINE t == root.rnode
           c == node[t].slots[0]
           mid == Reparented(c, NULL)
           p == w'.off
           g == w'.op.tag
<1>1. /\ w.pc = "shrink" /\ w \in WriterType /\ UNCHANGED heap
      /\ t \in Nodes /\ node[t].count = 1 /\ c # NULL
      /\ root'.rnode = c /\ root'.tags = root.tags
      /\ node' = [mid EXCEPT ![t].count = 0]
    BY DEF ShrinkRoot, Shrinkable, StructInv, TypeInv, TypeOK
<1>2. Ahead = NULL /\ Ahead' = NULL
    <2>1. w'.pc # "find"
        BY <1>1 DEF ShrinkRoot, Goto, WriterType
    <2> QED BY <1>1, <2>1, NothingAhead
<1>3. node \in Memory /\ Rooted(t, node, heap) /\ heap[t] = "live"
    BY <1>1 DEF StructInv, TypeInv, TypeOK, Memory, ShapeInv, Shape, Rooted
<1>4. \A m \in Nodes : node'[m].slots = node[m].slots /\ node'[m].tags = node[m].tags
    <2>1. \A m \in Nodes : mid[m].slots = node[m].slots /\ mid[m].tags = node[m].tags
        <3> HIDE DEF c
        <3> QED BY <1>3 DEF Reparented, Memory, NodeType
    <2>2. mid \in Memory
        BY ReparentedType DEF StructInv, TypeInv
    <2> HIDE DEF mid, t
    <2> QED BY <1>1, <2>1, <2>2 DEF Memory, NodeType
<1>5. \A s \in Slots \ {0} : node[t].slots[s] = NULL
    <2>1. t \in Nodes /\ heap[t] = "live" /\ node[t].count = 1 /\ node[t].slots[0] # NULL
          /\ w.pc # "retire"
        BY <1>1, <1>3
    <2> HIDE DEF t
    <2> QED BY <2>1, CountedSlots
<1>6. c = node[t].slots[0]
    OBVIOUS
<1> HIDE DEF t, c, mid, p, g
<1>7. Marked(root.tags, t, node, heap, NULL, p, g)
    BY <1>2, NowMarked DEF t
<1>8. Marked(root.tags, c, node', heap, NULL, p, g)
    BY <1>1, <1>3, <1>4, <1>5, <1>6, <1>7, MarkedUnrooted
<1> QED BY <1>1, <1>2, <1>8 DEF TagsInv, p, g

\* What leaves the heap was out of the tree.
LEMMA FreedTags ==
    ASSUME StructInv', TagsInv, Ahead' = Ahead, root' = root, w'.off = w.off, w'.op = w.op,
           NEW n \in Nodes, heap'[n] # "live", \A m \in Nodes \ {n} : heap'[m] = heap[m],
           \A m \in Nodes \ {n} : node'[m] = node[m]
    PROVE  TagsInv'
<1>1. Rooted(root.rnode, node', heap') /\ Down(node', heap', Retiring')
    BY DEF StructInv, ShapeInv, Shape
<1>2. \A m \in Nodes : heap'[m] = "live" =>
        /\ heap[m] = "live"
        /\ node'[m].slots = node[m].slots /\ node'[m].tags = node[m].tags
    OBVIOUS
<1>3. Marked(root.tags, root.rnode, node, heap, Ahead, w.off, w.op.tag)
    BY DEF TagsInv
<1> DEFINE a == Ahead
           p == w.off
           g == w.op.tag
           z == Retiring'
<1>4. Marked(root.tags, root.rnode, node', heap', a, p, g)
    <2> HIDE DEF a, p, g, z
    <2>1. Marked(root.tags, root.rnode, node, heap, a, p, g) /\ Down(node', heap', z)
        BY <1>1, <1>3 DEF a, p, g, z
    <2> QED BY <1>1, <1>2, <2>1, MarkedSame
<1> QED BY <1>4 DEF TagsInv

LEMMA ShrinkRetireTags == ASSUME StructInv, StructInv', TagsInv, ShrinkRetire PROVE TagsInv'
<1> DEFINE n == w.cur
           mem == IF node[n].slots[0] \in Nodes THEN node
                  ELSE [node EXCEPT ![n].slots[0] = RETRY]
<1>1. /\ w.pc = "retire" /\ w \in WriterType /\ Retire(mem, n) /\ UNCHANGED root
      /\ w' = [w EXCEPT !.pc = "shrink"]
    BY DEF ShrinkRetire, Goto, StructInv, TypeInv, TypeOK
<1>2. n \in Nodes
    BY <1>1, WriterFields DEF StructInv, TypeInv, CallInv
<1>3. \A m \in Nodes \ {n} : mem[m] = node[m]
    BY <1>2 DEF StructInv, TypeInv, TypeOK
<1>4. /\ heap'[n] # "live" /\ \A m \in Nodes \ {n} : heap'[m] = heap[m]
      /\ \A m \in Nodes \ {n} : node'[m] = mem[m]
    <2>1. DOMAIN mem = Nodes /\ heap \in [Nodes -> {"free", "live", "rcu"}]
        BY DEF StructInv, TypeInv, TypeOK
    <2> HIDE DEF mem, n
    <2> QED BY <1>1, <1>2, <2>1 DEF Retire
<1>5. w'.pc = "shrink" /\ w'.off = w.off /\ w'.op = w.op
    BY <1>1 DEF WriterType
<1>6. Ahead' = Ahead
    BY <1>1, <1>5, NothingAhead
<1> HIDE DEF n, mem
<1>7. \A m \in Nodes \ {n} : node'[m] = node[m]
    BY <1>3, <1>4
<1> QED BY <1>1, <1>2, <1>4, <1>5, <1>6, <1>7, FreedTags

\* Outside the writer's calls memory that is out of the tree is given back.
LEMMA RcuFreeTags ==
    ASSUME StructInv, StructInv', PlaceInv, TagsInv, NEW n \in Nodes, RcuFree(n)
    PROVE  PlaceInv' /\ TagsInv'
<1>1. /\ heap[n] = "rcu" /\ heap' = [heap EXCEPT ![n] = "free"]
      /\ node' = [node EXCEPT ![n] = Blank] /\ root' = root /\ w' = w
    BY DEF RcuFree, WriterSame
<1>2. /\ heap'[n] # "live" /\ \A m \in Nodes \ {n} : heap'[m] = heap[m]
      /\ \A m \in Nodes \ {n} : node'[m] = node[m]
    BY <1>1 DEF StructInv, TypeInv, TypeOK
<1>3. TypeOK'
    BY DEF StructInv, TypeInv
<1>4. PlaceInv'
    BY <1>1, <1>2, <1>3, PlaceKept
<1>5. Ahead' = Ahead
    BY <1>1 DEF Ahead
<1>6. TagsInv'
    BY <1>1, <1>2, <1>5, FreedTags
<1> QED BY <1>4, <1>6

LEMMA StepTags ==
    ASSUME Leftovers = {NULL}, StructInv, PlaceInv, TagsInv, [Next]_vars
    PROVE  PlaceInv' /\ TagsInv'
<1>1. StructInv'
    BY StepStruct
<1>2. TypeInv' /\ TypeOK'
    BY <1>1 DEF StructInv, TypeInv
<1>3. ASSUME UNCHANGED <<root, node, heap, w>> PROVE PlaceInv' /\ TagsInv'
    <2>1. PlaceInv'
        BY <1>2, <1>3, PlaceKept
    <2>2. TagsInv'
        BY <1>3 DEF TagsInv, Ahead
    <2> QED BY <2>1, <2>2
<1>4. CASE UNCHANGED vars
    BY <1>3, <1>4 DEF vars
<1>5. ASSUME NEW o \in Calls, Invoke(o) PROVE PlaceInv' /\ TagsInv'
    BY <1>2, <1>5, InvokePlace, InvokeTags
<1>6. ASSUME WriterStep PROVE PlaceInv' /\ TagsInv'
    <2>1. PlaceInv'
        BY <1>2, <1>6, OtherPlace, FindStartPlace, FindStepPlace DEF WriterStep
    <2>2. TagsInv'
        <3>1. CASE AllocFails \/ InsertStart \/ Descend \/ FindStart \/ PruneEnd \/ ShrinkEnd
            BY <1>6, <3>1, StillTags
        <3>2. CASE Extend \/ CreateChild \/ InsertEntry
            BY <1>2, <3>2, ExtendTags, CreateChildTags, InsertEntryTags
        <3>3. CASE FindStep \/ TagSet \/ TagClear
            BY <1>1, <1>2, <3>3, FindStepTags, TagSetTags, TagClearTags
        <3>4. CASE Delete \/ Replace
            BY <1>2, <3>4, DeleteTags, ReplaceTags
        <3>5. CASE PruneNode \/ ShrinkRoot \/ ShrinkRetire
            BY <1>1, <1>2, <3>5, PruneNodeTags, ShrinkRootTags, ShrinkRetireTags
        <3> QED BY <1>6, <3>1, <3>2, <3>3, <3>4, <3>5 DEF WriterStep, Create, Prune
    <2> QED BY <2>1, <2>2
<1>7. ASSUME NEW r \in Readers, Reader(r) PROVE PlaceInv' /\ TagsInv'
    <2>1. UNCHANGED <<root, node, heap, w>>
        BY <1>7 DEF Reader, ReadLock, ReadRoot, ReadBound, ReadSlot, ReadRetry, ReadUnlock,
                    WriterSame, tree
    <2> QED BY <1>3, <2>1
<1>8. ASSUME NEW n \in Nodes, RcuFree(n) PROVE PlaceInv' /\ TagsInv'
    BY <1>1, <1>8, RcuFreeTags
<1> QED BY <1>4, <1>5, <1>6, <1>7, <1>8 DEF Next

LEMMA InitTags == Init => PlaceInv /\ TagsInv
<1> SUFFICES ASSUME Init PROVE PlaceInv /\ TagsInv
    OBVIOUS
<1>1. /\ root.rnode = NULL /\ root.tags = {} /\ w.pc = "idle"
      /\ \A n \in Nodes : heap[n] = "free"
    BY DEF Init, Idle
<1>2. PlaceInv
    BY <1>1 DEF PlaceInv, Asking
<1>3. Ahead = NULL
    BY <1>1 DEF Ahead
<1>4. Marked(root.tags, root.rnode, node, heap, NULL, w.off, w.op.tag)
    BY <1>1, EntryAssumption DEF Marked, RootMarked, SlotsMarked
<1> QED BY <1>2, <1>3, <1>4 DEF TagsInv

\* Between calls every tag bit says what hangs below its slot, up to the root's
\* bits (radix_tree_tag_set and node_tag_clear, radix-tree.c:1440-1499), and no
\* empty slot is tagged.
THEOREM TagsCorrect == ASSUME Leftovers = {NULL} PROVE Spec => []TagsSummarise
<1>1. Leftovers = {NULL}
    OBVIOUS
<1>2. StructInv /\ TagsInv => TagsSummarise
    <2> SUFFICES ASSUME StructInv, TagsInv, AtRest
                 PROVE  /\ root.rnode = NULL => root.tags = {}
                        /\ root.rnode \in Nodes =>
                             root.tags = {t \in Tags : node[root.rnode].tags[t] # {}}
                        /\ \A n \in Live, t \in Tags, o \in Slots :
                             LET c == node[n].slots[o]
                                 bit == o \in node[n].tags[t]
                             IN  IF c \in Nodes THEN bit <=> node[c].tags[t] # {}
                                 ELSE bit => c # NULL
        BY DEF TagsSummarise
    <2>1. w.pc = "idle" /\ root.tags \subseteq Tags
        BY DEF StructInv, TypeInv, TypeOK, CallInv, AtRest
    <2>2. Ahead = NULL
        BY <2>1 DEF Ahead
    <2>3. /\ root.rnode = NULL => root.tags = {}
          /\ root.rnode \in Nodes =>
               \A x \in Tags : x \in root.tags <=> node[root.rnode].tags[x] # {}
          /\ \A n \in Nodes, s \in Slots, x \in Tags :
               heap[n] = "live" =>
                 /\ node[n].slots[s] \in Nodes =>
                      (s \in node[n].tags[x] <=> node[node[n].slots[s]].tags[x] # {})
                 /\ node[n].slots[s] = NULL => s \notin node[n].tags[x]
        BY <2>2, EntryAssumption DEF TagsInv, Marked, RootMarked, SlotsMarked
    <2>4. root.rnode \in Nodes => root.tags = {t \in Tags : node[root.rnode].tags[t] # {}}
        BY <2>1, <2>3
    <2> QED BY <2>3, <2>4 DEF Live
<1>3. StructInv /\ PlaceInv /\ TagsInv /\ [Next]_vars => StructInv' /\ PlaceInv' /\ TagsInv'
    BY <1>1, StepStruct, StepTags
<1> QED BY <1>2, <1>3, InitStruct, InitTags, PTL DEF Spec
=============================================================================
