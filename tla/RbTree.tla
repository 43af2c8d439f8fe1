------------------------------- MODULE RbTree -------------------------------
(***************************************************************************)
(* rbtree.c, rbtree_augmented.h and myrbtree.h as one writer and any       *)
(* number of lockless readers execute them.  The writer holds the tree's   *)
(* lock; each of its steps works out one turn of a loop and the stores to  *)
(* child pointers it makes, in program order, and then makes them one per  *)
(* step.  Parents, colours and augmented values are read by the writer     *)
(* alone and change with the turn.  The code writes the two mirrored       *)
(* halves of every case out; here a case has a side.                       *)
(*                                                                         *)
(* Every call is the cached and augmented one; rb_insert_color, rb_erase   *)
(* and the others are the same code without these parts.                   *)
(***************************************************************************)
EXTENDS Integers, FiniteSets, Sequences, SequencesExt

CONSTANTS
    Nodes,   \* the elements
    Key,     \* the key of each
    Readers, \* threads that only look up
    MaxCalls, \* bound: calls that may begin during one lookup
    NULL

ASSUME KeyAssumption == Key \in [Nodes -> Int]
ASSUME NodeAssumption == IsFiniteSet(Nodes) /\ NULL \notin Nodes
ASSUME BoundAssumption == MaxCalls \in Nat

Sides == {"left", "right"}
Other(s) == IF s = "left" THEN "right" ELSE "left"
Colors == {"red", "black"}
Links == Nodes \cup {NULL}
Keys == {Key[n] : n \in Nodes}

Inserts  == [kind : {"insert"}, node : Nodes]
Erases   == [kind : {"erase"}, node : Nodes]
Replaces == [kind : {"replace"}, victim : Nodes, node : Nodes]
Calls == Inserts \cup Erases \cup Replaces

VARIABLES
    root,     \* rb_root.rb_node
    leftmost, \* rb_root_cached.rb_leftmost
    child,    \* rb_left and rb_right of every element
    word,     \* __rb_parent_color of every element
    aug,      \* its augmented value: the elements below it, itself included
    todo,     \* stores to child pointers the writer has still to make
    w,        \* the writer: its call and the local variables of that call
    present,  \* history: the elements the calls so far leave in the tree
    order,    \* history: the tree's elements in order when the last call returned
    rd,       \* the readers: key looked for, element reached
    waits     \* for an element taken out: the readers its reuse waits for

vars == <<root, leftmost, child, word, aug, todo, w, present, order, rd, waits>>

Leaf == [s \in Sides |-> NULL]
\* RB_CLEAR_NODE: an element in no tree is its own parent.
Clear(n) == [up |-> n, color |-> "red"]
IsRed(n) == word[n].color = "red"
\* The tests "!tmp || rb_is_black(tmp)" and their negations.
RedLink(n) == n # NULL /\ IsRed(n)

-----------------------------------------------------------------------------
(* Walking.                                                                *)

\* Down to the last one on side s; up as long as one comes from side s.
Deepest(n, s) ==
    LET f[k \in 0 .. Cardinality(Nodes)] ==
            IF k = 0 THEN n
            ELSE LET m == f[k - 1] IN IF child[m][s] = NULL THEN m ELSE child[m][s]
    IN  f[Cardinality(Nodes)]
Ascend(n, s) ==
    LET f[k \in 0 .. Cardinality(Nodes)] ==
            IF k = 0 THEN n
            ELSE LET m == f[k - 1]
                     p == word[m].up
                 IN  IF p # NULL /\ m = child[p][s] THEN p ELSE m
    IN  word[f[Cardinality(Nodes)]].up

RbFirst == IF root = NULL THEN NULL ELSE Deepest(root, "left")
RbLast  == IF root = NULL THEN NULL ELSE Deepest(root, "right")

EmptyNode(n) == word[n].up = n

\* Mutant: the climb stops at the first parent.
RbNextOneUp(n) ==
    IF EmptyNode(n) THEN NULL
    ELSE IF child[n]["right"] # NULL THEN Deepest(child[n]["right"], "left")
    ELSE word[n].up

RbNext(n) == IF EmptyNode(n) THEN NULL
             ELSE IF child[n]["right"] # NULL THEN Deepest(child[n]["right"], "left")
             ELSE Ascend(n, "right")
RbPrev(n) == IF EmptyNode(n) THEN NULL
             ELSE IF child[n]["left"] # NULL THEN Deepest(child[n]["left"], "right")
             ELSE Ascend(n, "left")

\* rb_left_deepest_node: the elements on the way to a first leaf below n.
LeftDeepestPath(n) ==
    LET f[m \in Nodes] == IF child[m]["left"] # NULL THEN <<m>> \o f[child[m]["left"]]
                          ELSE IF child[m]["right"] # NULL THEN <<m>> \o f[child[m]["right"]]
                          ELSE <<m>>
    IN  f[n]
LeftDeepestNode(n) == Last(LeftDeepestPath(n))

RbFirstPostorder == IF root = NULL THEN NULL ELSE LeftDeepestNode(root)

\* The right sibling of a left child n is next, or what is deepest below it.
Turns(n) == LET p == word[n].up
            IN  p # NULL /\ n = child[p]["left"] /\ child[p]["right"] # NULL
\* Mutant: straight to the sibling.
RbNextPostorderShallow(n) ==
    IF Turns(n) THEN child[word[n].up]["right"] ELSE word[n].up
RbNextPostorder(n) ==
    IF Turns(n) THEN LeftDeepestNode(child[word[n].up]["right"]) ELSE word[n].up

-----------------------------------------------------------------------------
(* Stores.                                                                 *)

Put(n, s, m) == [at |-> n, side |-> s, to |-> m]

\* Mutant: the right-hand child is forgotten.
ChangeChildLeft(old, new, p) == Put(p, "left", new)

\* __rb_change_child: in the parent of old, or in the root if it has none.
ChangeChild(old, new, p) ==
    Put(p, IF p # NULL /\ child[p]["left"] # old THEN "right" ELSE "left", new)

\* The child pointers after some stores, no two of which are to the same pointer.
After(stores) ==
    [n \in Nodes |-> [s \in Sides |->
       IF \E m \in Links : Put(n, s, m) \in ToSet(stores)
       THEN CHOOSE m \in Links : Put(n, s, m) \in ToSet(stores)
       ELSE child[n][s]]]

\* Mutant: the rotation's two stores in the other order.
RotationSwapped(old, new, s) ==
    <<Put(new, Other(s), old), Put(old, s, child[new][Other(s)])>>

\* The two stores of a rotation that lifts new, on side s of old, above old.
Rotation(old, new, s) ==
    <<Put(old, s, child[new][Other(s)]), Put(new, Other(s), old)>>

\* rb_set_parent_color, where the code first tests for NULL.
SetParentColor(words, n, p, c) ==
    IF n = NULL THEN words ELSE [words EXCEPT ![n] = [up |-> p, color |-> c]]

\* __rb_rotate_set_parents, without the store to the child pointer.
RotateSetParents(words, old, new, c) ==
    [words EXCEPT ![new] = words[old], ![old] = [up |-> new, color |-> c]]

-----------------------------------------------------------------------------
(* Augmented values (RB_DECLARE_CALLBACKS).                                *)

Below(values, n) == IF n = NULL THEN {} ELSE values[n]
Compute(mem, values, n) ==
    {n} \cup Below(values, mem[n]["left"]) \cup Below(values, mem[n]["right"])

AugRotate(mem, values, old, new) ==
    LET lifted == [values EXCEPT ![new] = values[old]]
    IN  [lifted EXCEPT ![old] = Compute(mem, lifted, old)]

\* Upwards from n until stop, or until a value is right already.
AugPropagate(mem, words, values, n, stop) ==
    LET f[k \in 0 .. Cardinality(Nodes)] ==
            IF k = 0 THEN [values |-> values, at |-> n]
            ELSE LET s == f[k - 1]
                 IN  IF s.at = stop \/ s.at = NULL THEN s
                     ELSE IF s.values[s.at] = Compute(mem, s.values, s.at) THEN [s EXCEPT !.at = stop]
                     ELSE [values |-> [s.values EXCEPT ![s.at] = Compute(mem, s.values, s.at)],
                           at |-> words[s.at].up]
    IN  f[Cardinality(Nodes)].values

-----------------------------------------------------------------------------
(* The writer.                                                             *)

Idle == [pc |-> "idle", op |-> NULL, node |-> NULL, parent |-> NULL,
         gparent |-> NULL, side |-> "left"]

Walking == {r \in Readers : rd[r].pc = "walk"}
Unused(n) == n \notin present /\ waits[n] = {}

\* A call begins; it may come in the middle of lookups.
Begin(o) ==
    /\ w.pc = "idle"
    /\ \A r \in Walking : rd[r].calls < MaxCalls
    /\ rd' = [r \in Readers |-> IF r \in Walking THEN [rd[r] EXCEPT !.calls = @ + 1] ELSE rd[r]]
    /\ UNCHANGED <<root, present, order, waits>>

\* Mutant: an equal key goes in front.
SpotInFront(n) ==
    LET f[k \in 0 .. Cardinality(Nodes)] ==
            IF k = 0
            THEN [at |-> root, parent |-> NULL, side |-> "left", first |-> TRUE, path |-> {}]
            ELSE LET s == f[k - 1]
                     d == IF Key[s.at] <= Key[n] THEN "left" ELSE "right"
                 IN  IF s.at = NULL THEN s
                     ELSE [at |-> child[s.at][d], parent |-> s.at, side |-> d,
                           first |-> s.first /\ d = "left", path |-> s.path \cup {s.at}]
    IN  f[Cardinality(Nodes)]

\* MY_RB_TREE_INSERT's descent: smaller keys are on the right, larger on the left.
Spot(n) ==
    LET f[k \in 0 .. Cardinality(Nodes)] ==
            IF k = 0
            THEN [at |-> root, parent |-> NULL, side |-> "left", first |-> TRUE, path |-> {}]
            ELSE LET s == f[k - 1]
                     d == IF Key[s.at] < Key[n] THEN "left" ELSE "right"
                 IN  IF s.at = NULL THEN s
                     ELSE [at |-> child[s.at][d], parent |-> s.at, side |-> d,
                           first |-> s.first /\ d = "left", path |-> s.path \cup {s.at}]
    IN  f[Cardinality(Nodes)]

\* The caller updates the values on the way down and links the element, red,
\* with rb_link_node or rb_link_node_rcu; __rb_insert begins.
InsertLink(o) ==
    LET n == o.node
        spot == Spot(n)
    IN  /\ Begin(o)
        /\ Unused(n)
        /\ child' = [child EXCEPT ![n] = Leaf]
        /\ word' = [word EXCEPT ![n] = [up |-> spot.parent, color |-> "red"]]
        /\ aug' = [m \in Nodes |-> IF m = n THEN {n}
                                   ELSE IF m \in spot.path THEN aug[m] \cup {n} ELSE aug[m]]
        /\ todo' = <<Put(spot.parent, spot.side, n)>>
        /\ leftmost' = IF spot.first THEN n ELSE leftmost
        /\ w' = [Idle EXCEPT !.pc = "insert", !.op = o, !.node = n, !.parent = spot.parent]

\* The next store.
Store ==
    /\ todo # <<>>
    /\ LET st == Head(todo)
       IN  IF st.at = NULL THEN root' = st.to /\ UNCHANGED child
           ELSE child' = [child EXCEPT ![st.at][st.side] = st.to] /\ UNCHANGED root
    /\ todo' = Tail(todo)
    /\ UNCHANGED <<leftmost, word, aug, w, present, order, rd, waits>>

At(pc) == w.pc = pc /\ todo = <<>>
\* What a turn of the writer's loops leaves alone.
Turn == UNCHANGED <<root, leftmost, child, present, order, rd, waits>>
Done == w' = [Idle EXCEPT !.pc = "done", !.op = w.op]

Gparent == word[w.parent].up
\* The side of the grandparent the parent is on, and what is on the other.
ParentSide == IF child[Gparent]["right"] # w.parent THEN "left" ELSE "right"
Uncle == child[Gparent][Other(ParentSide)]

\* __rb_insert: the new element is the root, or its parent is black.
InsertEnd ==
    /\ At("insert")
    /\ ~RedLink(w.parent)
    /\ word' = IF w.parent = NULL THEN SetParentColor(word, w.node, NULL, "black") ELSE word
    /\ Done
    /\ Turn /\ UNCHANGED <<aug, todo>>

\* Case 1: the uncle is red.
InsertFlip ==
    /\ At("insert")
    /\ RedLink(w.parent)
    /\ RedLink(Uncle)
    /\ LET g == Gparent
       IN  /\ word' = [word EXCEPT ![Uncle] = [up |-> g, color |-> "black"],
                                   ![w.parent] = [up |-> g, color |-> "black"],
                                   ![g].color = "red"]
           /\ w' = [w EXCEPT !.node = g, !.parent = word[g].up]
    /\ Turn /\ UNCHANGED <<aug, todo>>

BlackUncle == At("insert") /\ RedLink(w.parent) /\ ~RedLink(Uncle)

\* Case 2: an inner child is lifted above the parent.
InsertInner ==
    /\ BlackUncle
    /\ LET p == w.parent
           s == ParentSide
           stores == Rotation(p, w.node, Other(s))
       IN  /\ w.node = child[p][Other(s)]
           /\ todo' = stores
           /\ word' = SetParentColor(SetParentColor(word, child[w.node][s], p, "black"),
                                     p, w.node, "red")
           /\ aug' = AugRotate(After(stores), aug, p, w.node)
           /\ w' = [w EXCEPT !.pc = "outer", !.parent = w.node, !.gparent = Gparent, !.side = s]
    /\ Turn

\* Case 3: p is lifted above its parent g.
InsertLift(g, p, s) ==
    LET stores == Rotation(g, p, s) \o <<ChangeChild(g, p, word[g].up)>>
    IN  /\ todo' = stores
        /\ word' = RotateSetParents(SetParentColor(word, child[p][Other(s)], g, "black"),
                                    g, p, "red")
        /\ aug' = AugRotate(After(stores), aug, g, p)
        /\ Done

InsertOuter ==
    /\ \/ /\ At("outer")
          /\ w.op.kind = "insert"
          /\ InsertLift(w.gparent, w.parent, w.side)
       \/ /\ BlackUncle
          /\ w.node # child[w.parent][Other(ParentSide)]
          /\ InsertLift(Gparent, w.parent, ParentSide)
    /\ Turn

-----------------------------------------------------------------------------
(* Erasing.                                                                *)

\* After the element is unlinked: is there a black one missing below parent?
Rebalance(o, parent) ==
    w' = IF parent = NULL THEN [Idle EXCEPT !.pc = "done", !.op = o]
         ELSE [Idle EXCEPT !.pc = "erase", !.op = o, !.parent = parent]

\* Mutant: the cached first element is forgotten.
LeftmostKept(n) == leftmost
LeftmostWithout(n) == IF n = leftmost THEN RbNext(n) ELSE leftmost

EraseBegin(o) == /\ Begin(o)
                 /\ o.node \in present
                 /\ leftmost' = LeftmostWithout(o.node)
                 /\ UNCHANGED child

\* __rb_erase_augmented, case 1: one child at most takes the element's place.
EraseOne(o) ==
    LET n == o.node
        up == word[n].up
        only == IF child[n]["left"] = NULL THEN child[n]["right"] ELSE child[n]["left"]
        stores == <<ChangeChild(n, only, up)>>
    IN  /\ EraseBegin(o)
        /\ \E s \in Sides : child[n][s] = NULL
        /\ todo' = stores
        /\ word' = IF only = NULL THEN word ELSE [word EXCEPT ![only] = word[n]]
        /\ aug' = AugPropagate(After(stores), word', aug, up, NULL)
        /\ Rebalance(o, IF only = NULL /\ ~IsRed(n) THEN up ELSE NULL)

\* Mutant: the values between the successor's old place and its new one stay.
EraseTwoUnpropagated(o) ==
    LET n == o.node
        right == child[n]["right"]
        succ == Deepest(right, "left")
        near == succ = right
        parent == IF near THEN succ ELSE word[succ].up
        child2 == child[succ]["right"]
        stores == (IF near THEN <<>> ELSE <<Put(parent, "left", child2), Put(succ, "right", right)>>)
                  \o <<Put(succ, "left", child[n]["left"]), ChangeChild(n, succ, word[n].up)>>
        moved == [(IF near THEN word ELSE [word EXCEPT ![right].up = succ])
                     EXCEPT ![child[n]["left"]].up = succ, ![succ] = word[n]]
    IN  /\ EraseBegin(o)
        /\ \A s \in Sides : child[n][s] # NULL
        /\ todo' = stores
        /\ word' = SetParentColor(moved, child2, parent, "black")
        /\ aug' = AugPropagate(After(stores), moved, [aug EXCEPT ![succ] = aug[n]], succ, NULL)
        /\ Rebalance(o, IF child2 = NULL /\ ~IsRed(succ) THEN parent ELSE NULL)

\* Cases 2 and 3: the successor, the right child or the first below it, takes
\* the element's place and colour.
EraseTwo(o) ==
    LET n == o.node
        right == child[n]["right"]
        succ == Deepest(right, "left")
        near == succ = right
        parent == IF near THEN succ ELSE word[succ].up
        child2 == child[succ]["right"]
        stores == (IF near THEN <<>> ELSE <<Put(parent, "left", child2), Put(succ, "right", right)>>)
                  \o <<Put(succ, "left", child[n]["left"]), ChangeChild(n, succ, word[n].up)>>
        moved == [(IF near THEN word ELSE [word EXCEPT ![right].up = succ])
                     EXCEPT ![child[n]["left"]].up = succ, ![succ] = word[n]]
        copied == [aug EXCEPT ![succ] = aug[n]]
        climbed == IF near THEN copied
                   ELSE AugPropagate(After(stores), moved, copied, parent, succ)
    IN  /\ EraseBegin(o)
        /\ \A s \in Sides : child[n][s] # NULL
        /\ todo' = stores
        /\ word' = SetParentColor(moved, child2, parent, "black")
        /\ aug' = AugPropagate(After(stores), moved, climbed, succ, NULL)
        /\ Rebalance(o, IF child2 = NULL /\ ~IsRed(succ) THEN parent ELSE NULL)

\* ____rb_erase_color: the side of the parent that lacks a black one, and the
\* child on the other.
ShortSide == IF child[w.parent]["right"] # w.node THEN "left" ELSE "right"
Sibling == child[w.parent][Other(ShortSide)]
Near == child[Sibling][ShortSide]
Far == child[Sibling][Other(ShortSide)]
BlackSibling == At("erase") /\ ~IsRed(Sibling)

\* The sibling is lifted above the parent, which gets colour c.
EraseLift(words, c) ==
    LET p == w.parent
        stores == Rotation(p, Sibling, Other(ShortSide)) \o <<ChangeChild(p, Sibling, word[p].up)>>
    IN  /\ todo' = stores
        /\ word' = RotateSetParents(words, p, Sibling, c)
        /\ aug' = AugRotate(After(stores), aug, p, Sibling)

\* Case 1: the sibling is red.
EraseRedSibling ==
    /\ At("erase")
    /\ IsRed(Sibling)
    /\ EraseLift([word EXCEPT ![Near] = [up |-> w.parent, color |-> "black"]], "red")
    /\ UNCHANGED w
    /\ Turn

\* Mutant: the climb goes on past the root.
EraseFlipPastRoot ==
    /\ BlackSibling
    /\ ~RedLink(Far) /\ ~RedLink(Near)
    /\ LET p == w.parent
           flipped == [word EXCEPT ![Sibling].color = "red"]
       IN  IF IsRed(p)
           THEN word' = [flipped EXCEPT ![p].color = "black"] /\ Done
           ELSE word' = flipped /\ w' = [w EXCEPT !.node = p, !.parent = word[p].up]
    /\ Turn /\ UNCHANGED <<aug, todo>>

\* Mutant: the climb ends after one turn.
EraseFlipOnce ==
    /\ BlackSibling
    /\ ~RedLink(Far) /\ ~RedLink(Near)
    /\ word' = [word EXCEPT ![Sibling].color = "red", ![w.parent].color = "black"]
    /\ Done
    /\ Turn /\ UNCHANGED <<aug, todo>>

\* Case 2: both nephews are black.
EraseFlip ==
    /\ BlackSibling
    /\ ~RedLink(Far) /\ ~RedLink(Near)
    /\ LET p == w.parent
           flipped == [word EXCEPT ![Sibling] = [up |-> p, color |-> "red"]]
       IN  IF IsRed(p)
           THEN word' = [flipped EXCEPT ![p].color = "black"] /\ Done
           ELSE /\ word' = flipped
                /\ IF word[p].up = NULL THEN Done
                   ELSE w' = [w EXCEPT !.node = p, !.parent = word[p].up]
    /\ Turn /\ UNCHANGED <<aug, todo>>

\* Case 3: only the near nephew is red; it is lifted above the sibling.  Its
\* parent and the sibling's are left for case 4 to set.
EraseInner ==
    /\ BlackSibling
    /\ ~RedLink(Far) /\ RedLink(Near)
    /\ LET s == ShortSide
           stores == Rotation(Sibling, Near, s) \o <<Put(w.parent, Other(s), Near)>>
       IN  /\ todo' = stores
           /\ word' = SetParentColor(word, child[Near][Other(s)], Sibling, "black")
           /\ aug' = AugRotate(After(stores), aug, Sibling, Near)
    /\ w' = [w EXCEPT !.pc = "outer"]
    /\ Turn

\* Mutant: the far nephew keeps its colour.
EraseOuterUncolored ==
    /\ \/ BlackSibling /\ RedLink(Far)
       \/ At("outer") /\ w.op.kind = "erase"
    /\ EraseLift([word EXCEPT ![Far].up = Sibling,
                              ![Near].up = w.parent], "black")
    /\ Done
    /\ Turn

\* Case 4: the far nephew is red, or is what case 3 made it.
EraseOuter ==
    /\ \/ BlackSibling /\ RedLink(Far)
       \/ At("outer") /\ w.op.kind = "erase"
    /\ LET far == [word EXCEPT ![Far] = [up |-> Sibling, color |-> "black"]]
       IN  EraseLift(IF Near = NULL THEN far ELSE [far EXCEPT ![Near].up = w.parent], "black")
    /\ Done
    /\ Turn

-----------------------------------------------------------------------------
(* Replacing.                                                              *)

\* Mutant: the left child is not told of its new parent.
ReplacedWordsRight(v, n) ==
    [m \in Nodes |-> IF m = n THEN word[v]
                     ELSE IF m = child[v]["right"] THEN [word[m] EXCEPT !.up = n]
                     ELSE word[m]]
ReplacedWords(v, n) ==
    [m \in Nodes |-> IF m = n THEN word[v]
                     ELSE IF \E s \in Sides : m = child[v][s] THEN [word[m] EXCEPT !.up = n]
                     ELSE word[m]]

\* rb_replace_node and rb_replace_node_rcu differ in a barrier only.  Neither
\* knows of the cached first element and the values: the caller does.
Replace(o) ==
    LET v == o.victim
        n == o.node
        stores == <<ChangeChild(v, n, word[v].up)>>
    IN  /\ Begin(o)
        /\ v \in present /\ Unused(n) /\ Key[v] = Key[n]
        /\ child' = [child EXCEPT ![n] = child[v]]
        /\ word' = ReplacedWords(v, n)
        /\ aug' = LET mem == [After(stores) EXCEPT ![n] = child[v]]
                  IN  AugPropagate(mem, word', aug, n, NULL)
        /\ todo' = stores
        /\ leftmost' = IF leftmost = v THEN n ELSE leftmost
        /\ w' = [Idle EXCEPT !.pc = "done", !.op = o]

-----------------------------------------------------------------------------
(* The end of a call, and the elements it took out.                        *)

InOrder ==
    LET f[k \in 0 .. Cardinality(Nodes)] ==
            IF k = 0 THEN [n \in Links |-> <<>>]
            ELSE LET g == f[k - 1]
                 IN  [n \in Links |-> IF n = NULL THEN <<>>
                                      ELSE g[child[n]["left"]] \o <<n>> \o g[child[n]["right"]]]
    IN  f[Cardinality(Nodes)][root]

\* Callers that have lockless readers reuse an element when the readers of its
\* time are gone, and clear it (RB_CLEAR_NODE).
Forget(gone) ==
    /\ child' = [n \in Nodes |-> IF n \in gone THEN Leaf ELSE child[n]]
    /\ word' = [n \in Nodes |-> IF n \in gone THEN Clear(n) ELSE word[n]]
    /\ aug' = [n \in Nodes |-> IF n \in gone THEN {} ELSE aug[n]]

In(o) == IF o.kind = "erase" THEN {} ELSE {o.node}
Out(o) == IF o.kind = "erase" THEN {o.node}
          ELSE IF o.kind = "replace" THEN {o.victim} ELSE {}

Return ==
    /\ At("done")
    /\ w' = Idle
    /\ present' = (present \cup In(w.op)) \ Out(w.op)
    /\ order' = InOrder
    /\ waits' = [n \in Nodes |-> IF n \in Out(w.op) THEN Walking ELSE waits[n]]
    /\ Forget(IF Walking = {} THEN Out(w.op) ELSE {})
    /\ UNCHANGED <<root, leftmost, todo, rd>>

-----------------------------------------------------------------------------
(* Lockless lookups: the descent of MY_RB_TREE_FIND.  The notes on them in *)
(* rbtree.c are about lookups that load each pointer once, as these do;    *)
(* the macro's text names *__p__ up to three times in a turn.              *)

Gone == [pc |-> "out", key |-> 0, at |-> NULL, calls |-> 0]
WriterSame == UNCHANGED <<root, leftmost, todo, w, present, order>>

\* A lookup in an empty tree is over at once.
ReadStart(r, k) ==
    /\ rd[r].pc = "out"
    /\ root # NULL
    /\ rd' = [rd EXCEPT ![r] = [pc |-> "walk", key |-> k, at |-> root, calls |-> 0]]
    /\ WriterSame /\ UNCHANGED <<child, word, aug, waits>>

Found(r) == Key[rd[r].at] = rd[r].key
NextRead(r) == child[rd[r].at][IF Key[rd[r].at] < rd[r].key THEN "left" ELSE "right"]

ReadStep(r) ==
    /\ rd[r].pc = "walk"
    /\ ~Found(r)
    /\ NextRead(r) # NULL
    /\ rd' = [rd EXCEPT ![r].at = NextRead(r)]
    /\ WriterSame /\ UNCHANGED <<child, word, aug, waits>>

\* The lookup has its answer, and its caller is done with the element.
ReadEnd(r) ==
    /\ rd[r].pc = "walk"
    /\ Found(r) \/ NextRead(r) = NULL
    /\ rd' = [rd EXCEPT ![r] = Gone]
    /\ waits' = [n \in Nodes |-> waits[n] \ {r}]
    /\ Forget({n \in Nodes : waits[n] = {r}})
    /\ WriterSame

-----------------------------------------------------------------------------
Init == /\ root = NULL /\ leftmost = NULL
        /\ child = [n \in Nodes |-> Leaf]
        /\ word = [n \in Nodes |-> Clear(n)]
        /\ aug = [n \in Nodes |-> {}]
        /\ todo = <<>>
        /\ w = Idle
        /\ present = {}
        /\ order = <<>>
        /\ rd = [r \in Readers |-> Gone]
        /\ waits = [n \in Nodes |-> {}]

Call == \/ \E o \in Inserts : InsertLink(o)
        \/ \E o \in Erases : EraseOne(o) \/ EraseTwo(o)
        \/ \E o \in Replaces : Replace(o)
InsertColor == InsertEnd \/ InsertFlip \/ InsertInner \/ InsertOuter
EraseColor == EraseRedSibling \/ EraseFlip \/ EraseInner \/ EraseOuter
Reader(r) == (\E k \in Keys : ReadStart(r, k)) \/ ReadStep(r) \/ ReadEnd(r)

Next == Call \/ Store \/ InsertColor \/ EraseColor \/ Return \/ \E r \in Readers : Reader(r)

Spec == Init /\ [][Next]_vars

-----------------------------------------------------------------------------
(* What is checked.                                                        *)

Places == {"idle", "insert", "erase", "outer", "done"}

\* Every variable stays in its domain, and a loop has the parent it works at.
TypeOK ==
    /\ root \in Links /\ leftmost \in Links
    /\ child \in [Nodes -> [Sides -> Links]]
    /\ word \in [Nodes -> [up : Links, color : Colors]]
    /\ aug \in [Nodes -> SUBSET Nodes]
    /\ todo \in Seq([at : Links, side : Sides, to : Links])
    /\ w \in [pc : Places, op : Calls \cup {NULL}, node : Links, parent : Links,
              gparent : Links, side : Sides]
    /\ w.pc \in {"erase", "outer"} => w.parent # NULL
    /\ present \subseteq Nodes /\ order \in Seq(Nodes)
    /\ rd \in [Readers -> [pc : {"out", "walk"}, key : Keys \cup {0}, at : Links,
                       calls : 0 .. MaxCalls]]
    /\ waits \in [Nodes -> SUBSET Readers]

AtRest == w.pc = "idle"

\* The number of black elements on every path from n down to a leaf, or -1 if
\* the paths differ.
BlackHeight(n) ==
    LET f[k \in 0 .. Cardinality(Nodes)] ==
            IF k = 0 THEN [m \in Links |-> IF m = NULL THEN 0 ELSE -1]
            ELSE LET g == f[k - 1]
                 IN  [m \in Links |->
                        IF m = NULL THEN 0
                        ELSE LET l == g[child[m]["left"]]
                                 r == g[child[m]["right"]]
                             IN  IF l # r \/ l = -1 THEN -1 ELSE IF IsRed(m) THEN l ELSE l + 1]
    IN  f[Cardinality(Nodes)][n]

\* The rules at the head of rbtree.c: the root is black, a red element has
\* black children, all paths have the same number of black elements.
RedBlack ==
    AtRest =>
      /\ ~RedLink(root)
      /\ \A n \in present, s \in Sides : IsRed(n) => ~RedLink(child[n][s])
      /\ BlackHeight(root) # -1

\* The loop invariants the comments of the two rebalancing loops state: an
\* insertion leaves the number of black ones alone and has a red node; an
\* erasure works where exactly one black element is missing.
LoopsBalanced ==
    /\ At("insert") => IsRed(w.node) /\ BlackHeight(root) # -1
    /\ At("erase") =>
         /\ ~RedLink(w.node)
         /\ BlackHeight(w.node) # -1
         /\ BlackHeight(Sibling) = BlackHeight(w.node) + 1

\* Between calls every parent pointer leads to the element whose child it is:
\* climbing, erasing and rotating all rely on it.
LinksAgree ==
    AtRest =>
      /\ root # NULL => word[root].up = NULL
      /\ \A n \in present :
           LET p == word[n].up
           IN  IF p = NULL THEN root = n ELSE p \in present /\ \E s \in Sides : child[p][s] = n

\* Between calls the cached first element is the first.
LeftmostAgrees == AtRest => leftmost = RbFirst

\* Between calls an element's augmented value is that of its whole subtree,
\* whatever was rotated, copied and propagated with an early end.
AugmentedExact ==
    AtRest => \A n \in present : aug[n] = Compute(child, aug, n)

\* The elements a walk from start meets, and NULL from its end on.
Trace(start, Step(_)) ==
    LET f[i \in 1 .. (Cardinality(Nodes) + 1)] ==
            IF i = 1 THEN start ELSE LET p == f[i - 1] IN IF p = NULL THEN NULL ELSE Step(p)
    IN  [i \in 1 .. (Cardinality(Nodes) + 1) |-> f[i]]
Padded(s) == [i \in 1 .. (Cardinality(Nodes) + 1) |-> IF i <= Len(s) THEN s[i] ELSE NULL]

\* Between calls the iterators agree with the tree: rb_first and rb_next give
\* the elements in order, rb_last and rb_prev in reverse.
IterationAgrees ==
    AtRest =>
      /\ Trace(RbFirst, RbNext) = Padded(order)
      /\ Trace(RbLast, RbPrev) = Padded(Reverse(order))

\* Post-order iteration may free each element as it goes: it visits all of
\* them, and neither it nor finding the next one reads an earlier one again.
PostorderSafe ==
    AtRest =>
      LET visit == Trace(RbFirstPostorder, RbNextPostorder)
          reads(n) == {n, word[n].up} \cup
                      (IF Turns(n) THEN ToSet(LeftDeepestPath(child[word[n].up]["right"])) ELSE {})
          count == Len(order)
      IN  /\ {visit[i] : i \in 1 .. count} = present /\ visit[count + 1] = NULL
          /\ \A i \in 1 .. count : \A j \in 1 .. (i - 1) : visit[j] \notin reads(visit[i])

\* At no store is there a loop, not even among elements a reader may still
\* stand on though they left the tree: every lookup ends.
NoLoops ==
    LET f[k \in 0 .. Cardinality(Nodes)] ==
            IF k = 0 THEN Nodes
            ELSE LET longer == f[k - 1] IN {n \in Nodes : \E s \in Sides : child[n][s] \in longer}
    IN  f[Cardinality(Nodes)] = {}

\* A lockless lookup stands on valid elements only: those in the tree, or
\* coming into it, and those taken out in its time.
ReadersOnMembers ==
    \A r \in Readers :
      LET n == rd[r].at
      IN  n = NULL \/ n \in present \/ r \in waits[n] \/ (~AtRest /\ n \in In(w.op))

\* The tree implements the order.
Order == INSTANCE RbOrder WITH seq <- IF AtRest THEN InOrder ELSE order, op <- w.op
ImplementsOrder == Order!Spec
=============================================================================
