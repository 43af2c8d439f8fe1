------------------------------ MODULE RcuList -------------------------------
(***************************************************************************)
(* list.h, rculist.h and hashtable.h.  A writer holds the lists' lock and  *)
(* calls one operation at a time; the _rcu operations advance by one store *)
(* per step under lockless readers, the others run while readers are kept  *)
(* out.  Both flavours share one memory: a list_head and an hlist_node     *)
(* have two words, an hlist_head only the first, and an hlist's pprev is   *)
(* given as the object whose first word it points to.                      *)
(***************************************************************************)
EXTENDS Integers, SequencesExt

CONSTANTS
    Heads,       \* list heads, or the buckets 0 .. 2^HashBits - 1 of a hash table
    Links,       \* the list_heads and hlist_nodes of the callers' objects
    ListReaders, \* threads that walk the lists
    Keys,        \* the keys objects are hashed by
    HashBits,
    NIL,
    POISON       \* LIST_POISON1 and LIST_POISON2

ASSUME LinkAssumption ==
    /\ Heads \cap Links = {} /\ {NIL, POISON} \cap (Heads \cup Links) = {} /\ NIL # POISON
    /\ HashBits \in 1 .. 16 /\ 0 .. 2 ^ HashBits - 1 \subseteq Heads
    /\ Keys \subseteq 0 .. 2 ^ 16 - 1

VARIABLES
    flavour, \* "list" or "hlist"
    cell,    \* the memory: two words per object, "next" (first) and "prev" (pprev)
    todo,    \* the stores the writer's call has still to make
    call,    \* the call in progress: whether it keeps readers out, and what it takes out
    grace,   \* the readers synchronize_rcu() waits for
    used,    \* for each object taken out, the readers its grace period waits for
    seqs,    \* abstract: the contents of each list after the call
    walk     \* the walks over the lists, with their histories

lvars == <<flavour, cell, todo, call, grace, used, seqs, walk>>

-----------------------------------------------------------------------------
(* Memory and stores.                                                      *)

S(x, f, v) == [obj |-> x, field |-> f, val |-> v]
SYNC == S(NIL, "next", NIL)

Store1(mem, s) == [mem EXCEPT ![s.obj][s.field] = s.val]
After(mem, stores) == FoldLeft(Store1, mem, stores)

EndOf(h) == IF flavour = "list" THEN h ELSE NIL

\* The objects met from x on, by field f, until head h comes round.
Along(mem, h, x, f) ==
    LET N == Cardinality(Links)
        at[k \in 0 .. N] == IF k = 0 THEN x
                            ELSE IF at[k - 1] \in Links THEN mem[at[k - 1]][f] ELSE at[k - 1]
        n == Cardinality({k \in 0 .. N : at[k] \in Links})
    IN  [k \in 1 .. n |-> at[k - 1]]
Content(h) == Along(cell, h, cell[h].next, "next")

In(h) == ToSet(seqs[h])
Listed == UNION {In(h) : h \in Heads}

\* An hlist node that points to itself (hlist_add_fake).
Fake(e) == flavour = "hlist" /\ cell[e].prev = e
\* Objects a caller may put on a list: on none, and past their grace period.
Unlisted == {e \in Links : e \notin Listed /\ used[e] = {} /\ ~Fake(e)}

-----------------------------------------------------------------------------
(* Calls.                                                                  *)

NoCall == [excl |-> FALSE, out |-> {}]
Resting == todo = <<>>

\* The walk of no loop. pos and n are a loop's cursors, f the field it follows, head
\* the list it is on and heads those it walks; met, owed and ever are histories: what
\* it was given, what it must still be given and what it may be given.
NoWalk == [kind |-> "out", heads |-> {}, head |-> NIL, pos |-> NIL, n |-> NIL,
           f |-> "next", met |-> {}, owed |-> {}, ever |-> {}]
Walking == {r \in ListReaders : walk[r] # NoWalk}
InRcu == {r \in Walking : walk[r].kind \in {"rcu", "ended"}}
Holding == Walking \ InRcu

\* What a call does to what the loops under way are owed and may meet.
Expect(w, after) ==
    LET members == UNION {ToSet(after[h]) : h \in w.heads}
    IN  [w EXCEPT !.owed = @ \cap members, !.ever = @ \cup members]

\* A call with readers about makes its stores one by one ...
Publish(stores, after, out) ==
    /\ Resting /\ Holding = {}
    /\ todo' = stores
    /\ call' = [excl |-> FALSE, out |-> out]
    /\ seqs' = after
    /\ walk' = [r \in ListReaders |-> Expect(walk[r], after)]
    /\ UNCHANGED <<flavour, cell, grace, used>>

\* ... and one that keeps them out is seen by nobody before it is done.
Alone(stores, after) ==
    /\ Resting /\ InRcu = {}
    /\ cell' = After(cell, stores)
    /\ seqs' = after
    /\ UNCHANGED <<flavour, todo, call, grace, used>>
Exclusive(stores, after) ==
    Walking = {} /\ Alone(stores, after) /\ UNCHANGED walk

PutAfter(e, h, x) ==
    IF x = h THEN [seqs EXCEPT ![h] = <<e>> \o @]
    ELSE [seqs EXCEPT ![h] = LET k == CHOOSE k \in DOMAIN @ : @[k] = x
                             IN  SubSeq(@, 1, k) \o <<e>> \o SubSeq(@, k + 1, Len(@))]
Taken(e) == [h \in Heads |-> Remove(seqs[h], e)]
Swapped(old, new) == [h \in Heads |-> ReplaceAll(seqs[h], old, new)]
Joined(src, dst, tail) ==
    [seqs EXCEPT ![src] = <<>>,
                 ![dst] = IF tail THEN @ \o seqs[src] ELSE seqs[src] \o @]

-----------------------------------------------------------------------------
(* list.h, with readers out.                                               *)

InitHead(h) == <<S(h, "next", h), S(h, "prev", h)>>
ListAddBetween(e, p, n) ==
    <<S(n, "prev", e), S(e, "next", n), S(e, "prev", p), S(p, "next", e)>>
ListUnlink(mem, e) ==
    <<S(mem[e].next, "prev", mem[e].prev), S(mem[e].prev, "next", mem[e].next)>>
Poisoned(e) == <<S(e, "next", POISON), S(e, "prev", POISON)>>

ListDel(e) == Exclusive(ListUnlink(cell, e) \o Poisoned(e), Taken(e))

\* list_add and list_add_tail
ListAdd(e, h) == Exclusive(ListAddBetween(e, h, cell[h].next), PutAfter(e, h, h))
ListAddTail(e, h) ==
    Exclusive(ListAddBetween(e, cell[h].prev, h), [seqs EXCEPT ![h] = Append(@, e)])

\* list_replace and list_replace_init; after the first the old object is left as it is.
ListReplaceStores(old, new) ==
    LET one == <<S(new, "next", cell[old].next), S(cell[old].next, "prev", new)>>
        p == After(cell, one)[old].prev
    IN  one \o <<S(new, "prev", p), S(p, "next", new)>>
ListReplace(old, new, init) ==
    Exclusive(ListReplaceStores(old, new) \o IF init THEN InitHead(old) ELSE <<>>,
              Swapped(old, new))

\* list_replace_init of a list's head by another: an empty list is replaced by an
\* empty one.
ListReplaceHead(old, new) ==
    /\ old # new /\ seqs[new] = <<>>
    /\ Exclusive(ListReplaceStores(old, new) \o InitHead(old), Joined(old, new, FALSE))

\* list_move and list_move_tail: list_add sees the list without the object.
ListMove(e, h, tail) ==
    LET cut == ListUnlink(cell, e)
        mem == After(cell, cut)
        rest == Taken(e)
    IN  Exclusive(cut \o IF tail THEN ListAddBetween(e, mem[h].prev, h)
                         ELSE ListAddBetween(e, h, mem[h].next),
                  [rest EXCEPT ![h] = IF tail THEN Append(@, e) ELSE <<e>> \o @])

\* list_rotate_left
ListRotateLeft(h) == cell[h].next # h /\ ListMove(cell[h].next, h, TRUE)

\* Mutant: the new list's last entry goes on pointing into the old list.
CutStoresOpen(to, h, e) ==
    LET n == cell[e].next IN
    <<S(to, "next", cell[h].next), S(cell[h].next, "prev", to), S(to, "prev", e),
      S(h, "next", n), S(n, "prev", h)>>

\* __list_cut_position
CutStores(to, h, e) ==
    LET n == cell[e].next IN
    <<S(to, "next", cell[h].next), S(cell[h].next, "prev", to), S(to, "prev", e),
      S(e, "next", to), S(h, "next", n), S(n, "prev", h)>>

\* list_cut_position, to an empty list; the head itself cuts nothing.
ListCut(to, h, e) ==
    /\ to # h /\ seqs[to] = <<>> /\ cell[h].next # h
    /\ IF e = h THEN Exclusive(InitHead(to), seqs)
       ELSE LET k == CHOOSE k \in DOMAIN seqs[h] : seqs[h][k] = e IN
            Exclusive(CutStores(to, h, e),
                      [seqs EXCEPT ![to] = SubSeq(seqs[h], 1, k),
                                   ![h] = SubSeq(@, k + 1, Len(@))])

\* list_splice_init and list_splice_tail_init; list_splice and
\* list_splice_tail, after which a caller initialises the source itself.
ListSplice(src, dst, tail) ==
    LET p == IF tail THEN cell[dst].prev ELSE dst
        n == IF tail THEN dst ELSE cell[dst].next
    IN  /\ src # dst /\ cell[src].next # src
        /\ Exclusive(<<S(cell[src].next, "prev", p), S(p, "next", cell[src].next),
                       S(cell[src].prev, "next", n), S(n, "prev", cell[src].prev)>>
                        \o InitHead(src),
                     Joined(src, dst, tail))

\* list_del_init, whose stores list_empty_careful may run against.
ListDelInit(e) ==
    /\ Resting /\ \A r \in Walking : walk[r].kind \in {"careful", "empty"}
    /\ \A r \in Walking : walk[r].kind = "empty" => walk[r].pos # e
    /\ todo' = ListUnlink(cell, e) \o InitHead(e)
    /\ call' = [excl |-> TRUE, out |-> {}]
    /\ seqs' = Taken(e)
    /\ UNCHANGED <<flavour, cell, grace, used, walk>>

-----------------------------------------------------------------------------
(* rculist.h, its list part.                                               *)

\* Mutant: the object is published before its own words are set.
ListAddRcuEarly(e, p, n) ==
    <<S(p, "next", e), S(e, "next", n), S(e, "prev", p), S(n, "prev", e)>>

\* __list_add_rcu
ListAddRcuStores(e, p, n) ==
    <<S(e, "next", n), S(e, "prev", p), S(p, "next", e), S(n, "prev", e)>>
ListAddRcu(e, h) ==
    Publish(ListAddRcuStores(e, h, cell[h].next), PutAfter(e, h, h), {})
ListAddTailRcu(e, h) ==
    Publish(ListAddRcuStores(e, cell[h].prev, h), [seqs EXCEPT ![h] = Append(@, e)], {})

ListDelRcu(e) ==
    Publish(ListUnlink(cell, e) \o <<S(e, "prev", POISON)>>, Taken(e), {e})

ListReplaceRcu(old, new) ==
    LET p == cell[old].prev
        n == cell[old].next
    IN  Publish(<<S(new, "next", n), S(new, "prev", p), S(p, "next", new),
                             S(n, "prev", new), S(old, "prev", POISON)>>,
                Swapped(old, new), {old})

\* list_splice_init_rcu and list_splice_tail_init_rcu
ListSpliceRcu(src, dst, tail) ==
    LET p == IF tail THEN cell[dst].prev ELSE dst
        n == IF tail THEN dst ELSE cell[dst].next
        first == cell[src].next
        last == cell[src].prev
    IN  /\ src # dst /\ first # src
        /\ Publish(
                   InitHead(src) \o <<SYNC, S(last, "next", n), S(p, "next", first),
                                      S(first, "prev", p), S(n, "prev", last)>>,
                   Joined(src, dst, tail), {})

-----------------------------------------------------------------------------
(* list.h and rculist.h, the hlist part; hashtable.h.                      *)

BackTo(n, x) == IF n = NIL THEN <<>> ELSE <<S(n, "prev", x)>>
HlistUnlink(e) == <<S(cell[e].prev, "next", cell[e].next)>> \o BackTo(cell[e].next, cell[e].prev)
InitNode(e) == <<S(e, "next", NIL), S(e, "prev", NIL)>>

\* hash_32: a product modulo 2^32 of which the high bits are taken; the two
\* halves of GOLDEN_RATIO_32 are multiplied apart.
Hash32(key, bits) ==
    (((key * 25032) + ((key * 34375) \div 2 ^ 16)) % 2 ^ 16) \div 2 ^ (16 - bits)
Bucket(key) == Hash32(key, HashBits)

\* hlist_add_head, and hash_add of an object with a key
HlistAddHead(e, h) ==
    Exclusive(<<S(e, "next", cell[h].next)>> \o BackTo(cell[h].next, e)
                 \o <<S(h, "next", e), S(e, "prev", h)>>, PutAfter(e, h, h))
HashAdd(e, key) == HlistAddHead(e, Bucket(key))

\* The list object x is on, x included if it is a head.
HeadOf(x) == CHOOSE h \in Heads : x = h \/ x \in In(h)
PutBefore(e, n) ==
    LET h == HeadOf(n)
        k == CHOOSE k \in DOMAIN seqs[h] : seqs[h][k] = n
    IN  [seqs EXCEPT ![h] = SubSeq(@, 1, k - 1) \o <<e>> \o SubSeq(@, k, Len(@))]

HlistAddBefore(e, n) ==
    Exclusive(<<S(e, "prev", cell[n].prev), S(e, "next", n), S(n, "prev", e),
                S(cell[n].prev, "next", e)>>, PutBefore(e, n))
HlistAddBehind(e, p) ==
    Exclusive(<<S(e, "next", cell[p].next), S(p, "next", e), S(e, "prev", p)>>
                 \o BackTo(cell[p].next, e), PutAfter(e, HeadOf(p), p))

HlistDel(e) ==
    /\ e \in Listed \/ Fake(e)
    /\ Exclusive(HlistUnlink(e) \o Poisoned(e), Taken(e))

\* hlist_del_init and hash_del: nothing for a node that is not hashed.
HlistDelInit(e) ==
    /\ cell[e].prev \notin {NIL, POISON}
    /\ e \in Listed \/ Fake(e)
    /\ Exclusive(HlistUnlink(e) \o InitNode(e), Taken(e))

\* After hlist_add_fake, hlist_del works on a node that is on no list.
HlistAddFake(e) ==
    cell[e] = [next |-> NIL, prev |-> NIL] /\ Exclusive(<<S(e, "prev", e)>>, seqs)

HlistMoveList(old, new) ==
    /\ old # new /\ seqs[new] = <<>>
    /\ Exclusive(<<S(new, "next", cell[old].next)>> \o BackTo(cell[old].next, new)
                    \o <<S(old, "next", NIL)>>, Joined(old, new, FALSE))

\* hlist_add_head_rcu, hash_add_rcu
HlistAddHeadRcu(e, h) ==
    Publish(<<S(e, "next", cell[h].next), S(e, "prev", h), S(h, "next", e)>>
                      \o BackTo(cell[h].next, e), PutAfter(e, h, h), {})

\* hlist_add_tail_rcu: the last node is looked for, and linked behind.
HlistAddTailRcu(e, h) ==
    IF cell[h].next = NIL THEN HlistAddHeadRcu(e, h)
    ELSE LET last == Content(h)[Len(Content(h))] IN
         Publish(<<S(e, "next", cell[last].next), S(e, "prev", last), S(last, "next", e)>>,
                 PutAfter(e, h, last), {})

HlistAddBeforeRcu(e, n) ==
    Publish(<<S(e, "prev", cell[n].prev), S(e, "next", n), S(cell[n].prev, "next", e),
                     S(n, "prev", e)>>, PutBefore(e, n), {})
HlistAddBehindRcu(e, p) ==
    Publish(<<S(e, "next", cell[p].next), S(e, "prev", p), S(p, "next", e)>>
                      \o BackTo(cell[p].next, e), PutAfter(e, HeadOf(p), p), {})

\* hlist_del_rcu, or hlist_del_init_rcu and hash_del_rcu
HlistDelRcu(e, init) ==
    Publish(HlistUnlink(e) \o <<S(e, "prev", IF init THEN NIL ELSE POISON)>>,
            Taken(e), {e})

HlistReplaceRcu(old, new) ==
    Publish(<<S(new, "next", cell[old].next), S(new, "prev", cell[old].prev),
                         S(cell[old].prev, "next", new)>>
                          \o BackTo(cell[old].next, new) \o <<S(old, "prev", POISON)>>,
            Swapped(old, new), {old})

-----------------------------------------------------------------------------
(* The writer's stores.                                                    *)

Finish(rest) ==
    IF rest # <<>> THEN UNCHANGED <<call, used>>
    ELSE /\ call' = NoCall
         /\ used' = [e \in Links |-> IF e \in call.out THEN InRcu ELSE used[e]]

StoreStep ==
    /\ ~Resting /\ Head(todo) # SYNC /\ grace = {}
    /\ cell' = Store1(cell, Head(todo))
    /\ todo' = Tail(todo)
    /\ Finish(Tail(todo))
    /\ UNCHANGED <<flavour, grace, seqs, walk>>

\* Mutant: sync() returns at once.
SyncStepNone == ~Resting /\ Head(todo) = SYNC /\ todo' = Tail(todo)
                /\ UNCHANGED <<flavour, cell, call, grace, used, seqs, walk>>

\* sync() waits for the readers that are in a section now.
SyncStep ==
    /\ ~Resting /\ Head(todo) = SYNC
    /\ grace' = InRcu
    /\ todo' = Tail(todo)
    /\ UNCHANGED <<flavour, cell, call, used, seqs, walk>>

-----------------------------------------------------------------------------
(* Walks.                                                                  *)

\* WalkRcu(r, {h}): rcu_read_lock() and list_for_each_entry_rcu or
\* hlist_for_each_entry_rcu (hash_for_each_possible_rcu) up to the first load;
\* more heads are the buckets of hash_for_each_rcu, walked from the first on.
WalkRcu(r, hs) ==
    /\ walk[r] = NoWalk /\ Holding = {} /\ ~call.excl
    /\ LET h == Min(hs) IN
       walk' = [walk EXCEPT ![r] = [NoWalk EXCEPT
                  !.kind = "rcu", !.pos = h, !.head = h, !.heads = hs,
                  !.owed = UNION {ToSet(Content(g)) \cap In(g) : g \in hs},
                  !.ever = UNION {ToSet(Content(g)) \cup In(g) : g \in hs}]]
    /\ UNCHANGED <<flavour, cell, todo, call, grace, used, seqs>>

\* The loop of walk w goes on to x: an object for its body, or the list's end.
Arrive(w, x) ==
    LET here == [w EXCEPT !.pos = x, !.met = @ \cup ({w.pos} \cap Links)]
        left == {h \in w.heads : h > w.head}
    IN  IF x # EndOf(w.head) THEN [here EXCEPT !.owed = @ \ {x}]
        ELSE IF left # {} THEN [here EXCEPT !.pos = Min(left), !.head = Min(left)]
        ELSE [here EXCEPT !.kind = IF @ = "rcu" THEN "ended" ELSE "over"]

\* Each step of a lockless walk is one load of a next pointer.
StepRcu(r) ==
    /\ walk[r].kind = "rcu"
    /\ walk[r].pos \in Links \cup Heads
    /\ walk' = [walk EXCEPT ![r] = Arrive(@, cell[@.pos].next)]
    /\ UNCHANGED <<flavour, cell, todo, call, grace, used, seqs>>

\* rcu_read_unlock(): after the loop, or after a break out of it.
UnlockRcu(r) ==
    /\ r \in InRcu
    /\ walk' = [walk EXCEPT ![r] = NoWalk]
    /\ grace' = grace \ {r}
    /\ used' = [e \in Links |-> used[e] \ {r}]
    /\ UNCHANGED <<flavour, cell, todo, call, seqs>>

\* list_for_each_entry_safe (f = "next"), list_for_each_entry_safe_reverse
\* (f = "prev") and hlist_for_each_entry_safe: the cursor n is a step ahead.
Ahead(mem, w) == IF w.pos \in Links \cup Heads THEN [w EXCEPT !.n = mem[w.pos][w.f]] ELSE w
WalkSafe(r, h, f) ==
    /\ Walking = {} /\ Resting /\ seqs[h] # <<>>
    /\ LET w == [NoWalk EXCEPT !.kind = "safe", !.pos = h, !.head = h, !.heads = {h}, !.f = f,
                               !.owed = In(h), !.ever = In(h)]
       IN  walk' = [walk EXCEPT ![r] = Ahead(cell, Arrive(w, cell[h][f]))]
    /\ UNCHANGED <<flavour, cell, todo, call, grace, used, seqs>>

\* Mutant: the unsafe loop, which reads the next entry after the body.
StepSafeLate(r) ==
    /\ walk[r].kind = "safe"
    /\ walk' = [walk EXCEPT ![r] =
                   IF @.pos \in Links THEN Ahead(cell, Arrive(@, cell[@.pos][@.f])) ELSE @]
    /\ UNCHANGED <<flavour, cell, todo, call, grace, used, seqs>>

StepSafe(r) ==
    /\ walk[r].kind = "safe"
    /\ walk' = [walk EXCEPT ![r] = Ahead(cell, Arrive(@, @.n))]
    /\ UNCHANGED <<flavour, cell, todo, call, grace, used, seqs>>

\* The body takes its object off the list, for good or to another list's tail.
BodyDel(r) ==
    /\ walk[r].kind = "safe" /\ walk[r].pos \in Listed
    /\ LET e == walk[r].pos IN
       Alone((IF flavour = "list" THEN ListUnlink(cell, e) ELSE HlistUnlink(e)) \o Poisoned(e),
             Taken(e))
    /\ UNCHANGED walk
BodyMove(r, h) ==
    /\ walk[r].kind = "safe" /\ flavour = "list" /\ h # walk[r].head
    /\ LET e == walk[r].pos
           cut == ListUnlink(cell, e)
       IN  /\ e \in In(walk[r].head)
           /\ Alone(cut \o ListAddBetween(e, cell[h].prev, h),
                    [Taken(e) EXCEPT ![h] = Append(@, e)])
    /\ UNCHANGED walk
\* It takes the next object off, and resets the cursor (list_safe_reset_next).
BodyDelNext(r) ==
    /\ walk[r].kind = "safe" /\ flavour = "list"
    /\ walk[r].pos \in In(walk[r].head) /\ walk[r].n \in Links
    /\ LET w == walk[r]
           stores == ListUnlink(cell, w.n) \o Poisoned(w.n)
       IN  /\ Alone(stores, Taken(w.n))
           /\ walk' = [walk EXCEPT ![r] = [Ahead(After(cell, stores), w) EXCEPT
                                              !.owed = @ \ {w.n}]]

\* list_empty_careful: two loads, against list_del_init only.
CarefulStart(r, e) ==
    /\ flavour = "list" /\ walk[r] = NoWalk /\ Walking = {} /\ Resting /\ e \in Listed
    /\ walk' = [walk EXCEPT ![r] = [NoWalk EXCEPT !.kind = "careful", !.pos = e]]
    /\ UNCHANGED <<flavour, cell, todo, call, grace, used, seqs>>
CarefulNext(r) ==
    /\ walk[r].kind = "careful" /\ walk[r].n = NIL
    /\ walk' = [walk EXCEPT ![r].n = cell[walk[r].pos].next]
    /\ UNCHANGED <<flavour, cell, todo, call, grace, used, seqs>>
\* Mutant: list_empty, whose one load decides.
CarefulPrevNone(r) ==
    /\ walk[r].kind = "careful" /\ walk[r].n # NIL
    /\ walk' = [walk EXCEPT ![r] = IF @.n = @.pos THEN [@ EXCEPT !.kind = "empty"] ELSE NoWalk]
    /\ UNCHANGED <<flavour, cell, todo, call, grace, used, seqs>>
CarefulPrev(r) ==
    /\ walk[r].kind = "careful" /\ walk[r].n # NIL
    /\ walk' = [walk EXCEPT ![r] = IF @.n = @.pos /\ cell[@.pos].prev = @.pos
                                   THEN [@ EXCEPT !.kind = "empty"] ELSE NoWalk]
    /\ UNCHANGED <<flavour, cell, todo, call, grace, used, seqs>>
WalkDone(r) ==
    /\ walk[r].kind \in {"empty", "over"}
    /\ walk' = [walk EXCEPT ![r] = NoWalk]
    /\ UNCHANGED <<flavour, cell, todo, call, grace, used, seqs>>

-----------------------------------------------------------------------------
Buckets == 0 .. 2 ^ HashBits - 1

ListInit ==
    /\ flavour \in {"list", "hlist"}
    /\ cell = [x \in Heads \cup Links |-> IF flavour = "list" THEN [next |-> x, prev |-> x]
                                          ELSE [next |-> NIL, prev |-> NIL]]
    /\ todo = <<>> /\ call = NoCall /\ grace = {}
    /\ used = [e \in Links |-> {}]
    /\ seqs = [h \in Heads |-> <<>>]
    /\ walk = [r \in ListReaders |-> NoWalk]

\* The operations of list.h ...
ListCall ==
    \/ \E e \in Unlisted, h \in Heads :
         \/ ListAdd(e, h) \/ ListAddTail(e, h) \/ ListAddRcu(e, h) \/ ListAddTailRcu(e, h)
    \/ \E e \in Listed :
         \/ ListDel(e) \/ ListDelInit(e) \/ ListDelRcu(e)
         \/ \E new \in Unlisted : ListReplaceRcu(e, new)
                                  \/ \E init \in BOOLEAN : ListReplace(e, new, init)
         \/ \E h \in Heads, tail \in BOOLEAN : ListMove(e, h, tail)
    \/ \E h \in Heads :
         \/ ListRotateLeft(h)
         \/ \E to \in Heads : \/ ListReplaceHead(h, to)
                              \/ \E e \in In(h) \cup {h} : ListCut(to, h, e)
                              \/ \E tail \in BOOLEAN : ListSplice(h, to, tail)
                                                       \/ ListSpliceRcu(h, to, tail)
    \/ \E r \in ListReaders :
         \/ \E e \in Listed : CarefulStart(r, e)
         \/ CarefulNext(r) \/ CarefulPrev(r)
         \/ \E h \in Heads : WalkSafe(r, h, "prev") \/ BodyMove(r, h)
         \/ BodyDelNext(r)

\* ... those of hlists and hash tables ...
HlistCall ==
    \/ \E e \in Unlisted :
         \/ \E key \in Keys : HashAdd(e, key)
         \/ \E h \in Heads : HlistAddHeadRcu(e, h) \/ HlistAddTailRcu(e, h)
         \/ \E x \in Listed : \/ HlistAddBefore(e, x) \/ HlistAddBehind(e, x)
                              \/ HlistAddBeforeRcu(e, x) \/ HlistAddBehindRcu(e, x)
                              \/ HlistReplaceRcu(x, e)
         \/ HlistAddFake(e)
    \/ \E e \in Links : HlistDel(e) \/ HlistDelInit(e)
    \/ \E e \in Listed, init \in BOOLEAN : HlistDelRcu(e, init)
    \/ \E old, new \in Heads : HlistMoveList(old, new)
    \/ \E r \in ListReaders : WalkRcu(r, Buckets)

\* ... and what they share.
ListNext ==
    \/ flavour = "list" /\ ListCall
    \/ flavour = "hlist" /\ HlistCall
    \/ StoreStep \/ SyncStep
    \/ \E r \in ListReaders :
         \/ \E h \in Heads : WalkRcu(r, {h}) \/ WalkSafe(r, h, "next")
         \/ StepRcu(r) \/ UnlockRcu(r) \/ StepSafe(r) \/ BodyDel(r) \/ WalkDone(r)

-----------------------------------------------------------------------------
(* Properties.                                                             *)

\* Between calls every list holds what the calls made of it, in order, and can be
\* followed both ways: a list's prev pointers are its next pointers reversed, an
\* hlist's pprev is the word that points to the node (list.h:75-81, 602-745;
\* rculist.h:51-581).
ListsLinked ==
    Resting => \A h \in Heads :
        LET path == <<h>> \o seqs[h] IN
        /\ \A k \in 1 .. Len(path) - 1 : /\ cell[path[k]].next = path[k + 1]
                                         /\ cell[path[k + 1]].prev = path[k]
        /\ cell[Last(path)].next = EndOf(h)
        /\ flavour = "list" => cell[h].prev = Last(path)

\* A loop never leaves its list or gives its body an object twice, or one that was
\* never on the list; when it ends it has given every object that was there all the
\* time, whatever the calls in between did (rculist.h:353, 598; list.h:512, 736).
\* list_empty_careful answers yes only when the writer is done with the object
\* (list.h:236).
WalksSound ==
    \A r \in ListReaders : LET w == walk[r] IN
        /\ w.kind \in {"rcu", "safe"} => /\ w.pos \in Links \cup {w.head}
                                         /\ w.pos \in Links => w.pos \in w.ever \ w.met
        /\ w.kind \in {"ended", "over"} => w.owed = {}
        /\ w.kind = "empty" => /\ w.pos \notin Listed
                               /\ \A k \in DOMAIN todo : todo[k].obj # w.pos

=============================================================================
