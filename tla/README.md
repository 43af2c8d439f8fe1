# A TLA+ model of kernel_porting

kernel_porting builds some of the data-structure libraries of Linux 4.14 as a
user-space library (`libkp.a`, `libkp.so`, linked with `-pthread`). The
algorithms are the kernel's; the environment they rely on (RCU, preemption,
per-CPU data, the slab allocator, atomic instructions) is replaced by macros in
`porting.h`, `mm_porting.c` and `asm-generic/`. The modules here model the
algorithms one shared-memory access at a time and take that environment as
constants, so that each algorithm can be checked both with what it was written
for and with what this port gives it.

## Inventory

| part | state | operations | what is hard |
|---|---|---|---|
| **radix tree** `radix-tree.c/.h` | root (top entry, tag bits), nodes (shift, parent, offset, count, exceptional, slots, tags) | insert, delete, replace, tags, lookups, gang lookups, iterators, the IDR flavour | one lock holder stores while lockless readers walk; `-ENOMEM` half way; growing, pruning and shrinking relink several nodes; tag bits summarise subtrees; index arithmetic wraps at `ULONG_MAX` |
| **preload pool, IDA reserve** `radix-tree.c` | per-CPU `radix_tree_preloads` (count, chain through `parent`), `ida_bitmap` | preload, maybe_preload, idr_preload, ida_pre_get, node_alloc's fallback, cpu_dead | look, allocate with preemption on, look again; the pool is shared by all insertions of a CPU |
| **memory shim** `mm_porting.c` | the C heap | kmem_cache_*, kmalloc, kfree | the constructor argument is dropped |
| **kernel shim** `porting.h` | none | call_rcu, preempt_*, this_cpu_*, local_irq_save | call_rcu frees at once, the others do nothing, `this_cpu_cmpxchg` returns a truth value |
| **llist** `llist.c/.h`, `asm-generic/cmpxchg*.h` | head, `next` of every entry | add, add_batch, del_first, del_all, reverse, walk | lock-free retries, ABA, who may run with whom; cmpxchg and xchg are plain loads and stores here |
| **rbtree** `rbtree*.c/.h`, `myrbtree.h` | nodes (parent, colour, children), root | insert_color, erase, replace, first/last/next/prev, post-order, augmented callbacks | four mirrored rebalancing cases; lookups run without a lock during rotations |
| **lists** `list.h`, `rculist.h` | next/prev rings, hlist chains with `pprev` | add, del, replace, splice, cut, the RCU variants | readers during deletion and splice; `list_empty_careful` |
| **hash table** `hashtable.h`, `hash.h` | an array of hlist heads | add, del, for each possible | as hlist |
| **bitmaps** `bitmap.c/.h`, `find_bit.c`, `hweight.c` | words | set algebra, shifts, remap, find, regions | unused bits of the last word, boundaries of words |
| **bit operations** `bitops.h`, `asm-generic/bitops/` | words | set, clear, test-and-set, bit locks | documented as atomic, built from plain read-modify-writes |
| **sort** `sort.c` | an array | heapsort | scaled `int` counters |
| **word functions** `bitops.h`, `log2.h`, `hweight.c` | none | searches, weights, rotations, logarithms | zero, powers of two, the top bit |

Left aside: `uaccess.h` (memcpy), `kernel.h`, `compiler*.h`, `gfp.h`, `barrier.h` (macros without state), `main.c` (the test program, read for how
callers use the library).

How they interact: the radix tree takes its nodes from the memory shim, or from
the preload pool when that fails, and gives them back through `call_rcu`; the
pool is a chain through the `parent` fields of unused nodes; the IDA keeps one
reserved bitmap beside the pool; llist stands on cmpxchg and xchg; the hash
table is an array of hlists; bit operations underlie bitmaps and tag bits.

What makes each correct: the radix tree is a map with tags, whatever shape it
has and whatever readers and failures it meets; a successful preload makes the
next insertion infallible and no pooled node is lost or doubled; llist is a
lock-free stack; an rbtree stays ordered, balanced and free of loops at each
store; a list reader meets every entry that stays; a bitmap operation is the set
operation on the valid bits. `PROJECT.json` lists the hazards behind these, each
at its line, with the properties that cover it.

## Modules

### RadixTree: the tree, its lock holder and its lockless readers

`RadixTree.tla` has one writer, which holds the tree lock for a whole call, and
`Readers`, which only look up. `root` and `node` are the memory of
`struct radix_tree_root` and of every `struct radix_tree_node`; `heap` and
`grace` are the allocator's and RCU's view of a node; `w` is the writer's call
and its locals; `rd` each reader's. `seen`, `before` and `oom` are history.

- A **step of the writer** is one store a reader can see (a slot, the root),
  with the accounting that goes along and that no reader reads (count,
  exceptional, parent). So `__radix_tree_create` is `InsertStart`, one `Extend`
  per new level, one `Descend` or `CreateChild` per turn of its loop, and
  `InsertEntry`; `delete_node` is `PruneNode` per freed node and `PruneEnd`;
  `radix_tree_shrink` is `ShrinkRoot` (the root's store) and `ShrinkRetire` (the
  RETRY entry and the free) per level. Tags are set on the way down, one level
  per step; `node_tag_clear` is one step: of the lockless calls only a tagged
  iteration reads tags (see RadixIter).
- **Allocation fails** at any allocation (`ExtendFails`, `CreateFails`).
- **Calls** are insert, delete (by index, or of an expected item), replacement
  of the entry at a looked-up slot, tag_set and tag_clear. `Callable` states the
  documented preconditions: a tag is set on a present index only, and a tagged
  entry is not replaced by NULL.
- **Readers** run `__radix_tree_lookup` under `rcu_read_lock`, one pointer at a
  time, and keep the node their slot is in (`par`) for a later dereference.
- `DeferredFree` says whether `call_rcu` waits (the kernel's) or frees at once
  (this port's, `porting.h:236`); `Leftovers` is what a fresh node's slots may
  hold: `{NULL}` where the slab constructor runs, anything here.

Shifts are counted in digits; `MapSize` and `Height` stand for 64 and 11, and
`MaxIndex` for `ULONG_MAX`, which need not be a power of the map size (the top
level of the real tree is partial: 11 digits of 6 bits for 64 bits).

`RadixMap.tla` is what the tree promises its caller: a map from indices to items
with a set of tagged indices per tag, each call one atomic step that either
takes its whole effect or, if it reports `-ENOMEM`, none. `ImplementsMap`
is the refinement; during a call the abstract map is the one the call began with.

### RadixIter: the iterators

`RadixIter.tla` extends `RadixTree`: its readers iterate, in one of two ways. Under
`rcu_read_lock` a loop has the shape of `radix_tree_gang_lookup` (plain, contiguous
or tagged) and runs against every store of the writer. Holding the tree lock
(`it[r].locked`) its body may delete, replace, tag and untag at the iterator's
position, and may give the lock up with `radix_tree_iter_resume`, after which other
calls run and the loop goes on. `it` is `struct radix_tree_iter` with the locals of
`radix_tree_next_chunk`; each load of a slot is a step, so that a search of the
chunk can find a node, a hole, NULL or RETRY that a store has since replaced. `owed`
and `held` are history: which indices the loop must still give, and which entries
an index has had. A tagged loop reads a node's tag bits together with the slot they
lead to, where the code has two loads; what it may find if the writer comes between
them (a slot that is NULL, RETRY or another entry, under a tag read before) makes it
start over or gives an index that was untagged, and so not owed, meanwhile.

Limits, all named in the module: calls that change nothing are left out
(`IterCalls`); a call begins once the unreachable nodes have been freed, which bounds
how many the grace period holds back; allocations succeed, since in a tree that a
failed insertion left too tall `radix_tree_iter_replace` shrinks
(radix-tree.c:1258-1262) and may free the node the iterator stands on. A loop that resumes or deletes in the chunk that ends
at `ULONG_MAX` wraps to 0 and starts over, in spite of radix-tree.c:1739-1743;
`IterExact` and `IterComplete` are about loops that have not.

### Idr: the IDR flavour

`Idr.tla` extends `RadixIter` with `idr_get_free_cmn`, a step per turn of its loops
(grow, descend, climb and start over), `idr_replace`, deletion and `idr_destroy` on
a root whose tag `IDR_FREE` marks what is free. The calls of `idr.c`, which the
repository has not got, are as the kernel's `idr_alloc` makes them. `max` stays
below `ULONG_MAX`. `IdrMap.tla` is the promise: the least free id from `start` on, or
`-ENOSPC` if there is none up to `max`, and a pointer, maybe NULL, for each id in use.

### RadixPool: the preload pool and the reserved IDA bitmap

One CPU's `radix_tree_preloads` and `ida_bitmap`, and threads that preload
(`radix_tree_preload`, `idr_preload`, `ida_pre_get`), insert with or without a
preload, and take nodes from the allocator or the pool. Each access to shared
memory is a step. Between `preempt_disable` and `preempt_enable` no other thread
runs on the CPU if `Pinning` is TRUE, the kernel's meaning and the precondition
stated at `radix-tree.c:388-391`; in this port the macro is empty and callers
have to serialise these calls themselves. The mutant of `PreloadSuffices`
(`DisableNothing`) is precisely the empty macro, and breaks the property.
`SwapReturnsOld` says what `this_cpu_cmpxchg` returns. `CpuDead` is
`radix_tree_cpu_dead`, registered by `radix_tree_init`; this port's
`cpuhp_setup_state_nocalls` drops the registration, so here it runs in the model
only. The IDA's side (`BitmapTake`, `BitmapFree`) is not in the repository.

### LList: the lock-less list

Threads add an entry or a chain of two, delete the first entry or all, reverse
what they got and walk it, each memory access a step. `bus` is the lock an
atomic instruction holds between its load and its store; with `Atomic = FALSE`
they are separate accesses, as `cmpxchg-local.h` and `cmpxchg.h` have them.
`mode` is the discipline the threads follow, one per case of the table in
`llist.h:20-32`: one consumer that uses del_first, drainers that use del_all, or
any consumers under a lock. `LListStack.tla` is the abstract stack; the
refinement maps it to the chain from the head. Memory is sequentially consistent:
what the barriers order is not modelled.

### RbTree: the red-black tree and lookups without its lock

One writer, which holds the tree's lock, inserts, erases and replaces elements of a
cached and augmented tree; the plain calls are the same code without these parts.
`child` is `rb_left` and `rb_right`, `word` is `__rb_parent_color`, `aug` the
augmented values, `leftmost` the cached first element. A turn of a loop is an
action; the stores to child pointers it makes go to `todo` in program order, and
`Store` makes them one by one, because readers see each. The code writes both
mirrored halves of each case out; here a case has a side.

| code | actions |
|---|---|
| `MY_RB_TREE_INSERT`'s descent, `rb_link_node` | `InsertLink` |
| `__rb_insert` | `InsertEnd`, `InsertFlip` (case 1), `InsertInner` (2), `InsertOuter` (3) |
| `__rb_erase_augmented` | `EraseOne` (case 1), `EraseTwo` (2 and 3) |
| `____rb_erase_color` | `EraseRedSibling` (1), `EraseFlip` (2), `EraseInner` (3), `EraseOuter` (4) |
| `rb_replace_node`, `rb_replace_node_rcu` | `Replace` |
| `rb_first/last/next/prev`, post-order | operators of the same names |
| a lookup without the lock | `ReadStart`, `ReadStep`, `ReadEnd` |

What callers supply is modelled as the repository shows it: the descent and the
comparison of `myrbtree.h` (larger keys to the left, equal ones behind), values
computed with `RB_DECLARE_CALLBACKS` (here the set of elements below), and, for
callers with lockless readers, reuse of an element only when the readers of its
time are gone (`waits`). Lookups load each pointer once, as the notes at
`rbtree.c:54` suppose. `RbOrder.tla` is the abstract specification: a sequence
in key order, whose elements with equal keys stay in the order they came in; the
refinement maps the tree to it between calls.

### RcuList: lists, hlists and the hash table

`RcuList.tla` has one writer, which holds the lists' lock, and readers. Both
flavours share one memory (`cell`, two words per object); a head of an hlist is a
bucket, and `hash_32` says which one a key belongs to. A call puts its stores into
`todo` in program order. Those of the `_rcu` calls are made one per step under
lockless readers; the calls that are not for readers wait until the walks are over,
and take their effect at once. `SYNC` in `todo` is a `synchronize_rcu`: in
`list_splice_init_rcu` the stores behind it wait for the walks that had begun. An
object that was taken out is used again only after its grace period (`used`).
A walk is a lockless loop, a `_safe` loop whose body deletes, forwards or backwards,
or a `list_empty_careful` beside a `list_del_init`. `seqs` is the abstract contents:
what each list is after the call, as a sequence; it takes the bucket from `hash_32`
as the code does, so which bucket a key goes to is nothing the properties judge. Memory is sequentially consistent.

### Words, Bitmap, BitmapText, BitmapCalls: bits

`Words.tla` has the functions on one word, which is the set of its one bits, halved
or added up as the code does. `Bitmap.tla` has those on bitmaps, functions from word
numbers to words, word by word with the masks of the first and the last word.
`BitmapText.tla` has the two parsers, a character at a time. `BitmapCalls.tla` is a
caller: a bitmap `map`, beside it the set `bits` it stands for, and one action per
call, made on both; `right` is whether the answer was the set's. A bitmap of one word
uses the one-word forms of `bitmap.h` when the compiler knows its size (`known`).

What the source leaves open is left open: rotations by 0 and shifts by the width of
the word or more are not called; `bitmap_fill` is not called for 0 bits; the
complement, or, xor and the left shift write the unused bits of the last word. The
note at bitmap.c:73-76 says that none are output if none are input. `Clean` is that
rule; it is required of every call but the complement, the left shift of words
and a parse that fails, which do not keep it. The
parsers are modelled as they are, where they are wider than their comments: a text
that ends in a comma is taken, `a-b:g` without its `/` is taken with the size the item
before it left behind, and `1/3` as `3`; `BitmapExact` takes the
first for granted, and the run's texts leave the other two out. Decimal numbers that wrap, the memset and memcmp
forms for byte-aligned constants, printing, the `_user` wrappers and the big-endian
copy are left out. Calls are made by one thread at a time.

### Sort: heapsort

`Sort.tla` is `sort()`, a comparison per step. Its counters are ints computed from
`size_t` values; both keep their widths, scaled down, so that `num` of 0 and 1 take
the way through negative numbers they take in C. The comparison orders the values,
or answers at random (`honest` is FALSE), which a caller's may do.

### MCLibrary

The last three subjects and `LList` share nothing, and one run checks them all: an
initial state chooses the subject, and the others stay in an initial state.

### Proof modules

One on the other `RadixTree_proof`, `RadixMap_proof` and `RadixRcu_proof`; `RbTree_proof`
on `RbShape_proof`. `RadixPool_proof`, `LList_proof` and `Sort_proof` stand alone. See
below.

## Runs

| run | question | bounds | result |
|---|---|---|---|
| `radix_seq` | does every sequence of calls keep the tree well formed and act as a map? | map size 4, three levels over indices 0..31 (the top level partial), keys 0, 1, 20, two items (one exceptional), one tag, five nodes, failures anywhere | holds |
| `radix_rcu` | do lockless readers get right answers from live memory while the writer runs? | map size 2, two levels, three keys, three nodes, one reader, frees deferred | holds |
| `radix_calls` | does every call return? | map size 2, two levels, one tag, under weak fairness of the writer | holds |
| `radix_port_rcu` | the same readers with this port's `call_rcu` | as `radix_rcu`, four nodes | **`ReadersSafe` violated** |
| `radix_dirty` | the tree on this port's node cache | map size 2, two levels, fresh slots NULL or an item | **`CountsAgree` violated** |
| `radix_iter` | does an iteration give what is there, once, in order, from live memory? does an IDR hand out the least free id? | map size 2, two levels, indices 0, 1 and 3 (the last one is `MaxIndex`), three nodes, one reader, frees deferred; ids from 0, 1 and 2 up to 1 or 2 | holds |
| `radix_pool` | does a preload make an insertion infallible, and is every node accounted for? | two threads, four nodes, two bitmaps, preloads of 2, 1 and 1 | holds |
| `ida_pre_get` | the reserve with this port's `this_cpu_cmpxchg` | as `radix_pool` | **`BitmapReserved` violated** |
| `library` | is llist a lock-free stack under each discipline? do the lists hold what was put into them, for lockless walks too? are bitmap calls those on sets? does sort sort? | three threads, two entries, chains of up to two; two lists or buckets, three objects, one reader; words of 4 bits, bitmaps of 3, 4 and 6, texts of up to five characters; arrays of up to five, int of 8 bits and size_t of 16 | holds |
| `llist_torn` | the same with this port's cmpxchg and xchg | two threads, two entries, drainers | **`NothingLost` violated** |
| `rbtree_seq` | do insertion, erasure and replacement keep the tree red-black, ordered and its caches exact? | ten elements, two of them with equal keys | holds |
| `rbtree_rcu` | what does a lookup without the lock meet between two stores? | six elements, two of them with equal keys, one reader, two calls during a lookup | holds |

Why the bounds are enough for the cases that matter: keys 0, 1 and 20 need trees
of one slot, one level and three levels, so inserting and deleting them in every
order extends by several levels at once, creates inner nodes, prunes chains,
shrinks through several levels and runs out of the five nodes. Two levels and
three nodes are the least with which a reader can be two pointers behind the
writer and a freed node be reused. Three threads and two entries are the least
for ABA (del_first held up while another consumer takes both entries and adds one
back); with two nodes per preload a thread can be preempted half way with the
other filling and emptying the pool. In `radix_dirty` `MaxTags` is 0: leftovers
in tags are left out, those in slots suffice. Ten elements are the least with
which insertions make a tree of black height three, where an erasure's loop
climbs to a second turn; six are the least for every case of erasing
with a reader on its way, and two calls let an element a reader stands on be taken
out and then one it leads to.

With map size 2 and indices 0, 1 and 3 an iteration passes from one node to the next
over a hole, ends at the last index, and meets a tree that grows, shrinks and is
pruned behind and before it. Three objects are the least for a walk whose object and
its successor are both deleted; bitmaps of 3, 4 and 6 bits of words of 4 are one
word cut, one word full, and two with the last one cut. Four elements are the least for a
heap of three levels; five make both its children be compared.

Deadlock is checked in every run but `library`, where a sort that is done stops.
Symmetry is used on addresses and threads only, never in the liveness run; in
`library`, where a permutation acts on two subjects, of which one is looked at, the set
of permutations is given as one that is closed under composition.

### Properties

`RadixTree`:
- `LinksAgree`, `NothingLeaked`: parents, offsets and shifts lead back to the one
  slot that holds a node, and every allocated node is in the tree.
- `CountsAgree`: count and exceptional are what the slots hold.
- `TagsSummarise`: a bit above a node says exactly whether a tag is set below.
- `Compact`: no empty node, no top that shrink would drop, unless an allocation failed.
- `OthersUndisturbed`: at every store of a call all other keys are found as
  before, and the call's own key has its old or its new entry.
- `ImplementsMap`: refinement of `RadixMap`.
- `ReadersSafe`, `LookupsLinearizable`, `SlotsNeverStale`: a reader never holds
  freed memory, returns an entry its index had since the lookup began, and a slot
  pointer it keeps never shows an entry that has left the tree.
- `CallsReturn`: every call returns.

`RadixIter` and `Idr`:
- `IterSafe`: no loop reads a node that was given back to the allocator, under
  `rcu_read_lock` or with a body that deletes what it stands on.
- `IterExact`: the body gets ascending indices, each with an entry it had since the
  loop began.
- `IterComplete`: what is present (and tagged) from the start of the loop to its end
  is not skipped.
- `ImplementsIdr`: refinement of `IdrMap`.

`RadixPool`:
- `PreloadSuffices`: an insertion after a successful preload does not fail, though
  the allocator does.
- `NodesAccounted`: while preemption is enabled the pool's chain has as many nodes as
  `nr` says, and every node handed out is in one place.
- `BitmapReserved`: the reserved bitmap is one that was allocated and not freed.

`LList`: `NothingLost`, `DrainedInOrder`, `LockFree` (a call retries only if
another stored to the head meanwhile), `ImplementsStack`.

`RcuList`, `BitmapCalls`, `Sort`:
- `ListsLinked`: between calls each list is what the calls made of it, in order, and
  can be followed both ways.
- `WalksSound`: a walk stays on its list, meets no object twice and none that was
  never there, and misses none that stayed; `list_empty_careful` says yes only when
  the writer is done with the object.
- `BitmapExact`: through every sequence of calls a bitmap is its set and answers as
  it does, whatever is in the unused bits, and sets none of those but in the calls named above; searches, weights and logarithms are those
  of sets and numbers; shifts, remaps, regions, `u32` arrays and parsed texts are
  compared with definitions that do not work by words. Regions stay within a word
  here (the largest bitmap has 6 bits), so the loops of `__reg_op` over several
  words are not reached.
- `SortSound`: the counters stay on elements and the array a permutation of what it
  was, even if the comparison errs; with one that orders, the rest is a heap below
  the sorted part, and the result is sorted.

`RbTree`:
- `RedBlack`, `LinksAgree`: the rules at the head of `rbtree.c`, and parent pointers
  that lead to the parent, after each call.
- `LoopsBalanced`: the invariants that the comments in both rebalancing loops
  state, at each of their turns.
- `LeftmostAgrees`, `AugmentedExact`: the cached first element is the first, and each
  augmented value that of its whole subtree.
- `IterationAgrees`, `PostorderSafe`: iteration in both directions, and post-order
  iteration that never reads an element it has passed.
- `ImplementsOrder`: refinement of `RbOrder`.
- `NoLoops`, `ReadersOnMembers`: at every store child pointers form no loop, and
  a lookup stands only on elements in the tree or taken out in its time.

### Fairness

Only `radix_calls` assumes any: weak fairness of the writer's steps. A call runs
in its caller's thread without blocking and the caller holds the tree lock, so
it goes on as long as the thread is scheduled. Readers and new calls are not
assumed to do anything.

## What the violations say

1. `call_rcu` frees the node at once (`porting.h:236`), while `radix-tree.h:207-210`
   lets lookups run without the lock inside `rcu_read_lock` sections: such a
   reader may hold a freed node. In this port lookups need the lock.
2. `kmem_cache_create` drops the constructor and `kmem_cache_alloc` is malloc: the
   slots and tags of a fresh node are indeterminate, and its count does not
   include what they hold.
3. `this_cpu_cmpxchg` is `__sync_bool_compare_and_swap`, true on success, and
   `ida_pre_get` frees the bitmap on a non-zero result: the bitmap it just installed.
4. `cmpxchg` and `xchg` are plain loads and stores with a `local_irq_save` that
   does nothing: concurrent `llist_add` and `llist_del_all`, which `llist.h:6-8`
   allows without a lock, lose entries.

## Proofs

The theorems hold for every value of the constants that satisfies the module's
assumptions. For `RadixTree` (`SizeAssumption`, `IndexAssumption`, `SpanAssumption`,
`PowerAssumption`, `WidthAssumption`, `EntryAssumption`, `ModeAssumption`,
`CallAssumption`) that is every map size, height, index width, set of nodes, items,
tags and readers; for `RadixPool` (`SizeAssumption`, `NullAssumption`) every number of
threads, nodes and bitmaps and every size of a preload; for `LList`
(`ThreadAssumption`, `FiniteAssumption`: there are finitely many entries) every number
of threads and entries; for `Sort` (`SortAssumption`) every length, element size and
width of the counters; for `RbTree` (`KeyAssumption`, `NodeAssumption`,
`BoundAssumption`: finitely many elements, whose keys are integers) every set of elements,
keys and readers and every bound on the calls during a lookup. `SpanAssumption`, `PowerAssumption` and `TwoAssumption` say of `^` what
arithmetic does, which the provers leave uninterpreted. `WidthAssumption` says that the
span of a slot either fits into the index or is a multiple of its range: the index
width and `RADIX_TREE_MAP_SIZE` are both powers of two.

- `RadixTree_proof`: `TypeCorrect`, `Spec => []TypeOK`. The type invariant is
  inductive once strengthened with where in a call the writer's locals are in
  use (a call is recorded exactly while the writer is not idle, only insertions extend
  and create, a node is being pruned or retired only when there is one, the shift an
  extension reaches never exceeds the one it aims at).
  Its second part: `LinksCorrect`, `LeaksCorrect` and `CountsCorrect`, under
  `Leftovers = {NULL}` (the assumption that `radix_dirty` shows to be needed).
  These three hold between calls only, so none is inductive. The invariant
  (`ShapeHolds`) says what holds after each single store: the nodes in use form a
  tree linked both ways with counts that agree, except where the writer stands,
  which depends on its place (`retire`: the old top, out of the tree and with a
  count of zero; `create`, `find`, `prune`: the node and slot it stands at is in
  the tree). Each writer action is one lemma, by cases on what it does to the
  memory: a new top, a new child, a store to one slot, an unlinked node.
  Its third part: `CompactCorrect`, `Compact` under `Leftovers = {NULL}`. A walk is a
  function from the number of pointers followed to the entry reached; where it can go is
  told from the digits of the index. The invariant (`Tidy`) says which node may be empty, or
  a top that is not needed, in the middle of a call: only one on the way to the call's own
  index, while nothing has failed. It takes arithmetic: the least shift `Fits` chooses is
  the one at which the first digit is not zero, so no new top is one that shrink would drop.
  Its fourth part: `TagsCorrect`, `TagsSummarise` under `Leftovers = {NULL}`. In the middle
  of a call every bit agrees with the node below it but for one: `radix_tree_tag_set` marks
  on its way down, so the bit of the slot it stands at is ahead of the node below (`Marked`,
  `TagsInv`). `node_tag_clear` climbs as long as the bit it cleared was a node's last one:
  the climb is a function, and the levels it clears are those whose node has no other bit.
  `PlaceInv` says that a call that looks up stands on the way to its index and that its
  caller's precondition still holds; without it a tag could be set on an absent index.
- `RadixPool_proof`: `TypeCorrect`, `PreloadCorrect` and `NodesCorrect` under
  `Pinning = TRUE`, and `BitmapCorrect` under `SwapReturnsOld = TRUE` as well. The
  mutant `DisableNothing` and the run `ida_pre_get` show both to be needed.
  Between `preempt_disable` and `preempt_enable` the pool changes store by store,
  so the invariant (`IInv`) speaks of the length the chain has at each place: `nr`,
  one more where a pushed node is not yet counted, one less where a popped one still is.
  There is a list of that many different nodes, each the `parent` of the one before
  it, and what it says of a push and a pop is one lemma each. The pool is defined in the
  model as that list; that it is the only one is proved by well-founded induction
  on the least place where two of them differ. `PreloadSuffices` rests on the thread
  that is pinned: it alone takes nodes, and when it began there were enough.
- `RadixMap_proof`: `CallsDisturbNoOther` (`OthersUndisturbed`) and `TreeIsMap` (the
  refinement `ImplementsMap`), both under `Leftovers = {NULL}`. What an index finds is told
  from the nodes it *passes*: a node is passed if its parent is and the digit at the parent
  leads to it, so a new top, a new child, an unlinked node and a dropped top change which
  nodes are passed, and each of them is shown to leave the item found and its tag bits as
  they were. Only one index ends at a given slot of a lowest node, so the one store of a call
  changes that index alone. `MapInv` relates this to the moment the call began: every index
  finds what it found then, but for the call's own once its store is made; the result kept
  for the return is the one that goes with it; an insertion descends on the way to its index;
  a tag set on the way is already at the slot it stands at. Then every step that does not
  return is a stutter of the map, and each that returns is the map's own step, with its result.
- `RadixRcu_proof`, under `Leftovers = {NULL}` and `DeferredFree = TRUE` (the assumption
  that `radix_port_rcu` shows to be needed):
  - `ReadersCorrect`, `ReadersSafe`. `RcuInv` says that a reader in its section *holds* the
    node it stands on (the node is in use, or in a grace period that waits for this reader),
    and that who holds an unlinked node holds what its slots lead to. The second half is
    what makes the walk through an unlinked node safe. A step of the writer does one of
    three things to a node (keep it, allocate it, retire it), and each preserves what readers
    hold; that the children of a retired node are in use is the shape invariant's.
  - `LookupsCorrect` (`LookupsLinearizable`) and `SlotsCorrect` (`SlotsNeverStale`). A
    reader may stand on nodes that left the tree while it walked, so the invariant
    (`LookInv`, checked by TLC on the instance of `radix_rcu` first) speaks of a
    set R of held nodes that its remaining walk cannot leave. A node of R that is
    in the tree is passed on the way to the reader's index; one that is not leads, at the
    digit of the index, to a node of R, to NULL when the index was seen empty, to RETRY, or,
    while `radix_tree_shrink` is between its two stores, to the item the index
    still has. A step of the writer takes at most one node out of the tree; what
    is shown of each step (`Moved`) is that nodes that stay are passed as before, that one
    that leaves leads to a passed node or to what its index holds (an empty node was all
    there was of the index; the old top leads to the new one, and has nothing at its other
    digits), and that the old top's item is RETRY before the grace period begins. Any such
    step keeps `LookInv`, with R widened by the nodes now passed.
- `LList_proof`: under `Atomic = TRUE` (the assumption that `llist_torn` shows to be needed),
  `ListLockFree` (the action property `LockFree`), `ListTypeOK`, `ListNothingLost`,
  `ListDrainedInOrder` and the refinement `ListIsStack`. `SeenInv` says that the head is what
  a call has read until someone stores to it, and that nobody does between the load and the
  store of an atomic instruction, so a failed exchange means that another call has succeeded.
  `IInv` adds the chains: the list, and for every thread the private batch it is about to add
  or has taken out, are disjoint and end; a thread that holds a batch walks or reverses it,
  and nobody else stores to its next pointers. The discipline is what makes `llist_del_first`
  right: while one consumer is between its loads and its exchange no other takes entries
  out, so if the head is the one it has read, the entry behind it is too (no ABA). That a
  head starts only one chain is proved by the least place where two of them differ.
- `Sort_proof`: `SortInvariant` and `SortCorrect` (`SortSound`) under `ArraysFit`: an int
  counts the bytes of the array. The sums and products of `int` and `size_t` values in
  sort.c:73-100 are shown to lose nothing then, `(num/2 - 1) * size` for `num` of 0 and 1
  included, where it wraps in `size_t` and comes back as `-size`. The invariant (`SortInv`)
  counts in elements: `i` is at the a-th and `r` at the b-th one; what is sifted is a heap
  but for the b-th, whose children are no greater than its parent; in the second loop what is
  behind the a-th is sorted and no less than what is before. The array is the old one
  through a bijection, exchanges keep that, and a bijection keeps how often a value occurs.
  That the first of a heap is its greatest takes the least one that is greater.

- `RbShape_proof` and `RbTree_proof`: `RedBlackAlways`, `LoopsBalancedAlways`,
  `LinksAgreeAlways`, `ReadersOnMembersAlways`, `LeftmostAgreesAlways`,
  `AugmentedExactAlways`, `NoLoopsAlways` and `TypeAlways`, without further assumptions.
  A turn of a loop sets parents and colours at once, but its stores to child pointers come
  one by one, so in most states memory is no tree. The invariant (`TreeInv`) speaks
  of the tree the pending stores will make: there is a function `c` that agrees with
  memory where no store is pending and with the store where one is (`Shown`), linked both
  ways (`Linked`) and with as many black elements on all paths (`Balanced`), but for
  at most two places that go with where the writer is (`Standing`): a red `x` below a red parent,
  or a side `t` below `y` where one black element is missing. Then a store changes
  memory and not `c`, and what is left is what each turn does to `c`. That is
  `RbShape_proof`, apart from the program: one lemma each for a rotation, a new leaf,
  taking an element out and putting another in its place, and for the repainting that goes
  with each case. Case 2 of an insertion and case 3 of an erasure leave words that the
  next case sets, and the first a pointer too; `Worded` and `Shown` name them.
  `rbtree.c` goes down in three places: for the place of a new element, to the
  successor, and, in the property, for the black height. That they end is proved by a rank:
  4 times the number of black elements on the paths below, plus the colour, is less at
  every child, so a descent meets no element twice and there are finitely many.
  `ReachInv` is about lookups: what a visible element points to is visible; what an
  element out of the tree points to is visible or waits for every reader the first waits
  for. So a step from either lands on an element the reader may stand on, at every store.
  `Valued` is about what the tree caches, at every store: the first element ends a
  line of left children (`Spine`), and every augmented value is exact for the
  pointers the pending stores will leave. A climb that mends values (`Ladder`) goes up from
  the lowest wrong one and may stop at the first that is right already: what is above
  it never was wrong. `EraseTwo` needs two climbs, since the successor comes from below.
  `LoopFree` is about loops (`NoLoops`): there is a rank in which every pointer in memory
  goes down, and one in which those that stay and the pending stores do. A store
  then leaves the second one for the first. What is shown of each turn is that it can be
  ranked anew: a rotation, or an erasure that puts the successor in its place, doubles the
  ranks and puts the element that is lifted next to the one it passes; elements out of
  the tree, which none in it points to, rank above all that are in it.

Only model-checked: the iterators and the IDR, lists, bitmaps; of `RbTree` the iterators
(`IterationAgrees`, `PostorderSafe`) and the refinement (`ImplementsOrder`).
Out of the prover's reach: liveness under fairness (`CallsReturn`), and
what a recursive definition computes where that takes induction with an operator as the
hypothesis. Where the hypothesis can be written as a set of numbers, it is proved by
counting up (walks and climbs of unbounded height, chains of unbounded length).

## Plan

1. Proofs: `ImplementsOrder` of `RbTree`; `IterSafe`, from the invariant of `RadixRcu_proof`.
2. The bit locks of `lock.h`; iteration with a body's replacement in a tree left
   too tall.
3. The barriers: a model of memory with store buffers for `llist` and `rculist`.

## Not modelled, and why

- Weak memory ordering: the barriers of `barrier.h` are assumed to give the
  sequential consistency the modules have.
- `CONFIG_RADIX_TREE_MULTIORDER` (split, join, siblings) is not defined in this build.
- Leftover tag bits of fresh nodes; `radix_tree_update_node_t` callbacks, which no
  caller in `src/` passes.
- Concurrent updates of one bitmap: `set_bit` and its like are the plain
  read-modify-writes that `llist_torn` shows for `cmpxchg`; `lock.h` beside them.
- The lookup macro of `myrbtree.h` without the tree's lock, which it does not claim
  to support; the progress of readers, which lookups do not promise.
- `uaccess.h`, `kernel.h`, `compiler*.h`, `gfp.h`, the printing half of `bitmap.c`, and
  the library calls behind `mm_porting.c`: macros without state and pure I/O.
