-------------------------------- MODULE Sort --------------------------------
(***************************************************************************)
(* sort.c, one comparison of the heapsort per step.  Its counters are byte *)
(* offsets, ints that are compared with and computed from the size_t       *)
(* values num and size; both keep their width here, scaled down.  Elements *)
(* move whole: u32_swap, u64_swap and generic_swap exchange all their      *)
(* bytes.  The comparison is the caller's: it orders the values, or        *)
(* answers at random.                                                      *)
(***************************************************************************)
EXTENDS Integers, Sequences, FiniteSets

CONSTANTS
    Values,      \* what elements are compared by
    MaxNum,      \* the longest array
    ElementSizes,\* the sizes of elements in bytes
    INT_BITS,    \* the widths of int and
    SIZE_T_BITS  \* of size_t

ASSUME SortAssumption ==
    /\ Values \subseteq Nat /\ MaxNum \in Nat /\ ElementSizes \subseteq Nat \ {0}
    /\ {INT_BITS, SIZE_T_BITS} \subseteq 2 .. 30 /\ INT_BITS < SIZE_T_BITS

\* What arithmetic says of powers of two (the provers leave ^ uninterpreted).
ASSUME TwoAssumption ==
    /\ 2 ^ (INT_BITS - 1) \in Nat \ {0} /\ 2 ^ (SIZE_T_BITS - INT_BITS) \in Nat \ {0, 1}
    /\ 2 ^ INT_BITS = 2 * 2 ^ (INT_BITS - 1)
    /\ 2 ^ SIZE_T_BITS = 2 ^ (SIZE_T_BITS - INT_BITS) * 2 ^ INT_BITS

VARIABLES
    phase,  \* "none", "heapify", "sort" and "done"
    honest, \* the comparison orders the values
    array,  \* the elements, array[0] first
    before, \* history: the elements as they were
    size,
    i, n, r \* the counters of sort()

svars == <<phase, honest, array, before, size, i, n, r>>

-----------------------------------------------------------------------------
\* Conversions to size_t and to int.
SizeT(x) == x % 2 ^ SIZE_T_BITS
ToInt(x) == ((x + 2 ^ (INT_BITS - 1)) % 2 ^ INT_BITS) - 2 ^ (INT_BITS - 1)

Number == Len(before)
\* base + x is an element.
InArray(x) == x % size = 0 /\ x >= 0 /\ x \div size < Number
\* Beside the array there is something, say 0.
Element(x) == IF InArray(x) THEN array[x \div size] ELSE 0
Swapped2(a, b) == [array EXCEPT ![a \div size] = Element(b), ![b \div size] = Element(a)]

\* The answers cmp_func(base + a, base + b) may give.
Compare(a, b) == IF honest THEN {Element(a) - Element(b)} ELSE {-1, 0, 1}

-----------------------------------------------------------------------------
\* sort(): the counters are set up.
SortCall(s, sz, h) ==
    /\ phase = "none"
    /\ phase' = "heapify" /\ honest' = h /\ size' = sz /\ before' = s
    /\ array' = [k \in 0 .. Len(s) - 1 |-> s[k + 1]]
    /\ i' = ToInt(SizeT(SizeT(Len(s) \div 2 - 1) * sz)) /\ r' = i'
    /\ n' = ToInt(SizeT(Len(s) * sz))

\* The bound of the loop that sifts down: n, and then i.
Bound == IF phase = "heapify" THEN n ELSE i
Sifting == SizeT(r * 2 + size) < SizeT(Bound)

\* Mutant: the last child's sibling is looked at, too.
SiftPast ==
    /\ phase \in {"heapify", "sort"} /\ (phase = "heapify" => i >= 0) /\ Sifting
    /\ LET left == ToInt(SizeT(r * 2 + size))
           pair == SizeT(left) <= SizeT(Bound - size)
       IN  \E less \in IF pair THEN Compare(left, left + size) ELSE {0} :
           LET c == IF less < 0 THEN left + size ELSE left IN
           \E order \in Compare(r, c) :
             IF order >= 0 THEN r' = Bound /\ UNCHANGED array
             ELSE r' = c /\ array' = Swapped2(r, c)
    /\ UNCHANGED <<phase, honest, before, size, i, n>>

\* The element at r goes down to its greater child, or stays: the break leaves
\* the loop as its condition would.
Sift ==
    /\ phase \in {"heapify", "sort"} /\ (phase = "heapify" => i >= 0) /\ Sifting
    /\ LET left == ToInt(SizeT(r * 2 + size))
           pair == SizeT(left) < SizeT(Bound - size)
       IN  \E less \in IF pair THEN Compare(left, left + size) ELSE {0} :
           LET c == IF less < 0 THEN left + size ELSE left IN
           \E order \in Compare(r, c) :
             IF order >= 0 THEN r' = Bound /\ UNCHANGED array
             ELSE r' = c /\ array' = Swapped2(r, c)
    /\ UNCHANGED <<phase, honest, before, size, i, n>>

\* The next element to sift down, i -= size, while i >= 0.
Heapify ==
    /\ phase = "heapify" /\ i >= 0 /\ ~Sifting
    /\ i' = ToInt(SizeT(i - size)) /\ r' = i'
    /\ UNCHANGED <<phase, honest, array, before, size, n>>
Heapified ==
    /\ phase = "heapify" /\ i < 0
    /\ i' = ToInt(SizeT(n - size))
    /\ IF i' > 0 THEN phase' = "sort" /\ array' = Swapped2(0, i') /\ r' = 0
       ELSE phase' = "done" /\ UNCHANGED <<array, r>>
    /\ UNCHANGED <<honest, before, size, n>>

\* The greatest is in its place: the next one, while i > 0.
Extract ==
    /\ phase = "sort" /\ ~Sifting
    /\ i' = ToInt(SizeT(i - size))
    /\ IF i' > 0 THEN array' = Swapped2(0, i') /\ r' = 0 /\ UNCHANGED phase
       ELSE phase' = "done" /\ UNCHANGED <<array, r>>
    /\ UNCHANGED <<honest, before, size, n>>

-----------------------------------------------------------------------------
SortInit ==
    /\ phase = "none" /\ honest = TRUE /\ array = <<>> /\ before = <<>>
    /\ size = 1 /\ i = 0 /\ n = 0 /\ r = 0

SortNext ==
    \/ \E k \in 0 .. MaxNum : \E s \in [1 .. k -> Values], sz \in ElementSizes, h \in BOOLEAN :
         SortCall(s, sz, h)
    \/ Sift \/ Heapify \/ Heapified \/ Extract

SortSpec == SortInit /\ [][SortNext]_svars

\* Whatever the comparison answers, the counters stay on elements and the array a
\* permutation of what it was; with one that orders, what is still to be sorted is
\* a heap below what is sorted, and in the end all of it is (sort.c:88-112).
SortSound ==
    LET occurs(s, v) == Cardinality({k \in DOMAIN s : s[k] = v})
        least == IF i < 0 THEN 0 ELSE i \div size
        Heap(from, to) == \A k \in from + 1 .. to :
                            (k - 1) \div 2 >= from => array[(k - 1) \div 2] >= array[k]
    IN  phase # "none" =>
        /\ DOMAIN array = 0 .. Number - 1
        /\ \A v \in Values : occurs(array, v) = occurs(before, v)
        /\ phase = "heapify" /\ i >= 0 /\ Sifting => InArray(r)
        /\ phase = "sort" /\ Sifting => InArray(r) /\ InArray(i)
        /\ honest /\ phase = "heapify" /\ ~Sifting /\ i >= 0 => Heap(least, Number - 1)
        /\ honest /\ phase = "sort" =>
             /\ \A k \in least .. Number - 2 : array[k] <= array[k + 1]
             /\ \A k \in 0 .. least - 1 : array[k] <= array[least]
             /\ ~Sifting => Heap(0, least - 1)
        /\ honest /\ phase = "done" => \A k \in 0 .. Number - 2 : array[k] <= array[k + 1]

=============================================================================
