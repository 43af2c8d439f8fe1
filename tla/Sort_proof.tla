----------------------------- MODULE Sort_proof -----------------------------
(***************************************************************************)
(* sort() sorts, for every array whose bytes an int counts, every size of  *)
(* its elements and every width of the counters: the counters are computed *)
(* without loss, so that each is at an element, and what is sifted is a    *)
(* heap but for the element that goes down.                                *)
(***************************************************************************)
EXTENDS Sort, TLAPS, FiniteSetTheorems, FunctionTheorems, SequenceTheorems, WellFoundedInduction

-----------------------------------------------------------------------------
(* Counters.                                                               *)

Half == 2 ^ (INT_BITS - 1)

\* A multiple of d and a remainder.
LEMMA Divided ==
    ASSUME NEW d \in Nat \ {0}, NEW q \in Int, NEW s \in 0 .. (d - 1)
    PROVE  (q * d + s) % d = s /\ (q * d + s) \div d = q
OBVIOUS

\* A negative number's remainder is not negative.
LEMMA Wrapped ==
    ASSUME NEW d \in Nat \ {0}, NEW s \in 0 .. (d - 1)
    PROVE  (s - d) % d = s
OBVIOUS

\* The widths: size_t has a multiple of the values of int.
LEMMA Widths ==
    /\ Half \in Nat \ {0} /\ 2 ^ INT_BITS = 2 * Half
    /\ \E m \in Nat \ {0, 1} : 2 ^ SIZE_T_BITS = m * (2 * Half)
    /\ 2 ^ SIZE_T_BITS \in Nat /\ 2 ^ SIZE_T_BITS >= 4 * Half
<1>1. /\ Half \in Nat \ {0} /\ 2 ^ INT_BITS = 2 * Half
      /\ 2 ^ (SIZE_T_BITS - INT_BITS) \in Nat \ {0, 1}
      /\ 2 ^ SIZE_T_BITS = 2 ^ (SIZE_T_BITS - INT_BITS) * (2 * Half)
    BY TwoAssumption DEF Half
<1>2. PICK m \in Nat \ {0, 1} : 2 ^ SIZE_T_BITS = m * (2 * Half)
    BY <1>1
<1>3. m * (2 * Half) \in Nat /\ m * (2 * Half) >= 4 * Half
    BY <1>1
<1> QED BY <1>1, <1>2, <1>3

\* What size_t can hold is not changed by it.
LEMMA SizeTIs ==
    ASSUME NEW x \in Nat, x < 4 * Half PROVE SizeT(x) = x
<1>1. 2 ^ SIZE_T_BITS \in Nat /\ x < 2 ^ SIZE_T_BITS
    BY Widths
<1> QED BY <1>1 DEF SizeT

\* An int survives the way through size_t.
LEMMA IntIs ==
    ASSUME NEW x \in Int, -Half <= x, x < Half PROVE ToInt(SizeT(x)) = x
<1> DEFINE d == 2 * Half
<1>1. Half \in Nat \ {0} /\ d \in Nat \ {0} /\ d = Half + Half /\ 2 ^ INT_BITS = d
    BY Widths
<1>2. PICK m \in Nat \ {0, 1} : 2 ^ SIZE_T_BITS = m * d
    BY Widths
<1> DEFINE D == m * d
<1> HIDE DEF d
<1>3. D \in Nat \ {0} /\ D >= d
    BY <1>1, <1>2
<1>4. x + Half \in 0 .. (d - 1)
    BY <1>1
<1>5. PICK q \in Nat : q * d + (x + Half) = SizeT(x) + Half
    <2>1. CASE x >= 0
        <3> HIDE DEF D
        <3>1. SizeT(x) = x
            BY <1>1, <1>2, <1>3, <1>4, <2>1 DEF SizeT, D
        <3>2. 0 * d + (x + Half) = x + Half
            BY <1>1
        <3> QED BY <3>1, <3>2
    <2>2. CASE x < 0
        <3> HIDE DEF D
        <3>1. D + x \in 0 .. (D - 1)
            BY <1>1, <1>3, <1>4, <2>2
        <3>2. PICK s \in 0 .. (D - 1) : s = D + x
            BY <3>1
        <3>3. (s - D) % D = s
            BY <1>3, Wrapped
        <3>6. s - D = x
            BY <1>3, <3>2
        <3>4. SizeT(x) = D + x
            BY <1>2, <3>2, <3>3, <3>6 DEF SizeT, D
        <3>5. D + (x + Half) = SizeT(x) + Half
            BY <1>1, <1>3, <3>4
        <3> QED BY <1>2, <3>5 DEF D
    <2> QED BY <2>1, <2>2
<1>6. PICK s \in 0 .. (d - 1) : s = x + Half
    BY <1>4
<1>8. (q * d + s) % d = s
    BY <1>1, Divided
<1>7. ToInt(SizeT(x)) = ((SizeT(x) + Half) % d) - Half
    BY <1>1 DEF ToInt, Half
<1>9. (SizeT(x) + Half) % d = x + Half
    BY <1>5, <1>6, <1>8
<1> QED BY <1>1, <1>7, <1>9

\* Byte offsets are ordered as what they count.
LEMMA Scaled ==
    ASSUME NEW d \in Nat \ {0}, NEW j \in Int, NEW k \in Int
    PROVE  /\ j * d < k * d <=> j < k
           /\ j * d <= k * d <=> j <= k
           /\ j * d = k * d <=> j = k
           /\ j * d \in Int /\ (j * d) % d = 0 /\ (j * d) \div d = j
<1>1. j * d \in Int /\ k * d \in Int
    OBVIOUS
<1>2. (j * d + 0) % d = 0 /\ (j * d + 0) \div d = j
    BY Divided
<1>3. (j * d) % d = 0 /\ (j * d) \div d = j
    BY <1>1, <1>2
<1>4. ASSUME NEW x \in Int, NEW y \in Int, x < y PROVE x * d < y * d
    BY <1>4
<1>5. j < k => j * d < k * d
    BY <1>4
<1>6. k < j => k * d < j * d
    BY <1>4
<1> QED BY <1>1, <1>3, <1>5, <1>6
-----------------------------------------------------------------------------
(* Arrays, permuted.                                                       *)

Exchange(f, x, y) == [f EXCEPT ![x] = f[y], ![y] = f[x]]

\* f is g, a sequence of N elements, in another order.
Shuffled(f, g, N) ==
    \E p \in [0 .. N - 1 -> 1 .. N] :
      /\ \A j, k \in 0 .. N - 1 : p[j] = p[k] => j = k
      /\ \A m \in 1 .. N : \E k \in 0 .. N - 1 : p[k] = m
      /\ \A k \in 0 .. N - 1 : f[k] = g[p[k]]

\* Two elements change places.
LEMMA ExchangeIs ==
    ASSUME NEW V, NEW N \in Nat, NEW f \in [0 .. N - 1 -> V],
           NEW x \in 0 .. N - 1, NEW y \in 0 .. N - 1
    PROVE  /\ Exchange(f, x, y) \in [0 .. N - 1 -> V]
           /\ \A k \in 0 .. N - 1 :
                Exchange(f, x, y)[k] = IF k = x THEN f[y] ELSE IF k = y THEN f[x] ELSE f[k]
BY DEF Exchange

\* Exchanges only permute.
LEMMA ExchangeShuffles ==
    ASSUME NEW V, NEW N \in Nat, NEW f \in [0 .. N - 1 -> V], NEW g,
           NEW x \in 0 .. N - 1, NEW y \in 0 .. N - 1, Shuffled(f, g, N)
    PROVE  Shuffled(Exchange(f, x, y), g, N)
<1>1. PICK p \in [0 .. N - 1 -> 1 .. N] :
        /\ \A j, k \in 0 .. N - 1 : p[j] = p[k] => j = k
        /\ \A m \in 1 .. N : \E k \in 0 .. N - 1 : p[k] = m
        /\ \A k \in 0 .. N - 1 : f[k] = g[p[k]]
    BY DEF Shuffled
<1> DEFINE q == Exchange(p, x, y)
<1>2. /\ q \in [0 .. N - 1 -> 1 .. N]
      /\ \A k \in 0 .. N - 1 :
           q[k] = IF k = x THEN p[y] ELSE IF k = y THEN p[x] ELSE p[k]
    BY DEF Exchange
<1>3. \A k \in 0 .. N - 1 :
        Exchange(f, x, y)[k] = IF k = x THEN f[y] ELSE IF k = y THEN f[x] ELSE f[k]
    BY DEF Exchange
<1> HIDE DEF q
<1>4. ASSUME NEW j \in 0 .. N - 1, NEW k \in 0 .. N - 1, q[j] = q[k] PROVE j = k
    <2> DEFINE s(m) == IF m = x THEN y ELSE IF m = y THEN x ELSE m
    <2>1. s(j) \in 0 .. N - 1 /\ s(k) \in 0 .. N - 1 /\ (s(j) = s(k) => j = k)
        OBVIOUS
    <2>2. q[j] = p[s(j)] /\ q[k] = p[s(k)]
        BY <1>2
    <2> HIDE DEF s
    <2>3. s(j) = s(k)
        BY <1>1, <1>4, <2>1, <2>2
    <2> QED BY <2>1, <2>3
<1>5. ASSUME NEW m \in 1 .. N PROVE \E k \in 0 .. N - 1 : q[k] = m
    <2>1. PICK k \in 0 .. N - 1 : p[k] = m
        BY <1>1
    <2>2. CASE k = x
        BY <1>2, <2>1, <2>2
    <2>3. CASE k = y
        BY <1>2, <2>1, <2>3
    <2>4. CASE k # x /\ k # y
        BY <1>2, <2>1, <2>4
    <2> QED BY <2>2, <2>3, <2>4
<1>6. \A k \in 0 .. N - 1 : Exchange(f, x, y)[k] = g[q[k]]
    BY <1>1, <1>2, <1>3
<1> QED BY <1>2, <1>4, <1>5, <1>6 DEF Shuffled

Places(S, f, v) == {k \in S : f[k] = v}

\* Each value occurs as often as before.
LEMMA ShuffledCounts ==
    ASSUME NEW N \in Nat, NEW f, NEW g, Shuffled(f, g, N),
           NEW v
    PROVE  Cardinality(Places(0 .. N - 1, f, v)) = Cardinality(Places(1 .. N, g, v))
<1>1. PICK p \in [0 .. N - 1 -> 1 .. N] :
        /\ \A j, k \in 0 .. N - 1 : p[j] = p[k] => j = k
        /\ \A m \in 1 .. N : \E k \in 0 .. N - 1 : p[k] = m
        /\ \A k \in 0 .. N - 1 : f[k] = g[p[k]]
    BY DEF Shuffled
<1> DEFINE S == {k \in 0 .. N - 1 : f[k] = v}
           T == {k \in 1 .. N : g[k] = v}
           q == [k \in S |-> p[k]]
<1>2. q \in [S -> T]
    BY <1>1
<1>3. \A j, k \in S : q[j] = q[k] => j = k
    BY <1>1
<1>4. \A m \in T : \E k \in S : q[k] = m
    BY <1>1
<1>5. q \in Bijection(S, T)
    BY <1>2, <1>3, <1>4 DEF Bijection, Injection, Surjection, IsInjective
<1>6. ExistsBijection(S, T)
    BY <1>5 DEF ExistsBijection
<1>7. IsFiniteSet(0 .. N - 1)
    BY FS_Interval
<1>8. IsFiniteSet(S)
    BY <1>7, FS_Subset
<1> QED BY <1>6, <1>8, FS_Bijection DEF Places

-----------------------------------------------------------------------------
(* Heaps.                                                                  *)

Parent(k) == (k - 1) \div 2

\* Up to "to", what is at "from" or after it is no less than its children.
HeapFrom(f, from, to) ==
    \A k \in 1 .. to : Parent(k) >= from => f[Parent(k)] >= f[k]

\* As that, but for the one at c, whose children are no greater than its parent.
HeapBut(f, from, to, c) ==
    \A k \in 1 .. to :
      IF Parent(k) = c THEN c >= 1 /\ Parent(c) >= from => f[Parent(c)] >= f[k]
      ELSE Parent(k) >= from => f[Parent(k)] >= f[k]

\* The first element of a heap is the greatest.
LEMMA GreatestFirst ==
    ASSUME NEW N \in Nat, NEW f \in [0 .. N - 1 -> Nat], NEW to \in 0 .. N - 1,
           HeapFrom(f, 0, to)
    PROVE  \A k \in 0 .. to : f[k] <= f[0]
<1> DEFINE T == {k \in Nat : k <= to /\ ~(f[k] <= f[0])}
<1>1. SUFFICES ASSUME T # {} PROVE FALSE
    OBVIOUS
<1>2. \E k \in T : \A y \in T : <<y, k>> \notin OpToRel(<, Nat)
    BY <1>1, NatLessThanWellFounded, WFMin
<1>3. PICK k \in T : \A y \in T : <<y, k>> \notin OpToRel(<, Nat)
    BY <1>2
<1>4. \A y \in T : ~(y < k)
    BY <1>3 DEF OpToRel
<1>5. k \in 1 .. to /\ Parent(k) \in Nat /\ Parent(k) < k
    BY DEF Parent
<1>6. f[Parent(k)] <= f[0]
    BY <1>4, <1>5
<1>7. f[Parent(k)] >= f[k]
    BY <1>5 DEF HeapFrom
<1> QED BY <1>5, <1>6, <1>7

\* The greater child takes the place of its parent.
LEMMA Sinks ==
    ASSUME NEW N \in Nat, NEW f \in [0 .. N - 1 -> Nat], NEW from \in Nat,
           NEW to \in Int, to < N, NEW b \in Nat, from <= b, HeapBut(f, from, to, b),
           NEW c \in 1 .. to, Parent(c) = b, f[b] <= f[c],
           \A k \in 1 .. to : Parent(k) = b => f[k] <= f[c]
    PROVE  HeapBut(Exchange(f, b, c), from, to, c)
<1> DEFINE g == Exchange(f, b, c)
<1>1. b \in 0 .. N - 1 /\ c \in 0 .. N - 1 /\ b < c
    BY DEF Parent
<1>2. \A k \in 0 .. N - 1 : g[k] = IF k = b THEN f[c] ELSE IF k = c THEN f[b] ELSE f[k]
    BY <1>1 DEF Exchange
<1> HIDE DEF g
<1> SUFFICES ASSUME NEW k \in 1 .. to
             PROVE  IF Parent(k) = c
                    THEN c >= 1 /\ Parent(c) >= from => g[Parent(c)] >= g[k]
                    ELSE Parent(k) >= from => g[Parent(k)] >= g[k]
    BY DEF HeapBut, g
<1>3. Parent(k) \in 0 .. N - 1 /\ Parent(k) < k /\ k \in 0 .. N - 1
    BY DEF Parent
<1>4. CASE Parent(k) = c
    <2>1. f[c] >= f[k]
        BY <1>1, <1>4 DEF HeapBut
    <2> QED BY <1>1, <1>2, <1>3, <1>4, <2>1
<1>5. CASE Parent(k) = b
    BY <1>1, <1>2, <1>3, <1>5
<1>6. CASE k = b
    <2>1. c >= 1 /\ b >= 1 /\ Parent(b) >= from => f[Parent(b)] >= f[c]
        BY <1>1 DEF HeapBut
    <2>2. Parent(b) \in 0 .. N - 1 /\ Parent(b) < b
        BY <1>3, <1>6
    <2> QED BY <1>1, <1>2, <1>6, <2>1, <2>2
<1>7. CASE Parent(k) \notin {b, c} /\ k # b
    <2>1. Parent(k) >= from => f[Parent(k)] >= f[k]
        BY <1>7 DEF HeapBut
    <2> QED BY <1>1, <1>2, <1>3, <1>7, <2>1
<1> QED BY <1>4, <1>5, <1>6, <1>7

\* It stays: no child of it is greater.
LEMMA Stays ==
    ASSUME NEW N \in Nat, NEW f \in [0 .. N - 1 -> Nat], NEW from \in Nat,
           NEW to \in Int, to < N, NEW b \in Nat, HeapBut(f, from, to, b),
           \A k \in 1 .. to : Parent(k) = b => f[k] <= f[b]
    PROVE  HeapFrom(f, from, to)
<1> SUFFICES ASSUME NEW k \in 1 .. to, Parent(k) >= from PROVE f[Parent(k)] >= f[k]
    BY DEF HeapFrom
<1>1. Parent(k) \in 0 .. N - 1 /\ k \in 0 .. N - 1
    BY DEF Parent
<1>2. CASE Parent(k) = b
    BY <1>1, <1>2
<1>3. CASE Parent(k) # b
    BY <1>3 DEF HeapBut
<1> QED BY <1>2, <1>3

\* What has no children is no exception.
LEMMA Settled ==
    ASSUME NEW f, NEW from \in Nat, NEW to \in Int, NEW b \in Nat, 2 * b + 1 > to
    PROVE  HeapBut(f, from, to, b) <=> HeapFrom(f, from, to)
<1>1. \A k \in 1 .. to : Parent(k) # b
    BY DEF Parent
<1> QED BY <1>1 DEF HeapBut, HeapFrom

\* The one before a heap is sifted next.
LEMMA OneMore ==
    ASSUME NEW f, NEW a \in Nat, NEW to \in Int, HeapFrom(f, a + 1, to)
    PROVE  HeapBut(f, a, to, a)
<1>1. \A k \in 1 .. to : Parent(k) \in Int
    BY DEF Parent
<1> SUFFICES ASSUME NEW k \in 1 .. to
             PROVE  IF Parent(k) = a THEN a >= 1 /\ Parent(a) >= a => f[Parent(a)] >= f[k]
                    ELSE Parent(k) >= a => f[Parent(k)] >= f[k]
    BY DEF HeapBut
<1>3. CASE Parent(k) = a
    <2>1. ~(a >= 1 /\ Parent(a) >= a)
        BY DEF Parent
    <2> QED BY <1>3, <2>1
<1>4. CASE Parent(k) # a /\ Parent(k) >= a
    <2>1. Parent(k) >= a + 1
        BY <1>1, <1>4
    <2> QED BY <1>4, <2>1 DEF HeapFrom
<1> QED BY <1>3, <1>4

\* The greatest goes behind the others, and the last one to the front.
LEMMA TakenOut ==
    ASSUME NEW N \in Nat, NEW f \in [0 .. N - 1 -> Nat], NEW m \in 1 .. N - 1,
           HeapFrom(f, 0, m)
    PROVE  HeapBut(Exchange(f, 0, m), 0, m - 1, 0)
<1> DEFINE g == Exchange(f, 0, m)
<1>1. \A k \in 0 .. N - 1 : g[k] = IF k = 0 THEN f[m] ELSE IF k = m THEN f[0] ELSE f[k]
    BY DEF Exchange
<1> HIDE DEF g
<1>2. ASSUME NEW k \in 1 .. m - 1, Parent(k) # 0 PROVE g[Parent(k)] >= g[k]
    <2>1. Parent(k) \in 1 .. m - 1 /\ k \in 1 .. m
        BY <1>2 DEF Parent
    <2>2. f[Parent(k)] >= f[k]
        BY <2>1 DEF HeapFrom
    <2> QED BY <1>1, <2>1, <2>2
<1> QED BY <1>2 DEF HeapBut, g
-----------------------------------------------------------------------------
(* The invariant.                                                          *)

\* What the counters are: i is at the a-th element, r at the b-th.
Stage(a, b) ==
    \/ /\ phase = "heapify" /\ a < Number
       /\ a >= 0 => b \in a .. Number
       /\ honest => IF a < 0 THEN HeapFrom(array, 0, Number - 1)
                    ELSE HeapBut(array, a, Number - 1, b)
    \/ /\ phase = "sort" /\ a \in 1 .. Number - 1 /\ b \in 0 .. a
       /\ honest => /\ \A k \in a .. Number - 2 : array[k] <= array[k + 1]
                    /\ \A k \in 0 .. a - 1 : array[k] <= array[a]
                    /\ HeapBut(array, 0, a - 1, b)
    \/ phase = "done" /\ (honest => \A k \in 0 .. Number - 2 : array[k] <= array[k + 1])

Called ==
    /\ size \in ElementSizes /\ before \in Seq(Values) /\ Number <= MaxNum
    /\ n = Number * size
    /\ array \in [0 .. Number - 1 -> Values] /\ Shuffled(array, before, Number)

SortInv ==
    /\ phase \in {"none", "heapify", "sort", "done"}
    /\ phase # "none" =>
         /\ Called
         /\ \E a, b \in -1 .. MaxNum : i = a * size /\ r = b * size /\ Stage(a, b)

\* Arrays whose bytes an int counts.
ArraysFit == \A sz \in ElementSizes : sz <= Half /\ MaxNum * sz < Half

\* Arrays up to the longest one fit an int, byte by byte.
LEMMA Sizes ==
    ASSUME ArraysFit, NEW d \in ElementSizes, NEW N \in Nat, N <= MaxNum
    PROVE  d \in Nat \ {0} /\ d <= Half /\ N * d < Half /\ Half \in Nat
<1>1. d \in Nat \ {0} /\ MaxNum \in Nat /\ d <= Half /\ MaxNum * d < Half /\ Half \in Nat
    BY SortAssumption, Widths DEF ArraysFit
<1>2. N * d <= MaxNum * d
    BY <1>1, Scaled
<1>3. N * d \in Int /\ MaxNum * d \in Int
    BY <1>1
<1> QED BY <1>1, <1>2, <1>3

\* The counters are computed without loss.
LEMMA CounterIs ==
    ASSUME NEW d \in Nat \ {0}, NEW N \in Nat, d <= Half, N * d < Half, Half \in Nat,
           NEW k \in -1 .. N
    PROVE  k * d \in Int /\ -d <= k * d /\ k * d <= N * d /\ ToInt(SizeT(k * d)) = k * d
<1>1. k * d \in Int /\ -1 * d <= k * d /\ k * d <= N * d /\ N * d \in Int
    BY Scaled
<1>2. -1 * d = -d
    OBVIOUS
<1>3. -Half <= k * d /\ k * d < Half
    BY <1>1, <1>2
<1> QED BY <1>1, <1>2, <1>3, IntIs

\* The left child of the b-th element is the (2b + 1)-th; the tests of the loop are
\* those on the numbers of the elements.
LEMMA SiftCounters ==
    ASSUME NEW d \in Nat \ {0}, NEW N \in Nat, d <= Half, N * d < Half, Half \in Nat,
           NEW b \in 0 .. N, NEW B \in 0 .. N
    PROVE  /\ SizeT((b * d) * 2 + d) < SizeT(B * d) <=> 2 * b + 1 < B
           /\ 2 * b + 1 < B =>
                /\ ToInt(SizeT((b * d) * 2 + d)) = (2 * b + 1) * d
                /\ SizeT((2 * b + 1) * d) < SizeT(B * d - d) <=> 2 * b + 2 < B
<1>1. (b * d) * 2 + d = (2 * b + 1) * d
    OBVIOUS
<1>2. /\ b * d <= N * d /\ 0 * d <= b * d /\ b * d \in Int /\ N * d \in Int
      /\ 0 * d <= B * d /\ B * d <= N * d /\ B * d \in Int
    BY Scaled
<1>3. 0 * d = 0
    OBVIOUS
<1>4. SizeT((b * d) * 2 + d) = (b * d) * 2 + d
    <2>1. (b * d) * 2 + d \in Nat /\ (b * d) * 2 + d < 4 * Half
        BY <1>2, <1>3
    <2> QED BY <2>1, SizeTIs
<1>5. SizeT(B * d) = B * d
    <2>1. B * d \in Nat /\ B * d < 4 * Half
        BY <1>2, <1>3
    <2> QED BY <2>1, SizeTIs
<1>6. SizeT((b * d) * 2 + d) < SizeT(B * d) <=> 2 * b + 1 < B
    <2>1. 2 * b + 1 \in Int
        OBVIOUS
    <2>2. (2 * b + 1) * d < B * d <=> 2 * b + 1 < B
        BY <2>1, Scaled
    <2> QED BY <1>1, <1>4, <1>5, <2>2
<1>7. ASSUME 2 * b + 1 < B
      PROVE  /\ ToInt(SizeT((b * d) * 2 + d)) = (2 * b + 1) * d
             /\ SizeT((2 * b + 1) * d) < SizeT(B * d - d) <=> 2 * b + 2 < B
    <2>1. 2 * b + 1 \in -1 .. N /\ B - 1 \in Nat /\ 2 * b + 1 \in Int /\ B - 1 \in Int
        BY <1>7
    <2>2. ToInt(SizeT((2 * b + 1) * d)) = (2 * b + 1) * d
        BY <2>1, CounterIs
    <2>3. B * d - d = (B - 1) * d
        OBVIOUS
    <2>4. (B - 1) * d <= N * d /\ 0 * d <= (B - 1) * d /\ (B - 1) * d \in Int
        BY <2>1, Scaled
    <2>5. (B - 1) * d \in Nat /\ (B - 1) * d < 4 * Half
        BY <1>2, <1>3, <2>4
    <2>6. SizeT((B - 1) * d) = (B - 1) * d
        BY <2>5, SizeTIs
    <2>7. (2 * b + 1) * d < (B - 1) * d <=> 2 * b + 1 < B - 1
        BY <2>1, Scaled
    <2>8. SizeT((2 * b + 1) * d) = (2 * b + 1) * d
        BY <1>1, <1>4
    <2> QED BY <1>1, <2>1, <2>2, <2>3, <2>6, <2>7, <2>8
<1> QED BY <1>6, <1>7

\* At the k-th multiple of the size is the k-th element.
LEMMA ElementIs ==
    ASSUME NEW d \in Nat \ {0}, size = d, NEW k \in 0 .. Number - 1, Number \in Nat
    PROVE  InArray(k * d) /\ Element(k * d) = array[k] /\ (k * d) \div size = k
<1>1. (k * d) % d = 0 /\ (k * d) \div d = k /\ k * d \in Int /\ 0 * d <= k * d
    BY Scaled
<1>2. 0 * d = 0
    OBVIOUS
<1> QED BY <1>1, <1>2 DEF InArray, Element

\* What is swapped by byte offset is swapped by number.
LEMMA SwappedIs ==
    ASSUME NEW d \in Nat \ {0}, size = d, Number \in Nat,
           NEW x \in 0 .. Number - 1, NEW y \in 0 .. Number - 1
    PROVE  Swapped2(x * d, y * d) = Exchange(array, x, y)
<1>1. Element(x * d) = array[x] /\ (x * d) \div size = x
    BY ElementIs
<1>2. Element(y * d) = array[y] /\ (y * d) \div size = y
    BY ElementIs
<1> QED BY <1>1, <1>2 DEF Swapped2, Exchange
-----------------------------------------------------------------------------
(* The steps.                                                              *)

\* (num/2 - 1) * size, of size_t, fits an int again; it may be -size.
LEMMA FirstCounter ==
    ASSUME NEW d \in Nat \ {0}, NEW N \in Nat, d <= Half, N * d < Half, Half \in Nat
    PROVE  ToInt(SizeT(SizeT(N \div 2 - 1) * d)) = (N \div 2 - 1) * d
<1> DEFINE a == N \div 2 - 1
           M == 2 ^ SIZE_T_BITS
<1>1. a \in -1 .. N /\ a < 4 * Half /\ a \in Int
    <2>1. N <= N * d
        OBVIOUS
    <2>2. N * d \in Int
        OBVIOUS
    <2>3. a \in -1 .. N /\ a <= N
        OBVIOUS
    <2> QED BY <2>1, <2>2, <2>3
<1>2. ToInt(SizeT(a * d)) = a * d
    BY <1>1, CounterIs
<1> HIDE DEF a
<1>3. CASE a >= 0
    <2>1. SizeT(a) = a
        BY <1>1, <1>3, SizeTIs
    <2> QED BY <1>2, <2>1 DEF a
<1>4. CASE a = -1
    <2>1. M \in Nat \ {0} /\ d \in 1 .. M /\ M >= 2
        BY Widths
    <2> HIDE DEF M
    <2>2. (1 - 1) \in Nat /\ M - 1 \in 0 .. (M - 1) /\ M - d \in 0 .. (M - 1) /\ d - 1 \in Int
        BY <2>1
    <2>3. ((M - 1) - M) % M = M - 1
        BY <2>1, <2>2, Wrapped
    <2>4. ((M - d) - M) % M = M - d
        BY <2>1, <2>2, Wrapped
    <2>5. ((d - 1) * M + (M - d)) % M = M - d
        <3>1. PICK s \in 0 .. (M - 1) : s = M - d
            BY <2>2
        <3>2. PICK q \in Int : q = d - 1
            BY <2>2
        <3>3. (q * M + s) % M = s
            BY <2>1, Divided
        <3> QED BY <3>1, <3>2, <3>3
    <2>6. (M - 1) - M = a /\ (M - d) - M = a * d
        BY <1>4, <2>1
    <2>7. (d - 1) * M + (M - d) = (M - 1) * d
        BY <2>1
    <2>8. SizeT(a) = M - 1 /\ SizeT(a * d) = M - d
        BY <2>3, <2>4, <2>6 DEF SizeT, M
    <2>9. SizeT((M - 1) * d) = M - d
        BY <2>5, <2>7 DEF SizeT, M
    <2> QED BY <1>2, <2>8, <2>9 DEF a
<1> QED BY <1>1, <1>3, <1>4

\* sort() is called: no element of the second half has children.
LEMMA CallSound ==
    ASSUME ArraysFit, NEW k \in 0 .. MaxNum, NEW s \in [1 .. k -> Values],
           NEW sz \in ElementSizes, NEW h \in BOOLEAN, SortCall(s, sz, h)
    PROVE  SortInv'
<1> DEFINE a == k \div 2 - 1
           f == [j \in 0 .. k - 1 |-> s[j + 1]]
<1>1. /\ k \in Nat /\ MaxNum \in Nat /\ a \in -1 .. MaxNum /\ a \in -1 .. k /\ a < k
      /\ k \in -1 .. k
    BY SortAssumption
<1>2. sz \in Nat \ {0} /\ sz <= Half /\ k * sz < Half /\ Half \in Nat
    BY <1>1, Sizes
<1>3. s \in Seq(Values) /\ Len(s) = k
    BY <1>1
<1>4. /\ phase' = "heapify" /\ size' = sz /\ before' = s /\ Number' = k
      /\ array' = f /\ i' = a * sz /\ r' = a * sz /\ n' = k * sz
    <2>1. ToInt(SizeT(SizeT(k \div 2 - 1) * sz)) = (k \div 2 - 1) * sz
        BY <1>1, <1>2, FirstCounter
    <2>2. ToInt(SizeT(k * sz)) = k * sz
        BY <1>1, <1>2, CounterIs
    <2> QED BY <1>3, <2>1, <2>2 DEF SortCall, Number
<1>5. f \in [0 .. k - 1 -> Values] /\ \A j \in 0 .. k - 1 : f[j] = s[j + 1]
    OBVIOUS
<1>6. Shuffled(f, s, k)
    <2> DEFINE p == [j \in 0 .. k - 1 |-> j + 1]
    <2>1. p \in [0 .. k - 1 -> 1 .. k] /\ \A j \in 0 .. k - 1 : p[j] = j + 1
        OBVIOUS
    <2> HIDE DEF p
    <2>2. \A j, m \in 0 .. k - 1 : p[j] = p[m] => j = m
        BY <2>1
    <2>3. ASSUME NEW m \in 1 .. k PROVE \E j \in 0 .. k - 1 : p[j] = m
        <3>1. m - 1 \in 0 .. k - 1 /\ p[m - 1] = m
            BY <2>1
        <3> QED BY <3>1
    <2> QED BY <1>5, <2>1, <2>2, <2>3 DEF Shuffled
<1> HIDE DEF f
<1>7. Called'
    BY <1>1, <1>3, <1>4, <1>5, <1>6 DEF Called
<1>8. IF a < 0 THEN HeapFrom(f, 0, k - 1) ELSE HeapBut(f, a, k - 1, a)
    <2>1. a < 0 => 1 .. k - 1 = {}
        BY <1>1
    <2>2. HeapFrom(f, a + 1, k - 1)
        <3>1. \A j \in 1 .. k - 1 : ~(Parent(j) >= a + 1)
            BY DEF Parent
        <3> QED BY <3>1 DEF HeapFrom
    <2>3. a >= 0 => HeapBut(f, a, k - 1, a)
        BY <1>1, <2>2, OneMore
    <2> QED BY <1>1, <2>1, <2>3 DEF HeapFrom
<1>9. Stage(a, a)'
    BY <1>1, <1>4, <1>8 DEF Stage
<1> HIDE DEF a
<1> QED BY <1>1, <1>4, <1>7, <1>9 DEF SortInv

\* What every call has from its beginning to its end.
LEMMA CalledIs ==
    ASSUME ArraysFit, Called
    PROVE  /\ Number \in Nat /\ MaxNum \in Nat /\ Number <= MaxNum /\ Half \in Nat
           /\ size \in Nat \ {0} /\ size <= Half /\ Number * size < Half
           /\ array \in [0 .. Number - 1 -> Nat] /\ before \in [1 .. Number -> Values]
           /\ n = Number * size
<1>1. Number \in Nat /\ before \in [1 .. Number -> Values]
    BY LenProperties DEF Called, Number
<1>2. MaxNum \in Nat /\ Values \subseteq Nat /\ Number <= MaxNum /\ size \in ElementSizes
    BY SortAssumption DEF Called
<1>3. size \in Nat \ {0} /\ size <= Half /\ Number * size < Half /\ Half \in Nat
    BY <1>1, <1>2, Sizes
<1> QED BY <1>1, <1>2, <1>3 DEF Called

\* The number of elements that are sifted among.
Among(a) == IF phase = "heapify" THEN Number ELSE a

\* The loop goes on while the left child is among what is sifted.
LEMMA SiftingIs ==
    ASSUME ArraysFit, Called, NEW a \in -1 .. MaxNum, NEW b \in -1 .. MaxNum,
           i = a * size, r = b * size, Stage(a, b), phase \in {"heapify", "sort"},
           phase = "heapify" => i >= 0
    PROVE  /\ a \in 0 .. Number - 1 /\ b \in 0 .. Number /\ Among(a) \in 1 .. Number
           /\ phase = "heapify" => a <= b
           /\ Bound = Among(a) * size
           /\ Sifting <=> 2 * b + 1 < Among(a)
<1>1. /\ Number \in Nat /\ MaxNum \in Nat /\ Number <= MaxNum /\ Half \in Nat
      /\ size \in Nat \ {0} /\ size <= Half /\ Number * size < Half /\ n = Number * size
    BY CalledIs
<1>2. a * size >= 0 => a >= 0
    <2>1. 0 * size = 0 /\ 0 \in Int /\ a \in Int
        BY <1>1
    <2>2. a * size < 0 * size <=> a < 0
        BY <1>1, <2>1, Scaled
    <2>3. a * size \in Int
        BY <1>1
    <2> QED BY <2>1, <2>2, <2>3
<1>3. /\ a \in 0 .. Number - 1 /\ b \in 0 .. Number /\ Among(a) \in 1 .. Number
      /\ phase = "heapify" => a <= b
    BY <1>1, <1>2 DEF Stage, Among
<1>4. Bound = Among(a) * size
    BY <1>1 DEF Bound, Among
<1>5. Among(a) \in 0 .. Number
    BY <1>3, <1>1
<1>6. SizeT((b * size) * 2 + size) < SizeT(Among(a) * size) <=> 2 * b + 1 < Among(a)
    BY <1>1, <1>3, <1>5, SiftCounters
<1> QED BY <1>3, <1>4, <1>6 DEF Sifting

\* One turn of the loop: a child that is no less than the other one, if there are
\* two, is not above its parent, or changes places with it.
LEMMA SiftIs ==
    ASSUME ArraysFit, Called, NEW a \in -1 .. MaxNum, NEW b \in -1 .. MaxNum,
           i = a * size, r = b * size, Stage(a, b), Sift
    PROVE  \E c \in 1 .. Among(a) - 1 :
             /\ Parent(c) = b
             /\ honest => \A k \in 1 .. Among(a) - 1 : Parent(k) = b => array[k] <= array[c]
             /\ \/ /\ r' = Among(a) * size /\ array' = array
                   /\ honest => array[b] >= array[c]
                \/ /\ r' = c * size /\ array' = Exchange(array, b, c)
                   /\ honest => array[b] <= array[c]
<1> DEFINE B == Among(a)
           left == 2 * b + 1
<1>1. /\ Number \in Nat /\ MaxNum \in Nat /\ Number <= MaxNum /\ Half \in Nat
      /\ size \in Nat \ {0} /\ size <= Half /\ Number * size < Half
      /\ array \in [0 .. Number - 1 -> Nat]
    BY CalledIs
<1>2. phase \in {"heapify", "sort"} /\ (phase = "heapify" => i >= 0) /\ Sifting
    BY DEF Sift
<1>3. /\ a \in 0 .. Number - 1 /\ b \in 0 .. Number /\ B \in 1 .. Number
      /\ Bound = B * size /\ left < B
    BY <1>2, SiftingIs
<1> HIDE DEF B
<1>4. B \in 0 .. Number /\ b \in 0 .. Number - 1 /\ left \in 0 .. Number - 1 /\ left \in 1 .. B - 1
    BY <1>1, <1>3
<1>5. /\ ToInt(SizeT(r * 2 + size)) = left * size
      /\ SizeT(left * size) < SizeT(Bound - size) <=> 2 * b + 2 < B
    BY <1>1, <1>3, <1>4, SiftCounters
<1>6. left * size + size = (2 * b + 2) * size
    BY <1>1, <1>3
<1>7. PICK less \in IF 2 * b + 2 < B THEN Compare(left * size, (2 * b + 2) * size) ELSE {0} :
        \E order \in Compare(r, IF less < 0 THEN (2 * b + 2) * size ELSE left * size) :
          IF order >= 0 THEN r' = Bound /\ array' = array
          ELSE /\ r' = IF less < 0 THEN (2 * b + 2) * size ELSE left * size
               /\ array' = Swapped2(r, IF less < 0 THEN (2 * b + 2) * size ELSE left * size)
    BY <1>5, <1>6 DEF Sift
<1> DEFINE c == IF less < 0 THEN 2 * b + 2 ELSE left
<1>8. less < 0 => 2 * b + 2 < B
    BY <1>7
<1>9. c \in 1 .. B - 1 /\ c \in 0 .. Number - 1 /\ Parent(c) = b
    BY <1>1, <1>3, <1>4, <1>8 DEF Parent
<1>10. c * size = IF less < 0 THEN (2 * b + 2) * size ELSE left * size
    OBVIOUS
<1>11. Element(b * size) = array[b] /\ Element(c * size) = array[c]
    BY <1>1, <1>4, <1>9, ElementIs
<1>12. ASSUME honest, NEW k \in 1 .. B - 1, Parent(k) = b PROVE array[k] <= array[c]
    <2>1. k \in {left, 2 * b + 2} /\ k \in 0 .. Number - 1
        BY <1>1, <1>3, <1>12 DEF Parent
    <2>2. CASE 2 * b + 2 < B
        <3>1. 2 * b + 2 \in 0 .. Number - 1
            BY <1>1, <1>3, <2>2
        <3>2. Element(left * size) = array[left]
            BY <1>1, <1>4, ElementIs
        <3>3. Element((2 * b + 2) * size) = array[2 * b + 2]
            BY <1>1, <3>1, ElementIs
        <3>4. less = array[left] - array[2 * b + 2]
            BY <1>7, <1>12, <2>2, <3>2, <3>3 DEF Compare
        <3>5. array[left] \in Nat /\ array[2 * b + 2] \in Nat
            BY <1>1, <1>4, <3>1
        <3>6. CASE less < 0
            <4>1. c = 2 * b + 2 /\ array[left] <= array[2 * b + 2]
                BY <3>4, <3>5, <3>6
            <4> QED BY <2>1, <3>5, <4>1
        <3>7. CASE ~(less < 0)
            <4>1. c = left /\ array[2 * b + 2] <= array[left]
                BY <3>4, <3>5, <3>7
            <4> QED BY <2>1, <3>5, <4>1
        <3> QED BY <3>6, <3>7
    <2>3. CASE ~(2 * b + 2 < B)
        BY <1>1, <1>3, <1>4, <1>8, <2>1, <2>3
    <2> QED BY <2>2, <2>3
<1> HIDE DEF c
<1>13. PICK order \in Compare(b * size, c * size) :
         IF order >= 0 THEN r' = Bound /\ array' = array
         ELSE r' = c * size /\ array' = Swapped2(b * size, c * size)
    BY <1>7, <1>10
<1>14. honest => order = array[b] - array[c]
    BY <1>11, <1>13 DEF Compare
<1>15. order \in Int
    BY <1>1, <1>4, <1>9, <1>13, <1>14 DEF Compare
<1>16. Swapped2(b * size, c * size) = Exchange(array, b, c)
    BY <1>1, <1>4, <1>9, SwappedIs
<1>17. array[b] \in Nat /\ array[c] \in Nat
    BY <1>1, <1>4, <1>9
<1>18. \/ /\ r' = B * size /\ array' = array
          /\ honest => array[b] >= array[c]
       \/ /\ r' = c * size /\ array' = Exchange(array, b, c)
          /\ honest => array[b] <= array[c]
    BY <1>3, <1>13, <1>14, <1>15, <1>16, <1>17
<1> QED BY <1>9, <1>12, <1>18 DEF B

\* One turn of a loop that sifts preserves the invariant.
LEMMA SiftSound ==
    ASSUME ArraysFit, SortInv, Sift PROVE SortInv'
<1>1. phase \in {"heapify", "sort"} /\ (phase = "heapify" => i >= 0) /\ Called
    BY DEF Sift, SortInv
<1>2. PICK a \in -1 .. MaxNum, b \in -1 .. MaxNum :
        i = a * size /\ r = b * size /\ Stage(a, b)
    BY <1>1 DEF SortInv
<1> DEFINE N == Number
           B == Among(a)
<1>3. /\ N \in Nat /\ MaxNum \in Nat /\ N <= MaxNum /\ array \in [0 .. N - 1 -> Nat]
    BY <1>1, CalledIs
<1>4. /\ a \in 0 .. N - 1 /\ b \in 0 .. N /\ B \in 1 .. N
      /\ phase = "heapify" => a <= b
    BY <1>1, <1>2, SiftingIs
<1>5. PICK c \in 1 .. B - 1 :
        /\ Parent(c) = b
        /\ honest => \A k \in 1 .. B - 1 : Parent(k) = b => array[k] <= array[c]
        /\ \/ /\ r' = B * size /\ array' = array
              /\ honest => array[b] >= array[c]
           \/ /\ r' = c * size /\ array' = Exchange(array, b, c)
              /\ honest => array[b] <= array[c]
    BY <1>1, <1>2, SiftIs
<1>6. /\ phase' = phase /\ honest' = honest /\ before' = before /\ size' = size
      /\ i' = i /\ n' = n /\ Number' = N
    BY DEF Sift, Number
<1>7. phase = "heapify" => B = N
    BY DEF Among
<1>8. phase = "sort" => B = a
    BY DEF Among
<1> HIDE DEF B, N
<1>9. /\ b \in 0 .. N - 1 /\ c \in 0 .. N - 1 /\ b \in Nat /\ b < c /\ c <= B - 1 /\ B - 1 < N
      /\ c \in Nat /\ B \in Nat /\ c \in -1 .. MaxNum /\ B \in -1 .. MaxNum /\ B - 1 \in Int
    BY <1>3, <1>4, <1>5 DEF Parent
\* What the heap is, from 0 or from a.
<1>10. ASSUME NEW from \in Nat, from <= b, HeapBut(array, from, B - 1, b), honest,
              NEW e, \/ e = B /\ array' = array /\ array[b] >= array[c]
                     \/ e = c /\ array' = Exchange(array, b, c) /\ array[b] <= array[c]
       PROVE  HeapBut(array', from, B - 1, e)
    <2>1. CASE e = B /\ array' = array /\ array[b] >= array[c]
        <3>1. \A k \in 1 .. B - 1 : Parent(k) = b => array[k] <= array[b]
            <4> SUFFICES ASSUME NEW k \in 1 .. B - 1, Parent(k) = b
                         PROVE  array[k] <= array[b]
                OBVIOUS
            <4>1. array[k] <= array[c] /\ k \in 0 .. N - 1
                BY <1>3, <1>4, <1>5, <1>9, <1>10
            <4>2. array[k] \in Nat /\ array[b] \in Nat /\ array[c] \in Nat
                BY <1>3, <1>9, <4>1
            <4> QED BY <2>1, <4>1, <4>2
        <3>2. HeapFrom(array, from, B - 1)
            BY <1>3, <1>9, <1>10, <3>1, Stays
        <3>3. 2 * B + 1 > B - 1
            BY <1>9
        <3>4. HeapBut(array, from, B - 1, B)
            BY <1>9, <1>10, <3>2, <3>3, Settled
        <3> QED BY <2>1, <3>4
    <2>2. CASE e = c /\ array' = Exchange(array, b, c) /\ array[b] <= array[c]
        <3>1. HeapBut(Exchange(array, b, c), from, B - 1, c)
            BY <1>3, <1>5, <1>9, <1>10, <2>2, Sinks
        <3> QED BY <2>2, <3>1
    <2> QED BY <1>10, <2>1, <2>2
<1>11. PICK e \in {B, c} :
         /\ r' = e * size
         /\ \/ e = B /\ array' = array
            \/ e = c /\ array' = Exchange(array, b, c)
         /\ honest => \/ e = B /\ array' = array /\ array[b] >= array[c]
                      \/ e = c /\ array' = Exchange(array, b, c) /\ array[b] <= array[c]
    BY <1>5
<1>12. /\ array' \in [0 .. N - 1 -> Values] /\ Shuffled(array', before, N)
       /\ \A k \in B .. N - 1 : array'[k] = array[k]
       /\ \A k \in 0 .. B - 1 : \E m \in 0 .. B - 1 : array'[k] = array[m]
    <2>1. array \in [0 .. N - 1 -> Values] /\ Shuffled(array, before, N)
        BY <1>1 DEF Called, N
    <2>2. CASE array' = array
        <3>1. \A k \in 0 .. B - 1 : array'[k] = array[k]
            BY <2>2
        <3> QED BY <2>1, <2>2, <3>1
    <2>3. CASE array' = Exchange(array, b, c)
        <3>1. Exchange(array, b, c) \in [0 .. N - 1 -> Values]
            BY <1>3, <1>9, <2>1, ExchangeIs
        <3>2. Shuffled(Exchange(array, b, c), before, N)
            BY <1>3, <1>9, <2>1, ExchangeShuffles
        <3>3. \A k \in 0 .. N - 1 :
                array'[k] = IF k = b THEN array[c] ELSE IF k = c THEN array[b] ELSE array[k]
            BY <1>3, <1>9, <2>3 DEF Exchange
        <3>4. \A k \in B .. N - 1 : array'[k] = array[k]
            BY <1>3, <1>9, <3>3
        <3>5. b \in 0 .. B - 1 /\ c \in 0 .. B - 1 /\ B - 1 < N
            BY <1>9
        <3>6. ASSUME NEW k \in 0 .. B - 1
              PROVE  \E m \in 0 .. B - 1 : array'[k] = array[m]
            <4>1. k \in 0 .. N - 1
                BY <1>3, <3>5, <1>9
            <4> QED BY <3>3, <3>5, <4>1
        <3> QED BY <2>3, <3>1, <3>2, <3>4, <3>6
    <2> QED BY <1>11, <2>2, <2>3
<1>13. Called'
    BY <1>1, <1>6, <1>12 DEF Called, N
<1>14. Stage(a, e)'
    <2>1. CASE phase = "heapify"
        <3>1. honest => HeapBut(array, a, N - 1, b)
            BY <1>2, <1>4, <2>1 DEF Stage, N
        <3>2. honest => HeapBut(array', a, N - 1, e)
            BY <1>4, <1>7, <1>10, <1>11, <2>1, <3>1
        <3>3. e \in a .. N /\ a < N /\ a >= 0
            BY <1>4, <1>7, <1>9, <1>11, <2>1
        <3> QED BY <1>6, <2>1, <3>2, <3>3 DEF Stage, N
    <2>2. CASE phase = "sort"
        <3>1. a \in 1 .. N - 1 /\ e \in 0 .. a /\ 0 <= b
            BY <1>4, <1>8, <1>9, <1>11, <2>2
        <3>2. honest => /\ \A k \in a .. N - 2 : array[k] <= array[k + 1]
                        /\ \A k \in 0 .. a - 1 : array[k] <= array[a]
                        /\ HeapBut(array, 0, a - 1, b)
            BY <1>2, <2>2 DEF Stage, N
        <3>3. honest => HeapBut(array', 0, a - 1, e)
            BY <1>8, <1>10, <1>11, <2>2, <3>1, <3>2
        <3>4. honest => \A k \in a .. N - 2 : array'[k] <= array'[k + 1]
            BY <1>3, <1>8, <1>12, <2>2, <3>1, <3>2
        <3>5. honest => \A k \in 0 .. a - 1 : array'[k] <= array'[a]
            BY <1>3, <1>8, <1>12, <2>2, <3>1, <3>2
        <3> QED BY <1>6, <2>2, <3>1, <3>3, <3>4, <3>5 DEF Stage, N
    <2> QED BY <1>1, <2>1, <2>2
<1>15. e \in -1 .. MaxNum
    BY <1>9, <1>11
<1> QED BY <1>1, <1>2, <1>6, <1>11, <1>13, <1>14, <1>15 DEF SortInv

\* The outer loop of the first half: what is behind i is a heap.
LEMMA HeapifySound ==
    ASSUME ArraysFit, SortInv, Heapify PROVE SortInv'
<1>1. phase = "heapify" /\ i >= 0 /\ ~Sifting /\ Called
    BY DEF Heapify, SortInv
<1>2. PICK a \in -1 .. MaxNum, b \in -1 .. MaxNum :
        i = a * size /\ r = b * size /\ Stage(a, b)
    BY <1>1 DEF SortInv
<1> DEFINE N == Number
<1>3. /\ N \in Nat /\ MaxNum \in Nat /\ N <= MaxNum /\ Half \in Nat
      /\ size \in Nat \ {0} /\ size <= Half /\ N * size < Half
    BY <1>1, CalledIs
<1>4. a \in 0 .. N - 1 /\ b \in 0 .. N /\ ~(2 * b + 1 < N)
    BY <1>1, <1>2, SiftingIs DEF Among
<1>5. i' = (a - 1) * size /\ r' = (a - 1) * size
    <2>1. i - size = (a - 1) * size
        BY <1>2, <1>3, <1>4
    <2>2. a - 1 \in -1 .. N
        BY <1>3, <1>4
    <2>3. ToInt(SizeT((a - 1) * size)) = (a - 1) * size
        BY <1>3, <2>2, CounterIs
    <2> QED BY <2>1, <2>3 DEF Heapify
<1>6. /\ phase' = "heapify" /\ honest' = honest /\ before' = before /\ size' = size
      /\ n' = n /\ Number' = N /\ array' = array
    BY <1>1 DEF Heapify, Number
<1>7. Called'
    BY <1>1, <1>6 DEF Called
<1>8. Stage(a, b) /\ a >= 0
    BY <1>2, <1>4
<1> HIDE DEF N
<1>9. honest => HeapFrom(array, a, N - 1)
    <2>1. honest => HeapBut(array, a, N - 1, b)
        BY <1>1, <1>8 DEF Stage, N
    <2>2. a \in Nat /\ b \in Nat /\ N - 1 \in Int /\ 2 * b + 1 > N - 1
        BY <1>3, <1>4
    <2> QED BY <2>1, <2>2, Settled
<1>10. honest => IF a - 1 < 0 THEN HeapFrom(array, 0, N - 1)
                 ELSE HeapBut(array, a - 1, N - 1, a - 1)
    <2>1. CASE a = 0
        BY <1>9, <2>1
    <2>2. CASE a # 0
        <3>1. a - 1 \in Nat /\ N - 1 \in Int /\ (a - 1) + 1 = a
            BY <1>3, <1>4, <2>2
        <3>2. honest => HeapBut(array, a - 1, N - 1, a - 1)
            BY <1>9, <3>1, OneMore
        <3> QED BY <3>1, <3>2
    <2> QED BY <2>1, <2>2
<1>11. Stage(a - 1, a - 1)'
    <2>1. a - 1 < N /\ (a - 1 >= 0 => a - 1 \in a - 1 .. N)
        BY <1>3, <1>4
    <2> QED BY <1>6, <1>10, <2>1 DEF Stage, N
<1>12. a - 1 \in -1 .. MaxNum
    BY <1>3, <1>4
<1> QED BY <1>5, <1>6, <1>7, <1>11, <1>12 DEF SortInv

\* The first element, the greatest of the first m + 1, goes behind the others.
LEMMA TakeOutSound ==
    ASSUME ArraysFit, Called, NEW m \in -1 .. Number - 1,
           honest => /\ HeapFrom(array, 0, m)
                     /\ \A k \in m + 1 .. Number - 2 : array[k] <= array[k + 1]
                     /\ m + 1 < Number => \A k \in 0 .. m : array[k] <= array[m + 1],
           NEW b \in -1 .. MaxNum, r = b * size,
           i' = ToInt(SizeT(m * size)),
           IF i' > 0 THEN phase' = "sort" /\ array' = Swapped2(0, i') /\ r' = 0
           ELSE phase' = "done" /\ UNCHANGED <<array, r>>,
           UNCHANGED <<honest, before, size, n>>
    PROVE  SortInv'
<1> DEFINE N == Number
<1>1. /\ N \in Nat /\ MaxNum \in Nat /\ N <= MaxNum /\ Half \in Nat
      /\ size \in Nat \ {0} /\ size <= Half /\ N * size < Half
      /\ array \in [0 .. N - 1 -> Nat]
    BY CalledIs
<1>2. i' = m * size
    <2>1. m \in -1 .. N
        BY <1>1
    <2> QED BY <1>1, <2>1, CounterIs
<1>3. i' > 0 <=> m > 0
    <2>1. 0 * size = 0 /\ m * size \in Int
        BY <1>1
    <2>2. 0 * size < m * size <=> 0 < m
        BY <1>1, Scaled
    <2> QED BY <1>2, <2>1, <2>2
<1>4. Number' = N /\ before' = before /\ size' = size /\ n' = n /\ honest' = honest
    BY DEF Number
<1>5. array \in [0 .. N - 1 -> Values] /\ Shuffled(array, before, N)
    BY DEF Called
<1>6. m \in -1 .. MaxNum /\ 0 \in -1 .. MaxNum
    BY <1>1
<1> HIDE DEF N
<1>7. CASE m > 0
    <2>1. m \in 1 .. N - 1 /\ 0 \in 0 .. N - 1 /\ m \in 0 .. N - 1
        BY <1>1, <1>7 DEF N
    <2>2. 0 * size = 0
        BY <1>1
    <2>3. array' = Exchange(array, 0, m)
        <3>1. Swapped2(0 * size, m * size) = Exchange(array, 0, m)
            BY <1>1, <2>1, SwappedIs DEF N
        <3> QED BY <1>2, <1>3, <1>7, <2>2, <3>1
    <2>4. /\ Exchange(array, 0, m) \in [0 .. N - 1 -> Values]
          /\ \A k \in 0 .. N - 1 : array'[k] = IF k = 0 THEN array[m]
                                               ELSE IF k = m THEN array[0] ELSE array[k]
        BY <1>1, <1>5, <2>1, <2>3 DEF Exchange
    <2>5. Shuffled(Exchange(array, 0, m), before, N)
        BY <1>1, <1>5, <2>1, ExchangeShuffles
    <2>6. Called'
        BY <1>4, <2>3, <2>4, <2>5 DEF Called, N
    <2>7. ASSUME honest
          PROVE  /\ \A k \in m .. N - 2 : array'[k] <= array'[k + 1]
                 /\ \A k \in 0 .. m - 1 : array'[k] <= array'[m]
                 /\ HeapBut(array', 0, m - 1, 0)
        <3>1. /\ HeapFrom(array, 0, m)
              /\ \A k \in m + 1 .. N - 2 : array[k] <= array[k + 1]
              /\ m + 1 < N => \A k \in 0 .. m : array[k] <= array[m + 1]
            BY <2>7 DEF N
        <3>2. HeapBut(array', 0, m - 1, 0)
            BY <1>1, <2>1, <2>3, <3>1, TakenOut
        <3>3. \A k \in 0 .. m : array[k] <= array[0]
            BY <1>1, <2>1, <3>1, GreatestFirst
        <3>4. ASSUME NEW k \in 0 .. m - 1 PROVE array'[k] <= array'[m]
            <4>1. k \in 0 .. N - 1 /\ k # m /\ k \in 0 .. m /\ m \in 0 .. m
                BY <1>1, <2>1
            <4>2. array'[m] = array[0]
                BY <2>1, <2>4, <4>1
            <4>3. array'[k] = IF k = 0 THEN array[m] ELSE array[k]
                BY <2>1, <2>4, <4>1
            <4> QED BY <3>3, <4>1, <4>2, <4>3
        <3>5. ASSUME NEW k \in m .. N - 2 PROVE array'[k] <= array'[k + 1]
            <4>1. /\ k \in 0 .. N - 1 /\ k + 1 \in 0 .. N - 1 /\ k # 0
                  /\ k + 1 # 0 /\ k + 1 # m /\ 0 \in 0 .. m
                BY <1>1, <2>1
            <4>2. array'[k + 1] = array[k + 1] /\ array'[k] = IF k = m THEN array[0] ELSE array[k]
                BY <2>4, <4>1
            <4>3. CASE k = m
                <5>1. m + 1 < N
                    BY <1>1, <2>1, <4>3
                <5> QED BY <3>1, <4>1, <4>2, <4>3, <5>1
            <4>4. CASE k # m
                <5>1. k \in m + 1 .. N - 2
                    BY <2>1, <4>4
                <5> QED BY <3>1, <4>2, <4>4, <5>1
            <4> QED BY <4>3, <4>4
        <3> QED BY <3>2, <3>4, <3>5
    <2>8. phase' = "sort" /\ r' = 0 * size
        BY <1>3, <1>7, <2>2
    <2>9. Stage(m, 0)'
        <3>1. 0 \in 0 .. m
            BY <2>1
        <3> QED BY <1>4, <2>1, <2>7, <2>8, <3>1 DEF Stage, N
    <2> QED BY <1>2, <1>4, <1>6, <2>6, <2>8, <2>9 DEF SortInv
<1>8. CASE ~(m > 0)
    <2>1. phase' = "done" /\ array' = array /\ r' = r
        BY <1>3, <1>8
    <2>2. Called'
        BY <1>4, <2>1 DEF Called, N
    <2>3. ASSUME honest, NEW k \in 0 .. N - 2 PROVE array[k] <= array[k + 1]
        <3>1. CASE k >= m + 1
            <4>1. k \in m + 1 .. Number - 2
                BY <1>1, <3>1 DEF N
            <4> QED BY <2>3, <4>1
        <3>2. CASE ~(k >= m + 1)
            <4>1. m = 0 /\ k = 0 /\ m + 1 < Number /\ 0 \in 0 .. m
                BY <1>1, <1>8, <3>2 DEF N
            <4> QED BY <2>3, <4>1
        <3> QED BY <3>1, <3>2
    <2>4. Stage(m, b)'
        BY <1>4, <2>1, <2>3 DEF Stage, N
    <2> QED BY <1>2, <1>4, <1>6, <2>1, <2>2, <2>4 DEF SortInv
<1> QED BY <1>7, <1>8

\* The first half ends with a heap: its first element is taken out.
LEMMA HeapifiedSound ==
    ASSUME ArraysFit, SortInv, Heapified PROVE SortInv'
<1>1. phase = "heapify" /\ i < 0 /\ Called
    BY DEF Heapified, SortInv
<1>2. PICK a \in -1 .. MaxNum, b \in -1 .. MaxNum :
        i = a * size /\ r = b * size /\ Stage(a, b)
    BY <1>1 DEF SortInv
<1>3. Number \in Nat /\ size \in Nat \ {0} /\ n = Number * size
    BY <1>1, CalledIs
<1>4. a < 0
    <2>1. a >= 0 => a * size >= 0
        BY <1>3
    <2> QED BY <1>1, <1>2, <2>1
<1>5. honest => HeapFrom(array, 0, Number - 1)
    BY <1>1, <1>2, <1>4 DEF Stage
<1>6. n - size = (Number - 1) * size
    BY <1>3
<1>7. i' = ToInt(SizeT((Number - 1) * size))
    BY <1>6 DEF Heapified
<1>8. /\ IF i' > 0 THEN phase' = "sort" /\ array' = Swapped2(0, i') /\ r' = 0
         ELSE phase' = "done" /\ UNCHANGED <<array, r>>
      /\ UNCHANGED <<honest, before, size, n>>
    BY DEF Heapified
<1>9. /\ Number - 1 \in -1 .. Number - 1 /\ ~((Number - 1) + 1 < Number)
      /\ \A k \in (Number - 1) + 1 .. Number - 2 : array[k] <= array[k + 1]
    BY <1>3
<1> QED BY <1>1, <1>2, <1>5, <1>7, <1>8, <1>9, TakeOutSound

\* The outer loop of the second half: the first of the smaller heap is taken out.
LEMMA ExtractSound ==
    ASSUME ArraysFit, SortInv, Extract PROVE SortInv'
<1>1. phase = "sort" /\ ~Sifting /\ Called
    BY DEF Extract, SortInv
<1>2. PICK a \in -1 .. MaxNum, b \in -1 .. MaxNum :
        i = a * size /\ r = b * size /\ Stage(a, b)
    BY <1>1 DEF SortInv
<1>3. Number \in Nat /\ size \in Nat \ {0}
    BY <1>1, CalledIs
<1>4. b \in 0 .. Number /\ ~(2 * b + 1 < a)
    BY <1>1, <1>2, SiftingIs DEF Among
<1>5. a \in 1 .. Number - 1
    BY <1>1, <1>2 DEF Stage
<1>6. honest => /\ \A k \in a .. Number - 2 : array[k] <= array[k + 1]
                /\ \A k \in 0 .. a - 1 : array[k] <= array[a]
                /\ HeapBut(array, 0, a - 1, b)
    BY <1>1, <1>2 DEF Stage
<1>7. honest => HeapFrom(array, 0, a - 1)
    <2>1. b \in Nat /\ a - 1 \in Int /\ 2 * b + 1 > a - 1 /\ 0 \in Nat
        BY <1>3, <1>4, <1>5
    <2> QED BY <1>6, <2>1, Settled
<1>8. i - size = (a - 1) * size
    BY <1>2, <1>3, <1>5
<1>9. i' = ToInt(SizeT((a - 1) * size))
    BY <1>8 DEF Extract
<1>10. /\ IF i' > 0 THEN phase' = "sort" /\ array' = Swapped2(0, i') /\ r' = 0
          ELSE phase' = "done" /\ UNCHANGED <<array, r>>
       /\ UNCHANGED <<honest, before, size, n>>
    BY <1>1 DEF Extract
<1>11. a - 1 \in -1 .. Number - 1 /\ (a - 1) + 1 = a
    BY <1>3, <1>5
<1> QED BY <1>1, <1>2, <1>6, <1>7, <1>9, <1>10, <1>11, TakeOutSound

-----------------------------------------------------------------------------
(* The theorem.                                                            *)

\* Every step of a call of sort() preserves the invariant.
THEOREM SortInvariant ==
    ASSUME ArraysFit PROVE SortSpec => []SortInv
<1>1. SortInit => SortInv
    BY DEF SortInit, SortInv
<1>2. SortInv /\ [SortNext]_svars => SortInv'
    <2> SUFFICES ASSUME SortInv, [SortNext]_svars PROVE SortInv'
        OBVIOUS
    <2>1. ASSUME NEW k \in 0 .. MaxNum, NEW s \in [1 .. k -> Values],
                 NEW sz \in ElementSizes, NEW h \in BOOLEAN, SortCall(s, sz, h)
          PROVE  SortInv'
        BY <2>1, CallSound
    <2>2. CASE Sift
        BY <2>2, SiftSound
    <2>3. CASE Heapify
        BY <2>3, HeapifySound
    <2>4. CASE Heapified
        BY <2>4, HeapifiedSound
    <2>5. CASE Extract
        BY <2>5, ExtractSound
    <2>6. CASE UNCHANGED svars
        BY <2>6 DEF svars, SortInv, Called, Stage, Number
    <2> QED BY <2>1, <2>2, <2>3, <2>4, <2>5, <2>6 DEF SortNext
<1> QED BY <1>1, <1>2, PTL DEF SortSpec

\* What the invariant says of each phase is what sort() promises in it.
LEMMA InvariantIsSound ==
    ASSUME ArraysFit, SortInv PROVE SortSound
<1> SUFFICES ASSUME phase # "none" PROVE SortSound
    BY DEF SortSound
<1> DEFINE N == Number
           least == IF i < 0 THEN 0 ELSE i \div size
           Heap(from, to) == \A k \in from + 1 .. to :
                               (k - 1) \div 2 >= from => array[(k - 1) \div 2] >= array[k]
<1>1. Called /\ phase \in {"heapify", "sort", "done"}
    BY DEF SortInv
<1>2. PICK a \in -1 .. MaxNum, b \in -1 .. MaxNum :
        i = a * size /\ r = b * size /\ Stage(a, b)
    BY DEF SortInv
<1>3. /\ N \in Nat /\ MaxNum \in Nat /\ N <= MaxNum /\ size \in Nat \ {0}
      /\ array \in [0 .. N - 1 -> Nat] /\ before \in [1 .. N -> Values]
    BY <1>1, CalledIs
<1>4. DOMAIN array = 0 .. N - 1 /\ DOMAIN before = 1 .. N
    BY <1>3
<1>5. ASSUME NEW v \in Values
      PROVE  Cardinality({k \in DOMAIN array : array[k] = v})
               = Cardinality({k \in DOMAIN before : before[k] = v})
    <2>1. Shuffled(array, before, N)
        BY <1>1 DEF Called
    <2>2. N \in Nat
        BY <1>3
    <2>3. Cardinality(Places(0 .. N - 1, array, v)) = Cardinality(Places(1 .. N, before, v))
        BY <2>1, <2>2, ShuffledCounts
    <2> QED BY <1>4, <2>3 DEF Places
<1>6. a >= 0 => /\ i >= 0 /\ least = a
    <2>1. (a * size) \div size = a /\ (a >= 0 => a * size >= 0)
        BY <1>3, Scaled
    <2> QED BY <1>2, <2>1
<1> HIDE DEF least
<1>7. ASSUME phase = "heapify", i >= 0, Sifting PROVE InArray(r)
    <2>1. b \in 0 .. N - 1
        BY <1>1, <1>2, <1>3, <1>7, SiftingIs DEF Among
    <2> QED BY <1>2, <1>3, <2>1, ElementIs
<1>8. ASSUME phase = "sort", Sifting PROVE InArray(r) /\ InArray(i)
    <2>1. a \in 0 .. N - 1 /\ b \in 0 .. N /\ 2 * b + 1 < a
        BY <1>1, <1>2, <1>8, SiftingIs DEF Among
    <2>2. b \in 0 .. N - 1
        BY <1>3, <2>1
    <2> QED BY <1>2, <1>3, <2>1, <2>2, ElementIs
<1>9. ASSUME honest, phase = "heapify", ~Sifting, i >= 0 PROVE Heap(least, N - 1)
    <2>1. a \in 0 .. N - 1 /\ b \in 0 .. N /\ ~(2 * b + 1 < N)
        BY <1>1, <1>2, <1>9, SiftingIs DEF Among
    <2>2. HeapBut(array, a, N - 1, b)
        BY <1>2, <1>9, <2>1 DEF Stage
    <2>3. a \in Nat /\ b \in Nat /\ N - 1 \in Int /\ 2 * b + 1 > N - 1
        BY <1>3, <2>1
    <2>4. HeapFrom(array, a, N - 1)
        BY <2>2, <2>3, Settled
    <2>5. Heap(a, N - 1)
        BY <2>3, <2>4 DEF HeapFrom, Parent
    <2> QED BY <1>6, <2>1, <2>5
<1>10. ASSUME honest, phase = "sort"
       PROVE  /\ \A k \in least .. N - 2 : array[k] <= array[k + 1]
              /\ \A k \in 0 .. least - 1 : array[k] <= array[least]
              /\ ~Sifting => Heap(0, least - 1)
    <2>1. /\ a \in 1 .. N - 1
          /\ \A k \in a .. N - 2 : array[k] <= array[k + 1]
          /\ \A k \in 0 .. a - 1 : array[k] <= array[a]
          /\ HeapBut(array, 0, a - 1, b)
        BY <1>2, <1>10 DEF Stage
    <2>2. least = a
        BY <1>6, <2>1
    <2>3. ASSUME ~Sifting PROVE Heap(0, a - 1)
        <3>1. b \in 0 .. N /\ ~(2 * b + 1 < a)
            BY <1>1, <1>2, <1>10, <2>3, SiftingIs DEF Among
        <3>2. b \in Nat /\ a - 1 \in Int /\ 2 * b + 1 > a - 1 /\ 0 \in Nat
            BY <1>3, <2>1, <3>1
        <3>3. HeapFrom(array, 0, a - 1)
            BY <2>1, <3>2, Settled
        <3> QED BY <3>3 DEF HeapFrom, Parent
    <2> QED BY <2>1, <2>2, <2>3
<1>11. honest /\ phase = "done" => \A k \in 0 .. N - 2 : array[k] <= array[k + 1]
    BY <1>2 DEF Stage
<1> QED BY <1>4, <1>5, <1>7, <1>8, <1>9, <1>10, <1>11 DEF SortSound, least

\* For every array that fits, and element size, sort() keeps its counters on elements
\* and the elements, whatever the comparison answers, and with one that orders ends
\* with them sorted (sort.c:88-112).
THEOREM SortCorrect ==
    ASSUME ArraysFit PROVE SortSpec => []SortSound
<1>1. SortInv => SortSound
    BY InvariantIsSound
<1> QED BY <1>1, SortInvariant, PTL
=============================================================================
