------------------------------- MODULE Words --------------------------------
(***************************************************************************)
(* The word functions of bitops.h, asm-generic/bitops, hweight.c and       *)
(* log2.h.  An unsigned long is the set of its one bits; the searches halve*)
(* the word as the code does, the weights add neighbouring fields.         *)
(***************************************************************************)
EXTENDS Integers, SequencesExt

CONSTANT BITS_PER_LONG
ASSUME WordAssumption == BITS_PER_LONG \in {4, 8}

Ones == 0 .. BITS_PER_LONG - 1 \* ~0UL
Word == SUBSET Ones

Shl(w, k) == {b + k : b \in w} \cap Ones
Shr(w, k) == {b - k : b \in {c \in w : c >= k}}
Sar(w, k) == Shr(w, k) \cup IF BITS_PER_LONG - 1 \in w THEN Ones \ Shr(Ones, k) ELSE {}
Xor(v, w) == (v \ w) \cup (w \ v)

Num(w) == MapThenSumSet(LAMBDA b : 2 ^ b, w)
BitsOf(x) == {b \in 0 .. 30 : (x \div 2 ^ b) % 2 = 1}
BitAnd(x, y) == Num(BitsOf(x) \cap BitsOf(y))

-----------------------------------------------------------------------------
(* Searches.                                                               *)

\* The halves 32, 16, .. 1 of a 64-bit word.
Halves == SetToSortSeq({2 ^ k : k \in 0 .. 5} \cap 1 .. BITS_PER_LONG \div 2, >)

\* __ffs and ffz; nothing is promised for a word without a one, or a zero.
ffs(word) ==
    LET Half(f, h) == IF f.word \cap 0 .. h - 1 = {}
                      THEN [num |-> f.num + h, word |-> Shr(f.word, h)] ELSE f
    IN  FoldLeft(Half, [num |-> 0, word |-> word], Halves).num
ffz(word) == ffs(Ones \ word)

\* __fls; fls and fls64 count from one and give zero for zero.
flsb(word) ==
    LET Half(f, h) == IF f.word \cap BITS_PER_LONG - h .. BITS_PER_LONG - 1 = {}
                      THEN [num |-> f.num - h, word |-> Shl(f.word, h)] ELSE f
    IN  FoldLeft(Half, [num |-> BITS_PER_LONG - 1, word |-> word], Halves).num
fls(word) == IF word = {} THEN 0 ELSE flsb(word) + 1

\* __sw_hweight8, 16 and 32: counts of 2, of 4 and of 8 bits, then the sum of bytes.
Hweight(w, width) ==
    LET Fields(s) == Num({b \in 0 .. width - 1 : (b \div s) % 2 = 0})
        two == w - BitAnd(w \div 2, Fields(1))
        four == BitAnd(two, Fields(2)) + BitAnd(two \div 4, Fields(2))
        eight == BitAnd(four + four \div 16, Fields(4))
        sixteen == eight + eight \div 2 ^ 8
    IN  IF width = 8 THEN eight
        ELSE IF width = 16 THEN sixteen % 2 ^ 8 ELSE (sixteen + sixteen \div 2 ^ 16) % 2 ^ 8

-----------------------------------------------------------------------------
(* Rotation, extension, masks and logarithms.                              *)

rol(word, shift) == Shl(word, shift) \cup Shr(word, (-shift) % BITS_PER_LONG)
ror(word, shift) == Shr(word, shift) \cup Shl(word, BITS_PER_LONG - shift)
sign_extend(value, index) == Sar(Shl(value, BITS_PER_LONG - 1 - index), BITS_PER_LONG - 1 - index)
GENMASK(h, l) == {b \in Ones : b >= l} \cap Shr(Ones, BITS_PER_LONG - 1 - h)

\* Numbers: get_count_order, is_power_of_2, the roundings, ilog2 and order_base_2.
fls_long(n) == fls(BitsOf(n))
get_count_order(count) == fls_long(count) - 1 + IF BitAnd(count, count - 1) # 0 THEN 1 ELSE 0
is_power_of_2(n) == n # 0 /\ BitAnd(n, n - 1) = 0
roundup_pow_of_two(n) == 2 ^ fls_long(n - 1)
rounddown_pow_of_two(n) == 2 ^ (fls_long(n) - 1)
\* ilog2 of a constant: the first bit found from the top; and of a variable.
ilog2(n, constant) ==
    IF ~constant THEN fls_long(n) - 1
    ELSE IF n < 2 THEN 0 ELSE CHOOSE k \in BitsOf(n) : \A j \in BitsOf(n) : j <= k
order_base_2(n, constant) == IF n > 1 THEN ilog2(n - 1, constant) + 1 ELSE 0

-----------------------------------------------------------------------------
(* What they compute.                                                      *)

RightSearches(w) ==
    /\ w # {} => ffs(w) = Min(w) /\ flsb(w) = Max(w)
    /\ w # Ones => ffz(w) = Min(Ones \ w)
    /\ \A k \in {0, 8, 16, 22} : LET n == Num(w) * 2 ^ k + Num(w) IN
         \A width \in {8, 16, 32} : width = 32 \/ n < 2 ^ width => Hweight(n, width) = Cardinality(BitsOf(n))
RightShuffles(w) ==
    \A k \in Ones :
      /\ rol(w, k) = {(b + k) % BITS_PER_LONG : b \in w}
      /\ ror(rol(w, k), k) = w
      /\ sign_extend(w, k) = {b \in Ones : (IF b < k THEN b ELSE k) \in w}
      /\ \A l \in 0 .. k : GENMASK(k, l) = l .. k
\* The results are defined up to half the range of a word.
RightOrders(w) ==
    LET n == Num(w)
        Log(x) == CHOOSE k \in Ones : 2 ^ k <= x /\ x < 2 ^ (k + 1)
    IN  n \in 1 .. 2 ^ (BITS_PER_LONG - 1) =>
        /\ is_power_of_2(n) <=> Cardinality(w) = 1
        /\ rounddown_pow_of_two(n) = 2 ^ Log(n)
        /\ n <= roundup_pow_of_two(n) /\ roundup_pow_of_two(n) < 2 * n
        /\ \A constant \in BOOLEAN : /\ ilog2(n, constant) = Log(n)
                                     /\ 2 ^ order_base_2(n, constant) = roundup_pow_of_two(n)
        /\ 2 ^ get_count_order(n) = roundup_pow_of_two(n)

=============================================================================
