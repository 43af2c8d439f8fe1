------------------------------- MODULE Bitmap -------------------------------
(***************************************************************************)
(* bitmap.c and find_bit.c: operations on bitmaps of n bits in whole words,*)
(* the last of which may have bits that belong to nobody.  A bitmap is a   *)
(* function from word numbers to words; each operator works word by word,  *)
(* in the code's order where it works in place.                            *)
(***************************************************************************)
EXTENDS Words

-----------------------------------------------------------------------------
BITS_TO_LONGS(n) == (n + BITS_PER_LONG - 1) \div BITS_PER_LONG
BITMAP_FIRST_WORD_MASK(start) == Shl(Ones, start % BITS_PER_LONG)
BITMAP_LAST_WORD_MASK(n) == Shr(Ones, (-n) % BITS_PER_LONG)
Whole(n) == n \div BITS_PER_LONG
Long(n) == 0 .. BITS_TO_LONGS(n) - 1

Zero(n) == [k \in Long(n) |-> {}]
Bits(m, n) == {b \in 0 .. n - 1 : b % BITS_PER_LONG \in m[b \div BITS_PER_LONG]}

\* bitmap_fill: only the last word is masked.
Fill(n) == [k \in Long(n) |-> IF k = BITS_TO_LONGS(n) - 1 THEN BITMAP_LAST_WORD_MASK(n) ELSE Ones]

\* The loop over whole words, and the last one cut to the bits in use.
Masked(f, n) == [k \in Long(n) |-> IF k < Whole(n) THEN f[k]
                                   ELSE f[k] \cap BITMAP_LAST_WORD_MASK(n)]

\* The unused bits take part in the last two, and in the complement.
BitmapAnd(v, w, n) == Masked([k \in Long(n) |-> v[k] \cap w[k]], n)
BitmapAndNot(v, w, n) == Masked([k \in Long(n) |-> v[k] \ w[k]], n)
BitmapOr(v, w, n) == [k \in Long(n) |-> v[k] \cup w[k]]
BitmapXor(v, w, n) == [k \in Long(n) |-> Xor(v[k], w[k])]
BitmapComplement(v, n) == [k \in Long(n) |-> Ones \ v[k]]

BitmapEqual(v, w, n) == Masked(BitmapXor(v, w, n), n) = Zero(n)
BitmapIntersects(v, w, n) == BitmapAnd(v, w, n) # Zero(n)
BitmapSubset(v, w, n) == BitmapAndNot(v, w, n) = Zero(n)
BitmapWeight(v, n) ==
    MapThenSumSet(LAMBDA k : Hweight(Num(Masked(v, n)[k]), 8), Long(n))

\* Mutant: the unused bits of the source's last word are shifted into the bitmap.
ShiftRightUnmasked(m, shift, n) ==
    LET off == shift \div BITS_PER_LONG
        rem == shift % BITS_PER_LONG
        Put(d, k) == [d EXCEPT ![k] = Shr(d[off + k], rem) \cup
            IF rem = 0 \/ off + k + 1 >= BITS_TO_LONGS(n) THEN {}
            ELSE Shl(d[off + k + 1], BITS_PER_LONG - rem)]
        moved == FoldLeft(Put, m, [i \in 1 .. BITS_TO_LONGS(n) - off |-> i - 1])
    IN  [k \in Long(n) |-> IF k >= BITS_TO_LONGS(n) - off THEN {} ELSE moved[k]]

\* __bitmap_shift_right in place, words upwards; then memset from the top.
ShiftRight(m, shift, n) ==
    LET off == shift \div BITS_PER_LONG
        rem == shift % BITS_PER_LONG
        lim == BITS_TO_LONGS(n)
        Src(d, j) == IF j = lim - 1 THEN d[j] \cap BITMAP_LAST_WORD_MASK(n) ELSE d[j]
        Put(d, k) == [d EXCEPT ![k] = Shr(Src(d, off + k), rem) \cup
            IF rem = 0 \/ off + k + 1 >= lim THEN {}
            ELSE Shl(Src(d, off + k + 1), BITS_PER_LONG - rem)]
        moved == FoldLeft(Put, m, [i \in 1 .. lim - off |-> i - 1])
    IN  [k \in Long(n) |-> IF k >= lim - off THEN {} ELSE moved[k]]

\* __bitmap_shift_left in place, words downwards; then memset from the bottom.
ShiftLeft(m, shift, n) ==
    LET off == shift \div BITS_PER_LONG
        rem == shift % BITS_PER_LONG
        lim == BITS_TO_LONGS(n)
        Put(d, k) == [d EXCEPT ![k + off] = Shl(d[k], rem) \cup
            IF rem # 0 /\ k > 0 THEN Shr(d[k - 1], BITS_PER_LONG - rem) ELSE {}]
        moved == FoldLeft(Put, m, [i \in 1 .. lim - off |-> lim - off - i])
    IN  [k \in Long(n) |-> IF k < off THEN {} ELSE moved[k]]

\* The one-word forms of bitmap.h.
ShiftRightWord(m, shift, n) == [m EXCEPT ![0] = Shr(@ \cap BITMAP_LAST_WORD_MASK(n), shift)]
ShiftLeftWord(m, shift, n) == [m EXCEPT ![0] = Shl(@, shift) \cap BITMAP_LAST_WORD_MASK(n)]

-----------------------------------------------------------------------------
(* Ranges.                                                                 *)

\* What __bitmap_set and __bitmap_clear do to word k: all of it while that many
\* bits are left, from start on in the first word; the rest is cut at the end.
RangeMask(k, start, len) ==
    LET filled == (k + 1) * BITS_PER_LONG - start
        mask == IF k = start \div BITS_PER_LONG THEN BITMAP_FIRST_WORD_MASK(start) ELSE Ones
    IN  IF k < start \div BITS_PER_LONG THEN {}
        ELSE IF filled <= len THEN mask
        ELSE IF len > 0 /\ filled - BITS_PER_LONG < len
        THEN mask \cap BITMAP_LAST_WORD_MASK(start + len) ELSE {}
BitmapSet(m, start, len) == [k \in DOMAIN m |-> m[k] \cup RangeMask(k, start, len)]
BitmapClear(m, start, len) == [k \in DOMAIN m |-> m[k] \ RangeMask(k, start, len)]

\* set_bit, clear_bit, change_bit and test_bit
BIT_WORD(nr) == nr \div BITS_PER_LONG
BIT_MASK(nr) == {nr % BITS_PER_LONG}
SetBit(m, nr) == [m EXCEPT ![BIT_WORD(nr)] = @ \cup BIT_MASK(nr)]
ClearBit(m, nr) == [m EXCEPT ![BIT_WORD(nr)] = @ \ BIT_MASK(nr)]
ChangeBit(m, nr) == [m EXCEPT ![BIT_WORD(nr)] = Xor(@, BIT_MASK(nr))]
TestBit(m, nr) == 0 \in Shr(m[BIT_WORD(nr)], nr % BITS_PER_LONG)

-----------------------------------------------------------------------------
(* find_bit.c                                                              *)

Least(x, y) == IF x < y THEN x ELSE y

\* _find_next_bit; invert is Ones for the zero bits.
FindNext(m, n, start, invert) ==
    LET at(k) == Xor(m[k], invert) \cap
                 IF k = start \div BITS_PER_LONG THEN BITMAP_FIRST_WORD_MASK(start) ELSE Ones
        found == {k \in Long(n) : k >= start \div BITS_PER_LONG /\ at(k) # {}}
    IN  IF start >= n \/ found = {} THEN n
        ELSE Least(Min(found) * BITS_PER_LONG + ffs(at(Min(found))), n)

FindFirst(m, n) ==
    LET found == {k \in Long(n) : m[k] # {}}
    IN  IF found = {} THEN n ELSE Least(Min(found) * BITS_PER_LONG + ffs(m[Min(found)]), n)
FindFirstZero(m, n) ==
    LET found == {k \in Long(n) : m[k] # Ones}
    IN  IF found = {} THEN n ELSE Least(Min(found) * BITS_PER_LONG + ffz(m[Min(found)]), n)
FindLast(m, n) ==
    LET at(k) == IF k = BITS_TO_LONGS(n) - 1 THEN m[k] \cap BITMAP_LAST_WORD_MASK(n) ELSE m[k]
        found == {k \in Long(n) : at(k) # {}}
    IN  IF found = {} THEN n ELSE Max(found) * BITS_PER_LONG + flsb(at(Max(found)))

\* for_each_set_bit and, inverted, for_each_clear_bit: the bits it visits, in order.
Visited(m, n, invert) ==
    LET from[b \in 0 .. n] ==
          IF b = n THEN <<>> ELSE <<b>> \o from[FindNext(m, n, b + 1, invert)]
    IN  from[IF invert = {} THEN FindFirst(m, n) ELSE FindFirstZero(m, n)]

\* Mutant: the area's last bit is not looked at.
ZeroAreaShort(m, size, start, nr, align, offset) ==
    LET Aligned(x) == ((x + offset + align) \div (align + 1)) * (align + 1) - offset
        again[s \in 0 .. size] ==
          LET index == Aligned(FindNext(m, size, s, Ones))
              i == FindNext(m, index + nr, index, {})
          IN  IF index + nr > size THEN index + nr
              ELSE IF i + 1 < index + nr THEN again[i + 1] ELSE index
    IN  again[start]

\* bitmap_find_next_zero_area_off
ZeroArea(m, size, start, nr, align, offset) ==
    LET Aligned(x) == ((x + offset + align) \div (align + 1)) * (align + 1) - offset
        again[s \in 0 .. size] ==
          LET index == Aligned(FindNext(m, size, s, Ones))
              i == FindNext(m, index + nr, index, {})
          IN  IF index + nr > size THEN index + nr
              ELSE IF i < index + nr THEN again[i + 1] ELSE index
    IN  again[start]

-----------------------------------------------------------------------------
(* Positions and ordinals.                                                 *)

PosToOrd(m, pos, n) == IF pos >= n \/ ~TestBit(m, pos) THEN -1 ELSE BitmapWeight(m, pos)
OrdToPos(m, ord, n) ==
    LET visited == Visited(m, n, {}) IN IF ord < Len(visited) THEN visited[ord + 1] ELSE n

BitRemap(bit, old, new, n) ==
    LET w == BitmapWeight(new, n)
        ord == PosToOrd(old, bit, n)
    IN  IF ord < 0 \/ w = 0 THEN bit ELSE OrdToPos(new, ord % w, n)
\* bitmap_remap, bitmap_onto and bitmap_fold set the bits they find one by one
\* in a cleared destination.
Collect(places, n) == FoldLeft(SetBit, Zero(n), places)
Remap(m, old, new, n) ==
    Collect([k \in DOMAIN Visited(m, n, {}) |-> BitRemap(Visited(m, n, {})[k], old, new, n)], n)
Onto(m, relmap, n) ==
    LET to == Visited(relmap, n, {})
    IN  Collect(SetToSeq({to[k] : k \in {j \in DOMAIN to : TestBit(m, j - 1)}}), n)
Fold(m, sz, n) == Collect([k \in DOMAIN Visited(m, n, {}) |-> Visited(m, n, {})[k] % sz], n)

-----------------------------------------------------------------------------
(* Regions and arrays of u32.                                              *)

\* __reg_op: the words of the region, and the mask for each.
RegionWords(pos, order) ==
    LET index == pos \div BITS_PER_LONG IN index .. index + BITS_TO_LONGS(2 ^ order) - 1
RegionMask(pos, order) ==
    Shl(0 .. Least(2 ^ order, BITS_PER_LONG) - 1, pos % BITS_PER_LONG)
RegionFree(m, pos, order) ==
    \A k \in RegionWords(pos, order) : m[k] \cap RegionMask(pos, order) = {}
RegionAlloc(m, pos, order) ==
    [k \in DOMAIN m |-> IF k \in RegionWords(pos, order) THEN m[k] \cup RegionMask(pos, order)
                        ELSE m[k]]
RegionRelease(m, pos, order) ==
    [k \in DOMAIN m |-> IF k \in RegionWords(pos, order) THEN m[k] \ RegionMask(pos, order)
                        ELSE m[k]]
\* bitmap_find_free_region: -1 for -ENOMEM
FreeRegion(m, n, order) ==
    LET free == {pos \in 0 .. n - 1 : /\ pos % 2 ^ order = 0 /\ pos + 2 ^ order <= n
                                      /\ RegionFree(m, pos, order)}
    IN  IF free = {} THEN -1 ELSE Min(free)

\* A u32 is half a long, as in a 64-bit build.
HALF == BITS_PER_LONG \div 2
FromU32(m, n, buf, nwords) ==
    LET half(i) == IF i < nwords THEN buf[i] ELSE {}
        part(k) == half(2 * k) \cup Shl(half(2 * k + 1), HALF)
        mask == BITMAP_LAST_WORD_MASK(n)
    IN  [k \in Long(n) |-> IF k < Whole(n) THEN part(k)
                           ELSE (m[k] \ mask) \cup (part(k) \cap mask)]
ToU32(m, n, nwords) ==
    [i \in 0 .. nwords - 1 |->
        LET part == IF i \div 2 \in Long(n) THEN Masked(m, n)[i \div 2] ELSE {}
        IN  IF i % 2 = 0 THEN part \cap 0 .. HALF - 1 ELSE Shr(part, HALF)]

=============================================================================
