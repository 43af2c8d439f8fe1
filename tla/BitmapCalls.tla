---------------------------- MODULE BitmapCalls -----------------------------
(***************************************************************************)
(* A caller's bitmap, and beside it the set of bit numbers it stands for:  *)
(* every call of bitmap.h, bitops.h and find_bit.c is made on both.  nbits *)
(* is a variable of the caller, so that bitmap.h calls the functions;      *)
(* where the compiler knows it, the one-word forms of bitmap.h are used.   *)
(* Its memset and memcmp for byte-aligned constants are left out.          *)
(***************************************************************************)
EXTENDS BitmapText

CONSTANTS
    Sizes,     \* the sizes in bits a bitmap may have
    HexTexts,  \* what __bitmap_parse is given
    ListTexts  \* what __bitmap_parselist is given

VARIABLES
    nbits, \* the bitmap's size, 0 before there is one
    known, \* the compiler knows nbits, which fits in a word
    map,   \* the words
    bits,  \* abstract: the bits that are set
    right  \* whether the last call's answer was that of the set

bvars == <<nbits, known, map, bits, right>>

All == 0 .. nbits - 1

\* Other bitmaps: two words' patterns in turn, with unused bits set or not.
Patterns == {{}, Ones, {0, BITS_PER_LONG - 2}}
Others == {[k \in Long(nbits) |-> IF k % 2 = 0 THEN v ELSE w] : v, w \in Patterns}

-----------------------------------------------------------------------------
\* No unused bit of m is set (bitmap.c:73-76).
Clean(m) == \A k \in DOMAIN m, b \in Ones : b \in m[k] => BITS_PER_LONG * k + b < nbits

\* A call that makes the bitmap m, where it should make the bits b; ok is what else
\* must be true of it ...
Change(m, b, ok) ==
    /\ nbits > 0 /\ map' = m /\ bits' = b /\ right' = ok
    /\ UNCHANGED <<nbits, known>>
\* ... for most, that no unused bits come out if none went in ...
Do(m, b) == Change(m, b, Clean(map) => Clean(m))
\* ... also those of another bitmap o ...
DoWith(o, m, b) == Change(m, b, Clean(map) /\ Clean(o) => Clean(m))
\* ... or also that it answers got where it should answer due.
DoAsk(m, b, got, due) == Change(m, b, got = due /\ (Clean(map) => Clean(m)))
\* A call that only answers.
Ask(got, due) ==
    /\ nbits > 0 /\ right' = (got = due)
    /\ UNCHANGED <<nbits, known, map, bits>>

\* DECLARE_BITMAP: what is in the words is anything.
Declare(n, k, m) ==
    /\ nbits = 0 /\ (k => n <= BITS_PER_LONG)
    /\ nbits' = n /\ known' = k /\ map' = m /\ bits' = Bits(m, n) /\ right' = TRUE

-----------------------------------------------------------------------------
(* Whole bitmaps.                                                          *)

CallZeroFill == Do(Zero(nbits), {}) \/ Do(Fill(nbits), All)
CallLogic(o) ==
    LET other == Bits(o, nbits) IN
    \/ DoAsk(BitmapAnd(map, o, nbits), bits \cap other,
             BitmapAnd(map, o, nbits) # Zero(nbits), bits \cap other # {})
    \/ DoAsk(BitmapAndNot(map, o, nbits), bits \ other,
             BitmapAndNot(map, o, nbits) # Zero(nbits), bits \ other # {})
    \/ DoWith(o, BitmapOr(map, o, nbits), bits \cup other)
    \/ DoWith(o, BitmapXor(map, o, nbits), Xor(bits, other))
    \/ Change(BitmapComplement(map, nbits), All \ bits, TRUE)
CallCompare(o) ==
    LET other == Bits(o, nbits) IN
    Ask(<<BitmapEqual(map, o, nbits), BitmapIntersects(map, o, nbits),
          BitmapSubset(map, o, nbits), BitmapWeight(map, nbits)>>,
        <<bits = other, bits \cap other # {}, bits \subseteq other, Cardinality(bits)>>)
CallShift(shift) ==
    \/ Do(IF known THEN ShiftRightWord(map, shift, nbits) ELSE ShiftRight(map, shift, nbits),
          {b - shift : b \in {c \in bits : c >= shift}})
    \/ Change(IF known THEN ShiftLeftWord(map, shift, nbits) ELSE ShiftLeft(map, shift, nbits),
              {b + shift : b \in bits} \cap All, known => Clean(map'))

-----------------------------------------------------------------------------
(* Bits, ranges and searches.                                              *)

CallRange(start, len) ==
    LET range == start .. start + len - 1 IN
    Do(BitmapSet(map, start, len), bits \cup range)
    \/ Do(BitmapClear(map, start, len), bits \ range)

\* set_bit and its like; test_and_set_bit and its like answer what was there.
CallBit(nr) ==
    \/ DoAsk(SetBit(map, nr), bits \cup {nr}, TestBit(map, nr), nr \in bits)
    \/ DoAsk(ClearBit(map, nr), bits \ {nr}, TestBit(map, nr), nr \in bits)
    \/ DoAsk(ChangeBit(map, nr), Xor(bits, {nr}), TestBit(map, nr), nr \in bits)

\* The least of set s, or nbits; find_last_bit gives the greatest.
LeastOf(s) == IF s = {} THEN nbits ELSE Min(s)
CallFind(start) ==
    LET after(s) == {b \in s : b >= start} IN
    Ask(<<FindFirst(map, nbits), FindFirstZero(map, nbits), FindLast(map, nbits),
          FindNext(map, nbits, start, {}), FindNext(map, nbits, start, Ones),
          Visited(map, nbits, {}), Visited(map, nbits, Ones)>>,
        <<LeastOf(bits), LeastOf(All \ bits), IF bits = {} THEN nbits ELSE Max(bits),
          LeastOf(after(bits)), LeastOf(after(All \ bits)),
          SetToSortSeq(bits, <), SetToSortSeq(All \ bits, <)>>)
\* A free area of nr bits, so aligned; past the bitmap's end when there is none.
CallZeroArea(start, nr, align, offset) ==
    LET areas == {i \in start .. nbits - nr : /\ (i + offset) % (align + 1) = 0
                                              /\ (i .. i + nr - 1) \cap bits = {}}
        got == ZeroArea(map, nbits, start, nr, align, offset)
    IN  Ask(IF got > nbits THEN nbits ELSE got, LeastOf(areas))

-----------------------------------------------------------------------------
(* Ordinals, regions, arrays and texts.                                    *)

\* The n-th set bit of s goes to the n-th of t, round and round.
Sent(b, s, t) ==
    LET n == Cardinality({c \in s : c < b}) % Cardinality(t)
    IN  IF b \notin s \/ t = {} THEN b
        ELSE CHOOSE c \in t : Cardinality({d \in t : d < c}) = n
CallRemap(old, new) ==
    LET o == Bits(old, nbits)
        w == Bits(new, nbits)
    IN  Do(Remap(map, old, new, nbits), {Sent(b, o, w) : b \in bits})
CallOnto(relmap) ==
    LET to == Bits(relmap, nbits) IN
    Do(Onto(map, relmap, nbits), {b \in to : Cardinality({c \in to : c < b}) \in bits})
CallFold(sz) == Do(Fold(map, sz, nbits), {b % sz : b \in bits})
CallOrdinals(b) ==
    Ask(<<PosToOrd(map, b, nbits), OrdToPos(map, b, nbits)>>,
        <<IF b \in bits THEN Cardinality({c \in bits : c < b}) ELSE -1,
          LeastOf({c \in bits : Cardinality({d \in bits : d < c}) = b})>>)

\* bitmap_find_free_region, bitmap_allocate_region and bitmap_release_region
CallRegion(pos, order) ==
    LET region == pos .. pos + 2 ^ order - 1
        got == FreeRegion(map, nbits, order)
        free == {p \in All : /\ p % 2 ^ order = 0 /\ p + 2 ^ order <= nbits
                             /\ (p .. p + 2 ^ order - 1) \cap bits = {}}
    IN  \/ DoAsk(IF got < 0 THEN map ELSE RegionAlloc(map, got, order),
                 IF free = {} THEN bits ELSE bits \cup Min(free) .. Min(free) + 2 ^ order - 1,
                 got, IF free = {} THEN -1 ELSE Min(free))
        \/ DoAsk(IF RegionFree(map, pos, order) THEN RegionAlloc(map, pos, order) ELSE map,
                 bits \cup IF region \cap bits = {} THEN region ELSE {},
                 RegionFree(map, pos, order), region \cap bits = {})
        \/ Do(RegionRelease(map, pos, order), bits \ region)

\* The u32 array as a set of bits; what is left of the bitmap is cleared.
CallU32(buf, nwords) ==
    LET in(a) == {HALF * i + b : <<i, b>> \in {<<i, b>> \in (0 .. nwords - 1) \X (0 .. HALF - 1) :
                                                b \in a[i]}}
    IN  \/ Do(FromU32(map, nbits, buf, nwords), in(buf) \cap All)
        \/ Ask(in(ToU32(map, nbits, nwords)), bits \cap 0 .. HALF * nwords - 1)

\* The parsers start from bitmap_zero; after an error the bits are anybody's.
CallParse ==
    /\ map = Zero(nbits)
    /\ \/ \E text \in HexTexts :
            \E f \in {ParseHex(text, nbits)}, legal \in {HexLegal(text, nbits)} :
              Change(f.map, IF legal THEN HexValue(text) ELSE Bits(f.map, nbits),
                     (f.ret = "ok") = legal /\ (legal => Clean(f.map)))
       \/ \E text \in ListTexts :
            \E f \in {ParseList(text, nbits)}, means \in {ListMeans(text, nbits)} :
              DoAsk(f.map, IF means.ret = "ok" THEN means.bits ELSE Bits(f.map, nbits),
                    f.ret, means.ret)

-----------------------------------------------------------------------------
BitmapInit == nbits = 0 /\ known = FALSE /\ map = <<>> /\ bits = {} /\ right = TRUE

BitmapNext ==
    \/ \E n \in Sizes : \E k \in BOOLEAN, m \in [Long(n) -> Word] : Declare(n, k, m)
    \/ CallZeroFill
    \/ \E o \in Others : CallLogic(o) \/ CallCompare(o) \/ CallOnto(o)
                         \/ \E w \in Others : CallRemap(o, w)
    \/ \E start \in 0 .. nbits :
         \/ (known => start < BITS_PER_LONG) /\ CallShift(start)
         \/ \E len \in 0 .. nbits - start : CallRange(start, len)
         \/ CallFind(start)
         \/ \E nr \in 1 .. 3, align \in {0, 1, 3}, offset \in {0, 1} :
              CallZeroArea(start, nr, align, offset)
    \/ \E nr \in All : CallBit(nr) \/ CallOrdinals(nr)
    \/ \E sz \in 1 .. nbits : CallFold(sz)
    \/ \E order \in 0 .. 3 : \E pos \in {p \in All : p % 2 ^ order = 0 /\ p + 2 ^ order <= nbits} :
         CallRegion(pos, order)
    \/ \E nwords \in 0 .. 2 * BITS_TO_LONGS(nbits) + 1, v, w \in {{}, 0 .. HALF - 1, {0}} :
         CallU32([i \in 0 .. nwords - 1 |-> IF i % 2 = 0 THEN v ELSE w], nwords)
    \/ CallParse

\* Whatever is in the unused bits of its last word, a bitmap answers and changes as
\* the set of its bits does (bitmap.c:61-70), through every sequence of calls; where
\* none is set none comes out (bitmap.c:73-76), except of a complement, the left shift
\* of words and a parse that fails; and the word functions it is made of compute what
\* their comments say.
BitmapExact ==
    /\ right
    /\ nbits > 0 => bits = Bits(map, nbits)
    /\ \A k \in DOMAIN map :
         RightSearches(map[k]) /\ RightShuffles(map[k]) /\ RightOrders(map[k])

=============================================================================
