----------------------------- MODULE BitmapText -----------------------------
(***************************************************************************)
(* The parsers of bitmap.c, one character at a time.  A hex digit stands   *)
(* for DIGIT bits and a chunk for CHUNKSZ of them, half a long as in a     *)
(* 64-bit build; decimal digits are themselves.  A text is its buffer: it  *)
(* ends with the buffer or at a "nul" in it.                               *)
(***************************************************************************)
EXTENDS Bitmap

DIGIT == 1
CHUNKSZ == BITS_PER_LONG \div 2

Digits == [d \in {"0", "1", "2", "3", "4", "5"} |->
             CASE d = "0" -> 0 [] d = "1" -> 1 [] d = "2" -> 2
               [] d = "3" -> 3 [] d = "4" -> 4 [] d = "5" -> 5]
Space == " "
EndsChunk == {"nul", ","}

-----------------------------------------------------------------------------
(* __bitmap_parse                                                          *)

Failed(f, error) == [f EXCEPT !.ret = error]

\* The end of a chunk: it is shifted in, unless only zeros came before it.
HexChunk(f, n) ==
    LET chunks == f.nchunks + 1
        held == f.nbits + IF chunks = 1 THEN fls(f.chunk) ELSE CHUNKSZ
        next == [f EXCEPT !.chunk = {}, !.ndigits = f.total]
    IN  IF f.ndigits = f.total THEN Failed(f, "EINVAL")
        ELSE IF f.nchunks = 0 /\ f.chunk = {} THEN next
        ELSE [next EXCEPT !.map = [ShiftLeft(f.map, CHUNKSZ, n) EXCEPT ![0] = @ \cup f.chunk],
                          !.nchunks = chunks, !.nbits = held,
                          !.ret = IF held > n THEN "EOVERFLOW" ELSE @]

HexChar(f, c, n) ==
    LET g == [f EXCEPT !.c = c] IN
    IF f.ret # "ok" \/ f.c = "nul" THEN f
    ELSE IF c = Space THEN g
    ELSE IF f.total > 0 /\ c # "nul" /\ f.c = Space THEN Failed(g, "EINVAL")
    ELSE IF c \in EndsChunk THEN HexChunk(g, n)
    ELSE IF c \notin {"0", "1"} THEN Failed(g, "EINVAL")
    ELSE IF f.chunk \ 0 .. CHUNKSZ - DIGIT - 1 # {} THEN Failed(g, "EOVERFLOW")
    ELSE [g EXCEPT !.chunk = {b + DIGIT : b \in f.chunk} \cup BitsOf(Digits[c]),
                   !.total = f.total + 1]

ParseHex(text, n) ==
    LET start == [map |-> Zero(n), chunk |-> {}, total |-> 0, ndigits |-> 0, nchunks |-> 0,
                  nbits |-> 0, c |-> "start", ret |-> "ok"]
        Char(f, c) == HexChar(f, c, n)
        f == FoldLeft(Char, start, text)
    IN  IF f.ret # "ok" \/ f.c \in EndsChunk THEN f ELSE HexChunk(f, n)

-----------------------------------------------------------------------------
(* __bitmap_parselist                                                      *)

\* The end of an item: a range is set, group by group.
ListItem(f, n) ==
    LET one == f.b - f.a + 1
        g == IF f.in_partial_range THEN [f EXCEPT !.group = f.a, !.a = f.old_a, !.b = f.old_b,
                                                !.old_a = 0, !.old_b = 0]
             ELSE [f EXCEPT !.group = one, !.used = one]
        starts == {a \in g.a .. g.b : (a - g.a) % g.group = 0}
        next == [g EXCEPT !.at_start = TRUE, !.in_range = FALSE, !.in_partial_range = FALSE,
                          !.a = 0, !.b = 0, !.ndigits = f.total]
        Put(m, a) == BitmapSet(m, a, Least(g.b - a + 1, g.used))
    IN  IF f.ndigits = f.total THEN [next EXCEPT !.used = f.used, !.group = f.group]
        ELSE IF \/ f.at_start /\ f.in_range
                \/ ~(g.a <= g.b) \/ g.group = 0 \/ ~(g.used <= g.group)
             THEN Failed(f, "EINVAL")
        ELSE IF g.b >= n THEN Failed(f, "ERANGE")
        ELSE [next EXCEPT !.map = FoldLeft(Put, f.map, SetToSortSeq(starts, <))]

ListChar(f, c, n) ==
    LET g == [f EXCEPT !.c = c]
        part == [g EXCEPT !.at_start = TRUE, !.in_range = FALSE, !.a = 0, !.b = 0]
    IN
    IF f.ret # "ok" \/ f.c = "nul" THEN f
    ELSE IF c = Space THEN g
    ELSE IF c \in EndsChunk THEN ListItem(g, n)
    ELSE IF f.total # f.ndigits /\ f.c = Space THEN Failed(g, "EINVAL")
    ELSE IF c = "/" THEN [part EXCEPT !.used = f.a]
    ELSE IF c = ":" THEN [part EXCEPT !.old_a = f.a, !.old_b = f.b, !.in_partial_range = TRUE]
    ELSE IF c = "-" THEN
         IF f.at_start \/ f.in_range THEN Failed(g, "EINVAL")
         ELSE [g EXCEPT !.b = 0, !.in_range = TRUE, !.at_start = TRUE]
    ELSE IF c \notin DOMAIN Digits THEN Failed(g, "EINVAL")
    ELSE LET b == f.b * 10 + Digits[c] IN
         [g EXCEPT !.b = b, !.a = IF f.in_range THEN @ ELSE b, !.at_start = FALSE,
                   !.total = f.total + 1]

ParseList(text, n) ==
    LET start == [map |-> Zero(n), a |-> 0, b |-> 0, old_a |-> 0, old_b |-> 0, group |-> 0,
                  used |-> 0, at_start |-> TRUE, in_range |-> FALSE, in_partial_range |-> FALSE,
                  total |-> 0, ndigits |-> 0, c |-> "start", ret |-> "ok"]
        Char(f, c) == ListChar(f, c, n)
        f == FoldLeft(Char, start, text)
    IN  IF f.ret # "ok" \/ f.c \in EndsChunk THEN f ELSE ListItem(f, n)

-----------------------------------------------------------------------------
(* What the texts denote.                                                  *)

\* The text up to its nul, and its items without the spaces around them; the
\* buffer's end makes no item of nothing.
Upto(text) == IF Contains(text, "nul") THEN SubSeq(text, 1, SelectInSeq(text, LAMBDA c : c = "nul") - 1)
              ELSE text
Items(text) ==
    LET t == Upto(text)
        cuts == <<0>> \o SetToSortSeq({k \in DOMAIN t : t[k] = ","}, <) \o <<Len(t) + 1>>
        item(k) == SelectSeq(SubSeq(t, cuts[k] + 1, cuts[k + 1] - 1), LAMBDA c : c # Space)
        ended == t = text /\ Len(t) > 0 /\ Last(t) = ","
    IN  [k \in 1 .. Len(cuts) - IF ended THEN 2 ELSE 1 |-> item(k)]

\* A space between two characters, of the whole text or of one item, after the
\* first digit.
Embedded(t) ==
    \E i, j, k \in DOMAIN t : /\ i < j /\ j < k /\ t[i] \in DOMAIN Digits /\ t[j] = Space
                              /\ t[k] # Space

Decimal(s) == FoldLeft(LAMBDA x, c : x * 10 + Digits[c], 0, s)

\* Hex: the bits, when nothing the comment forbids is in the text.
HexValue(text) ==
    LET chunks == Items(text)
        value(s) == UNION {{b + DIGIT * (Len(s) - k) : b \in BitsOf(Digits[s[k]])} : k \in DOMAIN s}
    IN  UNION {{b + CHUNKSZ * (Len(chunks) - k) : b \in value(chunks[k])} : k \in DOMAIN chunks}
HexLegal(text, n) ==
    LET chunks == Items(text) IN
    /\ ~Embedded(Upto(text)) /\ chunks # <<>>
    /\ \A k \in DOMAIN chunks :
         /\ chunks[k] # <<>> /\ \A j \in DOMAIN chunks[k] : chunks[k][j] \in {"0", "1"}
         /\ \A i \in DOMAIN chunks[k] : chunks[k][i] = "1" => DIGIT * (Len(chunks[k]) - i + 1) <= CHUNKSZ
    /\ HexValue(text) \subseteq 0 .. n - 1

\* Lists: what one item denotes, a set of bits or an error.
ItemMeans(s, n) ==
    LET Numeral(x, y) == x <= y /\ \A k \in x .. y : s[k] \in DOMAIN Digits
        N(x, y) == Decimal(SubSeq(s, x, y))
        dash == SelectInSeq(s, LAMBDA c : c = "-")
        colon == SelectInSeq(s, LAMBDA c : c = ":")
        slash == SelectInSeq(s, LAMBDA c : c = "/")
        end == IF colon = 0 THEN Len(s) ELSE colon - 1
        first == IF dash = 0 THEN N(1, end) ELSE N(1, dash - 1)
        last == IF dash = 0 THEN first ELSE N(dash + 1, end)
        group == IF colon = 0 THEN 1 ELSE N(slash + 1, Len(s))
        used == IF colon = 0 THEN 1 ELSE N(colon + 1, slash - 1)
    IN  IF s = <<>> THEN [ret |-> "ok", bits |-> {}]
        ELSE IF \/ ~(IF dash = 0 THEN Numeral(1, end) ELSE Numeral(1, dash - 1) /\ Numeral(dash + 1, end))
                \/ colon # 0 /\ ~(Numeral(colon + 1, slash - 1) /\ Numeral(slash + 1, Len(s)))
                \/ first > last \/ group = 0 \/ used > group
             THEN [ret |-> "EINVAL", bits |-> {}]
        ELSE IF last >= n THEN [ret |-> "ERANGE", bits |-> {}]
        ELSE [ret |-> "ok", bits |-> {b \in first .. last : (b - first) % group < used}]
\* The first item that is wrong decides.
ListMeans(text, n) ==
    LET items == Items(text)
        raw == Upto(text)
        cuts == <<0>> \o SetToSortSeq({k \in DOMAIN raw : raw[k] = ","}, <) \o <<Len(raw) + 1>>
        means == [k \in DOMAIN items |->
                    IF Embedded(SubSeq(raw, cuts[k] + 1, cuts[k + 1] - 1))
                    THEN [ret |-> "EINVAL", bits |-> {}] ELSE ItemMeans(items[k], n)]
        wrong == {k \in DOMAIN items : means[k].ret # "ok"}
    IN  IF wrong # {} THEN means[Min(wrong)]
        ELSE [ret |-> "ok", bits |-> UNION {means[k].bits : k \in DOMAIN items}]

=============================================================================
