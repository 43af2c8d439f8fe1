----------------------------- MODULE MCLibrary ------------------------------
(* The library's small parts side by side, for one run of TLC: a behaviour  *)
(* is about one of them, its subject, and leaves the others in one of their *)
(* initial states.                                                          *)
EXTENDS LList, RcuList, BitmapCalls, Sort, TLC

CONSTANTS t1, t2, t3, e1, e2, l1, l2, l3

VARIABLE subject

libvars == <<subject, vars, lvars, bvars, svars>>

LibraryInit ==
    /\ subject \in {"llist", "lists", "bitmap", "sort"}
    /\ Init /\ ListInit /\ BitmapInit /\ SortInit
    /\ subject # "llist" => mode = "locked" /\ \A e \in Entries : holder[e] = Consumer
    /\ subject # "lists" => flavour = "list"

LibraryNext ==
    /\ UNCHANGED subject
    /\ \/ subject = "llist" /\ Next /\ UNCHANGED <<lvars, bvars, svars>>
       \/ subject = "lists" /\ ListNext /\ UNCHANGED <<vars, bvars, svars>>
       \/ subject = "bitmap" /\ BitmapNext /\ UNCHANGED <<vars, lvars, svars>>
       \/ subject = "sort" /\ SortNext /\ UNCHANGED <<vars, lvars, bvars>>

LibrarySpec == LibraryInit /\ [][LibraryNext]_libvars

\* Producers, entries and links are only compared for equality.  One subject has
\* entries and another links: odd permutations of the two go together.
Odd(p) == Cardinality({x \in DOMAIN p : p[x] # x}) = 2
LibrarySymmetry ==
    {l @@ e @@ t : <<l, e>> \in {le \in Permutations(Links) \X Permutations(Entries) :
                                   Odd(le[1]) = Odd(le[2])},
                   t \in Permutations(Threads \ {Consumer})}

\* Texts for __bitmap_parse: up to five characters.
HexInputs == UNION {[1 .. k -> {"0", "1", ",", " ", "x", "nul"}] : k \in 0 .. 5}

\* Texts for bitmap_parselist: up to four characters, or a range with a stride,
\* alone or after another number.
Numerals == {"0", "1", "2", "5"}
Strides == {<<a, "-", b, ":", u, "/", g>> : a, b, u, g \in Numerals}
ListInputs == UNION {[1 .. k -> {"0", "2", "5", "-", ",", " ", "x"}] : k \in 0 .. 4}
              \cup Strides \cup {<<"1", ",">> \o s : s \in Strides}
=============================================================================
