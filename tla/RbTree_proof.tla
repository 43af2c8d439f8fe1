---------------------------- MODULE RbTree_proof ----------------------------
(***************************************************************************)
(* The writer and the lookups of RbTree, for every set of elements, keys and*)
(* readers: that every call keeps the invariant of RbShape_proof, that each*)
(* single store keeps what the lookups rely on, and what follows from both.*)
(***************************************************************************)
EXTENDS RbShape_proof

-----------------------------------------------------------------------------
(* The walk to the last element on one side.                               *)

\* The loop of Deepest, as an equation.
Deepened(f, mem, n, s) ==
    [k \in 0 .. Cardinality(Nodes) |->
       IF k = 0 THEN n ELSE IF mem[f[k - 1]][s] = NULL THEN f[k - 1] ELSE mem[f[k - 1]][s]]

LEMMA DeepenedExists ==
    ASSUME NEW T \in SUBSET Nodes, NEW mem, NEW s, NEW n \in T,
           \A m \in T : mem[m][s] \in T \cup {NULL}
    PROVE  \E f : f = Deepened(f, mem, n, s)
<1> PICK N : N = Cardinality(Nodes)
    OBVIOUS
<1> DEFINE next == [m \in T |-> IF mem[m][s] = NULL THEN m ELSE mem[m][s]]
<1>1. N \in Nat /\ next \in [T -> T] /\ n \in T
    BY NodeAssumption, FS_CardinalityType
<1>2. \A m \in T : next[m] = IF mem[m][s] = NULL THEN m ELSE mem[m][s]
    OBVIOUS
<1> HIDE DEF next
<1>3. \A X : \A a \in X : \A g \in [X -> X] :
        \E f : /\ f \in [0 .. N -> X]
               /\ f = [k \in 0 .. N |-> IF k = 0 THEN a ELSE g[f[k - 1]]]
    BY <1>1, LoopExists, Zenon
<1>4. PICK f : /\ f \in [0 .. N -> T]
               /\ f = [k \in 0 .. N |-> IF k = 0 THEN n ELSE next[f[k - 1]]]
    BY <1>1, <1>3
<1>5. ASSUME NEW k \in 0 .. N
      PROVE  (IF k = 0 THEN n ELSE next[f[k - 1]]) =
             (IF k = 0 THEN n ELSE IF mem[f[k - 1]][s] = NULL THEN f[k - 1] ELSE mem[f[k - 1]][s])
    <2>1. CASE k = 0
        BY <2>1
    <2>2. CASE k # 0
        <3>1. f[k - 1] \in T
            BY <1>1, <1>4, <2>2
        <3> QED BY <1>2, <2>2, <3>1
    <2> QED BY <2>1, <2>2
<1>6. f = [k \in 0 .. N |-> IF k = 0 THEN n ELSE IF mem[f[k - 1]][s] = NULL THEN f[k - 1] ELSE mem[f[k - 1]][s]]
    BY <1>4, <1>5
<1>7. f = Deepened(f, mem, n, s)
    BY <1>6 DEF Deepened
<1> QED BY <1>7

\* m is the last on side s below n, and p the one before it.
LastBelow(T, c, rank, n, s, m) ==
    /\ m \in T /\ c[m][s] = NULL /\ rank[m] <= rank[n]
    /\ m # n => \E p \in T : c[p][s] = m /\ rank[p] <= rank[n]

LEMMA DeepestIs ==
    ASSUME NEW T \in SUBSET Nodes, NEW c, NEW rank, Ranked(T, c, rank),
           NEW s \in Sides, NEW n \in T, \A m \in T : child[m][s] = c[m][s]
    PROVE  LastBelow(T, c, rank, n, s, Deepest(n, s))
<1> PICK N : N = Cardinality(Nodes)
    OBVIOUS
<1> PICK mem : mem = child
    OBVIOUS
<1>0. N \in Nat /\ NULL \notin T
    BY NodeAssumption, FS_CardinalityType
<1>1. /\ rank \in [Links -> Nat]
      /\ \A m \in T : mem[m][s] = c[m][s] /\ mem[m][s] \in T \cup {NULL} /\ rank[m] \in Nat
      /\ \A m \in T : mem[m][s] # NULL => rank[mem[m][s]] < rank[m]
    BY DEF Ranked, Links
<1> DEFINE f == CHOOSE f : f = Deepened(f, mem, n, s)
<1>2. Deepest(n, s) = f[N]
    BY DEF Deepest, Deepened
<1>3. f = Deepened(f, mem, n, s)
    BY <1>1, DeepenedExists
<1> HIDE DEF f
<1>4. \A k \in 0 .. N :
        f[k] = IF k = 0 THEN n ELSE IF mem[f[k - 1]][s] = NULL THEN f[k - 1] ELSE mem[f[k - 1]][s]
    BY <1>3, Zenon DEF Deepened
<1>5. f[0] = n /\ \A k \in 0 .. (N - 1) :
        f[k + 1] = IF mem[f[k]][s] = NULL THEN f[k] ELSE mem[f[k]][s]
    BY <1>0, <1>4
<1> DEFINE S == {k \in 0 .. N : /\ f[k] \in T /\ rank[f[k]] <= rank[n]
                                /\ f[k] # n => \E p \in T : mem[p][s] = f[k] /\ rank[p] <= rank[n]}
<1>6. 0 \in S
    BY <1>0, <1>1, <1>5
<1>7. ASSUME NEW k \in 0 .. (N - 1), k \in S PROVE k + 1 \in S
    <2>1. k + 1 \in 0 .. N
        BY <1>0
    <2>2. CASE mem[f[k]][s] = NULL
        <3>1. f[k + 1] = f[k]
            BY <1>5, <2>2
        <3> QED BY <1>7, <2>1, <3>1
    <2>3. CASE mem[f[k]][s] # NULL
        <3>1. f[k + 1] = mem[f[k]][s] /\ f[k] \in T /\ rank[f[k]] <= rank[n]
            BY <1>5, <1>7, <2>3
        <3>2. f[k + 1] \in T /\ rank[f[k + 1]] < rank[f[k]] /\ rank[f[k + 1]] \in Nat
              /\ rank[f[k]] \in Nat /\ rank[n] \in Nat
            BY <1>1, <2>3, <3>1
        <3>3. rank[f[k + 1]] <= rank[n]
            BY <3>1, <3>2
        <3> QED BY <2>1, <3>1, <3>2, <3>3
    <2> QED BY <2>2, <2>3
<1>8. \A k \in 0 .. N : k \in S
    <2> HIDE DEF S
    <2> QED BY <1>0, <1>6, <1>7, CountingUp
<1> DEFINE a == [k \in 0 .. N |-> IF mem[f[k]][s] = NULL THEN NULL ELSE f[k]]
<1>9. Descends(T, rank, a)
    <2>1. a \in [0 .. N -> T \cup {NULL}]
        BY <1>8
    <2>2. ASSUME NEW k \in 1 .. N, a[k] # NULL
          PROVE  a[k - 1] # NULL /\ rank[a[k]] < rank[a[k - 1]]
        <3>1. k - 1 \in 0 .. (N - 1) /\ k - 1 \in 0 .. N /\ k \in 0 .. N /\ (k - 1) + 1 = k
            BY <1>0
        <3>2. f[k] = IF mem[f[k - 1]][s] = NULL THEN f[k - 1] ELSE mem[f[k - 1]][s]
            BY <1>5, <3>1
        <3>3. a[k] = f[k] /\ mem[f[k]][s] # NULL
            BY <2>2, <3>1
        <3>4. mem[f[k - 1]][s] # NULL /\ f[k] = mem[f[k - 1]][s] /\ f[k - 1] \in T
            BY <1>8, <3>1, <3>2, <3>3
        <3>5. a[k - 1] = f[k - 1]
            BY <3>1, <3>4
        <3> QED BY <1>0, <1>1, <3>3, <3>4, <3>5
    <2> HIDE DEF a
    <2> QED BY <2>1, <2>2 DEF Descends
<1>10. a[N] = NULL
    <2> HIDE DEF a
    <2> QED BY <1>1, <1>9, Lands
<1>11. N \in 0 .. N /\ f[N] \in T /\ rank[f[N]] <= rank[n]
       /\ (f[N] # n => \E p \in T : mem[p][s] = f[N] /\ rank[p] <= rank[n])
    BY <1>0, <1>8
<1>12. mem[f[N]][s] = NULL
    BY <1>0, <1>10, <1>11
<1>13. LastBelow(T, c, rank, n, s, f[N])
    BY <1>1, <1>11, <1>12 DEF LastBelow
<1> QED BY <1>2, <1>13

-----------------------------------------------------------------------------
(* The descent of an insertion.                                            *)

\* A turn of Spot's loop.
Deeper(mem, s, n) ==
    LET d == IF Key[s.at] < Key[n] THEN "left" ELSE "right"
    IN  IF s.at = NULL THEN s
        ELSE [at |-> mem[s.at][d], parent |-> s.at, side |-> d,
              first |-> s.first /\ d = "left", path |-> s.path \cup {s.at}]
From(rt) == [at |-> rt, parent |-> NULL, side |-> "left", first |-> TRUE, path |-> {}]
\* The loop, as an equation.
Sought(f, mem, rt, n) ==
    [k \in 0 .. Cardinality(Nodes) |->
       IF k = 0
       THEN [at |-> rt, parent |-> NULL, side |-> "left", first |-> TRUE, path |-> {}]
       ELSE LET s == f[k - 1]
                d == IF Key[s.at] < Key[n] THEN "left" ELSE "right"
            IN  IF s.at = NULL THEN s
                ELSE [at |-> mem[s.at][d], parent |-> s.at, side |-> d,
                      first |-> s.first /\ d = "left", path |-> s.path \cup {s.at}]]

\* Where such a descent can be.
Descents(T) == [at : T \cup {NULL}, parent : T \cup {NULL}, side : Sides, first : BOOLEAN,
                path : SUBSET T]

LEMMA DeeperStays ==
    ASSUME NEW T \in SUBSET Nodes, NEW mem, NEW n,
           \A m \in T, e \in Sides : mem[m][e] \in T \cup {NULL}, NEW s \in Descents(T)
    PROVE  Deeper(mem, s, n) \in Descents(T)
<1>1. CASE s.at = NULL
    BY <1>1 DEF Deeper
<1>2. CASE s.at # NULL
    <2> PICK d : d = IF Key[s.at] < Key[n] THEN "left" ELSE "right"
        OBVIOUS
    <2>1. d \in Sides
        BY DEF Sides
    <2>2. s.at \in T /\ mem[s.at][d] \in T \cup {NULL} /\ s.path \in SUBSET T /\ s.first \in BOOLEAN
        BY <1>2, <2>1 DEF Descents
    <2>3. Deeper(mem, s, n) = [at |-> mem[s.at][d], parent |-> s.at, side |-> d,
                               first |-> s.first /\ d = "left", path |-> s.path \cup {s.at}]
        BY <1>2 DEF Deeper
    <2>4. (s.first /\ d = "left") \in BOOLEAN /\ s.path \cup {s.at} \in SUBSET T
        BY <2>2
    <2> QED BY <2>1, <2>2, <2>3, <2>4 DEF Descents
<1> QED BY <1>1, <1>2

LEMMA SoughtExists ==
    ASSUME NEW T \in SUBSET Nodes, NEW mem, NEW rt \in T \cup {NULL}, NEW n,
           \A m \in T, e \in Sides : mem[m][e] \in T \cup {NULL}
    PROVE  \E f : f = Sought(f, mem, rt, n)
<1> PICK N : N = Cardinality(Nodes)
    OBVIOUS
<1> PICK X : X = Descents(T)
    OBVIOUS
<1> DEFINE next == [s \in X |-> Deeper(mem, s, n)]
<1>1. N \in Nat /\ next \in [X -> X] /\ From(rt) \in X
    <2>1. \A s \in X : Deeper(mem, s, n) \in X
        BY DeeperStays
    <2>2. From(rt) \in X
        BY DEF From, Descents, Sides
    <2> QED BY <2>1, <2>2, NodeAssumption, FS_CardinalityType
<1>2. \A s \in X : next[s] = Deeper(mem, s, n)
    OBVIOUS
<1> HIDE DEF next
<1>3. \A Y : \A a \in Y : \A g \in [Y -> Y] :
        \E f : /\ f \in [0 .. N -> Y]
               /\ f = [k \in 0 .. N |-> IF k = 0 THEN a ELSE g[f[k - 1]]]
    BY <1>1, LoopExists, Zenon
<1>a. From(rt) \in X /\ next \in [X -> X]
    BY <1>1
<1>4. PICK f : /\ f \in [0 .. N -> X]
               /\ f = [k \in 0 .. N |-> IF k = 0 THEN From(rt) ELSE next[f[k - 1]]]
    BY <1>a, <1>3
<1>5. ASSUME NEW k \in 0 .. N
      PROVE  (IF k = 0 THEN From(rt) ELSE next[f[k - 1]]) =
             (IF k = 0 THEN From(rt) ELSE Deeper(mem, f[k - 1], n))
    <2>1. CASE k = 0
        BY <2>1
    <2>2. CASE k # 0
        <3>a. k - 1 \in 0 .. N
            BY <1>1, <2>2
        <3>b. f \in [0 .. N -> X]
            BY <1>4
        <3>1. f[k - 1] \in X
            BY <3>a, <3>b
        <3> QED BY <1>2, <2>2, <3>1
    <2> QED BY <2>1, <2>2
<1>6. f = [k \in 0 .. N |-> IF k = 0 THEN From(rt) ELSE Deeper(mem, f[k - 1], n)]
    BY <1>4, <1>5, Zenon
<1>7. f = Sought(f, mem, rt, n)
    BY <1>6, Zenon DEF Sought, From, Deeper
<1> QED BY <1>7

\* A free place for a new element: below p on side s.
Free(T, c, p, s) == /\ p \in T \cup {NULL} /\ s \in Sides /\ c[p][s] = NULL
                    /\ p = NULL => s = "left"

LEMMA SpotIs ==
    ASSUME NEW T \in SUBSET Nodes, NEW c, NEW rank, Ranked(T, c, rank), Held(T, c),
           c[NULL]["left"] \in T \cup {NULL}, NEW n
    PROVE  Free(T, c, Spot(n).parent, Spot(n).side)
<1> PICK N : N = Cardinality(Nodes)
    OBVIOUS
<1> PICK mem : mem = child
    OBVIOUS
<1> PICK rt : rt = root
    OBVIOUS
<1>0. N \in Nat /\ NULL \notin T
    BY NodeAssumption, FS_CardinalityType
<1>1. /\ rank \in [Links -> Nat] /\ rt = c[NULL]["left"] /\ rt \in T \cup {NULL}
      /\ \A m \in T, e \in Sides : mem[m][e] = c[m][e] /\ mem[m][e] \in T \cup {NULL}
      /\ \A m \in T, e \in Sides : mem[m][e] # NULL => rank[mem[m][e]] < rank[m]
    BY HeldAre DEF Ranked
<1> DEFINE f == CHOOSE f : f = Sought(f, mem, rt, n)
<1>2. Spot(n) = f[N]
    BY DEF Spot, Sought
<1>3. f = Sought(f, mem, rt, n)
    BY <1>1, SoughtExists
<1> HIDE DEF f
<1>4. \A k \in 0 .. N : f[k] = IF k = 0 THEN From(rt) ELSE Deeper(mem, f[k - 1], n)
    BY <1>3, Zenon DEF Sought, From, Deeper
<1>5. f[0] = From(rt) /\ \A k \in 0 .. (N - 1) : f[k + 1] = Deeper(mem, f[k], n)
    BY <1>0, <1>4
<1> DEFINE Fair(s) == /\ s \in Descents(T) /\ s.at = c[s.parent][s.side]
                      /\ s.parent = NULL => s.side = "left"
           S == {k \in 0 .. N : Fair(f[k])}
<1>6. 0 \in S
    <2>1. Fair(From(rt))
        BY <1>1 DEF From, Descents, Sides
    <2> HIDE DEF Fair
    <2> QED BY <1>0, <1>5, <2>1
<1>7. ASSUME NEW s, Fair(s), s.at # NULL
      PROVE  /\ Fair(Deeper(mem, s, n))
             /\ s.at \in T
             /\ \E e \in Sides : Deeper(mem, s, n).at = mem[s.at][e]
    <2>1. Deeper(mem, s, n) \in Descents(T)
        BY <1>1, <1>7, DeeperStays
    <2> PICK d : d = IF Key[s.at] < Key[n] THEN "left" ELSE "right"
        OBVIOUS
    <2>2. d \in Sides /\ s.at \in T
        BY <1>7 DEF Sides, Descents
    <2>3. Deeper(mem, s, n) = [at |-> mem[s.at][d], parent |-> s.at, side |-> d,
                               first |-> s.first /\ d = "left", path |-> s.path \cup {s.at}]
        BY <1>7 DEF Deeper
    <2>4. Deeper(mem, s, n).at = mem[s.at][d] /\ Deeper(mem, s, n).parent = s.at
          /\ Deeper(mem, s, n).side = d
        BY <2>3
    <2> QED BY <1>0, <1>1, <2>1, <2>2, <2>4
<1>8. ASSUME NEW k \in 0 .. (N - 1), k \in S PROVE k + 1 \in S
    <2>1. k + 1 \in 0 .. N /\ Fair(f[k])
        BY <1>0, <1>8
    <2>2. CASE f[k].at = NULL
        <3>1. f[k + 1] = f[k]
            BY <1>5, <2>2 DEF Deeper
        <3> HIDE DEF Fair
        <3> QED BY <2>1, <3>1
    <2>3. CASE f[k].at # NULL
        <3> HIDE DEF Fair
        <3>1. Fair(Deeper(mem, f[k], n))
            BY <1>7, <2>1, <2>3
        <3> QED BY <1>5, <2>1, <3>1
    <2> QED BY <2>2, <2>3
<1>9. \A k \in 0 .. N : Fair(f[k])
    <2> HIDE DEF Fair
    <2>1. 0 \in S /\ \A k \in 0 .. (N - 1) : k \in S => k + 1 \in S
        BY <1>6, <1>8
    <2> HIDE DEF S
    <2>2. \A k \in 0 .. N : k \in S
        BY <1>0, <2>1, CountingUp
    <2> QED BY <2>2 DEF S
<1> DEFINE a == [k \in 0 .. N |-> f[k].at]
<1>10. Descends(T, rank, a)
    <2>1. a \in [0 .. N -> T \cup {NULL}]
        BY <1>9 DEF Descents
    <2>2. ASSUME NEW k \in 1 .. N, a[k] # NULL
          PROVE  a[k - 1] # NULL /\ rank[a[k]] < rank[a[k - 1]]
        <3>1. k - 1 \in 0 .. (N - 1) /\ k - 1 \in 0 .. N /\ k \in 0 .. N /\ (k - 1) + 1 = k
            BY <1>0
        <3>2. f[k] = Deeper(mem, f[k - 1], n) /\ Fair(f[k - 1])
            BY <1>5, <1>9, <3>1
        <3>3. a[k] = f[k].at /\ a[k - 1] = f[k - 1].at
            BY <3>1
        <3>4. f[k - 1].at # NULL
            BY <2>2, <3>2, <3>3, Zenon DEF Deeper
        <3> HIDE DEF Fair, a
        <3>5. PICK e \in Sides : f[k].at = mem[f[k - 1].at][e] /\ f[k - 1].at \in T
            BY <1>7, <3>2, <3>4
        <3> QED BY <1>1, <2>2, <3>3, <3>4, <3>5
    <2> HIDE DEF a
    <2> QED BY <2>1, <2>2 DEF Descends
<1>11. a[N] = NULL
    <2> HIDE DEF a
    <2> QED BY <1>1, <1>10, Lands
<1>12. N \in 0 .. N /\ Fair(f[N]) /\ f[N].at = NULL
    BY <1>0, <1>9, <1>11
<1>13. Free(T, c, f[N].parent, f[N].side)
    BY <1>12 DEF Free, Descents
<1> QED BY <1>2, <1>13

\* The new element n hangs below p.
Addition(T, c, up, red, h, t, Z, d, vp, r, h2, n, p, s) ==
    /\ Resting(T, c, up, red, h, t) /\ p \in T \cup {NULL} /\ s \in Sides
    /\ n \in Nodes \ T /\ waits[n] = {} /\ Z = T \cup {n} /\ Hung(T, c, d, p, s, n)
    /\ Fits(Z, d, vp, r, h2, n, NULL, t)' /\ w'.pc = "insert"

LEMMA InsertLinkFinds ==
    ASSUME TreeInv, NEW o \in Inserts, InsertLink(o), NEW n, n = o.node,
           NEW p, p = Spot(n).parent, NEW s, s = Spot(n).side
    PROVE  /\ Typed' /\ Settled' /\ n \in Links
           /\ \E T \in SUBSET Nodes, c \in Memory, up \in Ups, red \in SUBSET Nodes,
                 h \in Heights, t \in Sides, Z \in SUBSET Nodes, d \in Memory, vp \in Ups,
                 r \in SUBSET Nodes, h2 \in Heights :
                Addition(T, c, up, red, h, t, Z, d, vp, r, h2, n, p, s)
<1>1. /\ Begin(o) /\ Unused(n) /\ child' = [child EXCEPT ![n] = Leaf]
      /\ word' = [word EXCEPT ![n] = [up |-> p, color |-> "red"]]
      /\ todo' = <<Put(p, s, n)>>
      /\ w' = [Idle EXCEPT !.pc = "insert", !.op = o, !.node = n, !.parent = p]
    BY DEF InsertLink
<1>2. w.pc = "idle" /\ root' = root /\ present' = present /\ waits' = waits
    BY <1>1 DEF Begin
<1>3. /\ todo = <<>> /\ Typed /\ Settled
      /\ \E T \in SUBSET Nodes, c \in Memory, up \in Ups, red \in SUBSET Nodes, h \in Heights,
            t \in Sides : Resting(T, c, up, red, h, t)
    BY <1>2, RestSees
<1>4. PICK T \in SUBSET Nodes, c \in Memory, up \in Ups, red \in SUBSET Nodes, h \in Heights,
           t \in Sides : Resting(T, c, up, red, h, t)
    BY <1>3
<1>5. /\ T = present /\ Linked(T, c, up) /\ Balanced(T, c, red, h, NULL, NULL, t) /\ Held(T, c)
      /\ \A m \in T : up[m] = word[m].up /\ (m \in red <=> IsRed(m))
    BY <1>4 DEF Resting
<1>6. o \in Calls /\ o.kind = "insert" /\ n \in Nodes /\ In(o) = {n} /\ Out(o) = {}
    BY <1>1, CallsAre
<1>7. n \notin T /\ waits[n] = {} /\ NULL \notin Nodes /\ NULL \in Links
    BY <1>1, <1>5, <1>6, NodeAssumption DEF Unused, Links
<1>8. Free(T, c, p, s)
    <2>1. PICK rank : Ranked(T, c, rank)
        BY <1>5, RankExists
    <2>2. c[NULL]["left"] \in T \cup {NULL}
        BY <1>5 DEF Linked, Sides
    <2> QED BY <1>5, <2>1, <2>2, SpotIs
<1>9. p \in T \cup {NULL} /\ s \in Sides /\ c[p][s] = NULL /\ (p = NULL => s = "left")
    BY <1>8 DEF Free
<1>10. \A m \in T, e \in Sides : child[m][e] = c[m][e]
    <2>1. Held(T, c)
        BY <1>5
    <2> QED BY <2>1, HeldAre
<1> PICK Z : Z = T \cup {n}
    OBVIOUS
<1> PICK d : d = [m \in Links |-> [e \in Sides |-> IF m = n THEN NULL
                                                  ELSE IF m = p /\ e = s THEN n ELSE c[m][e]]]
    OBVIOUS
<1> PICK vp : vp = [m \in Nodes |-> IF m = n THEN p ELSE up[m]]
    OBVIOUS
<1> PICK r : r = red \cup {n}
    OBVIOUS
<1> PICK h2 : h2 = [h EXCEPT ![n] = 0]
    OBVIOUS
<1>11. /\ Z \in SUBSET Nodes /\ d \in Memory /\ vp \in Ups /\ r \in SUBSET Nodes /\ h2 \in Heights
    BY <1>6, <1>9 DEF Memory, Ups, Heights, Links
<1>12. \A m \in Z \cup {NULL}, e \in Sides :
         d[m][e] = IF m = n THEN NULL ELSE IF m = p /\ e = s THEN n ELSE c[m][e]
    BY <1>6 DEF Links
<1>13. Hung(T, c, d, p, s, n)
    BY <1>7, <1>9, <1>12 DEF Hung
<1>14. \A m \in T \cup {n} : vp[m] = IF m = n THEN p ELSE up[m]
    BY <1>6
<1>15. Linked(Z, d, vp)
    BY <1>5, <1>6, <1>9, <1>11, <1>13, <1>14, LeafLinked
<1>16. Balanced(Z, d, r, h2, n, NULL, t)
    <2>1. Reddened(T, red, h, r, h2, n)
        BY DEF Reddened
    <2> QED BY <1>5, <1>6, <1>9, <1>11, <1>13, <2>1, LeafBalanced
<1>17. /\ todo' \in Seq(Puts) /\ Stores' = {Put(p, s, n)}
       /\ Put(p, s, n).at = p /\ Put(p, s, n).side = s /\ Put(p, s, n).to = n
    <2>0. p \in Links /\ n \in Links /\ s \in Sides
        BY <1>6, <1>9 DEF Links
    <2>1. /\ Put(p, s, n) \in Puts
          /\ Put(p, s, n).at = p /\ Put(p, s, n).side = s /\ Put(p, s, n).to = n
        BY <2>0, PutsAre
    <2> DEFINE i == Put(p, s, n)
    <2> HIDE DEF i
    <2>2. i \in Puts /\ todo' = <<i>>
        BY <1>1, <2>1 DEF i
    <2>3. todo' \in Seq(Puts) /\ Stores' = {i}
        BY <2>2, OneStore DEF Stores
    <2> QED BY <2>1, <2>3 DEF i
<1>18. Aimed(Z)'
    BY <1>9, <1>17 DEF Aimed
<1>19. /\ child' \in [Nodes -> [Sides -> Links]]
       /\ \A m \in Nodes : child'[m] = IF m = n THEN Leaf ELSE child[m]
    <2>1. child \in [Nodes -> [Sides -> Links]] /\ Leaf \in [Sides -> Links]
        BY <1>3, <1>7 DEF Typed, Leaf
    <2> QED BY <1>1, <1>6, <2>1
<1>20. /\ word' \in Words
       /\ \A m \in Z : vp[m] = word'[m].up /\ (m \in r <=> word'[m].color = "red")
    <2>1. word \in Words /\ p \in Links
        BY <1>3, <1>9 DEF Typed, Links
    <2>2. word' \in Words
        BY <1>1, <1>6, <2>1 DEF Words, Colors
    <2>3. \A m \in Nodes : word'[m] = IF m = n THEN [up |-> p, color |-> "red"] ELSE word[m]
        BY <1>1, <1>6, <2>1 DEF Words
    <2>4. ASSUME NEW m \in Z
          PROVE  vp[m] = word'[m].up /\ (m \in r <=> word'[m].color = "red")
        <3>1. CASE m = n
            BY <1>6, <2>3, <3>1
        <3>2. CASE m # n
            BY <1>5, <1>14, <2>3, <3>2 DEF IsRed
        <3> QED BY <3>1, <3>2
    <2> QED BY <2>2, <2>4
<1>21. Shown(Z, d)'
    <2>1. ASSUME NEW m \in Z \cup {NULL}, NEW e \in Sides
          PROVE  /\ \A st \in Stores' : st.at = m /\ st.side = e => d[m][e] = st.to
                 /\ (\A st \in Stores' : ~(st.at = m /\ st.side = e)) => d[m][e] = Real(m, e)'
        <3>1. CASE m = p /\ e = s
            <4>1. m # n
                BY <1>6, <1>7, <1>9, <3>1
            <4>2. d[m][e] = n
                BY <1>12, <3>1, <4>1
            <4> QED BY <1>17, <3>1, <4>2
        <3>2. CASE ~(m = p /\ e = s)
            <4>1. \A st \in Stores' : ~(st.at = m /\ st.side = e)
                BY <1>17, <3>2
            <4>2. CASE m = n
                <5>1. d[m][e] = NULL /\ m # NULL
                    BY <1>6, <1>7, <1>12, <4>2
                <5>2. child'[m][e] = NULL
                    BY <1>6, <1>19, <4>2 DEF Leaf
                <5> QED BY <4>1, <5>1, <5>2 DEF Real
            <4>3. CASE m # n
                <5>1. d[m][e] = c[m][e] /\ m \in T \cup {NULL}
                    BY <1>12, <3>2, <4>3
                <5>2. Real(m, e)' = Real(m, e)
                    BY <1>2, <1>19, <4>3, <5>1 DEF Real
                <5>3. c[m][e] = Real(m, e)
                    BY <1>5, <5>1 DEF Held
                <5> QED BY <4>1, <5>1, <5>2, <5>3
            <4> QED BY <4>2, <4>3
        <3> QED BY <3>1, <3>2
    <2> QED BY <2>1 DEF Shown
<1>22. w' \in Writers /\ w'.op = o /\ w'.pc = "insert" /\ w'.node = n /\ w'.parent = p
    <2>1. p \in Links /\ n \in Links
        BY <1>6, <1>9 DEF Links
    <2> QED BY <1>1, <1>6, <1>7, <2>1 DEF Idle, Writers, Places, Sides
<1>23. Typed' /\ Settled' /\ Members' = Z
    <2>1. Z = (present \cup In(o)) \ Out(o)
        BY <1>5, <1>6
    <2>2. \A m \in In(o) : waits[m] = {}
        BY <1>6, <1>7
    <2> QED BY <1>1, <1>3, <1>6, <1>17, <1>18, <1>19, <1>20, <1>22, <2>1, <2>2, CallBegins
<1>24. Worded(Z, d, vp, r, t)'
    BY <1>20, <1>22 DEF Worded, Lifting, IsRed
<1>25. Standing(Z, d, vp, r, n, NULL, t)'
    <2>1. vp[n] = p /\ n \in Z /\ n \in r
        BY <1>14
    <2> QED BY <1>22, <2>1 DEF Standing, Lifting
<1>26. Fits(Z, d, vp, r, h2, n, NULL, t)'
    BY <1>15, <1>16, <1>21, <1>23, <1>24, <1>25 DEF Fits
<1>27. n \in Links
    BY <1>6 DEF Links
<1>28. Addition(T, c, up, red, h, t, Z, d, vp, r, h2, n, p, s)
    <2>1. /\ p \in T \cup {NULL} /\ s \in Sides /\ n \in Nodes \ T /\ waits[n] = {}
          /\ Z = T \cup {n} /\ w'.pc = "insert"
        BY <1>6, <1>7, <1>9, <1>22
    <2> QED BY <1>4, <1>13, <1>26, <2>1, Zenon DEF Addition
<1> QED BY <1>11, <1>23, <1>27, <1>28, Zenon

LEMMA InsertLinkKeeps == TreeInv /\ (\E o \in Inserts : InsertLink(o)) => TreeInv'
<1> SUFFICES ASSUME TreeInv, NEW o \in Inserts, InsertLink(o) PROVE TreeInv'
    OBVIOUS
<1> PICK n : n = o.node
    OBVIOUS
<1> PICK p : p = Spot(n).parent
    OBVIOUS
<1> PICK s : s = Spot(n).side
    OBVIOUS
<1>1. /\ Typed' /\ Settled' /\ n \in Links
      /\ \E T \in SUBSET Nodes, c \in Memory, up \in Ups, red \in SUBSET Nodes,
            h \in Heights, t \in Sides, Z \in SUBSET Nodes, d \in Memory, vp \in Ups,
            r \in SUBSET Nodes, h2 \in Heights :
           Addition(T, c, up, red, h, t, Z, d, vp, r, h2, n, p, s)
    BY InsertLinkFinds
<1>2. PICK Z \in SUBSET Nodes, d \in Memory, vp \in Ups, r \in SUBSET Nodes, h2 \in Heights,
           t \in Sides : Fits(Z, d, vp, r, h2, n, NULL, t)'
    BY <1>1 DEF Addition
<1>3. NULL \in Links
    BY DEF Links
<1> QED BY <1>1, <1>2, <1>3 DEF TreeInv

-----------------------------------------------------------------------------
(* An erasure with two children: the successor is taken out of its place,  *)
(* and then takes that of the element.                                     *)

\* v, on side k of its parent and without a left child, is to take z's place.
Successor(T, c, up, z, k, g, j, v) ==
    /\ z \in T /\ v \in T /\ v # z /\ c[v]["left"] = NULL /\ c[v]["right"] # z
    /\ k \in Sides /\ c[up[v]][k] = v
    /\ g = up[z] /\ j \in Sides /\ c[g][j] = z /\ g # v

\* The tree after it; b is the child v had.
Succeeded(T, c, up, red, d, vp, r, z, k, g, j, v, b) ==
    /\ \A m \in (T \ {z}) \cup {NULL}, e \in Sides :
         d[m][e] = IF m = v THEN IF up[v] = z /\ e = k THEN b ELSE c[z][e]
                   ELSE IF m = g /\ e = j THEN v
                   ELSE IF m = up[v] /\ e = k THEN b ELSE c[m][e]
    /\ \A m \in T \ {z} :
         vp[m] = IF m = v THEN g
                 ELSE IF (IF m = b THEN up[v] ELSE up[m]) = z THEN v
                 ELSE IF m = b THEN up[v] ELSE up[m]
    /\ \A m \in T \ {z} : m \in r <=> IF m = v THEN z \in red ELSE m \in red /\ m # b

\* The place a black element may be missing at.
Place(up, red, z, v, b) ==
    IF b = NULL /\ v \notin red THEN IF up[v] = z THEN v ELSE up[v] ELSE NULL
PlaceSide(red, k, v, b, t) == IF b = NULL /\ v \notin red THEN k ELSE t

LEMMA SuccessorTree ==
    ASSUME NEW T \in SUBSET Nodes, NEW c \in Memory, NEW up \in Ups, Linked(T, c, up),
           NEW red \in SUBSET Nodes, NEW h \in Heights, NEW t \in Sides,
           Balanced(T, c, red, h, NULL, NULL, t),
           NEW z, NEW k, NEW g, NEW j, NEW v, Successor(T, c, up, z, k, g, j, v),
           NEW b, b = c[v]["right"]
    PROVE  \E d \in Memory, vp \in Ups, r \in SUBSET Nodes, h2 \in Heights :
             /\ Succeeded(T, c, up, red, d, vp, r, z, k, g, j, v, b)
             /\ Linked(T \ {z}, d, vp)
             /\ Balanced(T \ {z}, d, r, h2, NULL, Place(up, red, z, v, b), PlaceSide(red, k, v, b, t))
<1>1. /\ z \in T /\ v \in T /\ v # z /\ c[v]["left"] = NULL /\ c[v]["right"] # z
      /\ k \in Sides /\ c[up[v]][k] = v
      /\ g = up[z] /\ j \in Sides /\ c[g][j] = z /\ g # v
    BY DEF Successor
<1>2. NULL \notin Nodes /\ NULL \in Links /\ "left" \in Sides /\ "right" \in Sides
      /\ Other("right") = "left"
    BY NodeAssumption DEF Links, Sides, Other
<1>b. b = c[v]["right"]
    OBVIOUS
<1>3. /\ b \in T \cup {NULL} /\ b # v /\ b # z /\ b \in Links
      /\ up[v] \in T \cup {NULL} /\ up[v] # v /\ g \in T \cup {NULL} /\ g # z
    <2>1. b # NULL => b \in T /\ up[b] = v
        BY <1>1, <1>2 DEF Linked
    <2>2. b # NULL => b # v
        BY <2>1 DEF Linked
    <2> QED BY <1>1, <1>2, <2>1, <2>2 DEF Linked, Links
\* First v is taken out.
<1>u. PICK U : U = T \ {v}
    OBVIOUS
<1>d. PICK d1 : d1 = [m \in Links |-> [e \in Sides |-> IF m = up[v] /\ e = k THEN b ELSE c[m][e]]]
    OBVIOUS
<1>p. PICK p1 : p1 = [m \in Nodes |-> IF m = b THEN up[v] ELSE up[m]]
    OBVIOUS
<1>r. PICK r1 : r1 = {m \in red : m # b}
    OBVIOUS
<1>h. PICK h1 : h1 = [h EXCEPT ![b] = IF b = NULL THEN 0 ELSE 1]
    OBVIOUS
<1>4. /\ U \in SUBSET Nodes /\ d1 \in Memory /\ p1 \in Ups /\ r1 \in SUBSET Nodes /\ h1 \in Heights
    BY <1>1, <1>3, <1>u, <1>d, <1>p, <1>r, <1>h DEF Memory, Ups, Heights, Links
<1>5. \A m \in T \cup {NULL}, e \in Sides : d1[m][e] = IF m = up[v] /\ e = k THEN b ELSE c[m][e]
    BY <1>d DEF Links
<1>6. Unlinked(T, c, up, d1, v, "right", k)
    BY <1>1, <1>2, <1>5 DEF Unlinked
<1>7. Linked(U, d1, p1)
    <2>1. Adopted(T, c, up, p1, v, "right")
        BY <1>p DEF Adopted
    <2>2. NoTwoCycle(T, c, up)
        BY NotAbove
    <2>3. Linked(T \ {v}, d1, p1)
        BY <1>1, <1>2, <1>4, <1>6, <2>1, <2>2, UnlinkLinked
    <2> QED BY <1>u, <2>3
<1>8. Settles(T, c, up, d1, red, r1, h1, v, "right", k)
    <2>1. Blackened(T, c, red, h, r1, h1, v, "right")
        BY <1>r, <1>h DEF Blackened
    <2> QED BY <1>1, <1>2, <1>4, <1>6, <2>1, UnlinkBalanced
<1>y. PICK y1 : y1 = IF b = NULL /\ v \notin red THEN up[v] ELSE NULL
    OBVIOUS
<1>t. PICK t1 : t1 = IF b = NULL /\ v \notin red THEN k ELSE t
    OBVIOUS
<1>9. Balanced(U, d1, r1, h1, NULL, y1, t1) /\ y1 \in U \cup {NULL}
    <2>1. b # NULL \/ v \in red => Balanced(U, d1, r1, h1, NULL, NULL, t)
        BY <1>8, <1>u DEF Settles
    <2>2. b = NULL /\ v \notin red => Balanced(U, d1, r1, h1, NULL, up[v], k)
        BY <1>8, <1>u DEF Settles
    <2>3. CASE b = NULL /\ v \notin red
        BY <1>3, <1>u, <1>y, <1>t, <2>2, <2>3
    <2>4. CASE ~(b = NULL /\ v \notin red)
        BY <1>y, <1>t, <2>1, <2>4
    <2> QED BY <2>3, <2>4
\* Then it takes the place of z.
<1>z. PICK Z : Z = T \ {z}
    OBVIOUS
<1>10. z \in U /\ v \in Nodes /\ v \notin U /\ Z = (U \ {z}) \cup {v} /\ p1[z] = g
    BY <1>1, <1>3, <1>u, <1>p, <1>z
<1>D. PICK d : d = [m \in Links |-> [e \in Sides |-> IF m = v THEN d1[z][e]
                                                  ELSE IF m = g /\ e = j THEN v ELSE d1[m][e]]]
    OBVIOUS
<1>P. PICK vp : vp = [m \in Nodes |-> IF m = v THEN g ELSE IF p1[m] = z THEN v ELSE p1[m]]
    OBVIOUS
<1>R. PICK r : r = {m \in Nodes : IF m = v THEN z \in r1 ELSE m \in r1}
    OBVIOUS
<1>H. PICK h2 : h2 = [h1 EXCEPT ![v] = h1[z]]
    OBVIOUS
<1>11. /\ Z \in SUBSET Nodes /\ d \in Memory /\ vp \in Ups /\ r \in SUBSET Nodes /\ h2 \in Heights
    <2>1. d \in Memory
        BY <1>1, <1>4, <1>10, <1>D DEF Memory, Links
    <2>2. vp \in Ups
        BY <1>1, <1>3, <1>4, <1>10, <1>P DEF Ups, Links
    <2>3. h2 \in Heights
        BY <1>1, <1>4, <1>10, <1>H DEF Heights, Links
    <2> QED BY <1>z, <1>R, <2>1, <2>2, <2>3
<1>12. \A m \in Z \cup {NULL}, e \in Sides :
         d[m][e] = IF m = v THEN d1[z][e] ELSE IF m = g /\ e = j THEN v ELSE d1[m][e]
    BY <1>1, <1>z, <1>D DEF Links
<1>13. Substituted(U, d1, p1, d, z, v, j)
    <2>1. d1[g][j] = z
        <3>1. ~(g = up[v] /\ j = k)
            BY <1>1
        <3>2. g \in T \cup {NULL} /\ j \in Sides
            BY <1>1, <1>3
        <3>3. d1[g][j] = c[g][j]
            BY <1>5, <3>1, <3>2
        <3> QED BY <1>1, <3>3
    <2>2. ASSUME NEW m \in (U \ {z}) \cup {v, NULL}, NEW e \in Sides
          PROVE  d[m][e] = IF m = v THEN d1[z][e] ELSE IF m = p1[z] /\ e = j THEN v ELSE d1[m][e]
        <3>1. m \in Z \cup {NULL}
            BY <1>10
        <3>2. d[m][e] = IF m = v THEN d1[z][e] ELSE IF m = g /\ e = j THEN v ELSE d1[m][e]
            BY <1>12, <3>1
        <3>3. p1[z] = g
            BY <1>10
        <3> QED BY <3>2, <3>3
    <2> QED BY <1>10, <2>1, <2>2 DEF Substituted
<1>14. Linked(Z, d, vp)
    <2>1. Inherited(U, p1, vp, z, v)
        BY <1>4, <1>10, <1>P DEF Inherited
    <2>2. Linked((U \ {z}) \cup {v}, d, vp)
        BY <1>1, <1>4, <1>7, <1>10, <1>11, <1>13, <2>1, SubstituteLinked
    <2> QED BY <1>10, <2>2
<1>Y. PICK y2 : y2 = IF y1 = z THEN v ELSE y1
    OBVIOUS
<1>15. Balanced(Z, d, r, h2, NULL, y2, t1)
    <2>1. Repainted(U, r1, h1, r, h2, z, v)
        BY <1>4, <1>10, <1>R, <1>H DEF Repainted
    <2>2. y1 # NULL => y1 \in U
        BY <1>9
    <2>3. Balanced((U \ {z}) \cup {v}, d, r, h2, NULL, y2, t1)
        <3>1. z \in U /\ v \in Nodes /\ v \notin U /\ j \in Sides
            BY <1>1, <1>10
        <3>2. Linked(U, d1, p1) /\ Balanced(U, d1, r1, h1, NULL, y1, t1)
            BY <1>7, <1>9
        <3>3. y2 = IF y1 = z THEN v ELSE y1
            BY <1>Y
        <3> QED BY <1>4, <1>11, <1>13, <2>1, <2>2, <3>1, <3>2, <3>3, SubstituteBalanced
    <2> QED BY <1>10, <2>3
<1>16. y2 = Place(up, red, z, v, b) /\ t1 = PlaceSide(red, k, v, b, t)
    <2>1. NULL # z
        BY <1>1, <1>2
    <2> QED BY <1>y, <1>t, <1>Y, <2>1 DEF Place, PlaceSide
<1>17. Succeeded(T, c, up, red, d, vp, r, z, k, g, j, v, b)
    <2>1. ASSUME NEW m \in (T \ {z}) \cup {NULL}, NEW e \in Sides
          PROVE  d[m][e] = IF m = v THEN IF up[v] = z /\ e = k THEN b ELSE c[z][e]
                           ELSE IF m = g /\ e = j THEN v
                           ELSE IF m = up[v] /\ e = k THEN b ELSE c[m][e]
        <3>1. d1[z][e] = IF up[v] = z /\ e = k THEN b ELSE c[z][e]
            BY <1>1, <1>5
        <3>2. d1[m][e] = IF m = up[v] /\ e = k THEN b ELSE c[m][e]
            BY <1>5
        <3>3. d[m][e] = IF m = v THEN d1[z][e] ELSE IF m = g /\ e = j THEN v ELSE d1[m][e]
            BY <1>12, <1>z
        <3> QED BY <3>1, <3>2, <3>3
    <2>2. ASSUME NEW m \in T \ {z}
          PROVE  vp[m] = IF m = v THEN g ELSE IF (IF m = b THEN up[v] ELSE up[m]) = z THEN v
                         ELSE IF m = b THEN up[v] ELSE up[m]
        BY <1>p, <1>P
    <2>3. ASSUME NEW m \in T \ {z} PROVE m \in r <=> IF m = v THEN z \in red ELSE m \in red /\ m # b
        BY <1>1, <1>3, <1>r, <1>R
    <2> QED BY <2>1, <2>2, <2>3 DEF Succeeded
<1> QED BY <1>z, <1>11, <1>14, <1>15, <1>16, <1>17

\* The elements around z and its successor v: z's children l and r, v's child b, the
\* parent q of what b takes the place of.
Splice(T, c, up, z, r, l, v, b, q, k, g, j) ==
    /\ Successor(T, c, up, z, k, g, j, v)
    /\ c[z]["left"] = l /\ c[z]["right"] = r /\ c[v]["right"] = b
    /\ l \in T /\ r \in T /\ b \in T \cup {NULL} /\ up[l] = z /\ up[r] = z
    /\ b # NULL => up[b] = v
    /\ l # r /\ l # v /\ b # l /\ b # r /\ b # v /\ b # z
    /\ (v = r <=> up[v] = z) /\ up[v] \in T
    /\ q = IF v = r THEN v ELSE up[v]
    /\ k = IF v = r THEN "right" ELSE "left"

LEMMA SpliceFound ==
    ASSUME NEW T \in SUBSET Nodes, NEW c \in Memory, NEW up \in Ups, Linked(T, c, up),
           NEW rank, Ranked(T, c, rank), NEW z \in T, NEW l, NEW r, NEW v, NEW b, NEW q,
           NEW k, NEW g, NEW j \in Sides,
           l = c[z]["left"], r = c[z]["right"], l # NULL, r # NULL,
           LastBelow(T, c, rank, r, "left", v), b = c[v]["right"],
           q = IF v = r THEN v ELSE up[v], k = IF v = r THEN "right" ELSE "left",
           g = up[z], c[g][j] = z
    PROVE  Splice(T, c, up, z, r, l, v, b, q, k, g, j)
<1>0. /\ NULL \notin T /\ "left" \in Sides /\ "right" \in Sides
      /\ \A m \in T : rank[m] \in Nat
    BY NodeAssumption DEF Sides, Ranked, Links
<1>1. \A n \in T, s \in Sides : c[n][s] # NULL => /\ c[n][s] \in T /\ up[c[n][s]] = n
                                                  /\ rank[c[n][s]] < rank[n]
    BY DEF Linked, Ranked
<1>2. /\ v \in T /\ c[v]["left"] = NULL /\ rank[v] <= rank[r]
      /\ v # r => \E p \in T : c[p]["left"] = v /\ rank[p] <= rank[r]
    BY DEF LastBelow
<1>3. /\ l \in T /\ r \in T /\ up[l] = z /\ up[r] = z /\ rank[r] < rank[z] /\ rank[l] < rank[z]
    BY <1>0, <1>1
<1>4. /\ v # z /\ rank[v] < rank[z]
    BY <1>0, <1>2, <1>3
<1>5. /\ b \in T \cup {NULL}
      /\ b # NULL => up[b] = v /\ rank[b] < rank[v]
    BY <1>0, <1>1, <1>2
<1>6. b # z /\ b # v
    BY <1>0, <1>2, <1>4, <1>5
<1>7. \A m, n \in T \cup {NULL}, e, f \in Sides :
        c[m][e] = c[n][f] /\ c[m][e] # NULL => m = n /\ e = f
    <2>1. Once(T, c)
        BY OneSide
    <2> QED BY <2>1 DEF Once
<1>8. l # r
    <2>1. l = r => "left" = "right"
        BY <1>0, <1>3, <1>7
    <2> QED BY <2>1
<1>9. b # l /\ b # r
    BY <1>0, <1>3, <1>4, <1>5
<1>10. g # v
    <2>1. g \in T \cup {NULL}
        BY DEF Linked
    <2>2. g # NULL => rank[z] < rank[g]
        BY <1>0, <1>1, <2>1
    <2> QED BY <1>0, <1>2, <1>4, <2>1, <2>2
<1>11. /\ c[up[v]][k] = v /\ up[v] \in T /\ k \in Sides /\ (v = r <=> up[v] = z) /\ l # v
    <2>1. CASE v = r
        BY <1>0, <1>3, <1>8, <2>1
    <2>2. CASE v # r
        <3>1. PICK p \in T : c[p]["left"] = v /\ rank[p] <= rank[r]
            BY <1>2, <2>2
        <3>2. up[v] = p /\ p # z
            <4>1. up[v] = p
                BY <1>0, <1>1, <1>2, <3>1
            <4>2. p # z
                BY <1>0, <1>3, <3>1
            <4> QED BY <4>1, <4>2
        <3>3. l # v
            BY <1>3, <3>2
        <3> QED BY <1>0, <2>2, <3>1, <3>2, <3>3
    <2> QED BY <2>1, <2>2
<1>12. Successor(T, c, up, z, k, g, j, v)
    BY <1>2, <1>4, <1>6, <1>10, <1>11 DEF Successor
<1> QED BY <1>2, <1>3, <1>5, <1>6, <1>8, <1>9, <1>11, <1>12 DEF Splice

\* The words before the child of the successor is told of its parent.
Moved(words, z, r, l, v) ==
    [(IF v = r THEN words ELSE [words EXCEPT ![r].up = v]) EXCEPT ![l].up = v, ![v] = words[z]]

AsMoved(words, z, r, l, v, moved) ==
    /\ moved \in Words
    /\ \A m \in Nodes : /\ moved[m].up = IF m = v THEN words[z].up
                                        ELSE IF m = l \/ m = r THEN v ELSE words[m].up
                       /\ moved[m].color = IF m = v THEN words[z].color ELSE words[m].color

LEMMA MovedIs ==
    ASSUME NEW words \in Words, NEW z \in Nodes, NEW r \in Nodes, NEW l \in Nodes,
           NEW v \in Nodes, l # v, l # r,
           NEW moved, moved = Moved(words, z, r, l, v)
    PROVE  AsMoved(words, z, r, l, v, moved)
<1>b. PICK base : base = IF v = r THEN words ELSE [words EXCEPT ![r].up = v]
    OBVIOUS
<1>1. v \in Links
    BY DEF Links
<1>2. /\ base \in Words
      /\ \A m \in Nodes : base[m] = IF m = r /\ v # r THEN [words[m] EXCEPT !.up = v] ELSE words[m]
    <2>1. CASE v = r
        BY <1>b, <2>1
    <2>2. CASE v # r
        <3>1. base = [words EXCEPT ![r].up = v]
            BY <1>b, <2>2
        <3> QED BY <1>1, <2>2, <3>1 DEF Words
    <2> QED BY <2>1, <2>2
<1>3. moved = [base EXCEPT ![l].up = v, ![v] = words[z]]
    BY <1>b DEF Moved
<1>4. moved \in Words
    BY <1>1, <1>2, <1>3 DEF Words
<1>5. \A m \in Nodes : moved[m] = IF m = v THEN words[z]
                                  ELSE IF m = l THEN [base[m] EXCEPT !.up = v] ELSE base[m]
    BY <1>2, <1>3 DEF Words
<1>6. \A m \in Nodes : words[m] \in [up : Links, color : Colors]
    BY DEF Words
<1>7. ASSUME NEW m \in Nodes
      PROVE  /\ moved[m].up = IF m = v THEN words[z].up
                               ELSE IF m = l \/ m = r THEN v ELSE words[m].up
             /\ moved[m].color = IF m = v THEN words[z].color ELSE words[m].color
    <2>1. CASE m = v
        BY <1>5, <2>1
    <2>2. CASE m # v /\ m = l
        <3>1. moved[m] = [words[m] EXCEPT !.up = v]
            BY <1>2, <1>5, <2>2
        <3>2. words[m] \in [up : Links, color : Colors]
            BY <1>6
        <3> QED BY <2>2, <3>1, <3>2
    <2>3. CASE m # v /\ m # l /\ m = r
        <3>1. moved[m] = [words[m] EXCEPT !.up = v]
            BY <1>2, <1>5, <2>3
        <3>2. words[m] \in [up : Links, color : Colors]
            BY <1>6
        <3> QED BY <2>3, <3>1, <3>2
    <2>4. CASE m # v /\ m # l /\ m # r
        <3>1. moved[m] = words[m]
            BY <1>2, <1>5, <2>4
        <3> QED BY <2>4, <3>1
    <2> QED BY <2>1, <2>2, <2>3, <2>4
<1> QED BY <1>4, <1>7 DEF AsMoved

LEMMA FourStores ==
    ASSUME NEW a \in Puts, NEW b \in Puts, NEW e \in Puts, NEW f \in Puts
    PROVE  /\ <<a, b>> \o <<e, f>> \in Seq(Puts)
           /\ {(<<a, b>> \o <<e, f>>)[i] : i \in 1 .. Len(<<a, b>> \o <<e, f>>)} = {a, b, e, f}
OBVIOUS

LEMMA NoStoresFirst ==
    ASSUME NEW e \in Puts, NEW f \in Puts
    PROVE  /\ <<>> \o <<e, f>> \in Seq(Puts)
           /\ {(<<>> \o <<e, f>>)[i] : i \in 1 .. Len(<<>> \o <<e, f>>)} = {e, f}
OBVIOUS

\* The stores of an erasure with two children.
Spliced(z, r, l, v, b, q, g, j) ==
    {Put(v, "left", l), Put(g, j, v)}
      \cup (IF v = r THEN {} ELSE {Put(q, "left", b), Put(v, "right", r)})

\* Memory after them.
LEMMA SpliceShown ==
    ASSUME NEW T \in SUBSET Nodes, NEW c, NEW up, Linked(T, c, up), NEW red, NEW d, NEW vp, NEW reds,
           NEW z, NEW r, NEW l, NEW v, NEW b, NEW q, NEW k, NEW g, NEW j,
           Splice(T, c, up, z, r, l, v, b, q, k, g, j), g \in T \cup {NULL},
           Succeeded(T, c, up, red, d, vp, reds, z, k, g, j, v, b),
           Held(T, c), Stores' = Spliced(z, r, l, v, b, q, g, j),
           child' = child, root' = root
    PROVE  Shown(T \ {z}, d)'
<1>1. /\ z \in T /\ v \in T /\ v # z /\ c[v]["left"] = NULL
      /\ k \in Sides /\ c[up[v]][k] = v /\ j \in Sides /\ c[g][j] = z /\ g # v
    BY DEF Splice, Successor
<1>2. /\ c[z]["left"] = l /\ c[z]["right"] = r /\ c[v]["right"] = b
      /\ l \in T /\ r \in T /\ b \in T \cup {NULL} /\ (v = r <=> up[v] = z) /\ up[v] \in T
      /\ q = IF v = r THEN v ELSE up[v]
      /\ k = IF v = r THEN "right" ELSE "left"
    BY DEF Splice
<1>3. \A m \in (T \ {z}) \cup {NULL}, e \in Sides :
         d[m][e] = IF m = v THEN IF up[v] = z /\ e = k THEN b ELSE c[z][e]
                   ELSE IF m = g /\ e = j THEN v
                   ELSE IF m = up[v] /\ e = k THEN b ELSE c[m][e]
    BY DEF Succeeded
<1>4. \A m \in Links, e \in Sides, n \in Links :
        Put(m, e, n).at = m /\ Put(m, e, n).side = e /\ Put(m, e, n).to = n
    BY PutsAre
<1>5. "left" \in Sides /\ "right" \in Sides /\ \A e \in Sides : e = "left" \/ e = "right"
    BY DEF Sides
<1>6. /\ z \in Links /\ r \in Links /\ l \in Links /\ v \in Links /\ b \in Links /\ g \in Links
      /\ up[v] \in Links /\ q \in Links /\ NULL \notin T
    BY <1>1, <1>2, NodeAssumption DEF Links
<1> DEFINE P1 == Put(v, "left", l)
           P2 == Put(g, j, v)
           P3 == Put(q, "left", b)
           P4 == Put(v, "right", r)
<1>7. /\ P1.at = v /\ P1.side = "left" /\ P1.to = l
      /\ P2.at = g /\ P2.side = j /\ P2.to = v
      /\ P3.at = q /\ P3.side = "left" /\ P3.to = b
      /\ P4.at = v /\ P4.side = "right" /\ P4.to = r
    BY <1>1, <1>4, <1>5, <1>6
<1>8. Stores' = IF v = r THEN {P1, P2} ELSE {P1, P2, P3, P4}
    BY DEF Spliced
<1> HIDE DEF P1, P2, P3, P4
<1>10. up[v] # v
    BY <1>1 DEF Linked
<1>9. ASSUME NEW m \in (T \ {z}) \cup {NULL}, NEW e \in Sides
      PROVE  /\ \A st \in Stores' : st.at = m /\ st.side = e => d[m][e] = st.to
             /\ (\A st \in Stores' : ~(st.at = m /\ st.side = e)) => d[m][e] = Real(m, e)'
    <2>0. Real(m, e)' = Real(m, e) /\ c[m][e] = Real(m, e)
        BY DEF Real, Held
    <2>1. CASE m = v
        <3>1. d[m][e] = IF up[v] = z /\ e = k THEN b ELSE c[z][e]
            BY <1>3, <2>1
        <3>2. CASE e = "left"
            <4>1. d[m][e] = l
                BY <1>2, <3>1, <3>2
            <4>2. P1 \in Stores' /\ \A st \in Stores' : st.at = m /\ st.side = e => st = P1
                <5>1. v # r => P3.at # v
                    BY <1>2, <1>7, <1>10
                <5> QED BY <1>1, <1>7, <1>8, <2>1, <3>2, <5>1
            <4> QED BY <1>7, <2>1, <3>2, <4>1, <4>2
        <3>3. CASE e = "right" /\ v = r
            <4>1. d[m][e] = b /\ c[m][e] = b
                BY <1>2, <2>1, <3>1, <3>3
            <4>2. \A st \in Stores' : ~(st.at = m /\ st.side = e)
                BY <1>1, <1>7, <1>8, <2>1, <3>3
            <4> QED BY <2>0, <4>1, <4>2
        <3>4. CASE e = "right" /\ v # r
            <4>1. d[m][e] = r
                BY <1>2, <3>1, <3>4
            <4>2. P4 \in Stores' /\ \A st \in Stores' : st.at = m /\ st.side = e => st = P4
                BY <1>1, <1>7, <1>8, <2>1, <3>4
            <4> QED BY <1>7, <2>1, <3>4, <4>1, <4>2
        <3> QED BY <1>5, <3>2, <3>3, <3>4
    <2>2. CASE m # v /\ m = g /\ e = j
        <3>1. d[m][e] = v
            BY <1>3, <2>2
        <3>2. ~(g = up[v] /\ j = k)
            BY <1>1
        <3>3. P2 \in Stores' /\ \A st \in Stores' : st.at = m /\ st.side = e => st = P2
            BY <1>2, <1>7, <1>8, <2>2, <3>2
        <3> QED BY <1>7, <2>2, <3>1, <3>3
    <2>3. CASE m # v /\ ~(m = g /\ e = j) /\ m = up[v] /\ e = k
        <3>1. d[m][e] = b /\ v # r
            BY <1>2, <1>3, <1>6, <2>3
        <3>2. P3 \in Stores' /\ \A st \in Stores' : st.at = m /\ st.side = e => st = P3
            BY <1>2, <1>7, <1>8, <2>3, <3>1
        <3> QED BY <1>2, <1>7, <2>3, <3>1, <3>2
    <2>4. CASE m # v /\ ~(m = g /\ e = j) /\ ~(m = up[v] /\ e = k)
        <3>1. d[m][e] = c[m][e]
            BY <1>3, <2>4
        <3>2. \A st \in Stores' : ~(st.at = m /\ st.side = e)
            BY <1>2, <1>7, <1>8, <2>4
        <3> QED BY <2>0, <3>1, <3>2
    <2> QED BY <2>1, <2>2, <2>3, <2>4
<1> QED BY <1>9 DEF Shown

Told(T, up, red, words) ==
    \A m \in T : up[m] = words[m].up /\ (m \in red <=> words[m].color = "red")

\* The words after an erasure with two children are those of the tree.
LEMMA SpliceWorded ==
    ASSUME NEW T \in SUBSET Nodes, NEW c, NEW up, Linked(T, c, up), NEW red, NEW d, NEW vp, NEW reds,
           NEW z, NEW r, NEW l, NEW v, NEW b, NEW q, NEW k, NEW g, NEW j,
           Splice(T, c, up, z, r, l, v, b, q, k, g, j),
           Succeeded(T, c, up, red, d, vp, reds, z, k, g, j, v, b),
           NEW words \in Words, Told(T, up, red, words),
           NEW w2, w2 = SetParentColor(Moved(words, z, r, l, v), b, q, "black")
    PROVE  w2 \in Words /\ Told(T \ {z}, vp, reds, w2)
<1>1. /\ z \in T /\ v \in T /\ v # z /\ g = up[z]
    BY DEF Splice, Successor
<1>2. /\ c[z]["left"] = l /\ c[z]["right"] = r
      /\ l \in T /\ r \in T /\ b \in T \cup {NULL} /\ (v = r <=> up[v] = z) /\ up[v] \in T
      /\ up[l] = z /\ up[r] = z
      /\ l # r /\ l # v /\ b # l /\ b # r /\ b # v /\ b # z
      /\ q = IF v = r THEN v ELSE up[v]
    BY DEF Splice
<1>3. /\ \A m \in T \ {z} :
         vp[m] = IF m = v THEN g
                 ELSE IF (IF m = b THEN up[v] ELSE up[m]) = z THEN v
                 ELSE IF m = b THEN up[v] ELSE up[m]
      /\ \A m \in T \ {z} : m \in reds <=> IF m = v THEN z \in red ELSE m \in red /\ m # b
    BY DEF Succeeded
<1>m. PICK moved : moved = Moved(words, z, r, l, v)
    OBVIOUS
<1>4. /\ moved \in Words
      /\ \A m \in Nodes : /\ moved[m].up = IF m = v THEN words[z].up
                                          ELSE IF m = l \/ m = r THEN v ELSE words[m].up
                         /\ moved[m].color = IF m = v THEN words[z].color ELSE words[m].color
    <2>1. z \in Nodes /\ r \in Nodes /\ l \in Nodes /\ v \in Nodes /\ l # v /\ l # r
        BY <1>1, <1>2
    <2>2. words \in Words
        OBVIOUS
    <2>3. AsMoved(words, z, r, l, v, moved)
        BY <1>m, <2>1, <2>2, MovedIs
    <2> QED BY <2>3 DEF AsMoved
<1>5. b \in Links /\ q \in Links /\ "black" \in Colors
    BY <1>1, <1>2 DEF Links, Colors
<1>6. w2 = SetParentColor(moved, b, q, "black")
    BY <1>m
<1>7. /\ w2 \in Words
      /\ \A m \in Nodes : w2[m] = IF m = b THEN [up |-> q, color |-> "black"] ELSE moved[m]
    BY <1>4, <1>5, <1>6, SetParentColorIs
<1>8. ASSUME NEW m \in T, up[m] = z PROVE m = l \/ m = r
    <2>1. PICK e \in Sides : c[up[m]][e] = m
        BY DEF Linked
    <2> QED BY <1>2, <1>8, <2>1 DEF Sides
<1>9. ASSUME NEW m \in T \ {z} PROVE vp[m] = w2[m].up /\ (m \in reds <=> w2[m].color = "red")
    <2>1. CASE m = b
        <3>1. w2[m] = [up |-> q, color |-> "black"]
            BY <1>7, <2>1
        <3>2. m # v /\ m \notin reds
            BY <1>2, <1>3, <2>1
        <3>3. vp[m] = q
            BY <1>2, <1>3, <2>1, <3>2
        <3> QED BY <3>1, <3>2, <3>3
    <2>2. CASE m = v
        <3>1. w2[m] = moved[m] /\ vp[m] = g /\ (m \in reds <=> z \in red)
            BY <1>2, <1>3, <1>7, <2>2
        <3>2. moved[m].up = words[z].up /\ moved[m].color = words[z].color
            BY <1>4, <2>2
        <3>3. up[z] = words[z].up /\ (z \in red <=> words[z].color = "red")
            BY <1>1 DEF Told
        <3> QED BY <1>1, <3>1, <3>2, <3>3
    <2>3. CASE m # b /\ m # v
        <3>1. w2[m] = moved[m] /\ vp[m] = (IF up[m] = z THEN v ELSE up[m]) /\ (m \in reds <=> m \in red)
            BY <1>3, <1>7, <2>3
        <3>2. moved[m].up = (IF m = l \/ m = r THEN v ELSE words[m].up)
              /\ moved[m].color = words[m].color
            BY <1>4, <2>3
        <3>3. up[m] = z <=> m = l \/ m = r
            BY <1>2, <1>8
        <3>4. up[m] = words[m].up /\ (m \in red <=> words[m].color = "red")
            BY DEF Told
        <3> QED BY <3>1, <3>2, <3>3, <3>4
    <2> QED BY <2>1, <2>2, <2>3
<1> QED BY <1>7, <1>9 DEF Told

\* The stores themselves.
Queue(r, l, v, b, q, g, j) ==
    (IF v = r THEN <<>> ELSE <<Put(q, "left", b), Put(v, "right", r)>>)
    \o <<Put(v, "left", l), Put(g, j, v)>>

LEMMA SpliceStores ==
    ASSUME NEW T \in SUBSET Nodes, NEW c, NEW up,
           NEW z, NEW r, NEW l, NEW v, NEW b, NEW q, NEW k, NEW g, NEW j,
           Splice(T, c, up, z, r, l, v, b, q, k, g, j), g \in T \cup {NULL}, g = NULL => j = "left",
           g # z,
           todo' = Queue(r, l, v, b, q, g, j)
    PROVE  /\ todo' \in Seq(Puts) /\ Stores' = Spliced(z, r, l, v, b, q, g, j)
           /\ Aimed(T \ {z})'
<1>1. v \in T /\ v # z /\ j \in Sides
    BY DEF Splice, Successor
<1>2. /\ l \in T /\ r \in T /\ b \in T \cup {NULL} /\ up[v] \in T /\ b # z /\ up[l] = z /\ up[r] = z
      /\ (v = r <=> up[v] = z) /\ q = IF v = r THEN v ELSE up[v]
    BY DEF Splice
<1>3. /\ r \in Links /\ l \in Links /\ v \in Links /\ b \in Links /\ g \in Links
      /\ q \in Links /\ NULL \notin T /\ "left" \in Sides /\ "right" \in Sides
    BY <1>1, <1>2, NodeAssumption DEF Links, Sides
<1> DEFINE P1 == Put(v, "left", l)
           P2 == Put(g, j, v)
           P3 == Put(q, "left", b)
           P4 == Put(v, "right", r)
<1>4. /\ P1 \in Puts /\ P2 \in Puts /\ P3 \in Puts /\ P4 \in Puts
      /\ P1.at = v /\ P1.side = "left" /\ P1.to = l
      /\ P2.at = g /\ P2.side = j /\ P2.to = v
      /\ P3.at = q /\ P3.side = "left" /\ P3.to = b
      /\ P4.at = v /\ P4.side = "right" /\ P4.to = r
    BY <1>1, <1>3, PutsAre
<1>5. Spliced(z, r, l, v, b, q, g, j) = {P1, P2} \cup (IF v = r THEN {} ELSE {P3, P4})
    BY DEF Spliced
<1>6. todo' = (IF v = r THEN <<>> ELSE <<P3, P4>>) \o <<P1, P2>>
    BY DEF Queue
<1> HIDE DEF P1, P2, P3, P4
<1>7. todo' \in Seq(Puts) /\ Stores' = Spliced(z, r, l, v, b, q, g, j)
    <2>1. CASE v = r
        <3>1. todo' = <<>> \o <<P1, P2>>
            BY <1>6, <2>1
        <3>2. todo' \in Seq(Puts) /\ Stores' = {P1, P2}
            <4>1. P1 \in Puts /\ P2 \in Puts
                BY <1>4
            <4>2. Stores' = {todo'[i] : i \in 1 .. Len(todo')}
                BY DEF Stores
            <4> QED BY <3>1, <4>1, <4>2, NoStoresFirst
        <3> QED BY <1>5, <2>1, <3>2
    <2>2. CASE v # r
        <3>1. todo' = <<P3, P4>> \o <<P1, P2>>
            BY <1>6, <2>2
        <3>2. todo' \in Seq(Puts) /\ Stores' = {P3, P4, P1, P2}
            <4>1. P1 \in Puts /\ P2 \in Puts /\ P3 \in Puts /\ P4 \in Puts
                BY <1>4
            <4>2. Stores' = {todo'[i] : i \in 1 .. Len(todo')}
                BY DEF Stores
            <4> QED BY <3>1, <4>1, <4>2, FourStores
        <3> QED BY <1>5, <2>2, <3>2
    <2> QED BY <2>1, <2>2
<1>8. l # z /\ r # z
    BY DEF Splice, Successor
<1>9. ASSUME NEW st \in Stores' PROVE (st.at = NULL => st.side = "left") /\ st.to \in (T \ {z}) \cup {NULL}
    <2>1. st \in {P1, P2} \cup (IF v = r THEN {} ELSE {P3, P4})
        BY <1>5, <1>7, <1>9
    <2> QED BY <1>1, <1>2, <1>3, <1>4, <1>8, <2>1
<1> QED BY <1>7, <1>9 DEF Aimed

\* What an erasure with two children does, in its own terms.
ErasesTwo(o, z, r, l, v, b, q) ==
    /\ EraseBegin(o)
    /\ l # NULL /\ r # NULL
    /\ todo' = Queue(r, l, v, b, q, word[z].up, IF word[z].up # NULL /\ child[word[z].up]["left"] # z
                                                THEN "right" ELSE "left")
    /\ word' = SetParentColor(Moved(word, z, r, l, v), b, q, "black")
    /\ Rebalance(o, IF b = NULL /\ ~IsRed(v) THEN q ELSE NULL)

LEMMA EraseTwoDoes ==
    ASSUME NEW o \in Erases, EraseTwo(o),
           NEW z, z = o.node, NEW r, r = child[z]["right"], NEW l, l = child[z]["left"],
           NEW v, v = Deepest(r, "left"), NEW b, b = child[v]["right"],
           NEW q, q = IF v = r THEN v ELSE word[v].up
    PROVE  ErasesTwo(o, z, r, l, v, b, q)
BY Zenon DEF EraseTwo, ErasesTwo, Queue, Moved, ChangeChild, Sides

\* v, the first below z's right child r, takes the place of z.
Succession(T, c, up, red, h, t, Z, d, vp, reds, h2, y, s, z, r, l, v, b, q, k, g, j) ==
    /\ Resting(T, c, up, red, h, t) /\ z \in T /\ Z = T \ {z} /\ g \in T \cup {NULL}
    /\ j \in Sides /\ Splice(T, c, up, z, r, l, v, b, q, k, g, j)
    /\ Succeeded(T, c, up, red, d, vp, reds, z, k, g, j, v, b)
    /\ Fits(Z, d, vp, reds, h2, NULL, y, s)' /\ w'.pc # "outer"

\* The elements an erasure with two children works with.
Roles(o, z, r, l, v, b, q) ==
    /\ z = o.node /\ r = child[z]["right"] /\ l = child[z]["left"]
    /\ v = Deepest(r, "left") /\ b = child[v]["right"]
    /\ q = IF v = r THEN v ELSE word[v].up

LEMMA EraseTwoFinds ==
    ASSUME TreeInv, NEW o \in Erases, EraseTwo(o),
           NEW z, NEW r, NEW l, NEW v, NEW b, NEW q, Roles(o, z, r, l, v, b, q)
    PROVE  /\ Typed' /\ Settled'
           /\ \E T \in SUBSET Nodes, c \in Memory, up \in Ups, red \in SUBSET Nodes,
                 h \in Heights, t \in Sides, Z \in SUBSET Nodes, d \in Memory, vp \in Ups,
                 reds \in SUBSET Nodes, h2 \in Heights, y \in Links, s \in Sides,
                 k \in Sides, g \in Links, j \in Sides :
                Succession(T, c, up, red, h, t, Z, d, vp, reds, h2, y, s,
                           z, r, l, v, b, q, k, g, j)
<1>z. z = o.node
    BY DEF Roles
<1>r. r = child[z]["right"]
    BY DEF Roles
<1>l. l = child[z]["left"]
    BY DEF Roles
<1>v. v = Deepest(r, "left")
    BY DEF Roles
<1>b. b = child[v]["right"]
    BY DEF Roles
<1>q. q = IF v = r THEN v ELSE word[v].up
    BY DEF Roles
<1>0. ErasesTwo(o, z, r, l, v, b, q)
    BY <1>z, <1>r, <1>l, <1>v, <1>b, <1>q, EraseTwoDoes
<1>1. /\ Begin(o) /\ z \in present /\ child' = child
      /\ word' = SetParentColor(Moved(word, z, r, l, v), b, q, "black")
      /\ Rebalance(o, IF b = NULL /\ ~IsRed(v) THEN q ELSE NULL)
      /\ l # NULL /\ r # NULL
    BY <1>0, <1>z DEF ErasesTwo, EraseBegin
<1>2. w.pc = "idle" /\ root' = root /\ present' = present /\ waits' = waits
    BY <1>1 DEF Begin
<1>3. /\ todo = <<>> /\ Typed /\ Settled
      /\ \E T \in SUBSET Nodes, c \in Memory, up \in Ups, red \in SUBSET Nodes, h \in Heights,
            t \in Sides : Resting(T, c, up, red, h, t)
    BY <1>2, RestSees
<1>4. PICK T \in SUBSET Nodes, c \in Memory, up \in Ups, red \in SUBSET Nodes, h \in Heights,
           t \in Sides : Resting(T, c, up, red, h, t)
    BY <1>3
<1>5. /\ T = present /\ Linked(T, c, up) /\ Balanced(T, c, red, h, NULL, NULL, t) /\ Held(T, c)
      /\ \A m \in T : up[m] = word[m].up /\ (m \in red <=> IsRed(m))
    BY <1>4 DEF Resting
<1>6. o \in Calls /\ o.kind = "erase" /\ z \in T /\ In(o) = {} /\ Out(o) = {z}
    BY <1>1, <1>5, <1>z, CallsAre
<1>7. NULL \notin Nodes /\ NULL \in Links /\ "left" \in Sides /\ "right" \in Sides
    BY NodeAssumption DEF Links, Sides
<1>g. PICK g : g = up[z]
    OBVIOUS
<1>8. g \in T \cup {NULL} /\ g # z /\ g = word[z].up
    BY <1>5, <1>6, <1>g DEF Linked
<1>9. \A m \in T, e \in Sides : child[m][e] = c[m][e]
    <2>1. Held(T, c)
        BY <1>5
    <2> QED BY <2>1, HeldAre
<1>10. PICK rank : Ranked(T, c, rank)
    BY <1>5, RankExists
<1>11. l = c[z]["left"] /\ r = c[z]["right"] /\ r \in T
    <2>1. l = c[z]["left"] /\ r = c[z]["right"]
        BY <1>6, <1>7, <1>9, <1>l, <1>r
    <2> QED BY <1>1, <1>5, <1>6, <1>7, <2>1 DEF Linked
<1>12. LastBelow(T, c, rank, r, "left", v)
    <2>1. \A m \in T : child[m]["left"] = c[m]["left"]
        BY <1>7, <1>9
    <2> QED BY <1>7, <1>10, <1>11, <1>v, <2>1, DeepestIs
<1>13. v \in T /\ b = c[v]["right"] /\ q = IF v = r THEN v ELSE up[v]
    <2>1. v \in T
        BY <1>12 DEF LastBelow
    <2> QED BY <1>5, <1>7, <1>9, <1>b, <1>q, <2>1
<1>j. PICK j : j = IF g # NULL /\ child[g]["left"] # z THEN "right" ELSE "left"
    OBVIOUS
<1>14. j \in Sides /\ c[g][j] = z /\ (g = NULL => j = "left")
    <2>1. PICK e \in Sides : c[g][e] = z
        BY <1>5, <1>6, <1>g DEF Linked
    <2>2. CASE g = NULL
        <3>1. j = "left"
            BY <1>j, <2>2
        <3>2. e = "left"
            BY <1>5, <1>6, <1>7, <2>1, <2>2 DEF Linked, Sides
        <3> QED BY <1>7, <2>1, <2>2, <3>1, <3>2
    <2>3. CASE g # NULL
        <3>1. child[g]["left"] = c[g]["left"]
            BY <1>7, <1>8, <1>9, <2>3
        <3>2. e = "left" \/ e = "right"
            BY DEF Sides
        <3>3. CASE c[g]["left"] = z
            BY <1>7, <1>j, <2>3, <3>1, <3>3
        <3>4. CASE c[g]["left"] # z
            <4>1. e = "right" /\ j = "right"
                BY <1>j, <2>1, <2>3, <3>1, <3>2, <3>4
            <4> QED BY <1>7, <2>1, <2>3, <4>1
        <3> QED BY <3>3, <3>4
    <2> QED BY <2>2, <2>3
<1>k. PICK k : k = IF v = r THEN "right" ELSE "left"
    OBVIOUS
<1>15. Splice(T, c, up, z, r, l, v, b, q, k, g, j)
    BY <1>1, <1>5, <1>6, <1>10, <1>11, <1>12, <1>13, <1>14, <1>g, <1>k, SpliceFound
<1>16. Successor(T, c, up, z, k, g, j, v) /\ b = c[v]["right"]
    BY <1>15 DEF Splice
<1>17. PICK d \in Memory, vp \in Ups, reds \in SUBSET Nodes, h2 \in Heights :
         /\ Succeeded(T, c, up, red, d, vp, reds, z, k, g, j, v, b)
         /\ Linked(T \ {z}, d, vp)
         /\ Balanced(T \ {z}, d, reds, h2, NULL, Place(up, red, z, v, b), PlaceSide(red, k, v, b, t))
    BY <1>5, <1>16, SuccessorTree
<1>Z. PICK Z : Z = T \ {z}
    OBVIOUS
<1>y. PICK y : y = Place(up, red, z, v, b)
    OBVIOUS
<1>s. PICK s : s = PlaceSide(red, k, v, b, t)
    OBVIOUS
<1>18. Linked(Z, d, vp) /\ Balanced(Z, d, reds, h2, NULL, y, s) /\ Z \in SUBSET Nodes
    BY <1>17, <1>Z, <1>y, <1>s
<1>19. /\ todo' \in Seq(Puts) /\ Stores' = Spliced(z, r, l, v, b, q, g, j) /\ Aimed(Z)'
    <2>1. todo' = Queue(r, l, v, b, q, g, j)
        BY <1>0, <1>8, <1>j DEF ErasesTwo
    <2>2. /\ todo' \in Seq(Puts) /\ Stores' = Spliced(z, r, l, v, b, q, g, j)
          /\ Aimed(T \ {z})'
        BY <1>8, <1>14, <1>15, <2>1, SpliceStores
    <2> QED BY <1>Z, <2>2
<1>20. Shown(Z, d)'
    <2>1. Linked(T, c, up) /\ Held(T, c) /\ child' = child /\ root' = root
        BY <1>1, <1>2, <1>5
    <2>2. Shown(T \ {z}, d)'
        BY <1>8, <1>15, <1>17, <1>19, <2>1, SpliceShown
    <2> QED BY <1>Z, <2>2
<1>21. /\ word' \in Words
       /\ \A m \in Z : vp[m] = word'[m].up /\ (m \in reds <=> word'[m].color = "red")
    <2>1. PICK words : words = word
        OBVIOUS
    <2>2. words \in Words /\ Told(T, up, red, words)
        BY <1>3, <1>5, <2>1 DEF Typed, IsRed, Told
    <2>3. PICK w2 : w2 = SetParentColor(Moved(words, z, r, l, v), b, q, "black")
        OBVIOUS
    <2>4. w2 \in Words /\ Told(T \ {z}, vp, reds, w2)
        BY <1>5, <1>15, <1>17, <2>2, <2>3, SpliceWorded
    <2>5. word' = w2
        BY <1>1, <2>1, <2>3
    <2> QED BY <1>Z, <2>4, <2>5 DEF Told
<1>22. /\ y = (IF b = NULL /\ v \notin red THEN q ELSE NULL) /\ y \in Z \cup {NULL} /\ s \in Sides
    <2>1. /\ (v = r <=> up[v] = z) /\ up[v] \in T /\ v \in T /\ v # z /\ k \in Sides
          /\ q = IF v = r THEN v ELSE up[v]
        BY <1>15 DEF Splice, Successor
    <2> QED BY <1>Z, <1>y, <1>s, <2>1 DEF Place, PlaceSide
<1>23. /\ w' \in Writers /\ w'.op = o /\ w'.node = NULL
       /\ y = NULL => w'.pc = "done"
       /\ y # NULL => w'.pc = "erase" /\ w'.parent = y
    <2>1. IsRed(v) <=> v \in red
        BY <1>5, <1>13
    <2>2. Rebalance(o, y)
        BY <1>1, <1>22, <2>1
    <2>3. y \in Links
        BY <1>7, <1>18, <1>22 DEF Links
    <2> QED BY <1>6, <2>2, <2>3, RebalanceIs
<1>24. Typed' /\ Settled' /\ Members' = Z
    <2>1. Z = (present \cup In(o)) \ Out(o) /\ \A m \in In(o) : waits[m] = {}
        BY <1>5, <1>6, <1>Z
    <2>2. child' \in [Nodes -> [Sides -> Links]]
        BY <1>1, <1>3 DEF Typed
    <2> QED BY <1>1, <1>3, <1>6, <1>19, <1>21, <1>23, <2>1, <2>2, CallBegins
<1>25. Worded(Z, d, vp, reds, s)'
    BY <1>21, <1>23 DEF Worded, Lifting, IsRed
<1>26. Standing(Z, d, vp, reds, NULL, y, s)'
    <2>1. CASE y = NULL
        BY <1>23, <2>1 DEF Standing, Lifting
    <2>2. CASE y # NULL
        <3>1. b = NULL /\ v \notin red /\ y = q /\ s = k /\ y \in Z
            BY <1>22, <1>s, <2>2 DEF PlaceSide
        <3>2. /\ (v = r <=> up[v] = z) /\ up[v] \in T /\ v \in T /\ v # z /\ k \in Sides
              /\ q = (IF v = r THEN v ELSE up[v]) /\ c[up[v]][k] = v /\ c[g][j] = z
            BY <1>15 DEF Splice, Successor
        <3>3. \A m \in (T \ {z}) \cup {NULL}, e \in Sides :
                d[m][e] = IF m = v THEN IF up[v] = z /\ e = k THEN b ELSE c[z][e]
                          ELSE IF m = g /\ e = j THEN v
                          ELSE IF m = up[v] /\ e = k THEN b ELSE c[m][e]
            BY <1>17 DEF Succeeded
        <3>4. d[y][s] = NULL
            <4>1. CASE v = r
                BY <1>Z, <3>1, <3>2, <3>3, <4>1
            <4>2. CASE v # r
                <5>1. ~(up[v] = g /\ k = j)
                    BY <3>2
                <5>2. up[v] # v
                    BY <1>5, <1>13 DEF Linked
                <5> QED BY <1>Z, <3>1, <3>2, <3>3, <4>2, <5>1, <5>2
            <4> QED BY <4>1, <4>2
        <3>5. NULL \notin reds
            BY <1>7, <1>17
        <3> QED BY <1>23, <2>2, <3>1, <3>4, <3>5 DEF Standing, Lifting
    <2> QED BY <2>1, <2>2
<1>27. Fits(Z, d, vp, reds, h2, NULL, y, s)'
    BY <1>18, <1>20, <1>24, <1>25, <1>26 DEF Fits
<1>28. y \in Links
    BY <1>7, <1>18, <1>22 DEF Links
<1>29. Succession(T, c, up, red, h, t, Z, d, vp, reds, h2, y, s, z, r, l, v, b, q, k, g, j)
    <2>1. w'.pc # "outer"
        BY <1>23
    <2>2. Succeeded(T, c, up, red, d, vp, reds, z, k, g, j, v, b)
        BY <1>17
    <2> QED BY <1>4, <1>6, <1>8, <1>14, <1>15, <1>27, <1>Z, <2>1, <2>2, Zenon DEF Succession
<1>30. k \in Sides /\ g \in Links /\ Z \in SUBSET Nodes /\ s \in Sides
    BY <1>7, <1>8, <1>18, <1>22, <1>k DEF Links
<1> QED BY <1>14, <1>24, <1>28, <1>29, <1>30, Zenon

LEMMA EraseTwoKeeps == TreeInv /\ (\E o \in Erases : EraseTwo(o)) => TreeInv'
<1> SUFFICES ASSUME TreeInv, NEW o \in Erases, EraseTwo(o) PROVE TreeInv'
    OBVIOUS
<1> PICK z : z = o.node
    OBVIOUS
<1> PICK r : r = child[z]["right"]
    OBVIOUS
<1> PICK l : l = child[z]["left"]
    OBVIOUS
<1> PICK v : v = Deepest(r, "left")
    OBVIOUS
<1> PICK b : b = child[v]["right"]
    OBVIOUS
<1> PICK q : q = IF v = r THEN v ELSE word[v].up
    OBVIOUS
<1>1. /\ Typed' /\ Settled'
      /\ \E T \in SUBSET Nodes, c \in Memory, up \in Ups, red \in SUBSET Nodes,
            h \in Heights, t \in Sides, Z \in SUBSET Nodes, d \in Memory, vp \in Ups,
            reds \in SUBSET Nodes, h2 \in Heights, y \in Links, s \in Sides,
            k \in Sides, g \in Links, j \in Sides :
           Succession(T, c, up, red, h, t, Z, d, vp, reds, h2, y, s, z, r, l, v, b, q, k, g, j)
    <2>1. Roles(o, z, r, l, v, b, q)
        BY DEF Roles
    <2> QED BY <2>1, EraseTwoFinds
<1>2. PICK Z \in SUBSET Nodes, d \in Memory, vp \in Ups, reds \in SUBSET Nodes, h2 \in Heights,
           y \in Links, s \in Sides : Fits(Z, d, vp, reds, h2, NULL, y, s)'
    BY <1>1 DEF Succession
<1>3. NULL \in Links
    BY DEF Links
<1> QED BY <1>1, <1>2, <1>3 DEF TreeInv

-----------------------------------------------------------------------------
(* Black heights.                                                          *)

\* A turn of BlackHeight's recursion.
Taller(f, mem, words) ==
    [m \in Links |->
       IF m = NULL THEN 0
       ELSE LET l == f[mem[m]["left"]]
                r == f[mem[m]["right"]]
            IN  IF l # r \/ l = -1 THEN -1 ELSE IF words[m].color = "red" THEN l ELSE l + 1]
Flat == [m \in Links |-> IF m = NULL THEN 0 ELSE -1]
\* The recursion, as an equation.
Measured(f, mem, words) ==
    [k \in 0 .. Cardinality(Nodes) |->
       IF k = 0 THEN [m \in Links |-> IF m = NULL THEN 0 ELSE -1]
       ELSE [m \in Links |->
               IF m = NULL THEN 0
               ELSE LET l == f[k - 1][mem[m]["left"]]
                        r == f[k - 1][mem[m]["right"]]
                    IN  IF l # r \/ l = -1 THEN -1 ELSE IF words[m].color = "red" THEN l ELSE l + 1]]

LEMMA TallerIs ==
    ASSUME NEW mem \in [Nodes -> [Sides -> Links]], NEW words, NEW f \in [Links -> Int]
    PROVE  Taller(f, mem, words) \in [Links -> Int]
<1>1. ASSUME NEW m \in Links, m # NULL
      PROVE  f[mem[m]["left"]] \in Int
    <2>1. m \in Nodes /\ "left" \in Sides
        BY <1>1 DEF Links, Sides
    <2>2. mem[m]["left"] \in Links
        BY <2>1
    <2> QED BY <2>2
<1> QED BY <1>1 DEF Taller

LEMMA MeasuredExists ==
    ASSUME NEW mem \in [Nodes -> [Sides -> Links]], NEW words
    PROVE  \E f : f = Measured(f, mem, words)
<1>n. PICK N : N = Cardinality(Nodes)
    OBVIOUS
<1>x. PICK X : X = [Links -> Int]
    OBVIOUS
<1> DEFINE next == [g \in X |-> Taller(g, mem, words)]
<1>1. N \in Nat /\ next \in [X -> X] /\ Flat \in X
    <2>1. \A g \in X : Taller(g, mem, words) \in X
        BY <1>x, TallerIs
    <2>2. Flat \in X
        BY <1>x DEF Flat
    <2> QED BY <1>n, <2>1, <2>2, NodeAssumption, FS_CardinalityType
<1>2. \A g \in X : next[g] = Taller(g, mem, words)
    OBVIOUS
<1> HIDE DEF next
<1>3. \A Y : \A a \in Y : \A g \in [Y -> Y] :
        \E f : /\ f \in [0 .. N -> Y]
               /\ f = [k \in 0 .. N |-> IF k = 0 THEN a ELSE g[f[k - 1]]]
    BY <1>1, LoopExists, Zenon
<1>a. Flat \in X /\ next \in [X -> X]
    BY <1>1
<1>4. PICK f : /\ f \in [0 .. N -> X]
               /\ f = [k \in 0 .. N |-> IF k = 0 THEN Flat ELSE next[f[k - 1]]]
    BY <1>a, <1>3
<1>5. ASSUME NEW k \in 0 .. N
      PROVE  (IF k = 0 THEN Flat ELSE next[f[k - 1]]) =
             (IF k = 0 THEN Flat ELSE Taller(f[k - 1], mem, words))
    <2>1. CASE k = 0
        BY <2>1
    <2>2. CASE k # 0
        <3>a. k - 1 \in 0 .. N
            BY <1>1, <2>2
        <3>b. f \in [0 .. N -> X]
            BY <1>4
        <3>1. f[k - 1] \in X
            BY <3>a, <3>b
        <3> QED BY <1>2, <2>2, <3>1
    <2> QED BY <2>1, <2>2
<1>6. f = [k \in 0 .. N |-> IF k = 0 THEN Flat ELSE Taller(f[k - 1], mem, words)]
    BY <1>4, <1>5, Zenon
<1>7. f = Measured(f, mem, words)
    BY <1>6, <1>n, Zenon DEF Measured, Flat, Taller
<1> QED BY <1>7

\* Elements all paths below which have as many black ones as h says.
Even(V, c, red, h) ==
    /\ h[NULL] = 0
    /\ \A n \in V, s \in Sides : /\ c[n][s] \in V \cup {NULL}
                                 /\ h[n] = h[c[n][s]] + Weight(red, n)

\* What the writer's tree and memory agree on.
Agreed(V, c, red) ==
    /\ \A n \in V, s \in Sides : child[n][s] = c[n][s]
    /\ \A n \in V : n \in red <=> IsRed(n)

LEMMA BlackHeightIs ==
    ASSUME child \in [Nodes -> [Sides -> Links]],
           NEW V \in SUBSET Nodes, NEW c, NEW red, NEW h \in Heights, Even(V, c, red, h),
           NEW rank, Ranked(V, c, rank), Agreed(V, c, red), NEW top \in V \cup {NULL}
    PROVE  BlackHeight(top) = h[top]
<1>n. PICK N : N = Cardinality(Nodes)
    OBVIOUS
<1>m. PICK mem : mem = child
    OBVIOUS
<1>w. PICK words : words = word
    OBVIOUS
<1>0. N \in Nat /\ NULL \notin V /\ NULL \in Links /\ "left" \in Sides /\ "right" \in Sides
    BY <1>n, NodeAssumption, FS_CardinalityType DEF Links, Sides
<1>1. /\ mem \in [Nodes -> [Sides -> Links]]
      /\ \A n \in V, s \in Sides : /\ mem[n][s] \in V \cup {NULL}
                                   /\ h[n] = h[mem[n][s]] + Weight(red, n)
                                   /\ mem[n][s] # NULL => rank[mem[n][s]] < rank[n]
      /\ \A n \in V : n \in red <=> words[n].color = "red"
      /\ rank \in [Links -> Nat] /\ h[NULL] = 0
    BY <1>m, <1>w DEF Even, Ranked, Agreed, IsRed
<1> DEFINE f == CHOOSE f : f = Measured(f, mem, words)
<1>2. BlackHeight(top) = f[N][top]
    BY <1>n, <1>m, <1>w DEF BlackHeight, Measured, IsRed
<1>3. f = Measured(f, mem, words)
    BY <1>1, MeasuredExists
<1> HIDE DEF f
<1>4. \A k \in 0 .. N : f[k] = IF k = 0 THEN Flat ELSE Taller(f[k - 1], mem, words)
    BY <1>3, <1>n, Zenon DEF Measured, Flat, Taller
<1>5. f[0] = Flat /\ \A k \in 0 .. (N - 1) : f[k + 1] = Taller(f[k], mem, words)
    BY <1>0, <1>4
<1> DEFINE Few(m, k) == m = NULL \/ Cardinality(NoHigher(V, rank, m)) <= k
           S == {k \in 0 .. N : \A m \in V \cup {NULL} : Few(m, k) => f[k][m] = h[m]}
<1>6. 0 \in S
    <2>1. ASSUME NEW m \in V \cup {NULL}, Few(m, 0) PROVE f[0][m] = h[m]
        <3>1. m = NULL
            <4>1. m # NULL => Cardinality(NoHigher(V, rank, m)) \in 1 .. N
                BY <1>n, <1>1, SomeNoHigher
            <4> QED BY <1>0, <2>1, <4>1
        <3> QED BY <1>0, <1>1, <1>5, <3>1 DEF Flat
    <2> QED BY <1>0, <2>1
<1>7. ASSUME NEW k \in 0 .. (N - 1), k \in S PROVE k + 1 \in S
    <2>1. k + 1 \in 0 .. N /\ f[k + 1] = Taller(f[k], mem, words)
        BY <1>0, <1>5
    <2>2. ASSUME NEW m \in V \cup {NULL}, Few(m, k + 1) PROVE f[k + 1][m] = h[m]
        <3>1. CASE m = NULL
            BY <1>0, <1>1, <2>1, <3>1 DEF Taller
        <3>2. CASE m # NULL
            <4>1. m \in V /\ m \in Links /\ h[m] \in Nat
                BY <3>2 DEF Links, Heights
            <4>2. ASSUME NEW s \in Sides
                  PROVE  f[k][mem[m][s]] = h[mem[m][s]] /\ h[mem[m][s]] \in Nat
                <5>1. mem[m][s] \in V \cup {NULL} /\ mem[m][s] \in Links
                    BY <1>1, <4>1 DEF Links
                <5>2. Few(mem[m][s], k)
                    <6>1. CASE mem[m][s] = NULL
                        BY <6>1
                    <6>2. CASE mem[m][s] # NULL
                        <7>1. mem[m][s] \in V /\ rank[mem[m][s]] < rank[m]
                            BY <1>1, <4>1, <5>1, <6>2
                        <7>2. /\ Cardinality(NoHigher(V, rank, m)) \in 1 .. Cardinality(Nodes)
                              /\ Cardinality(NoHigher(V, rank, mem[m][s])) < Cardinality(NoHigher(V, rank, m))
                            BY <1>1, <4>1, <7>1, LowerFewer
                        <7>3. Cardinality(NoHigher(V, rank, mem[m][s])) \in 1 .. Cardinality(Nodes)
                            BY <1>1, <7>1, SomeNoHigher
                        <7>4. Cardinality(NoHigher(V, rank, m)) <= k + 1
                            BY <2>2, <3>2
                        <7> QED BY <1>0, <7>2, <7>3, <7>4
                    <6> QED BY <6>1, <6>2
                <5> QED BY <1>7, <5>1, <5>2 DEF Heights
            <4>3. /\ f[k][mem[m]["left"]] = h[mem[m]["left"]] /\ h[mem[m]["left"]] \in Nat
                  /\ f[k][mem[m]["right"]] = h[mem[m]["right"]] /\ h[mem[m]["right"]] \in Nat
                BY <1>0, <4>2
            <4>4. /\ h[m] = h[mem[m]["left"]] + Weight(red, m)
                  /\ h[m] = h[mem[m]["right"]] + Weight(red, m)
                BY <1>0, <1>1, <4>1
            <4>5. h[mem[m]["left"]] = h[mem[m]["right"]]
                BY <4>3, <4>4 DEF Weight
            <4>6. f[k + 1][m] = LET l == f[k][mem[m]["left"]]
                                    r == f[k][mem[m]["right"]]
                                IN  IF l # r \/ l = -1 THEN -1
                                    ELSE IF words[m].color = "red" THEN l ELSE l + 1
                BY <2>1, <3>2, <4>1 DEF Taller
            <4>7. f[k + 1][m] = IF m \in red THEN h[mem[m]["left"]] ELSE h[mem[m]["left"]] + 1
                BY <1>1, <4>1, <4>3, <4>5, <4>6
            <4> QED BY <4>3, <4>4, <4>7 DEF Weight
        <3> QED BY <3>1, <3>2
    <2> QED BY <2>1, <2>2
<1>8. N \in S
    <2>1. 0 \in S /\ \A k \in 0 .. (N - 1) : k \in S => k + 1 \in S
        BY <1>6, <1>7
    <2> HIDE DEF S
    <2>2. \A k \in 0 .. N : k \in S
        BY <1>0, <2>1, CountingUp
    <2> QED BY <1>0, <2>2
<1>9. Few(top, N)
    <2>1. CASE top = NULL
        BY <2>1
    <2>2. CASE top # NULL
        <3>1. Cardinality(NoHigher(V, rank, top)) \in 1 .. N
            BY <1>n, <1>1, <2>2, SomeNoHigher
        <3> QED BY <1>0, <3>1
    <2> QED BY <2>1, <2>2
<1>10. f[N][top] = h[top]
    BY <1>8, <1>9
<1> QED BY <1>2, <1>10

\* Where nothing is missing the paths of the whole tree are even.
LEMMA WholeEven ==
    ASSUME child \in [Nodes -> [Sides -> Links]],
           NEW T \in SUBSET Nodes, NEW c \in Memory, NEW up \in Ups, Linked(T, c, up),
           NEW red \in SUBSET Nodes, NEW h \in Heights, NEW x, NEW t,
           Balanced(T, c, red, h, x, NULL, t), Held(T, c), \A n \in T : n \in red <=> IsRed(n)
    PROVE  root \in T \cup {NULL} /\ BlackHeight(root) # -1
<1>1. NULL \notin T /\ \A n \in T, s \in Sides : Lack(n, s, NULL, t) = 0
    BY NodeAssumption DEF Lack
<1>2. ASSUME NEW n \in T, NEW s \in Sides
      PROVE  c[n][s] \in T \cup {NULL} /\ h[n] = h[c[n][s]] + Weight(red, n)
    <2>1. c[n][s] \in T \cup {NULL}
        BY DEF Linked
    <2>2. c[n][s] \in Links
        BY <2>1 DEF Links
    <2>3. h[c[n][s]] \in Nat
        BY <2>2 DEF Heights
    <2>4. h[n] = h[c[n][s]] + Weight(red, n) + 0
        BY <1>1 DEF Balanced
    <2> QED BY <2>1, <2>3, <2>4 DEF Weight
<1>3. Even(T, c, red, h)
    BY <1>2 DEF Even, Balanced
<1>4. PICK rank : Ranked(T, c, rank)
    BY RankExists
<1>5. root = c[NULL]["left"] /\ \A n \in T, s \in Sides : child[n][s] = c[n][s]
    BY HeldAre
<1>6. root \in T \cup {NULL}
    BY <1>5 DEF Linked, Sides
<1>a. Agreed(T, c, red)
    BY <1>5 DEF Agreed
<1>7. BlackHeight(root) = h[root]
    BY <1>3, <1>4, <1>6, <1>a, BlackHeightIs
<1>8. root \in Links
    BY <1>6 DEF Links
<1>9. h[root] \in Nat
    BY <1>8 DEF Heights
<1> QED BY <1>6, <1>7, <1>9

\* Where one is missing below y on side t, the paths below y on either side are even.
LEMMA ShortEven ==
    ASSUME child \in [Nodes -> [Sides -> Links]],
           NEW T \in SUBSET Nodes, NEW c \in Memory, NEW up \in Ups, Linked(T, c, up),
           NEW red \in SUBSET Nodes, NEW h \in Heights, NEW y \in T, NEW t \in Sides,
           Balanced(T, c, red, h, NULL, y, t), Agreed(T, c, red)
    PROVE  /\ BlackHeight(c[y][t]) # -1
           /\ BlackHeight(c[y][Other(t)]) = BlackHeight(c[y][t]) + 1
<1>0. NULL \notin T /\ Other(t) \in Sides /\ Other(t) # t
    BY NodeAssumption, SidesAre
<1>1. PICK rank : Ranked(T, c, rank)
    BY RankExists
<1>r. rank \in [Links -> Nat] /\ y \in Links
    BY <1>1 DEF Ranked, Links
<1> PICK V : V = {n \in T : rank[n] < rank[y]}
    OBVIOUS
<1>2. V \in SUBSET Nodes /\ V \in SUBSET T /\ y \notin V
    <2>1. rank[y] \in Nat
        BY <1>r
    <2> QED BY <2>1
<1>3. ASSUME NEW n \in T, NEW s \in Sides, n = y \/ n \in V
      PROVE  c[n][s] \in V \cup {NULL}
    <2>1. CASE c[n][s] = NULL
        BY <2>1
    <2>2. CASE c[n][s] # NULL
        <3>1. c[n][s] \in T /\ rank[c[n][s]] < rank[n]
            BY <1>1, <2>2 DEF Ranked
        <3>2. c[n][s] \in Links /\ n \in Links
            BY <3>1 DEF Links
        <3>3. rank[c[n][s]] \in Nat /\ rank[n] \in Nat /\ rank[y] \in Nat
            BY <1>r, <3>2
        <3>4. rank[n] <= rank[y]
            BY <1>3, <3>3
        <3>5. rank[c[n][s]] < rank[y]
            BY <3>1, <3>3, <3>4
        <3> QED BY <3>1, <3>5
    <2> QED BY <2>1, <2>2
<1>4. ASSUME NEW n \in T, NEW s \in Sides
      PROVE  h[c[n][s]] \in Nat /\ h[n] = h[c[n][s]] + Weight(red, n) + Lack(n, s, y, t)
    <2>1. c[n][s] \in T \cup {NULL}
        BY DEF Linked
    <2>2. c[n][s] \in Links
        BY <2>1 DEF Links
    <2> QED BY <2>2 DEF Heights, Balanced
<1>5. ASSUME NEW n \in V, NEW s \in Sides
      PROVE  c[n][s] \in V \cup {NULL} /\ h[n] = h[c[n][s]] + Weight(red, n)
    <2>1. c[n][s] \in V \cup {NULL}
        BY <1>2, <1>3
    <2>2. n \in T /\ n # y
        BY <1>2
    <2>3. h[c[n][s]] \in Nat /\ h[n] = h[c[n][s]] + Weight(red, n) + 0
        BY <1>4, <2>2 DEF Lack
    <2> QED BY <2>1, <2>3 DEF Weight
<1>6. Even(V, c, red, h)
    BY <1>5 DEF Even, Balanced
<1>7. Ranked(V, c, rank)
    BY <1>1, <1>2, <1>5 DEF Ranked
<1>8. Agreed(V, c, red)
    BY <1>2 DEF Agreed
<1>9. ASSUME NEW s \in Sides
      PROVE  BlackHeight(c[y][s]) = h[c[y][s]]
    <2> PICK top : top = c[y][s]
        OBVIOUS
    <2>1. top \in V \cup {NULL}
        BY <1>3
    <2>2. BlackHeight(top) = h[top]
        BY <1>2, <1>6, <1>7, <1>8, <2>1, BlackHeightIs
    <2> QED BY <2>2
<1>10. /\ h[c[y][t]] \in Nat /\ h[y] = h[c[y][t]] + Weight(red, y) + 1
       /\ h[c[y][Other(t)]] \in Nat /\ h[y] = h[c[y][Other(t)]] + Weight(red, y) + 0
    BY <1>0, <1>4 DEF Lack
<1>11. h[c[y][Other(t)]] = h[c[y][t]] + 1
    <2>1. Weight(red, y) \in Nat
        BY DEF Weight
    <2> QED BY <1>10, <2>1
<1> QED BY <1>0, <1>9, <1>10, <1>11

-----------------------------------------------------------------------------
(* The theorems.                                                           *)

\* Every call, store, turn and lookup keeps a tree that the pending stores make and
\* that is balanced but for the place where the writer stands.
LEMMA StepKeeps == TreeInv /\ [Next]_vars => TreeInv'
<1>1. CASE UNCHANGED vars
    <2> SUFFICES ASSUME TreeInv PROVE TreeInv'
        OBVIOUS
    <2>1. /\ root' = root /\ child' = child /\ word' = word /\ todo' = todo /\ w' = w
          /\ present' = present /\ waits' = waits /\ Members' = Members
        BY <1>1 DEF vars, Members
    <2>2. Typed /\ Settled
        BY DEF TreeInv
    <2>3. Typed'
        BY <2>1, <2>2 DEF Typed
    <2>4. w'.pc = "idle" => todo = <<>>
        BY <2>1, <2>2 DEF Settled
    <2>5. \A n \in Members : child'[n] = child[n] /\ word'[n] = word[n] /\ waits'[n] = {}
        BY <2>1, <2>2 DEF Settled
    <2> QED BY <2>1, <2>3, <2>4, <2>5, ApartKeeps
<1>2. ASSUME TreeInv, Call PROVE TreeInv'
    <2>1. \/ \E o \in Inserts : InsertLink(o)
          \/ \E o \in Erases : EraseOne(o)
          \/ \E o \in Erases : EraseTwo(o)
          \/ \E o \in Replaces : Replace(o)
        BY <1>2 DEF Call
    <2> QED BY <1>2, <2>1, InsertLinkKeeps, EraseOneKeeps, EraseTwoKeeps, ReplaceKeeps
<1>3. ASSUME TreeInv, InsertColor PROVE TreeInv'
    BY <1>3, InsertEndKeeps, InsertFlipKeeps, InsertInnerKeeps, InsertOuterKeeps DEF InsertColor
<1>4. ASSUME TreeInv, EraseColor PROVE TreeInv'
    BY <1>4, EraseRedSiblingKeeps, EraseFlipKeeps, EraseInnerKeeps, EraseOuterKeeps DEF EraseColor
<1> QED BY <1>1, <1>2, <1>3, <1>4, StoreKeeps, ReturnKeeps, ReaderKeeps DEF Next

\* Every step of the writer (rbtree.c) and of a lookup leaves such a tree.
THEOREM TreeAlways == Spec => []TreeInv
<1>1. Init => TreeInv
    BY InitTree
<1>2. TreeInv /\ [Next]_vars => TreeInv'
    BY StepKeeps
<1> QED BY <1>1, <1>2, PTL DEF Spec

LEMMA TreeRedBlack == TreeInv => RedBlack
<1> SUFFICES ASSUME TreeInv, w.pc = "idle"
             PROVE  /\ ~RedLink(root)
                    /\ \A n \in present, s \in Sides : IsRed(n) => ~RedLink(child[n][s])
                    /\ BlackHeight(root) # -1
    BY DEF RedBlack, AtRest
<1>1. PICK T \in SUBSET Nodes, c \in Memory, up \in Ups, red \in SUBSET Nodes, h \in Heights,
           t \in Sides : Resting(T, c, up, red, h, t)
    BY RestSees
<1>2. /\ T = present /\ Linked(T, c, up) /\ Balanced(T, c, red, h, NULL, NULL, t) /\ Held(T, c)
      /\ \A n \in T : n \in red <=> IsRed(n)
      /\ child \in [Nodes -> [Sides -> Links]]
    BY <1>1, RestSees DEF Resting, Typed
<1>3. root \in T \cup {NULL} /\ BlackHeight(root) # -1
    BY <1>2, WholeEven
<1>4. \A n \in T \cup {NULL} : RedLink(n) <=> n \in red
    BY <1>2, RedLinks
<1>h. Held(T, c)
    BY <1>2
<1>5. root = c[NULL]["left"] /\ \A n \in T, s \in Sides : child[n][s] = c[n][s]
    BY <1>h, HeldAre
<1>6. ASSUME NEW n \in T \cup {NULL}, NEW s \in Sides, n \in red \/ n = NULL
      PROVE  c[n][s] \in T \cup {NULL} /\ c[n][s] \notin red
    <2>1. c[n][s] \in T \cup {NULL}
        BY <1>2 DEF Linked
    <2>2. c[n][s] \in red => c[n][s] = NULL
        BY <1>2, <1>6 DEF Balanced
    <2> QED BY <2>1, <2>2, NodeAssumption
<1>7. ~RedLink(root)
    <2>1. "left" \in Sides
        BY DEF Sides
    <2> QED BY <1>3, <1>4, <1>5, <1>6, <2>1
<1>8. ASSUME NEW n \in T, NEW s \in Sides, IsRed(n) PROVE ~RedLink(child[n][s])
    <2>1. n \in red
        BY <1>2, <1>8
    <2>2. c[n][s] \in T \cup {NULL} /\ c[n][s] \notin red
        BY <1>6, <2>1
    <2> QED BY <1>4, <1>5, <2>2
<1> QED BY <1>2, <1>3, <1>7, <1>8

LEMMA TreeLinksAgree == TreeInv => LinksAgree
<1> SUFFICES ASSUME TreeInv, w.pc = "idle"
             PROVE  /\ root # NULL => word[root].up = NULL
                    /\ \A n \in present :
                         LET p == word[n].up
                         IN  IF p = NULL THEN root = n
                             ELSE p \in present /\ \E s \in Sides : child[p][s] = n
    BY DEF LinksAgree, AtRest
<1>1. PICK T \in SUBSET Nodes, c \in Memory, up \in Ups, red \in SUBSET Nodes, h \in Heights,
           t \in Sides : Resting(T, c, up, red, h, t)
    BY RestSees
<1>2. T = present /\ Linked(T, c, up) /\ Held(T, c) /\ \A n \in T : up[n] = word[n].up
    BY <1>1 DEF Resting
<1>3. root = c[NULL]["left"] /\ \A n \in T, s \in Sides : child[n][s] = c[n][s]
    BY <1>2, HeldAre
<1>4. root # NULL => word[root].up = NULL
    <2>1. "left" \in Sides
        BY DEF Sides
    <2>2. root # NULL => root \in T /\ up[root] = NULL
        BY <1>2, <1>3, <2>1 DEF Linked
    <2> QED BY <1>2, <2>2
<1>5. ASSUME NEW n \in T
      PROVE  IF word[n].up = NULL THEN root = n
             ELSE word[n].up \in T /\ \E s \in Sides : child[word[n].up][s] = n
    <2> PICK p : p = word[n].up
        OBVIOUS
    <2>1. p \in T \cup {NULL} /\ n # NULL
        BY <1>2, NodeAssumption DEF Linked
    <2>2. PICK s \in Sides : c[p][s] = n
        BY <1>2 DEF Linked
    <2>3. CASE p = NULL
        <3>1. s = "left"
            BY <1>2, <2>1, <2>2, <2>3 DEF Linked, Sides
        <3> QED BY <1>3, <2>2, <2>3, <3>1
    <2>4. CASE p # NULL
        BY <1>3, <2>1, <2>2, <2>4
    <2> QED BY <2>3, <2>4
<1> QED BY <1>2, <1>4, <1>5

LEMMA TreeLoopsBalanced == TreeInv => LoopsBalanced
<1>1. ASSUME TreeInv, At("insert") PROVE IsRed(w.node) /\ BlackHeight(root) # -1
    <2>1. Typed /\ \E T \in SUBSET Nodes, c \in Memory, up \in Ups, red \in SUBSET Nodes, h \in Heights,
                      x \in Links, t \in Sides : Inserting(T, c, up, red, h, x, t)
        BY <1>1, InsertSees
    <2>2. PICK T \in SUBSET Nodes, c \in Memory, up \in Ups, red \in SUBSET Nodes, h \in Heights,
               x \in Links, t \in Sides : Inserting(T, c, up, red, h, x, t)
        BY <2>1
    <2>3. /\ Linked(T, c, up) /\ Balanced(T, c, red, h, x, NULL, t) /\ Held(T, c)
          /\ \A n \in T : n \in red <=> IsRed(n)
          /\ w.node \in T /\ w.node \in red
          /\ child \in [Nodes -> [Sides -> Links]]
        BY <2>1, <2>2 DEF Inserting, Typed
    <2>4. BlackHeight(root) # -1
        BY <2>3, WholeEven
    <2> QED BY <2>3, <2>4
<1>2. ASSUME TreeInv, At("erase")
      PROVE  /\ ~RedLink(w.node) /\ BlackHeight(w.node) # -1
             /\ BlackHeight(Sibling) = BlackHeight(w.node) + 1
    <2>1. Typed /\ \E T \in SUBSET Nodes, c \in Memory, up \in Ups, red \in SUBSET Nodes, h \in Heights,
                      y \in Links, t \in Sides : Erasing(T, c, up, red, h, y, t)
        BY <1>2, EraseSees
    <2>2. PICK T \in SUBSET Nodes, c \in Memory, up \in Ups, red \in SUBSET Nodes, h \in Heights,
               y \in Links, t \in Sides : Erasing(T, c, up, red, h, y, t)
        BY <2>1
    <2>3. Lacking(T, c, up, red, h, y, t) /\ \A n \in T : n \in red <=> IsRed(n)
        BY <2>2 DEF Erasing
    <2>4. /\ Linked(T, c, up) /\ Balanced(T, c, red, h, NULL, y, t) /\ Held(T, c)
          /\ y \in T /\ c[y][t] = w.node /\ w.node \notin red
          /\ child \in [Nodes -> [Sides -> Links]]
        BY <2>1, <2>3 DEF Lacking, Typed
    <2>a. Agreed(T, c, red)
        <3>0. Held(T, c)
            BY <2>4
        <3>1. \A n \in T, s \in Sides : child[n][s] = c[n][s]
            BY <3>0, HeldAre
        <3> QED BY <2>3, <3>1 DEF Agreed
    <2>5. Sibling = c[y][Other(t)]
        BY <2>3, ShortSees DEF Short
    <2>6. /\ BlackHeight(c[y][t]) # -1
          /\ BlackHeight(c[y][Other(t)]) = BlackHeight(c[y][t]) + 1
        BY <2>4, <2>a, ShortEven
    <2>7. w.node \in T \cup {NULL}
        BY <2>4 DEF Linked
    <2>8. ~RedLink(w.node)
        BY <2>3, <2>4, <2>7, RedLinks
    <2> QED BY <2>4, <2>5, <2>6, <2>8
<1> QED BY <1>1, <1>2 DEF LoopsBalanced

\* The rules at the head of rbtree.c hold between calls.
THEOREM RedBlackAlways == Spec => []RedBlack
<1> QED BY TreeAlways, TreeRedBlack, PTL

\* Parent pointers agree with child pointers between calls.
THEOREM LinksAgreeAlways == Spec => []LinksAgree
<1> QED BY TreeAlways, TreeLinksAgree, PTL

\* What the comments of the two rebalancing loops state holds at their heads.
THEOREM LoopsBalancedAlways == Spec => []LoopsBalanced
<1> QED BY TreeAlways, TreeLoopsBalanced, PTL

-----------------------------------------------------------------------------
(* Lookups stand on valid elements.                                        *)

Lookups == [pc : {"out", "walk"}, key : Keys \cup {0}, at : Links, calls : 0 .. MaxCalls]
\* The elements the caller may not have given up yet.
Visible == IF w.pc = "idle" THEN present ELSE present \cup In(w.op)
\* A lookup may come to n.
Kept(r, n) == n \in Visible \cup {NULL} \/ (n \in Nodes /\ r \in waits[n])

\* What a visible element points to is visible; what one out of the tree points to
\* is visible or waits for the readers the first waits for, too.
ReachInv ==
    /\ rd \in [Readers -> Lookups]
    /\ \A r \in Readers : (rd[r].pc = "out" <=> rd[r].at = NULL) /\ Kept(r, rd[r].at)
    /\ \A n \in Nodes : waits[n] \in SUBSET Walking
    /\ root \in Visible \cup {NULL}
    /\ \A n \in Visible, s \in Sides : child[n][s] \in Visible \cup {NULL}
    /\ \A n \in Nodes, s \in Sides : \A r \in waits[n] : Kept(r, child[n][s])
    /\ w.pc # "idle" => Out(w.op) \in SUBSET Visible

LEMMA VisibleIs ==
    ASSUME Typed, Settled
    PROVE  /\ Visible \in SUBSET Nodes /\ Members \in SUBSET Visible
           /\ w.pc # "idle" => Members = Visible \ Out(w.op)
<1>1. CASE w.pc = "idle"
    BY <1>1 DEF Visible, Members, Typed
<1>2. CASE w.pc # "idle"
    <2>1. w.op \in Calls
        BY <1>2 DEF Settled
    <2> QED BY <1>2, <2>1, InOutNodes DEF Visible, Members, Typed
<1> QED BY <1>1, <1>2

LEMMA InitReach == Init => ReachInv
<1> SUFFICES ASSUME Init PROVE ReachInv
    OBVIOUS
<1>1. rd = [r \in Readers |-> Gone] /\ Gone \in Lookups /\ Gone.pc = "out" /\ Gone.at = NULL
    BY BoundAssumption DEF Init, Gone, Lookups, Links
<1>2. Visible = {} /\ root = NULL /\ waits = [n \in Nodes |-> {}] /\ w.pc = "idle"
    BY DEF Init, Visible, Idle
<1> QED BY <1>1, <1>2 DEF ReachInv, Kept

\* A step that moves no pointer and no lookup.
LEMMA StillReach ==
    ASSUME ReachInv, Visible' = Visible, root' = root, child' = child, rd' = rd, waits' = waits,
           w'.op = w.op, w'.pc # "idle" => w.pc # "idle"
    PROVE  ReachInv'
BY DEF ReachInv, Kept, Walking

LEMMA CallReach ==
    ASSUME Typed, Settled, ReachInv, NEW o \in Calls, Begin(o), w'.op = o, w'.pc # "idle",
           Out(o) \in SUBSET present,
           \A m \in Nodes \ In(o) : child'[m] = child[m],
           \A m \in In(o), s \in Sides : child'[m][s] \in present \cup {NULL} /\ waits[m] = {}
    PROVE  ReachInv'
<1>1. /\ w.pc = "idle" /\ root' = root /\ present' = present /\ waits' = waits
      /\ Visible = present /\ Visible' = present \cup In(o) /\ In(o) \in SUBSET Nodes
      /\ present \in SUBSET Nodes
    BY InOutNodes DEF Begin, Visible, Typed
<1>r. rd \in [Readers -> Lookups]
    BY DEF ReachInv
<1>2. ASSUME NEW r \in Readers
      PROVE  rd'[r] \in Lookups /\ rd'[r].pc = rd[r].pc /\ rd'[r].at = rd[r].at
    <2>1. rd'[r] = IF r \in Walking THEN [rd[r] EXCEPT !.calls = @ + 1] ELSE rd[r]
        BY DEF Begin
    <2>2. rd[r] \in Lookups
        BY <1>r
    <2>3. CASE r \in Walking
        <3>1. rd[r].calls < MaxCalls /\ rd[r].calls \in 0 .. MaxCalls
            BY <2>2, <2>3 DEF Begin, Lookups
        <3>2. rd[r].calls + 1 \in 0 .. MaxCalls
            BY <3>1, BoundAssumption
        <3>3. rd'[r] = [rd[r] EXCEPT !.calls = rd[r].calls + 1]
            BY <2>1, <2>3
        <3> QED BY <2>2, <3>2, <3>3 DEF Lookups
    <2>4. CASE r \notin Walking
        BY <2>1, <2>2, <2>4
    <2> QED BY <2>3, <2>4
<1>3. rd' \in [Readers -> Lookups]
    <2>1. rd' = [r \in Readers |-> rd'[r]]
        BY DEF Begin
    <2> QED BY <1>2, <2>1
<1>4. Walking' = Walking
    BY <1>2 DEF Walking
<1>5. \A n : \A r \in Readers : Kept(r, n) => Kept(r, n)'
    BY <1>1 DEF Kept
<1>6. \A r \in Readers : (rd'[r].pc = "out" <=> rd'[r].at = NULL) /\ Kept(r, rd[r].at)'
    BY <1>2, <1>5 DEF ReachInv
<1>7. \A r \in Readers : Kept(r, rd[r].at)'
    BY <1>6
<1>8. \A n \in Nodes : waits'[n] \in SUBSET Walking'
    BY <1>1, <1>4 DEF ReachInv
<1>9. root' \in Visible' \cup {NULL}
    BY <1>1 DEF ReachInv
<1>10. ASSUME NEW n \in Visible', NEW s \in Sides PROVE child'[n][s] \in Visible' \cup {NULL}
    <2>1. CASE n \in In(o)
        BY <1>1, <2>1
    <2>2. CASE n \notin In(o)
        <3>1. n \in Visible /\ child'[n] = child[n]
            BY <1>1, <2>2
        <3>2. child[n][s] \in Visible \cup {NULL}
            BY <3>1 DEF ReachInv
        <3> QED BY <1>1, <3>1, <3>2
    <2> QED BY <2>1, <2>2
<1>11. ASSUME NEW n \in Nodes, NEW s \in Sides, NEW r \in waits'[n] PROVE Kept(r, child[n][s])'
    <2>1. n \notin In(o) /\ r \in waits[n] /\ r \in Readers
        BY <1>1, <1>11 DEF Typed
    <2>2. child'[n] = child[n]
        BY <2>1
    <2>3. Kept(r, child[n][s])
        BY <2>1 DEF ReachInv
    <2>4. child'[n][s] = child[n][s]
        BY <2>2
    <2> PICK m : m = child[n][s]
        OBVIOUS
    <2>5. Kept(r, m)'
        BY <1>5, <2>1, <2>3
    <2> QED BY <2>4, <2>5 DEF Kept
<1>12. \A r \in Readers : rd'[r].pc = "out" <=> rd'[r].at = NULL
    BY <1>6
<1>13. Out(w'.op) \in SUBSET Visible'
    BY <1>1
<1> QED BY <1>3, <1>7, <1>8, <1>9, <1>10, <1>11, <1>12, <1>13 DEF ReachInv

LEMMA CallsReach == TreeInv /\ ReachInv /\ Call => ReachInv'
<1> SUFFICES ASSUME TreeInv, ReachInv, Call PROVE ReachInv'
    OBVIOUS
<1>1. Typed /\ Settled /\ child \in [Nodes -> [Sides -> Links]]
    BY DEF TreeInv, Typed
<1>2. ASSUME NEW o \in Inserts, InsertLink(o) PROVE ReachInv'
    <2>1. /\ Begin(o) /\ Unused(o.node) /\ child' = [child EXCEPT ![o.node] = Leaf]
          /\ w'.op = o /\ w'.pc = "insert"
        BY <1>2 DEF InsertLink, Idle
    <2>2. o \in Calls /\ In(o) = {o.node} /\ o.node \in Nodes /\ Out(o) = {}
        BY CallsAre
    <2>3. \A m \in Nodes \ In(o) : child'[m] = child[m]
        BY <1>1, <2>1, <2>2
    <2>4. \A m \in In(o), s \in Sides : child'[m][s] \in present \cup {NULL} /\ waits[m] = {}
        BY <1>1, <2>1, <2>2 DEF Leaf, Unused
    <2> QED BY <1>1, <2>1, <2>2, <2>3, <2>4, CallReach
<1>3. ASSUME NEW o \in Erases, EraseOne(o) \/ EraseTwo(o) PROVE ReachInv'
    <2>1. Begin(o) /\ child' = child /\ o.node \in present
        BY <1>3, Zenon DEF EraseOne, EraseTwo, EraseBegin
    <2>2. o \in Calls /\ In(o) = {} /\ Out(o) = {o.node}
        BY CallsAre
    <2>3. \E p : Rebalance(o, p)
        BY <1>3, Zenon DEF EraseOne, EraseTwo
    <2>4. w'.op = o /\ w'.pc \in {"done", "erase"}
        BY <2>3 DEF Rebalance, Idle
    <2> QED BY <1>1, <2>1, <2>2, <2>4, CallReach
<1>4. ASSUME NEW o \in Replaces, Replace(o) PROVE ReachInv'
    <2>1. /\ Begin(o) /\ Unused(o.node) /\ child' = [child EXCEPT ![o.node] = child[o.victim]]
          /\ w'.op = o /\ w'.pc = "done" /\ o.victim \in present
        BY <1>4 DEF Replace, Idle
    <2>2. o \in Calls /\ In(o) = {o.node} /\ o.node \in Nodes /\ Out(o) = {o.victim}
        BY CallsAre
    <2>3. \A m \in Nodes \ In(o) : child'[m] = child[m]
        BY <1>1, <2>1, <2>2
    <2>4. w.pc = "idle" /\ Visible = present
        BY <2>1 DEF Begin, Visible
    <2>5. \A s \in Sides : child[o.victim][s] \in present \cup {NULL}
        BY <2>1, <2>4 DEF ReachInv
    <2>6. \A m \in In(o), s \in Sides : child'[m][s] \in present \cup {NULL} /\ waits[m] = {}
        BY <1>1, <2>1, <2>2, <2>5 DEF Unused
    <2> QED BY <1>1, <2>1, <2>2, <2>3, <2>6, CallReach
<1> QED BY <1>2, <1>3, <1>4 DEF Call

LEMMA StoreReach == TreeInv /\ ReachInv /\ Store => ReachInv'
<1> SUFFICES ASSUME TreeInv, ReachInv, Store PROVE ReachInv'
    OBVIOUS
<1> PICK st : st = Head(todo)
    OBVIOUS
<1>1. /\ todo \in Seq(Puts) /\ todo # <<>> /\ child \in [Nodes -> [Sides -> Links]]
      /\ Typed /\ Settled /\ w' = w /\ present' = present /\ waits' = waits /\ rd' = rd
    BY DEF TreeInv, Typed, Store
<1>2. st \in Puts /\ st \in Stores
    <2>1. Len(todo) \in Nat /\ Len(todo) >= 1 /\ st = todo[1]
        BY <1>1
    <2>2. 1 \in 1 .. Len(todo)
        BY <2>1
    <2> QED BY <1>1, <2>1, <2>2, HeadAndTail DEF Stores
<1>3. st.to \in Visible \cup {NULL}
    <2>1. st.to \in Members \cup {NULL}
        BY <1>1, <1>2 DEF Settled, Aimed
    <2> QED BY <1>1, <2>1, VisibleIs
<1>4. Visible' = Visible /\ Walking' = Walking
    BY <1>1 DEF Visible, Walking
<1>5. \A n : \A r \in Readers : Kept(r, n)' <=> Kept(r, n)
    BY <1>1, <1>4 DEF Kept
<1>6. root' \in Visible \cup {NULL}
    BY <1>3 DEF Store, ReachInv
<1>7. \A n \in Nodes, s \in Sides : child'[n][s] = child[n][s] \/ child'[n][s] = st.to
    <2>1. CASE st.at = NULL
        BY <2>1 DEF Store
    <2>2. CASE st.at # NULL
        <3>1. st.at \in Nodes /\ st.side \in Sides
            BY <1>2, <2>2 DEF Puts, Links
        <3>2. child' = [child EXCEPT ![st.at][st.side] = st.to]
            BY <2>2 DEF Store
        <3> QED BY <1>1, <3>1, <3>2
    <2> QED BY <2>1, <2>2
<1>8. \A r \in Readers : Kept(r, st.to)
    BY <1>3 DEF Kept
<1>9. ASSUME NEW n \in Visible, NEW s \in Sides PROVE child'[n][s] \in Visible \cup {NULL}
    <2>1. n \in Nodes
        BY <1>1, VisibleIs
    <2>2. child[n][s] \in Visible \cup {NULL}
        BY DEF ReachInv
    <2> QED BY <1>3, <1>7, <2>1, <2>2
<1>10. ASSUME NEW n \in Nodes, NEW s \in Sides, NEW r \in waits[n] PROVE Kept(r, child[n][s])'
    <2>1. r \in Readers /\ Kept(r, child[n][s])
        BY <1>1 DEF ReachInv, Typed
    <2> PICK m : m = child'[n][s]
        OBVIOUS
    <2>2. Kept(r, m)
        BY <1>7, <1>8, <2>1
    <2>3. Kept(r, m)'
        BY <1>5, <2>1, <2>2
    <2> QED BY <2>3 DEF Kept
<1>11. \A r \in Readers : (rd'[r].pc = "out" <=> rd'[r].at = NULL) /\ Kept(r, rd[r].at)'
    BY <1>1, <1>5 DEF ReachInv, Kept
<1>12. w'.pc # "idle" => Out(w'.op) \in SUBSET Visible'
    BY <1>1, <1>4 DEF ReachInv
<1> QED BY <1>1, <1>4, <1>6, <1>9, <1>10, <1>11, <1>12 DEF ReachInv

LEMMA TurnsReach == TreeInv /\ ReachInv /\ (InsertColor \/ EraseColor) => ReachInv'
<1> SUFFICES ASSUME TreeInv, ReachInv, InsertColor \/ EraseColor PROVE ReachInv'
    OBVIOUS
<1>1. w \in Writers
    BY DEF TreeInv, Typed
<1>2. Turn
    BY DEF InsertColor, EraseColor, InsertEnd, InsertFlip, InsertInner, InsertOuter,
           EraseRedSibling, EraseFlip, EraseInner, EraseOuter
<1>3. w.pc # "idle"
    BY DEF InsertColor, EraseColor, InsertEnd, InsertFlip, InsertInner, InsertOuter,
           EraseRedSibling, EraseFlip, EraseInner, EraseOuter, BlackUncle, BlackSibling, At
<1>4. CASE Done \/ UNCHANGED w
    <2>1. w'.op = w.op /\ w'.pc # "idle"
        BY <1>3, <1>4 DEF Done, Idle
    <2> QED BY <1>2, <1>3, <2>1, StillReach DEF Turn, Visible
<1>5. CASE InsertFlip \/ InsertInner
    <2>1. w'.op = w.op /\ w'.pc # "idle"
        BY <1>1, <1>3, <1>5 DEF InsertFlip, InsertInner, Writers
    <2> QED BY <1>2, <1>3, <2>1, StillReach DEF Turn, Visible
<1>6. CASE EraseFlip \/ EraseInner
    <2>1. w'.op = w.op /\ w'.pc # "idle"
        BY <1>1, <1>3, <1>6 DEF EraseFlip, EraseInner, Done, Idle, Writers
    <2> QED BY <1>2, <1>3, <2>1, StillReach DEF Turn, Visible
<1>7. InsertEnd \/ InsertOuter \/ EraseRedSibling \/ EraseOuter => Done \/ UNCHANGED w
    BY DEF InsertEnd, InsertOuter, InsertLift, EraseRedSibling, EraseOuter
<1> QED BY <1>4, <1>5, <1>6, <1>7 DEF InsertColor, EraseColor

\* When a call is over memory is the tree.
LEMMA DoneSees ==
    ASSUME TreeInv, w.pc = "done", todo = <<>>
    PROVE  /\ root \in Members \cup {NULL}
           /\ \A n \in Members, s \in Sides : child[n][s] \in Members \cup {NULL}
<1>1. PICK T \in SUBSET Nodes, c \in Memory, up \in Ups, red \in SUBSET Nodes, h \in Heights,
           x \in Links, y \in Links, t \in Sides : Fits(T, c, up, red, h, x, y, t)
    BY DEF TreeInv
<1>2. T = Members /\ Shown(T, c) /\ Linked(T, c, up) /\ ~Lifting("insert")
    BY <1>1 DEF Fits, Lifting
<1>3. Held(T, c)
    BY <1>2, TurnSees
<1>4. root = c[NULL]["left"] /\ \A n \in T, s \in Sides : child[n][s] = c[n][s]
    <2>1. T \in SUBSET Nodes
        OBVIOUS
    <2> QED BY <1>3, <2>1, HeldAre
<1>5. \A n \in T \cup {NULL}, s \in Sides : c[n][s] \in T \cup {NULL}
    BY <1>2 DEF Linked
<1>6. "left" \in Sides
    BY DEF Sides
<1> QED BY <1>2, <1>4, <1>5, <1>6

LEMMA ReturnReach == TreeInv /\ ReachInv /\ Return => ReachInv'
<1> SUFFICES ASSUME TreeInv, ReachInv, Return PROVE ReachInv'
    OBVIOUS
<1>1. /\ w.pc = "done" /\ todo = <<>> /\ w' = Idle /\ present' = (present \cup In(w.op)) \ Out(w.op)
      /\ waits' = [n \in Nodes |-> IF n \in Out(w.op) THEN Walking ELSE waits[n]]
      /\ Forget(IF Walking = {} THEN Out(w.op) ELSE {}) /\ root' = root /\ rd' = rd
    BY DEF Return, At
<1>2. Typed /\ Settled /\ Walking' = Walking /\ Visible \in SUBSET Nodes
    BY <1>1, VisibleIs DEF TreeInv, Walking
<1>3. Visible' = Visible \ Out(w.op) /\ Members = Visible' /\ Out(w.op) \in SUBSET Nodes
    <2>1. w.op \in Calls
        BY <1>1, <1>2 DEF Settled
    <2>2. Visible' = present' /\ Visible = present \cup In(w.op)
        BY <1>1 DEF Visible, Idle
    <2> QED BY <1>1, <1>2, <2>1, <2>2, InOutNodes, VisibleIs
<1>4. /\ root \in Members \cup {NULL}
      /\ \A n \in Members, s \in Sides : child[n][s] \in Members \cup {NULL}
    BY <1>1, DoneSees
<1>5. \A n \in Nodes : child'[n] = IF Walking = {} /\ n \in Out(w.op) THEN Leaf ELSE child[n]
    BY <1>1 DEF Forget
<1>6. ASSUME NEW r \in Walking, NEW n, Kept(r, n) PROVE Kept(r, n)'
    <2>1. CASE n \in Out(w.op)
        BY <1>1, <1>3, <2>1 DEF Kept
    <2>2. CASE n \notin Out(w.op)
        BY <1>1, <1>3, <1>6, <2>2 DEF Kept
    <2> QED BY <2>1, <2>2
<1>7. ASSUME NEW r \in Readers
      PROVE  (rd[r].pc = "out" <=> rd[r].at = NULL) /\ Kept(r, rd[r].at)'
    <2>1. /\ rd[r].pc = "out" <=> rd[r].at = NULL
          /\ Kept(r, rd[r].at) /\ rd[r] \in Lookups
        BY DEF ReachInv
    <2> PICK n : n = rd[r].at
        OBVIOUS
    <2>2. CASE r \in Walking
        <3>1. Kept(r, n)'
            BY <1>6, <2>1, <2>2
        <3> QED BY <1>1, <2>1, <3>1 DEF Kept
    <2>3. CASE r \notin Walking
        <3>1. rd[r].at = NULL
            BY <2>1, <2>3 DEF Walking, Lookups
        <3> QED BY <1>1, <2>1, <3>1 DEF Kept
    <2> QED BY <2>2, <2>3
<1>8. \A n \in Nodes : waits'[n] \in SUBSET Walking'
    BY <1>1, <1>2 DEF ReachInv
<1>9. \A n \in Visible', s \in Sides : child'[n][s] \in Visible' \cup {NULL}
    BY <1>2, <1>3, <1>4, <1>5
<1>10. ASSUME NEW n \in Nodes, NEW s \in Sides, NEW r \in waits'[n] PROVE Kept(r, child[n][s])'
    <2>1. r \in Walking
        BY <1>2, <1>8
    <2>2. child'[n] = child[n]
        BY <1>5, <2>1
    <2>3. Kept(r, child[n][s])
        <3>1. CASE n \in Out(w.op)
            <4>1. CASE n \in Visible
                BY <4>1 DEF ReachInv, Kept
            <4>2. CASE n \notin Visible
                BY <1>1, <3>1, <4>2 DEF ReachInv
            <4> QED BY <4>1, <4>2
        <3>2. CASE n \notin Out(w.op)
            BY <1>1, <3>2 DEF ReachInv
        <3> QED BY <3>1, <3>2
    <2> PICK m : m = child[n][s]
        OBVIOUS
    <2>4. Kept(r, m)'
        BY <1>6, <2>1, <2>3
    <2> QED BY <2>2, <2>4 DEF Kept
<1>11. w'.pc = "idle"
    BY <1>1 DEF Idle
<1> QED BY <1>1, <1>3, <1>4, <1>7, <1>8, <1>9, <1>10, <1>11 DEF ReachInv

\* A lookup that moves to an element it may stand on.
LEMMA MoveReach ==
    ASSUME ReachInv, NEW r \in Readers, NEW one \in Lookups, rd' = [rd EXCEPT ![r] = one],
           one.pc = "walk", one.at # NULL, Kept(r, one.at), WriterSame, UNCHANGED <<child, word, aug, waits>>
    PROVE  ReachInv'
<1>1. /\ rd' \in [Readers -> Lookups]
      /\ \A q \in Readers : rd'[q] = IF q = r THEN one ELSE rd[q]
    BY DEF ReachInv
<1>2. root' = root /\ child' = child /\ waits' = waits /\ w' = w /\ Visible' = Visible
    BY DEF WriterSame, Visible
<1>3. Walking \in SUBSET Walking'
    BY <1>1 DEF Walking
<1>4. \A q, n : Kept(q, n)' <=> Kept(q, n)
    BY <1>2 DEF Kept
<1>5. \A q \in Readers : (rd'[q].pc = "out" <=> rd'[q].at = NULL) /\ Kept(q, rd[q].at)'
    BY <1>1, <1>4 DEF ReachInv, Kept
<1>6. \A n \in Nodes : waits'[n] \in SUBSET Walking'
    BY <1>2, <1>3 DEF ReachInv
<1>7. \A n \in Nodes, s \in Sides : \A q \in waits'[n] : Kept(q, child[n][s])'
    BY <1>2 DEF ReachInv, Kept
<1> QED BY <1>1, <1>2, <1>5, <1>6, <1>7 DEF ReachInv

LEMMA ReaderReach == TreeInv /\ ReachInv /\ (\E r \in Readers : Reader(r)) => ReachInv'
<1> SUFFICES ASSUME TreeInv, ReachInv, NEW r \in Readers, Reader(r) PROVE ReachInv'
    OBVIOUS
<1>1. Typed /\ Settled /\ child \in [Nodes -> [Sides -> Links]] /\ rd \in [Readers -> Lookups]
      /\ Visible \in SUBSET Nodes
    BY VisibleIs DEF TreeInv, ReachInv, Typed
<1>2. ASSUME NEW k \in Keys, ReadStart(r, k) PROVE ReachInv'
    <2> PICK one : one = [pc |-> "walk", key |-> k, at |-> root, calls |-> 0]
        OBVIOUS
    <2>1. root \in Visible \cup {NULL} /\ root \in Links
        BY <1>1 DEF ReachInv, Typed
    <2>2. one \in Lookups /\ one.pc = "walk" /\ one.at = root
        BY <2>1, BoundAssumption DEF Lookups
    <2>3. Kept(r, one.at)
        BY <2>1, <2>2 DEF Kept
    <2>4. one.at # NULL
        BY <1>2, <2>2 DEF ReadStart
    <2> QED BY <1>2, <2>2, <2>3, <2>4, MoveReach DEF ReadStart
<1>3. ASSUME ReadStep(r) PROVE ReachInv'
    <2> PICK m : m = NextRead(r)
        OBVIOUS
    <2> PICK one : one = [rd[r] EXCEPT !.at = m]
        OBVIOUS
    <2> PICK n : n = rd[r].at
        OBVIOUS
    <2> PICK s : s = IF Key[n] < rd[r].key THEN "left" ELSE "right"
        OBVIOUS
    <2>1. rd[r] \in Lookups /\ rd[r].pc = "walk" /\ m # NULL /\ s \in Sides /\ m = child[n][s]
        BY <1>1, <1>3 DEF ReadStep, NextRead, Sides
    <2>2. Kept(r, n)
        BY DEF ReachInv
    <2>3. n # NULL
        BY <2>1 DEF ReachInv
    <2>4. Kept(r, m)
        <3>1. CASE n \in Visible
            BY <2>1, <3>1 DEF ReachInv, Kept
        <3>2. CASE n \in Nodes /\ r \in waits[n]
            BY <2>1, <3>2 DEF ReachInv
        <3> QED BY <2>2, <2>3, <3>1, <3>2 DEF Kept
    <2>5. one \in Lookups /\ one.pc = "walk" /\ one.at = m
        <3>1. m \in Links
            BY <1>1, <2>4 DEF Kept, Links
        <3> QED BY <2>1, <3>1 DEF Lookups
    <2>6. rd' = [rd EXCEPT ![r] = one]
        BY <1>1, <1>3 DEF ReadStep
    <2>7. Kept(r, one.at)
        BY <2>4, <2>5
    <2> QED BY <1>3, <2>1, <2>5, <2>6, <2>7, MoveReach DEF ReadStep
<1>4. ASSUME ReadEnd(r) PROVE ReachInv'
    <2>1. /\ rd' = [rd EXCEPT ![r] = Gone] /\ waits' = [n \in Nodes |-> waits[n] \ {r}]
          /\ Forget({n \in Nodes : waits[n] = {r}}) /\ root' = root /\ w' = w /\ present' = present
        BY <1>4 DEF ReadEnd, WriterSame
    <2>2. Gone \in Lookups /\ Gone.pc = "out" /\ Gone.at = NULL
        BY BoundAssumption DEF Gone, Lookups, Links
    <2>3. /\ rd' \in [Readers -> Lookups]
          /\ \A q \in Readers : rd'[q] = IF q = r THEN Gone ELSE rd[q]
        BY <1>1, <2>1, <2>2
    <2>4. Visible' = Visible /\ Walking \ {r} \in SUBSET Walking'
        BY <2>1, <2>3 DEF Visible, Walking
    <2>5. \A q, n : q # r /\ Kept(q, n) => Kept(q, n)'
        BY <2>1, <2>4 DEF Kept
    <2>6. ASSUME NEW q \in Readers
          PROVE  (rd'[q].pc = "out" <=> rd'[q].at = NULL) /\ Kept(q, rd[q].at)'
        <3>1. CASE q = r
            BY <2>2, <2>3, <3>1 DEF Kept
        <3>2. CASE q # r
            <4> PICK n : n = rd[q].at
                OBVIOUS
            <4>1. rd'[q] = rd[q] /\ Kept(q, n) /\ (rd[q].pc = "out" <=> rd[q].at = NULL)
                BY <2>3, <3>2 DEF ReachInv
            <4>2. Kept(q, n)'
                BY <2>5, <3>2, <4>1
            <4> QED BY <4>1, <4>2 DEF Kept
        <3> QED BY <3>1, <3>2
    <2>7. \A n \in Nodes : waits'[n] \in SUBSET Walking'
        BY <2>1, <2>4 DEF ReachInv
    <2>8. \A n \in Nodes : child'[n] = IF waits[n] = {r} THEN Leaf ELSE child[n]
        BY <2>1 DEF Forget
    <2>9. ASSUME NEW n \in Visible, NEW s \in Sides PROVE child'[n][s] \in Visible \cup {NULL}
        <3>1. child[n][s] \in Visible \cup {NULL} /\ n \in Nodes
            BY <1>1 DEF ReachInv
        <3> QED BY <2>8, <3>1 DEF Leaf
    <2>10. ASSUME NEW n \in Nodes, NEW s \in Sides, NEW q \in waits'[n] PROVE Kept(q, child[n][s])'
        <3>1. q # r /\ q \in waits[n]
            BY <2>1
        <3>2. child'[n] = child[n]
            BY <2>8, <3>1
        <3> PICK m : m = child[n][s]
            OBVIOUS
        <3>3. Kept(q, m)
            BY <3>1 DEF ReachInv
        <3>4. Kept(q, m)'
            BY <2>5, <3>1, <3>3
        <3> QED BY <3>2, <3>4 DEF Kept
    <2> QED BY <2>1, <2>3, <2>4, <2>6, <2>7, <2>9, <2>10 DEF ReachInv
<1> QED BY <1>2, <1>3, <1>4 DEF Reader

LEMMA StepReaches == TreeInv /\ ReachInv /\ [Next]_vars => ReachInv'
<1>1. ASSUME ReachInv, UNCHANGED vars PROVE ReachInv'
    BY <1>1, StillReach DEF vars, Visible
<1> QED BY <1>1, CallsReach, StoreReach, TurnsReach, ReturnReach, ReaderReach DEF Next

\* A lockless lookup stands on valid elements only.
THEOREM ReadersOnMembersAlways == Spec => []ReadersOnMembers
<1>1. Init => ReachInv
    BY InitReach
<1>2. TreeInv /\ ReachInv /\ [Next]_vars => ReachInv'
    BY StepReaches
<1>3. ReachInv => ReadersOnMembers
    BY DEF ReachInv, Kept, Visible, ReadersOnMembers, AtRest
<1>4. Spec => [](TreeInv /\ ReachInv)
    <2>1. Init => TreeInv
        BY InitTree
    <2>2. TreeInv /\ [Next]_vars => TreeInv'
        BY StepKeeps
    <2> QED BY <1>1, <1>2, <2>1, <2>2, PTL DEF Spec
<1> QED BY <1>3, <1>4, PTL

-----------------------------------------------------------------------------
(* The cached first element and the augmented values.  They are those of   *)
(* the tree the pending stores make.                                       *)

\* c is that tree, the pointer case 2 of an insertion leaves out included.
Seen(T, c) == Shown(T, c) /\ (Lifting("insert") => c[w.gparent][w.side] = w.parent)

\* An element that nobody knows has no value.
Blank == \A n \in Nodes : n \notin Visible /\ waits[n] = {} => aug[n] = {}

First(T, c, a, f) == Foremost(T, c, f) /\ Exact(T, c, a)

Valued ==
    /\ aug \in Values /\ Blank
    /\ \E c \in Memory : Seen(Members, c) /\ First(Members, c, aug, leftmost)

Alike(T, c, d) == \A m \in T \cup {NULL}, s \in Sides : d[m][s] = c[m][s]

LEMMA SeenAlike ==
    ASSUME NEW T, NEW c, NEW d, Seen(T, c), Seen(T, d)
    PROVE  Alike(T, c, d)
<1> SUFFICES ASSUME NEW m \in T \cup {NULL}, NEW s \in Sides PROVE d[m][s] = c[m][s]
    BY DEF Alike
<1>1. CASE Lifting("insert") /\ m = w.gparent /\ s = w.side
    BY <1>1 DEF Seen
<1>2. CASE ~(Lifting("insert") /\ m = w.gparent /\ s = w.side)
    <2>1. /\ \A st \in Stores : st.at = m /\ st.side = s => c[m][s] = st.to
          /\ (\A st \in Stores : ~(st.at = m /\ st.side = s)) => c[m][s] = Real(m, s)
        BY <1>2 DEF Seen, Shown
    <2>2. /\ \A st \in Stores : st.at = m /\ st.side = s => d[m][s] = st.to
          /\ (\A st \in Stores : ~(st.at = m /\ st.side = s)) => d[m][s] = Real(m, s)
        BY <1>2 DEF Seen, Shown
    <2> QED BY <2>1, <2>2
<1> QED BY <1>1, <1>2

LEMMA FirstAlike ==
    ASSUME NEW T \in SUBSET Nodes, NEW c, NEW d, Alike(T, c, d), NEW a, NEW f, First(T, c, a, f)
    PROVE  First(T, d, a, f)
<1>1. "left" \in Sides /\ "right" \in Sides /\ \A m \in T \cup {NULL}, s \in Sides : d[m][s] = c[m][s]
    BY DEF Sides, Alike
<1>2. PICK S \in SUBSET (T \cup {NULL}) : Spine(c, f, S)
    BY DEF First, Foremost
<1>3. Spine(d, f, S)
    <2>1. f \in S /\ NULL \in S
        BY <1>2 DEF Spine
    <2>2. \A m \in S : d[m]["left"] = c[m]["left"]
        BY <1>1
    <2> HIDE <1>1
    <2> QED BY <1>2, <2>1, <2>2 DEF Spine
<1>4. Exact(T, d, a)
    <2> SUFFICES ASSUME NEW n \in T PROVE a[n] = Compute(d, a, n)
        BY DEF Exact
    <2>1. Compute(d, a, n) = Compute(c, a, n)
        BY <1>1 DEF Compute
    <2> QED BY <2>1 DEF First, Exact
<1> QED BY <1>3, <1>4 DEF First, Foremost

LEMMA ValuedIs ==
    ASSUME Valued, Typed, Settled, NEW T, T = Members, NEW c, Seen(T, c)
    PROVE  First(T, c, aug, leftmost) /\ aug \in Values
<1>1. PICK d \in Memory : Seen(Members, d) /\ First(Members, d, aug, leftmost)
    BY DEF Valued
<1>2. Members \in SUBSET Nodes
    BY MembersNodes
<1>3. Alike(T, d, c)
    BY <1>1, SeenAlike
<1> QED BY <1>1, <1>2, <1>3, FirstAlike DEF Valued

LEMMA HeldSeen ==
    ASSUME NEW T, NEW c, Held(T, c), todo = <<>>, ~Lifting("insert")
    PROVE  Seen(T, c)
<1>1. Stores = {}
    BY DEF Stores
<1> QED BY <1>1 DEF Seen, Shown, Held

\* The model's picture of memory after the stores is that tree.
Pictured(T, mem, d) ==
    /\ mem \in Children
    /\ \A m \in T, s \in Sides :
         \/ Lifting("insert")' /\ m = w'.gparent /\ s = w'.side
         \/ mem[m][s] = d[m][s]

LEMMA AfterSome ==
    ASSUME NEW T \in SUBSET Nodes, NEW d, Shown(T, d)', todo' \in Seq(Puts),
           child \in [Nodes -> [Sides -> Links]],
           NEW S \in SUBSET T, \A m \in S : child'[m] = child[m], NEW mem, mem = After(todo')
    PROVE  Pictured(S, mem, d)
<1>1. ToSet(todo') = Stores'
    BY DEF ToSet, Stores
<1>2. \A n \in Nodes, s \in Sides :
        mem[n][s] = IF \E m \in Links : Put(n, s, m) \in Stores'
                    THEN CHOOSE m \in Links : Put(n, s, m) \in Stores'
                    ELSE child[n][s]
    BY <1>1 DEF After
<1>3. mem \in Children
    <2>1. \A n \in Nodes, s \in Sides : mem[n][s] \in Links
        <3> SUFFICES ASSUME NEW n \in Nodes, NEW s \in Sides PROVE mem[n][s] \in Links
            OBVIOUS
        <3>1. child[n][s] \in Links
            OBVIOUS
        <3>2. CASE \E m \in Links : Put(n, s, m) \in Stores'
            BY <1>2, <3>2
        <3>3. CASE ~\E m \in Links : Put(n, s, m) \in Stores'
            BY <1>2, <3>1, <3>3
        <3> QED BY <3>2, <3>3
    <2>2. mem = [n \in Nodes |-> [s \in Sides |-> mem[n][s]]]
        <3>1. mem = [n \in Nodes |-> [s \in Sides |->
                       IF \E m \in Links : Put(n, s, m) \in ToSet(todo')
                       THEN CHOOSE m \in Links : Put(n, s, m) \in ToSet(todo')
                       ELSE child[n][s]]]
            BY DEF After
        <3> HIDE <1>2
        <3> QED BY <3>1
    <2> QED BY <2>1, <2>2 DEF Children
<1>4. ASSUME NEW m \in S, NEW s \in Sides, ~(Lifting("insert")' /\ m = w'.gparent /\ s = w'.side)
      PROVE  mem[m][s] = d[m][s]
    <2>1. /\ \A st \in Stores' : st.at = m /\ st.side = s => d[m][s] = st.to
          /\ (\A st \in Stores' : ~(st.at = m /\ st.side = s)) => d[m][s] = Real(m, s)'
        BY <1>4 DEF Shown
    <2>2. m # NULL /\ m \in Nodes
        BY NodeAssumption
    <2>3. CASE \E v \in Links : Put(m, s, v) \in Stores'
        <3>1. PICK v : v \in Links /\ Put(m, s, v) \in Stores' /\ mem[m][s] = v
            BY <1>2, <2>2, <2>3
        <3>2. Put(m, s, v).at = m /\ Put(m, s, v).side = s /\ Put(m, s, v).to = v
            BY DEF Put
        <3> QED BY <2>1, <3>1, <3>2
    <2>4. CASE ~\E v \in Links : Put(m, s, v) \in Stores'
        <3>1. \A st \in Stores' : st \in Puts
            BY DEF Stores
        <3>2. \A st \in Stores' : st = Put(st.at, st.side, st.to) /\ st.to \in Links
            BY <3>1 DEF Puts, Put
        <3>3. \A st \in Stores' : ~(st.at = m /\ st.side = s)
            BY <2>4, <3>2
        <3>4. Real(m, s)' = child[m][s]
            BY <2>2 DEF Real
        <3> QED BY <1>2, <2>1, <2>2, <2>4, <3>3, <3>4
    <2> QED BY <2>3, <2>4
<1> QED BY <1>3, <1>4 DEF Pictured

LEMMA AfterIs ==
    ASSUME NEW T \in SUBSET Nodes, NEW d, Shown(T, d)', todo' \in Seq(Puts), child' = child,
           child \in [Nodes -> [Sides -> Links]], NEW mem, mem = After(todo')
    PROVE  Pictured(T, mem, d)
<1>1. T \in SUBSET T /\ \A m \in T : child'[m] = child[m]
    OBVIOUS
<1> QED BY <1>1, AfterSome

\* A turn that leaves the values right leaves those outside the tree alone.
LEMMA TurnValues ==
    ASSUME Valued, Typed, Settled, Turn, w.pc # "idle", w'.pc # "idle", w'.op = w.op,
           NEW T, T = Members, SameOff(T, aug, aug'), aug' \in Values,
           NEW d \in Memory, Seen(T, d)', First(T, d, aug', leftmost)
    PROVE  Valued'
<1>1. Visible' = Visible /\ Members' = Members /\ leftmost' = leftmost /\ waits' = waits
    BY DEF Turn, Visible, Members
<1>2. T \in SUBSET Visible
    BY VisibleIs
<1>3. Blank'
    <2> SUFFICES ASSUME NEW n \in Nodes, n \notin Visible, waits[n] = {} PROVE aug'[n] = {}
        BY <1>1 DEF Blank
    <2>1. aug[n] = {}
        BY DEF Valued, Blank
    <2> QED BY <1>2, <2>1 DEF SameOff
<1>4. Seen(Members, d)' /\ First(Members, d, aug, leftmost)'
    BY <1>1 DEF Seen, Shown, First
<1> QED BY <1>3, <1>4 DEF Valued

\* All values stay.
LEMMA StillValues ==
    ASSUME Valued, Typed, Settled, Turn, w.pc # "idle", w'.pc # "idle", w'.op = w.op,
           NEW T, T = Members, aug' = aug,
           NEW c \in Memory, Seen(T, c), Seen(T, c)'
    PROVE  Valued'
<1>1. First(T, c, aug, leftmost) /\ aug \in Values
    BY ValuedIs
<1>2. SameOff(T, aug, aug')
    BY DEF SameOff
<1> QED BY <1>1, <1>2, TurnValues

\* A rotation below k of p's parent; pictured is what After makes of its stores.
LEMMA RotationValues ==
    ASSUME Valued, Typed, Settled, Turn, w.pc # "idle", w'.pc # "idle", w'.op = w.op,
           NEW T \in SUBSET Nodes, T = Members, NEW c \in Memory, Seen(T, c),
           NEW up \in Ups, NEW d \in Memory, NEW p, NEW s, NEW k, NEW q, q = c[p][s],
           Around(T, c, up, p, s, k), Rotated(T, c, d, p, s, up[p], k),
           Seen(T, d)', todo' \in Seq(Puts), Lifting("insert")' => w'.gparent # p,
           NEW mem, mem = After(todo'), aug' = AugRotate(mem, aug, p, q)
    PROVE  Valued'
<1>1. First(T, c, aug, leftmost) /\ aug \in Values
    BY ValuedIs
<1>2. Apart(T, c, p, q, c[q][Other(s)], up[p], s, Other(s), k)
    BY AroundIs
<1>3. p \in T /\ q \in T /\ s \in Sides /\ p # q /\ c[p][s] = q
    BY <1>2 DEF Apart
<1>4. \A e \in Sides : mem[p][e] = d[p][e]
    <2>1. Pictured(T, mem, d)
        <3>1. Shown(T, d)' /\ child' = child /\ child \in [Nodes -> [Sides -> Links]]
            BY DEF Seen, Turn, Typed
        <3> QED BY <3>1, AfterIs
    <2> QED BY <1>3, <2>1 DEF Pictured
<1>5. \A e \in Sides : d[p][e] \in Links /\ d[p][e] # q
    <2>1. \A e \in Sides : d[p][e] = IF e = s THEN c[q][Other(s)]
                                     ELSE IF p = up[p] /\ e = k THEN q ELSE c[p][e]
        BY <1>2, <1>3 DEF Rotated, Apart
    <2>2. p \in Links
        BY <1>3 DEF Links
    <2> QED BY <1>2, <1>3, <2>1, <2>2 DEF Apart, Memory
<1>6. RotatedValues(d, aug, aug', p, q) /\ aug' \in Values
    <2>1. \A e \in Sides : mem[p][e] = d[p][e] /\ d[p][e] \in Links /\ d[p][e] # q
        BY <1>4, <1>5
    <2> HIDE <1>1, <1>2, <1>4, <1>5
    <2> QED BY <1>1, <1>3, <2>1, AugRotateIs
<1>7. Exact(T, d, aug')
    <2>1. RotatedValues(d, aug, aug', p, c[p][s])
        BY <1>3, <1>6
    <2> QED BY <1>1, <2>1, RotationExact DEF First
<1>8. Foremost(T, d, leftmost)
    BY <1>1, RotationForemost DEF First
<1>9. SameOff(T, aug, aug')
    BY <1>3, <1>6 DEF SameOff, RotatedValues
<1> QED BY <1>6, <1>7, <1>8, <1>9, TurnValues DEF First

LEMMA HeldStays ==
    ASSUME NEW T \in SUBSET Nodes, NEW c, Held(T, c), Turn, todo' = <<>>, ~Lifting("insert")'
    PROVE  Seen(T, c)'
<1>1. Shown(T, c)'
    BY HeldShown DEF Turn
<1> QED BY <1>1 DEF Seen

LEMMA InsertEndValues == TreeInv /\ Valued /\ InsertEnd => Valued'
<1> SUFFICES ASSUME TreeInv, Valued, InsertEnd PROVE Valued'
    OBVIOUS
<1>1. At("insert") /\ Done /\ Turn /\ aug' = aug /\ todo' = todo
    BY DEF InsertEnd
<1>2. PICK T \in SUBSET Nodes, c \in Memory, up \in Ups, red \in SUBSET Nodes, h \in Heights,
           x \in Links, t \in Sides : Inserting(T, c, up, red, h, x, t)
    BY <1>1, InsertSees
<1>3. Typed /\ Settled /\ todo = <<>> /\ w.pc = "insert" /\ ~Lifting("insert")
    BY <1>1 DEF At, TreeInv, Lifting
<1>4. w'.pc = "done" /\ w'.op = w.op /\ ~Lifting("insert")'
    BY <1>1, <1>3, DoneIs DEF Lifting
<1>5. Held(T, c) /\ T = Members
    BY <1>2 DEF Inserting
<1>6. Seen(T, c)
    BY <1>3, <1>5, HeldSeen
<1>7. Seen(T, c)'
    BY <1>1, <1>3, <1>4, <1>5, HeldStays
<1> QED BY <1>1, <1>3, <1>4, <1>5, <1>6, <1>7, StillValues

LEMMA InsertFlipValues == TreeInv /\ Valued /\ InsertFlip => Valued'
<1> SUFFICES ASSUME TreeInv, Valued, InsertFlip PROVE Valued'
    OBVIOUS
<1>1. At("insert") /\ Turn /\ aug' = aug /\ todo' = todo
      /\ w' = [w EXCEPT !.node = Gparent, !.parent = word[Gparent].up]
    BY DEF InsertFlip
<1>2. PICK T \in SUBSET Nodes, c \in Memory, up \in Ups, red \in SUBSET Nodes, h \in Heights,
           x \in Links, t \in Sides : Inserting(T, c, up, red, h, x, t)
    BY <1>1, InsertSees
<1>3. Typed /\ Settled /\ todo = <<>> /\ w.pc = "insert" /\ ~Lifting("insert")
    BY <1>1 DEF At, TreeInv, Lifting
<1>4. w'.pc = "insert" /\ w'.op = w.op /\ ~Lifting("insert")'
    BY <1>1, <1>3 DEF Lifting, Typed, Writers
<1>5. Held(T, c) /\ T = Members
    BY <1>2 DEF Inserting
<1>6. Seen(T, c)
    BY <1>3, <1>5, HeldSeen
<1>7. Seen(T, c)'
    BY <1>1, <1>3, <1>4, <1>5, HeldStays
<1> QED BY <1>1, <1>3, <1>4, <1>5, <1>6, <1>7, StillValues

LEMMA InsertInnerValues == TreeInv /\ Valued /\ InsertInner => Valued'
<1> SUFFICES ASSUME TreeInv, Valued, InsertInner PROVE Valued'
    OBVIOUS
<1>1. At("insert") /\ Turn
    BY DEF InsertInner, BlackUncle
<1>2. PICK T \in SUBSET Nodes, c \in Memory, up \in Ups, red \in SUBSET Nodes, h \in Heights,
           x \in Links, t \in Sides : Inserting(T, c, up, red, h, x, t)
    BY <1>1, InsertSees
<1>3. /\ Typed /\ Settled /\ todo = <<>> /\ w.pc = "insert" /\ ~Lifting("insert")
      /\ w.op.kind = "insert"
    BY <1>1, InsertSees DEF At, TreeInv, Lifting
<1> PICK s : s = ParentSide
    OBVIOUS
<1> PICK p : p = w.parent
    OBVIOUS
<1>4. PICK d \in Memory : Raised(T, c, up, d, p, x, Other(s), s)
    BY <1>2, <1>3, InsertInnerDoes
<1>5. Held(T, c) /\ T = Members /\ x = w.node
    BY <1>2 DEF Inserting
<1>6. Seen(T, c)
    BY <1>3, <1>5, HeldSeen
<1>7. /\ todo' = Rotation(p, x, Other(s)) /\ aug' = AugRotate(After(todo'), aug, p, x)
      /\ w' = [w EXCEPT !.pc = "outer", !.parent = x, !.gparent = Gparent, !.side = s]
    BY <1>5 DEF InsertInner
<1>8. w'.pc = "outer" /\ w'.op = w.op /\ w'.parent = x /\ w'.gparent = Gparent /\ w'.side = s
    BY <1>3, <1>7 DEF Typed, Writers
<1>9. RedParent(T, c, up, red, x)
    BY <1>2, RedParentSees DEF InsertInner, BlackUncle
<1>10. Gparent = up[p] /\ s \in Sides /\ c[Gparent][s] = p
    BY <1>9 DEF RedParent
<1> PICK q : q = c[p][Other(s)]
    OBVIOUS
<1>11. /\ Around(T, c, up, p, Other(s), s) /\ Rotated(T, c, d, p, Other(s), up[p], s) /\ q = x
       /\ Shown(T, d)' /\ todo' \in Seq(Puts)
    BY <1>4 DEF Raised
<1>12. Apart(T, c, p, q, c[q][Other(Other(s))], up[p], Other(s), Other(Other(s)), s)
    BY <1>11, AroundIs
<1>13. Gparent # p /\ Gparent # x /\ Gparent \in T \cup {NULL}
    BY <1>10, <1>11, <1>12 DEF Apart
<1>14. d[Gparent][s] = x
    BY <1>10, <1>11, <1>13 DEF Rotated
<1>15. Seen(T, d)'
    BY <1>8, <1>11, <1>14 DEF Seen
<1>16. w.pc # "idle" /\ w'.pc # "idle" /\ (Lifting("insert")' => w'.gparent # p)
    BY <1>3, <1>8, <1>13
<1> PICK mem : mem = After(todo')
    OBVIOUS
<1>17. aug' = AugRotate(mem, aug, p, q)
    BY <1>7, <1>11
<1> QED BY <1>1, <1>3, <1>5, <1>6, <1>8, <1>11, <1>15, <1>16, <1>17, RotationValues

\* Case 3 of an insertion.
LEMMA InsertLiftValues ==
    ASSUME Typed, Settled, Valued, Turn, w.pc # "idle",
           NEW T \in SUBSET Nodes, NEW c \in Memory, NEW up \in Ups, NEW red \in SUBSET Nodes,
           NEW h \in Heights, NEW x, NEW t \in Sides, NEW g, NEW p, NEW s,
           TwoRed(T, c, up, red, h, x, t, g, p, s), InsertLift(g, p, s), Seen(T, c)
    PROVE  Valued'
<1>1. PICK k \in Sides, d \in Memory : Raised(T, c, up, d, g, p, s, k)
    BY InsertLiftDoes
<1>2. /\ Around(T, c, up, g, s, k) /\ Rotated(T, c, d, g, s, up[g], k) /\ c[g][s] = p
      /\ Shown(T, d)' /\ todo' \in Seq(Puts)
    BY <1>1 DEF Raised
<1>3. Done /\ aug' = AugRotate(After(todo'), aug, g, p)
    BY DEF InsertLift
<1>4. w'.pc = "done" /\ w'.op = w.op /\ ~Lifting("insert")'
    BY <1>3, DoneIs DEF Lifting
<1>5. Seen(T, d)' /\ w'.pc # "idle"
    BY <1>2, <1>4 DEF Seen
<1>6. T = Members
    BY DEF TwoRed
<1> PICK q : q = c[g][s]
    OBVIOUS
<1> PICK mem : mem = After(todo')
    OBVIOUS
<1>7. aug' = AugRotate(mem, aug, g, q)
    BY <1>2, <1>3
<1> QED BY <1>2, <1>4, <1>5, <1>6, <1>7, RotationValues

LEMMA InsertOuterValues == TreeInv /\ Valued /\ InsertOuter => Valued'
<1> SUFFICES ASSUME TreeInv, Valued, InsertOuter PROVE Valued'
    OBVIOUS
<1>1. Turn /\ Typed /\ Settled /\ w.pc # "idle"
    BY InsertOuterSees
<1>2. PICK T \in SUBSET Nodes, c \in Memory, up \in Ups, red \in SUBSET Nodes, h \in Heights,
           x \in Links, t \in Sides, g \in Nodes, p \in Nodes, s \in Sides :
              /\ TwoRed(T, c, up, red, h, x, t, g, p, s) /\ InsertLift(g, p, s)
              /\ Shown(T, c) /\ (Lifting("insert") => c[w.gparent][w.side] = w.parent)
    BY InsertOuterSees
<1>3. Seen(T, c)
    BY <1>2 DEF Seen
<1> QED BY <1>1, <1>2, <1>3, InsertLiftValues

\* What every turn of an erasure's loop that lifts something does.
LEMMA EraseLiftValues ==
    ASSUME Typed, Settled, Valued, Turn, todo = <<>>, w.pc # "idle", w.op.kind = "erase",
           w'.pc # "idle", w'.op = w.op,
           NEW T \in SUBSET Nodes, NEW c \in Memory, NEW up \in Ups, NEW red \in SUBSET Nodes,
           NEW h \in Heights, NEW y \in Links, NEW t \in Sides, Lacking(T, c, up, red, h, y, t),
           NEW words \in Words, NEW color \in Colors, EraseLift(words, color), up[y] = word[y].up
    PROVE  Valued'
<1> PICK o : o = Other(t)
    OBVIOUS
<1> PICK p : p = Sibling
    OBVIOUS
<1>1. PICK k \in Sides, d \in Memory : LiftDone(T, c, up, d, y, p, o, k, words, color)
    BY EraseLiftDoes
<1>2. /\ Around(T, c, up, y, o, k) /\ Rotated(T, c, d, y, o, up[y], k)
      /\ Shown(T, d)' /\ todo' \in Seq(Puts)
    BY <1>1 DEF LiftDone
<1>3. ~Lifting("insert") /\ ~Lifting("insert")'
    BY DEF Lifting
<1>4. Held(T, c) /\ T = Members /\ y = w.parent
    BY DEF Lacking
<1> PICK q : q = c[y][o]
    OBVIOUS
<1>5. q = p
    <2>1. Short(T, c, y, t)
        BY ShortSees
    <2> QED BY <2>1 DEF Short
<1> PICK mem : mem = After(todo')
    OBVIOUS
<1>6. aug' = AugRotate(mem, aug, y, q)
    BY <1>4, <1>5 DEF EraseLift
<1>7. Seen(T, c) /\ Seen(T, d)'
    BY <1>2, <1>3, <1>4, HeldSeen DEF Seen
<1> QED BY <1>2, <1>3, <1>4, <1>6, <1>7, RotationValues

LEMMA EraseInnerValues == TreeInv /\ Valued /\ EraseInner => Valued'
<1> SUFFICES ASSUME TreeInv, Valued, EraseInner PROVE Valued'
    OBVIOUS
<1>1. At("erase") /\ Turn
    BY DEF EraseInner, BlackSibling
<1>2. PICK T \in SUBSET Nodes, c \in Memory, up \in Ups, red \in SUBSET Nodes, h \in Heights,
           y \in Links, t \in Sides : Erasing(T, c, up, red, h, y, t)
    BY <1>1, EraseSees
<1>3. /\ Typed /\ Settled /\ todo = <<>> /\ w.pc = "erase" /\ w.op.kind = "erase"
    BY <1>1, EraseSees
<1> PICK o : o = Other(t)
    OBVIOUS
<1> PICK p : p = Sibling
    OBVIOUS
<1>4. PICK d \in Memory : Raised(T, c, up, d, p, Near, t, o)
    BY <1>2, EraseInnerDoes
<1>5. Held(T, c) /\ T = Members
    BY <1>2 DEF Erasing, Lacking
<1>6. w'.pc = "outer" /\ w'.op = w.op
    BY <1>3 DEF EraseInner, Typed, Writers
<1>7. ~Lifting("insert") /\ ~Lifting("insert")'
    BY <1>3, <1>6 DEF Lifting
<1> PICK q : q = c[p][t]
    OBVIOUS
<1>8. /\ Around(T, c, up, p, t, o) /\ Rotated(T, c, d, p, t, up[p], o) /\ q = Near
      /\ Shown(T, d)' /\ todo' \in Seq(Puts)
    BY <1>4 DEF Raised
<1> PICK mem : mem = After(todo')
    OBVIOUS
<1>9. aug' = AugRotate(mem, aug, p, q)
    BY <1>8 DEF EraseInner
<1>10. Seen(T, c) /\ Seen(T, d)'
    BY <1>3, <1>5, <1>7, <1>8, HeldSeen DEF Seen
<1>11. w.pc # "idle" /\ w'.pc # "idle"
    BY <1>3, <1>6
<1> QED BY <1>1, <1>3, <1>5, <1>6, <1>7, <1>8, <1>9, <1>10, <1>11, RotationValues

LEMMA EraseRedSiblingValues == TreeInv /\ Valued /\ EraseRedSibling => Valued'
<1> SUFFICES ASSUME TreeInv, Valued, EraseRedSibling PROVE Valued'
    OBVIOUS
<1>1. At("erase") /\ Turn /\ w' = w
    BY DEF EraseRedSibling
<1>2. PICK T \in SUBSET Nodes, c \in Memory, up \in Ups, red \in SUBSET Nodes, h \in Heights,
           y \in Links, t \in Sides : Erasing(T, c, up, red, h, y, t)
    BY <1>1, EraseSees
<1>3. /\ Typed /\ Settled /\ todo = <<>> /\ w.pc = "erase" /\ w.op.kind = "erase"
    BY <1>1, EraseSees
<1>4. Lacking(T, c, up, red, h, y, t) /\ up[y] = word[y].up /\ y = w.parent
    BY <1>2 DEF Erasing, Lacking
<1> PICK words : words = [word EXCEPT ![Near] = [up |-> y, color |-> "black"]]
    OBVIOUS
<1> PICK color : color = "red"
    OBVIOUS
<1>5. words \in Words /\ color \in Colors
    <2>1. word \in Words
        BY <1>3 DEF Typed
    <2> QED BY <2>1 DEF Words, Colors
<1>6. EraseLift(words, color)
    BY <1>4 DEF EraseRedSibling
<1>7. w'.pc # "idle" /\ w'.op = w.op
    BY <1>1, <1>3
<1> QED BY <1>1, <1>3, <1>4, <1>5, <1>6, <1>7, EraseLiftValues

LEMMA EraseFlipValues == TreeInv /\ Valued /\ EraseFlip => Valued'
<1> SUFFICES ASSUME TreeInv, Valued, EraseFlip PROVE Valued'
    OBVIOUS
<1>1. At("erase") /\ Turn /\ aug' = aug /\ todo' = todo
      /\ (Done \/ w' = [w EXCEPT !.node = w.parent, !.parent = word[w.parent].up])
    BY DEF EraseFlip, BlackSibling
<1>2. PICK T \in SUBSET Nodes, c \in Memory, up \in Ups, red \in SUBSET Nodes, h \in Heights,
           y \in Links, t \in Sides : Erasing(T, c, up, red, h, y, t)
    BY <1>1, EraseSees
<1>3. /\ Typed /\ Settled /\ todo = <<>> /\ w.pc = "erase" /\ w.op.kind = "erase"
    BY <1>1, EraseSees
<1>4. w'.pc # "idle" /\ w'.op = w.op
    <2>1. CASE Done
        BY <1>3, <2>1, DoneIs
    <2>2. CASE w' = [w EXCEPT !.node = w.parent, !.parent = word[w.parent].up]
        BY <1>3, <2>2 DEF Typed, Writers
    <2> QED BY <1>1, <2>1, <2>2
<1>5. Held(T, c) /\ T = Members
    BY <1>2 DEF Erasing, Lacking
<1>6. ~Lifting("insert") /\ ~Lifting("insert")'
    BY <1>3, <1>4 DEF Lifting
<1>7. Seen(T, c)
    BY <1>3, <1>5, <1>6, HeldSeen
<1>8. Seen(T, c)'
    BY <1>1, <1>3, <1>5, <1>6, HeldStays
<1>9. w.pc # "idle"
    BY <1>3
<1> QED BY <1>1, <1>3, <1>4, <1>5, <1>7, <1>8, <1>9, StillValues

LEMMA FarRedParent ==
    ASSUME NEW T \in SUBSET Nodes, NEW c \in Memory, NEW up \in Ups, NEW red \in SUBSET Nodes,
           NEW h \in Heights, NEW y \in Links, NEW t \in Sides, FarRed(T, c, up, red, h, y, t)
    PROVE  up[y] = word[y].up
<1>1. /\ Lacking(T, c, up, red, h, y, t) /\ Far \in red
      /\ \A n \in T : n \notin {Sibling, Far} => up[n] = word[n].up
    BY DEF FarRed
<1>2. Linked(T, c, up) /\ Balanced(T, c, red, h, NULL, y, t) /\ y \in T
    BY <1>1 DEF Lacking
<1>3. NULL \notin T /\ NULL \notin Nodes /\ Other(t) \in Sides
    BY NodeAssumption, SidesAre
<1> PICK q : q = Sibling
    OBVIOUS
<1>4. q = c[y][Other(t)] /\ q \in T /\ Far = c[q][Other(t)] /\ Far \in T
    <2>1. Short(T, c, y, t)
        BY <1>1, ShortSees
    <2> QED BY <1>1, <1>3, <2>1 DEF Short
<1>5. q # y
    BY <1>2, <1>3, <1>4, NoSelf
<1>6. Far # y
    <2>1. NoTwoCycle(T, c, up)
        BY <1>2, NotAbove
    <2>2. up[q] = y
        BY <1>2, <1>3, <1>4 DEF Linked
    <2> QED BY <1>3, <1>4, <2>1, <2>2 DEF NoTwoCycle
<1> QED BY <1>1, <1>2, <1>5, <1>6

LEMMA EraseOuterValues == TreeInv /\ Valued /\ EraseOuter => Valued'
<1> SUFFICES ASSUME TreeInv, Valued, EraseOuter PROVE Valued'
    OBVIOUS
<1>1. Turn /\ Done
    BY DEF EraseOuter
<1>2. PICK T \in SUBSET Nodes, c \in Memory, up \in Ups, red \in SUBSET Nodes, h \in Heights,
           y \in Links, t \in Sides : FarRed(T, c, up, red, h, y, t)
    BY FarRedSees
<1>3. Typed /\ Settled /\ todo = <<>> /\ w.pc # "idle" /\ w.op.kind = "erase"
    <2>1. Typed /\ Settled /\ todo = <<>> /\ w.pc # "idle"
        BY FarRedSees
    <2> QED BY <2>1 DEF EraseOuter, BlackSibling, At, Settled
<1>4. Lacking(T, c, up, red, h, y, t) /\ up[y] = word[y].up /\ y = w.parent
    BY <1>2, FarRedParent DEF FarRed, Lacking
<1> PICK far : far = [word EXCEPT ![Far] = [up |-> Sibling, color |-> "black"]]
    OBVIOUS
<1> PICK words : words = IF Near = NULL THEN far ELSE [far EXCEPT ![Near].up = y]
    OBVIOUS
<1> PICK color : color = "black"
    OBVIOUS
<1>5. words \in Words /\ color \in Colors
    <2>1. word \in Words /\ Sibling \in Links
        <3>1. Short(T, c, y, t)
            BY <1>4, ShortSees
        <3> QED BY <1>3, <3>1 DEF Typed, Short, Links
    <2>2. far \in Words
        BY <2>1 DEF Words, Colors
    <2>3. words \in Words
        BY <2>2 DEF Words
    <2> QED BY <2>3 DEF Colors
<1>6. EraseLift(words, color)
    BY <1>4 DEF EraseOuter
<1>7. w'.pc # "idle" /\ w'.op = w.op
    BY <1>1, <1>3, DoneIs
<1> QED BY <1>1, <1>3, <1>4, <1>5, <1>6, <1>7, EraseLiftValues

LEMMA InitValues == Init => Valued
<1> SUFFICES ASSUME Init PROVE Valued
    OBVIOUS
<1>1. Members = {} /\ Stores = {} /\ ~Lifting("insert")
    BY DEF Init, Members, Stores, Lifting, Idle
<1> PICK c : c = [m \in Links |-> [s \in Sides |-> NULL]]
    OBVIOUS
<1>2. c \in Memory /\ \A m \in Links, s \in Sides : c[m][s] = NULL
    BY DEF Memory, Links
<1>3. Seen({}, c)
    BY <1>1, <1>2 DEF Seen, Shown, Real, Init, Links
<1>4. leftmost = NULL /\ NULL \in Links /\ "left" \in Sides
    BY DEF Init, Links, Sides
<1>5. Spine(c, leftmost, {NULL})
    BY <1>2, <1>4 DEF Spine
<1>6. First({}, c, aug, leftmost)
    BY <1>5 DEF First, Foremost, Exact
<1>7. aug \in Values /\ Blank
    BY DEF Init, Values, Blank
<1> QED BY <1>1, <1>2, <1>3, <1>6, <1>7 DEF Valued

LEMMA StoreValues == TreeInv /\ Valued /\ Store => Valued'
<1> SUFFICES ASSUME TreeInv, Valued, Store PROVE Valued'
    OBVIOUS
<1>1. Typed /\ Settled /\ Members \in SUBSET Nodes
    BY MembersNodes DEF TreeInv
<1>2. PICK c \in Memory : Seen(Members, c) /\ First(Members, c, aug, leftmost)
    BY DEF Valued
<1>3. /\ w' = w /\ present' = present /\ waits' = waits /\ aug' = aug /\ leftmost' = leftmost
    BY DEF Store
<1> PICK T : T = Members
    OBVIOUS
<1>4. Members' = T /\ Shown(T, c)'
    <2>1. T \in SUBSET Nodes /\ Shown(T, c)
        BY <1>1, <1>2 DEF Seen
    <2> QED BY <1>1, <2>1, StoreShows
<1>5. Seen(T, c)'
    BY <1>2, <1>3, <1>4 DEF Seen, Lifting
<1>6. Blank'
    BY <1>3 DEF Valued, Blank, Visible
<1>7. (aug \in Values)'
    BY <1>3 DEF Valued
<1>8. Seen(Members, c)' /\ First(Members, c, aug, leftmost)'
    BY <1>2, <1>3, <1>4, <1>5 DEF Seen, Shown, First
<1> QED BY <1>6, <1>7, <1>8 DEF Valued

LEMMA FitsSeen ==
    ASSUME NEW T, NEW c, NEW up, NEW red, NEW h, NEW x, NEW y, NEW t,
           Fits(T, c, up, red, h, x, y, t)
    PROVE  Seen(T, c) /\ Linked(T, c, up) /\ T = Members
BY DEF Fits, Standing, Seen

\* A step that leaves the writer and the tree alone.
LEMMA ApartValues ==
    ASSUME TreeInv, Valued, NEW T \in SUBSET Nodes, T = Members, Members' = T,
           w' = w \/ (w.pc = "done" /\ w'.pc = "idle"), todo' = todo, root' = root,
           \A n \in Members : child'[n] = child[n] /\ aug'[n] = aug[n],
           leftmost' = leftmost, aug' \in Values, Blank'
    PROVE  Valued'
<1>1. PICK c \in Memory, up \in Ups : Seen(T, c) /\ Linked(T, c, up)
    BY FitsSeen DEF TreeInv
<1>2. First(T, c, aug, leftmost)
    BY <1>1, ValuedIs DEF TreeInv
<1>3. Seen(T, c)'
    <2>1. Shown(T, c)
        BY <1>1 DEF Seen
    <2>2. Shown(T, c)'
        BY <2>1, ApartShows
    <2> QED BY <1>1, <2>2 DEF Seen, Lifting
<1>4. Exact(T, c, aug')
    <2> SUFFICES ASSUME NEW n \in T PROVE aug'[n] = Compute(c, aug', n)
        BY DEF Exact
    <2>1. \A m \in T : aug'[m] = aug[m]
        OBVIOUS
    <2>2. \A s \in Sides : c[n][s] # NULL => c[n][s] \in T
        BY <1>1 DEF Linked
    <2>3. Compute(c, aug', n) = Compute(c, aug, n)
        BY <2>1, <2>2, ComputeSame
    <2> QED BY <1>2, <2>1, <2>3 DEF First, Exact
<1>5. First(T, c, aug, leftmost)'
    BY <1>2, <1>4 DEF First
<1> QED BY <1>3, <1>5 DEF Valued, Seen, Shown, First

LEMMA ReaderValues == TreeInv /\ Valued /\ (\E r \in Readers : Reader(r)) => Valued'
<1> SUFFICES ASSUME TreeInv, Valued, NEW r \in Readers, Reader(r) PROVE Valued'
    OBVIOUS
<1>1. Typed /\ Settled /\ Members \in SUBSET Nodes
    BY MembersNodes DEF TreeInv
<1>2. /\ w' = w /\ todo' = todo /\ root' = root /\ present' = present /\ Members' = Members
      /\ leftmost' = leftmost /\ Visible' = Visible
    BY DEF Reader, ReadStart, ReadStep, ReadEnd, WriterSame, Members, Visible
<1>3. CASE child' = child /\ aug' = aug /\ waits' = waits
    <2>1. Blank' /\ aug' \in Values
        BY <1>2, <1>3 DEF Valued, Blank
    <2> QED BY <1>1, <1>2, <1>3, <2>1, ApartValues
<1>4. CASE ReadEnd(r)
    <2>1. Forget({n \in Nodes : waits[n] = {r}}) /\ waits' = [n \in Nodes |-> waits[n] \ {r}]
        BY <1>4 DEF ReadEnd
    <2>2. {n \in Nodes : waits[n] = {r}} \cap Members = {}
        BY <1>1 DEF Settled
    <2>3. /\ \A n \in Members : child'[n] = child[n]
          /\ \A n \in Nodes : aug'[n] = IF waits[n] = {r} THEN {} ELSE aug[n]
          /\ aug' = [n \in Nodes |-> aug'[n]]
        BY <1>1, <2>1, <2>2, ForgetApart DEF Forget
    <2>4. aug' \in Values
        BY <2>3 DEF Valued, Values
    <2>5. Blank'
        <3> SUFFICES ASSUME NEW n \in Nodes, n \notin Visible, waits[n] \ {r} = {} PROVE aug'[n] = {}
            BY <1>2, <2>1 DEF Blank
        <3>1. waits[n] = {} => aug[n] = {}
            BY DEF Valued, Blank
        <3> QED BY <2>3, <3>1
    <2>6. \A n \in Members : child'[n] = child[n] /\ aug'[n] = aug[n]
        BY <1>1, <2>2, <2>3
    <2> QED BY <1>1, <1>2, <2>4, <2>5, <2>6, ApartValues
<1> QED BY <1>3, <1>4 DEF Reader, ReadStart, ReadStep

LEMMA ReturnValues == TreeInv /\ Valued /\ Return => Valued'
<1> SUFFICES ASSUME TreeInv, Valued, Return PROVE Valued'
    OBVIOUS
<1>1. Typed /\ Settled /\ Members \in SUBSET Nodes
    BY MembersNodes DEF TreeInv
<1> DEFINE gone == IF Walking = {} THEN Out(w.op) ELSE {}
<1>2. /\ w.pc = "done" /\ todo = <<>> /\ w' = Idle /\ present' = (present \cup In(w.op)) \ Out(w.op)
      /\ waits' = [n \in Nodes |-> IF n \in Out(w.op) THEN Walking ELSE waits[n]]
      /\ Forget(gone) /\ root' = root /\ todo' = todo /\ leftmost' = leftmost
    BY DEF Return, At
<1>3. Members = present' /\ Members' = present' /\ w'.pc = "idle" /\ Visible' = present'
    BY <1>2 DEF Members, Idle, Visible
<1>4. gone \cap Members = {}
    BY <1>2, <1>3
<1>5. /\ \A n \in Nodes : n \in gone <=> Walking = {} /\ n \in Out(w.op)
      /\ Members = Visible \ Out(w.op)
    BY <1>1, <1>2, VisibleIs
<1> HIDE DEF gone
<1>6. /\ \A n \in Members : child'[n] = child[n]
      /\ \A n \in Nodes : aug'[n] = IF n \in gone THEN {} ELSE aug[n]
      /\ aug' = [n \in Nodes |-> aug'[n]]
    BY <1>1, <1>2, <1>4, ForgetApart DEF Forget
<1>7. aug' \in Values
    BY <1>6 DEF Valued, Values
<1>8. Blank'
    <2> SUFFICES ASSUME NEW n \in Nodes, n \notin present', waits'[n] = {} PROVE aug'[n] = {}
        BY <1>3 DEF Blank
    <2>1. CASE n \in Out(w.op)
        BY <1>2, <1>5, <1>6, <2>1
    <2>2. CASE n \notin Out(w.op)
        <3>1. n \notin Visible /\ waits[n] = {}
            BY <1>2, <1>3, <1>5, <2>2
        <3>2. aug[n] = {}
            BY <3>1 DEF Valued, Blank
        <3> QED BY <1>6, <3>2
    <2> QED BY <2>1, <2>2
<1>9. \A n \in Members : child'[n] = child[n] /\ aug'[n] = aug[n]
    BY <1>1, <1>4, <1>6
<1> QED BY <1>1, <1>2, <1>3, <1>7, <1>8, <1>9, ApartValues

\* The way down stays in every set that its steps stay in.
LEMMA DeepestWithin ==
    ASSUME NEW T \in SUBSET Nodes, NEW s, NEW n \in T, \A m \in T : child[m][s] \in T \cup {NULL},
           NEW X, n \in X, \A m \in X : child[m][s] \in X \cup {NULL}
    PROVE  Deepest(n, s) \in X
<1> PICK N : N = Cardinality(Nodes)
    OBVIOUS
<1> PICK mem : mem = child
    OBVIOUS
<1>0. N \in Nat
    BY NodeAssumption, FS_CardinalityType
<1>1. /\ \A m \in T : mem[m][s] \in T \cup {NULL}
      /\ \A m \in X : mem[m][s] \in X \cup {NULL}
    OBVIOUS
<1> DEFINE f == CHOOSE f : f = Deepened(f, mem, n, s)
<1>2. Deepest(n, s) = f[N]
    BY DEF Deepest, Deepened
<1>3. f = Deepened(f, mem, n, s)
    BY <1>1, DeepenedExists
<1> HIDE DEF f
<1>4. \A k \in 0 .. N :
        f[k] = IF k = 0 THEN n ELSE IF mem[f[k - 1]][s] = NULL THEN f[k - 1] ELSE mem[f[k - 1]][s]
    BY <1>3, Zenon DEF Deepened
<1>5. f[0] = n /\ \A k \in 0 .. (N - 1) :
        f[k + 1] = IF mem[f[k]][s] = NULL THEN f[k] ELSE mem[f[k]][s]
    BY <1>0, <1>4
<1> DEFINE S == {k \in 0 .. N : f[k] \in X}
<1>6. 0 \in S
    BY <1>0, <1>5
<1>7. ASSUME NEW k \in 0 .. (N - 1), k \in S PROVE k + 1 \in S
    <2>1. k + 1 \in 0 .. N
        BY <1>0
    <2> QED BY <1>1, <1>5, <1>7, <2>1
<1>8. \A k \in 0 .. N : k \in S
    <2> HIDE DEF S
    <2> QED BY <1>0, <1>6, <1>7, CountingUp
<1>9. N \in 0 .. N
    BY <1>0
<1> QED BY <1>2, <1>8, <1>9

\* The loop of Ascend, as an equation.
Ascended(f, mem, words, n, s) ==
    [k \in 0 .. Cardinality(Nodes) |->
       IF k = 0 THEN n
       ELSE LET m == f[k - 1]
                p == words[m].up
            IN  IF p # NULL /\ m = mem[p][s] THEN p ELSE m]
Above(mem, words, s, m) ==
    LET p == words[m].up IN IF p # NULL /\ m = mem[p][s] THEN p ELSE m

LEMMA AscendedExists ==
    ASSUME NEW T \in SUBSET Nodes, NEW mem, NEW words, NEW s, NEW n \in T,
           \A m \in T : words[m].up \in T \cup {NULL}
    PROVE  \E f : f = Ascended(f, mem, words, n, s)
<1> PICK N : N = Cardinality(Nodes)
    OBVIOUS
<1> DEFINE next == [m \in T |-> Above(mem, words, s, m)]
<1>1. N \in Nat /\ next \in [T -> T] /\ n \in T
    <2>1. \A m \in T : Above(mem, words, s, m) \in T
        BY DEF Above
    <2> QED BY <2>1, NodeAssumption, FS_CardinalityType
<1>2. \A m \in T : next[m] = Above(mem, words, s, m)
    OBVIOUS
<1> HIDE DEF next
<1>3. \A X : \A a \in X : \A g \in [X -> X] :
        \E f : /\ f \in [0 .. N -> X]
               /\ f = [k \in 0 .. N |-> IF k = 0 THEN a ELSE g[f[k - 1]]]
    BY <1>1, LoopExists, Zenon
<1>4. PICK f : /\ f \in [0 .. N -> T]
               /\ f = [k \in 0 .. N |-> IF k = 0 THEN n ELSE next[f[k - 1]]]
    BY <1>1, <1>3
<1>5. ASSUME NEW k \in 0 .. N
      PROVE  (IF k = 0 THEN n ELSE next[f[k - 1]]) =
             (IF k = 0 THEN n ELSE Above(mem, words, s, f[k - 1]))
    <2>1. CASE k = 0
        BY <2>1
    <2>2. CASE k # 0
        <3>a. k - 1 \in 0 .. N
            BY <1>1, <2>2
        <3>b. f \in [0 .. N -> T]
            BY <1>4
        <3>1. f[k - 1] \in T
            BY <3>a, <3>b
        <3> QED BY <1>2, <2>2, <3>1
    <2> QED BY <2>1, <2>2
<1>6. f = [k \in 0 .. N |-> IF k = 0 THEN n ELSE Above(mem, words, s, f[k - 1])]
    BY <1>4, <1>5
<1>7. f = Ascended(f, mem, words, n, s)
    BY <1>6, Zenon DEF Ascended, Above
<1> QED BY <1>7

\* An element that is not on side s of its parent is where the way up ends.
LEMMA AscendHere ==
    ASSUME NEW T \in SUBSET Nodes, NEW s, NEW n \in T, \A m \in T : word[m].up \in T \cup {NULL},
           word[n].up # NULL => n # child[word[n].up][s]
    PROVE  Ascend(n, s) = word[n].up
<1> PICK N : N = Cardinality(Nodes)
    OBVIOUS
<1> PICK mem : mem = child
    OBVIOUS
<1> PICK words : words = word
    OBVIOUS
<1>0. N \in Nat
    BY NodeAssumption, FS_CardinalityType
<1>1. (\A m \in T : words[m].up \in T \cup {NULL}) /\ Above(mem, words, s, n) = n
    BY DEF Above
<1> DEFINE f == CHOOSE f : f = Ascended(f, mem, words, n, s)
<1>2. Ascend(n, s) = words[f[N]].up
    BY DEF Ascend, Ascended
<1>3. f = Ascended(f, mem, words, n, s)
    BY <1>1, AscendedExists
<1> HIDE DEF f
<1>4. \A k \in 0 .. N : f[k] = IF k = 0 THEN n ELSE Above(mem, words, s, f[k - 1])
    BY <1>3, Zenon DEF Ascended, Above
<1>5. f[0] = n /\ \A k \in 0 .. (N - 1) : f[k + 1] = Above(mem, words, s, f[k])
    BY <1>0, <1>4
<1> DEFINE S == {k \in 0 .. N : f[k] = n}
<1>6. 0 \in S
    BY <1>0, <1>5
<1>7. ASSUME NEW k \in 0 .. (N - 1), k \in S PROVE k + 1 \in S
    <2>1. k + 1 \in 0 .. N
        BY <1>0
    <2> QED BY <1>1, <1>5, <1>7, <2>1
<1>8. \A k \in 0 .. N : k \in S
    <2> HIDE DEF S
    <2> QED BY <1>0, <1>6, <1>7, CountingUp
<1>9. N \in 0 .. N
    BY <1>0
<1> QED BY <1>2, <1>8, <1>9

\* What a call has to show of the values.
LEMMA CallValues ==
    ASSUME Valued, Typed, Settled, NEW o \in Calls, Begin(o), w'.op = o, w'.pc # "idle",
           NEW U, Members' = U, aug' \in Values, SameOff(U, aug, aug'),
           NEW d \in Memory, Seen(U, d)', First(U, d, aug, leftmost)'
    PROVE  Valued'
<1>1. w.pc = "idle" /\ waits' = waits /\ present' = present
    BY DEF Begin
<1>2. Visible = present /\ Visible' = present \cup In(o) /\ U \in SUBSET Visible'
    BY <1>1 DEF Visible, Members
<1>3. Blank'
    <2> SUFFICES ASSUME NEW n \in Nodes, n \notin Visible', waits[n] = {} PROVE aug'[n] = {}
        BY <1>1 DEF Blank
    <2>1. aug[n] = {}
        BY <1>2 DEF Valued, Blank
    <2> QED BY <1>2, <2>1 DEF SameOff
<1>4. Seen(Members, d)' /\ First(Members, d, aug, leftmost)'
    BY DEF Seen, Shown, First
<1> QED BY <1>3, <1>4 DEF Valued

\* Between calls the values are those of the tree the writer sees.
LEMMA RestValues ==
    ASSUME TreeInv, Valued, w.pc = "idle", NEW T \in SUBSET Nodes, NEW c \in Memory, NEW up,
           NEW red, NEW h, NEW t, Resting(T, c, up, red, h, t)
    PROVE  /\ First(T, c, aug, leftmost) /\ aug \in Values
           /\ \A n \in Nodes \ T : waits[n] = {} => aug[n] = {}
<1>1. Typed /\ Settled /\ todo = <<>> /\ Members = T /\ ~Lifting("insert") /\ Visible = T
    BY RestSees DEF Members, Lifting, Resting, Visible
<1>2. Seen(T, c)
    BY <1>1, HeldSeen DEF Resting
<1>3. First(T, c, aug, leftmost) /\ aug \in Values
    BY <1>1, <1>2, ValuedIs
<1> QED BY <1>1, <1>3 DEF Valued, Blank

\* The tree that is left of a call has a rank, and its parents are the words.
Left(T, c, up) ==
    /\ Seen(T, c)' /\ Shown(T, c)' /\ Members' = T /\ Linked(T, c, up)
    /\ \E rank : Ranked(T, c, rank)
    /\ \A m \in T : word'[m].up = up[m]

LEMMA LeftBy ==
    ASSUME NEW T \in SUBSET Nodes, NEW c \in Memory, NEW up \in Ups, NEW red \in SUBSET Nodes,
           NEW h \in Heights, NEW x, NEW y, NEW t, Fits(T, c, up, red, h, x, y, t)', w'.pc # "outer"
    PROVE  Left(T, c, up)
<1>1. /\ T = Members' /\ Shown(T, c)' /\ Worded(T, c, up, red, t)'
      /\ Linked(T, c, up) /\ Balanced(T, c, red, h, x, y, t)
    BY DEF Fits
<1>2. ~Lifting("insert")' /\ ~Lifting("erase")'
    BY DEF Lifting
<1>3. \A m \in T : word'[m].up = up[m]
    BY <1>1, <1>2 DEF Worded
<1>4. \E rank : Ranked(T, c, rank)
    BY <1>1, RankExists
<1>5. Seen(T, c)'
    BY <1>1, <1>2 DEF Seen
<1> QED BY <1>1, <1>3, <1>4, <1>5 DEF Left

LEMMA ReplaceValues == TreeInv /\ Valued /\ (\E o \in Replaces : Replace(o)) => Valued'
<1> SUFFICES ASSUME TreeInv, Valued, NEW o \in Replaces, Replace(o) PROVE Valued'
    OBVIOUS
<1> PICK v : v = o.victim
    OBVIOUS
<1> PICK n : n = o.node
    OBVIOUS
<1>1. /\ Typed' /\ Settled'
      /\ \E T \in SUBSET Nodes, c \in Memory, up \in Ups, red \in SUBSET Nodes,
            h \in Heights, t \in Sides, Z \in SUBSET Nodes, d \in Memory, vp \in Ups,
            r \in SUBSET Nodes, h2 \in Heights, k \in Sides :
           Exchange(T, c, up, red, h, t, Z, d, vp, r, h2, v, n, k)
    BY ReplaceFinds
<1>2. PICK T \in SUBSET Nodes, c \in Memory, up \in Ups, red \in SUBSET Nodes,
           h \in Heights, t \in Sides, Z \in SUBSET Nodes, d \in Memory, vp \in Ups,
           r \in SUBSET Nodes, h2 \in Heights, k \in Sides :
           Exchange(T, c, up, red, h, t, Z, d, vp, r, h2, v, n, k)
    BY <1>1
<1>3. /\ Resting(T, c, up, red, h, t) /\ v \in T /\ n \in Nodes \ T /\ waits[n] = {}
      /\ Z = (T \ {v}) \cup {n} /\ Substituted(T, c, up, d, v, n, k)
      /\ Fits(Z, d, vp, r, h2, NULL, NULL, t)'
    BY <1>2 DEF Exchange
<1>16. \A m \in T, e \in Sides : child[m][e] = c[m][e]
    <2>1. Held(T, c)
        BY <1>3 DEF Resting
    <2> QED BY <2>1, HeldAre
<1> PICK stores : stores = <<ChangeChild(v, n, word[v].up)>>
    OBVIOUS
<1> PICK mem : mem = [After(stores) EXCEPT ![n] = child[v]]
    OBVIOUS
<1>4. /\ Begin(o) /\ child' = [child EXCEPT ![n] = child[v]] /\ todo' = stores
      /\ aug' = AugPropagate(mem, word', aug, n, NULL)
      /\ leftmost' = IF leftmost = v THEN n ELSE leftmost
      /\ w'.pc = "done" /\ w'.op = o /\ w.pc = "idle"
    BY DEF Replace, Begin, Idle
<1>5. /\ First(T, c, aug, leftmost) /\ aug \in Values /\ aug[n] = {}
    <2>1. First(T, c, aug, leftmost) /\ aug \in Values
          /\ \A m \in Nodes \ T : waits[m] = {} => aug[m] = {}
        BY <1>3, <1>4, RestValues
    <2> QED BY <1>3, <2>1
<1>6. /\ Seen(Z, d)' /\ Shown(Z, d)' /\ Members' = Z /\ Linked(Z, d, vp)
      /\ \E rank : Ranked(Z, d, rank)
      /\ \A m \in Z : word'[m].up = vp[m]
    <2>1. Fits(Z, d, vp, r, h2, NULL, NULL, t)' /\ w'.pc # "outer"
        BY <1>3, <1>4
    <2>2. Left(Z, d, vp)
        BY <2>1, LeftBy
    <2> QED BY <2>2 DEF Left
<1>7. PICK rank : Ranked(Z, d, rank)
    BY <1>6
<1>8. Linked(T, c, up) /\ Held(T, c) /\ child \in [Nodes -> [Sides -> Links]]
    BY <1>3 DEF Resting, TreeInv, Typed
<1>9. \A m \in Z, e \in Sides : d[m][e] = IF m = n THEN c[v][e]
                                          ELSE IF m = up[v] /\ e = k THEN n ELSE c[m][e]
    BY <1>3 DEF Substituted
<1>10. mem \in Children /\ \A m \in Z, e \in Sides : mem[m][e] = d[m][e]
    <2> PICK mem0 : mem0 = After(stores)
        OBVIOUS
    <2> PICK S : S = T \ {v}
        OBVIOUS
    <2>1. todo' \in Seq(Puts)
        BY <1>1 DEF Typed
    <2>2. S \in SUBSET Z /\ \A m \in S : child'[m] = child[m]
        BY <1>3, <1>4, <1>8
    <2>3. Pictured(S, mem0, d)
        BY <1>4, <1>6, <1>8, <2>1, <2>2, AfterSome
    <2>4. mem0 \in Children /\ \A m \in S, e \in Sides : mem0[m][e] = d[m][e]
        BY <1>4, <2>3 DEF Pictured, Lifting
    <2>5. child[v] \in [Sides -> Links] /\ \A e \in Sides : child[v][e] = c[v][e]
        <3>1. \A m \in T, e \in Sides : child[m][e] = c[m][e]
            BY <1>16
        <3> QED BY <1>3, <1>8, <3>1
    <2>6. mem = [mem0 EXCEPT ![n] = child[v]]
        OBVIOUS
    <2>7. mem \in Children
        BY <1>3, <2>4, <2>5, <2>6 DEF Children
    <2>8. \A m \in Nodes : mem[m] = IF m = n THEN child[v] ELSE mem0[m]
        BY <2>4, <2>6 DEF Children
    <2>9. ASSUME NEW m \in Z, NEW e \in Sides PROVE mem[m][e] = d[m][e]
        <3>1. CASE m = n
            BY <1>3, <1>9, <2>5, <2>8, <3>1
        <3>2. CASE m # n
            BY <1>3, <2>4, <2>8, <3>2
        <3> QED BY <3>1, <3>2
    <2> QED BY <2>7, <2>9
<1>11. Ladder(Z, d, vp, rank, 0, mem, word')
    <2>1. \A m \in Z : word'[m].up \in Z \cup {NULL}
        BY <1>6 DEF Linked
    <2> QED BY <1>6, <1>10, <2>1 DEF Ladder, Ways
<1> PICK i : i = [values |-> aug, at |-> n]
    OBVIOUS
<1>12. Climbing(Z, d, vp, NULL, i)
    <2>1. i.values = aug /\ i.at = n /\ n # NULL
        BY <1>3, NodeAssumption
    <2>2. aug[n] # Compute(d, aug, n)
        BY <1>5 DEF Compute
    <2> SUFFICES ASSUME NEW m \in Z, m # n, m # vp[n] PROVE aug[m] = Compute(d, aug, m)
        BY <2>1, <2>2 DEF Climbing
    <2>3. ~(m = up[v] /\ \E e \in Sides : e = k)
        <3>1. ASSUME m = up[v] PROVE FALSE
            <4>1. k \in Sides /\ d[m][k] = n
                BY <1>9, <3>1
            <4> QED BY <1>6, <2>1, <4>1 DEF Linked
        <3> QED BY <3>1
    <2>4. \A e \in Sides : d[m][e] = c[m][e]
        BY <1>9, <2>3
    <2>5. Compute(d, aug, m) = Compute(c, aug, m)
        BY <2>4, ComputeSame
    <2>6. m \in T
        BY <1>3
    <2> QED BY <1>5, <2>5, <2>6 DEF First, Exact
<1>13. aug' \in Values /\ SameOff(Z, aug, aug') /\ ExactBut(Z, d, aug', NULL)
    <2>1. n \in Z \cup {NULL} /\ NULL \in Z \cup {NULL} /\ 0 \in Nat /\ Z \in SUBSET Nodes
        BY <1>3
    <2>2. n # NULL => rank[n] >= 0
        BY <1>3, <1>7 DEF Ranked, Links
    <2> PICK words : words = word'
        OBVIOUS
    <2> PICK a : a = aug
        OBVIOUS
    <2> PICK b : b = aug'
        OBVIOUS
    <2>3. b = AugPropagate(mem, words, a, n, NULL) /\ a \in Values /\ i = [values |-> a, at |-> n]
        BY <1>4, <1>5
    <2>4. Ladder(Z, d, vp, rank, 0, mem, words)
        BY <1>11
    <2>5. b \in Values /\ SameOff(Z, a, b) /\ ExactBut(Z, d, b, NULL)
        BY <1>6, <1>7, <1>12, <2>1, <2>2, <2>3, <2>4, PropagateIs
    <2> QED BY <2>5
<1>14. First(Z, d, aug, leftmost)'
    <2>1. Foremost(Z, d, leftmost')
        BY <1>3, <1>4, <1>5, <1>8, SubstituteForemost DEF First
    <2>2. Exact(Z, d, aug')
        BY <1>3, <1>13, NodeAssumption DEF ExactBut, Exact
    <2> QED BY <2>1, <2>2 DEF First
<1>15. o \in Calls /\ Typed /\ Settled
    BY CallsAre DEF TreeInv
<1> QED BY <1>4, <1>6, <1>13, <1>14, <1>15, CallValues

\* Below an element with one child the child is a red leaf.
LEMMA OnlyChild ==
    ASSUME NEW T \in SUBSET Nodes, NEW c \in Memory, NEW up, Linked(T, c, up),
           NEW red \in SUBSET Nodes, NEW h \in Heights, NEW t, Balanced(T, c, red, h, NULL, NULL, t),
           NEW z \in T, NEW s \in Sides, c[z][Other(s)] = NULL, c[z][s] # NULL,
           NEW e \in Sides
    PROVE  c[c[z][s]][e] = NULL
<1> PICK r : r = c[z][s]
    OBVIOUS
<1> PICK b : b = c[r][e]
    OBVIOUS
<1>1. Other(s) \in Sides /\ NULL \notin Nodes
    BY SidesAre, NodeAssumption
<1>2. r \in T /\ z # NULL /\ r # NULL
    BY <1>1 DEF Linked
<1>3. b \in T \cup {NULL}
    BY <1>2 DEF Linked
<1>4. h[r] = 0
    <2>1. h[z] = h[c[z][s]] + Weight(red, z) + Lack(z, s, NULL, t)
        BY DEF Balanced
    <2>2. h[z] = h[c[z][Other(s)]] + Weight(red, z) + Lack(z, Other(s), NULL, t)
        BY <1>1 DEF Balanced
    <2>3. h[NULL] = 0 /\ h[r] \in Nat /\ Weight(red, z) \in Nat
        BY <1>2 DEF Balanced, Heights, Links, Weight
    <2>4. Lack(z, s, NULL, t) = 0 /\ Lack(z, Other(s), NULL, t) = 0
        BY <1>2 DEF Lack
    <2> QED BY <2>1, <2>2, <2>3, <2>4
<1>5. h[r] = h[b] + Weight(red, r) /\ h[b] \in Nat
    <2>1. h[r] = h[c[r][e]] + Weight(red, r) + Lack(r, e, NULL, t)
        BY <1>2 DEF Balanced
    <2>2. Lack(r, e, NULL, t) = 0
        BY <1>2 DEF Lack
    <2>3. h[b] \in Nat /\ Weight(red, r) \in Nat
        BY <1>3 DEF Heights, Links, Weight
    <2> QED BY <2>1, <2>2, <2>3
<1>6. r \in red /\ h[b] = 0
    BY <1>4, <1>5 DEF Weight
<1> SUFFICES ASSUME b # NULL PROVE FALSE
    OBVIOUS
<1>7. b \in T
    BY <1>3
<1>8. h[b] = h[c[b][e]] + Weight(red, b) /\ h[c[b][e]] \in Nat
    <2>1. h[b] = h[c[b][e]] + Weight(red, b) + Lack(b, e, NULL, t)
        BY <1>7 DEF Balanced
    <2>2. Lack(b, e, NULL, t) = 0
        BY <1>1, <1>7 DEF Lack
    <2>3. c[b][e] \in Links
        BY <1>7 DEF Memory, Links
    <2>4. h[c[b][e]] \in Nat /\ Weight(red, b) \in Nat
        BY <2>3 DEF Heights, Weight
    <2> QED BY <2>1, <2>2, <2>4
<1>9. b \in red
    BY <1>6, <1>8 DEF Weight
<1>10. c[r][e] \in red /\ r \in red => c[r][e] = NULL
    BY <1>2 DEF Balanced
<1> QED BY <1>6, <1>9, <1>10

\* rb_next of the first element is what is the first without it.
LEMMA NextOfFirst ==
    ASSUME NEW T \in SUBSET Nodes, NEW c \in Memory, NEW up \in Ups, NEW red \in SUBSET Nodes,
           NEW h \in Heights, NEW t, Resting(T, c, up, red, h, t),
           NEW z \in T, Foremost(T, c, z)
    PROVE  /\ RbNext(z) = FirstWithout(c, up, z, z)
           /\ c[z]["right"] # NULL => c[c[z]["right"]]["left"] = NULL
<1>1. /\ Linked(T, c, up) /\ Balanced(T, c, red, h, NULL, NULL, t) /\ Held(T, c)
      /\ \A m \in T : word[m].up = up[m]
    BY DEF Resting
<1>2. "left" \in Sides /\ "right" \in Sides /\ Other("right") = "left" /\ NULL \notin Nodes
    BY NodeAssumption DEF Sides, Other
<1>3. \A m \in T, e \in Sides : child[m][e] = c[m][e]
    BY <1>1, HeldAre
<1>4. PICK S \in SUBSET (T \cup {NULL}) : Spine(c, z, S)
    BY DEF Foremost
<1>5. c[z]["left"] = NULL /\ z # NULL
    BY <1>2, <1>4 DEF Spine
<1>6. PICK m \in T \cup {NULL} : c[m]["left"] = z
    <2>1. z \in S \ {NULL}
        BY <1>4, <1>5 DEF Spine
    <2> QED BY <1>4, <2>1 DEF Spine
<1>7. up[z] \in T \cup {NULL} /\ up[z] # z
    BY <1>1 DEF Linked
<1> PICK r : r = c[z]["right"]
    OBVIOUS
<1>8. CASE r # NULL
    <2>1. c[r]["left"] = NULL
        <3>1. c[z][Other("right")] = NULL /\ c[z]["right"] # NULL
            BY <1>2, <1>5, <1>8
        <3>2. c[c[z]["right"]]["left"] = NULL
            <4>1. Linked(T, c, up) /\ Balanced(T, c, red, h, NULL, NULL, t)
                BY <1>1
            <4>2. "right" \in Sides /\ "left" \in Sides
                BY <1>2
            <4> HIDE <1>1, <1>2
            <4> QED BY <3>1, <4>1, <4>2, OnlyChild
        <3> QED BY <3>2
    <2>2. r \in T
        BY <1>1, <1>2, <1>8 DEF Linked
    <2>3. \A x \in T : child[x]["left"] \in T \cup {NULL}
        BY <1>1, <1>2, <1>3 DEF Linked
    <2>4. \A x \in {r} : child[x]["left"] \in {r} \cup {NULL}
        BY <1>2, <1>3, <2>1, <2>2
    <2>5. Deepest(r, "left") \in {r}
        <3> PICK X : X = {r}
            OBVIOUS
        <3>1. r \in X /\ \A x \in X : child[x]["left"] \in X \cup {NULL}
            BY <2>4
        <3>2. Deepest(r, "left") \in X
            BY <2>2, <2>3, <3>1, DeepestWithin
        <3> QED BY <3>2
    <2>6. ~EmptyNode(z) /\ child[z]["right"] = r
        BY <1>1, <1>2, <1>3, <1>7 DEF EmptyNode
    <2>7. RbNext(z) = r
        BY <1>8, <2>5, <2>6 DEF RbNext
    <2> QED BY <1>8, <2>1, <2>7 DEF FirstWithout
<1>9. CASE r = NULL
    <2>1. ~EmptyNode(z) /\ child[z]["right"] = NULL
        BY <1>1, <1>2, <1>3, <1>7, <1>9 DEF EmptyNode
    <2>2. \A x \in T : word[x].up \in T \cup {NULL}
        BY <1>1 DEF Linked
    <2>3. Once(T, c)
        BY <1>1, OneSide
    <2>4. up[z] # NULL => z # child[up[z]]["right"]
        <3> SUFFICES ASSUME up[z] # NULL, z = child[up[z]]["right"] PROVE FALSE
            OBVIOUS
        <3>1. c[up[z]]["right"] = c[m]["left"] /\ c[up[z]]["right"] # NULL
            BY <1>2, <1>3, <1>5, <1>6, <1>7
        <3>2. up[z] \in T \cup {NULL} /\ m \in T \cup {NULL} /\ "right" # "left"
            BY <1>7
        <3> QED BY <1>2, <2>3, <3>1, <3>2 DEF Once
    <2>5. Ascend(z, "right") = word[z].up
        BY <1>1, <2>2, <2>4, AscendHere
    <2>6. RbNext(z) = up[z]
        BY <1>1, <2>1, <2>5 DEF RbNext
    <2> QED BY <1>9, <2>6 DEF FirstWithout
<1> QED BY <1>8, <1>9

LEMMA EraseOneValues == TreeInv /\ Valued /\ (\E o \in Erases : EraseOne(o)) => Valued'
<1> SUFFICES ASSUME TreeInv, Valued, NEW o \in Erases, EraseOne(o) PROVE Valued'
    OBVIOUS
<1> PICK z : z = o.node
    OBVIOUS
<1>1. /\ Typed' /\ Settled'
      /\ \E T \in SUBSET Nodes, c \in Memory, up \in Ups, red \in SUBSET Nodes,
            h \in Heights, t \in Sides, Z \in SUBSET Nodes, d \in Memory, vp \in Ups,
            r \in SUBSET Nodes, h2 \in Heights, y \in Links, t2 \in Sides,
            s \in Sides, k \in Sides :
           Removal(T, c, up, red, h, t, Z, d, vp, r, h2, y, t2, z, s, k)
    BY EraseOneFinds
<1>2. PICK T \in SUBSET Nodes, c \in Memory, up \in Ups, red \in SUBSET Nodes,
           h \in Heights, t \in Sides, Z \in SUBSET Nodes, d \in Memory, vp \in Ups,
           r \in SUBSET Nodes, h2 \in Heights, y \in Links, t2 \in Sides,
           s \in Sides, k \in Sides :
           Removal(T, c, up, red, h, t, Z, d, vp, r, h2, y, t2, z, s, k)
    BY <1>1
<1>3. /\ Resting(T, c, up, red, h, t) /\ z \in T /\ s \in Sides /\ k \in Sides
      /\ Z = T \ {z} /\ Unlinked(T, c, up, d, z, s, k)
      /\ Fits(Z, d, vp, r, h2, NULL, y, t2)' /\ w'.pc # "outer"
    BY <1>2 DEF Removal
<1>4. /\ Linked(T, c, up) /\ Held(T, c) /\ child \in [Nodes -> [Sides -> Links]]
      /\ \A m \in T : word[m].up = up[m]
    BY <1>3 DEF Resting, TreeInv, Typed
<1>5. PICK g : g = up[z] /\ g \in Z \cup {NULL}
    BY <1>3, <1>4 DEF Linked
<1> PICK n : n = IF child[z]["left"] = NULL THEN child[z]["right"] ELSE child[z]["left"]
    OBVIOUS
<1> PICK stores : stores = <<ChangeChild(z, n, word[z].up)>>
    OBVIOUS
<1>6. /\ Begin(o) /\ child' = child /\ todo' = stores
      /\ aug' = AugPropagate(After(stores), word', aug, g, NULL)
      /\ leftmost' = LeftmostWithout(z) /\ w.pc = "idle"
      /\ w'.op = o /\ w'.pc # "idle"
    <2>1. word[z].up = g
        BY <1>3, <1>4, <1>5
    <2>2. /\ EraseBegin(o) /\ todo' = <<ChangeChild(z, n, word[z].up)>>
          /\ aug' = AugPropagate(After(stores), word', aug, word[z].up, NULL)
          /\ Rebalance(o, IF n = NULL /\ ~IsRed(z) THEN word[z].up ELSE NULL)
        BY DEF EraseOne
    <2>3. w'.op = o /\ w'.pc # "idle"
        BY <2>2 DEF Rebalance, Idle
    <2> QED BY <2>1, <2>2, <2>3 DEF EraseBegin, Begin
<1>7. First(T, c, aug, leftmost) /\ aug \in Values
    BY <1>3, <1>6, RestValues
<1>8. /\ Seen(Z, d)' /\ Shown(Z, d)' /\ Members' = Z /\ Linked(Z, d, vp)
      /\ \E rank : Ranked(Z, d, rank)
      /\ \A m \in Z : word'[m].up = vp[m]
    <2>1. Fits(Z, d, vp, r, h2, NULL, y, t2)' /\ w'.pc # "outer"
        BY <1>3
    <2>2. Left(Z, d, vp)
        BY <2>1, LeftBy
    <2> QED BY <2>2 DEF Left
<1>9. PICK rank : Ranked(Z, d, rank)
    BY <1>8
<1> PICK mem : mem = After(stores)
    OBVIOUS
<1> PICK words : words = word'
    OBVIOUS
<1> PICK a : a = aug
    OBVIOUS
<1> PICK b : b = aug'
    OBVIOUS
<1> PICK i : i = [values |-> a, at |-> g]
    OBVIOUS
<1>10. mem \in Children /\ \A m \in Z, e \in Sides : mem[m][e] = d[m][e]
    <2>1. Pictured(Z, mem, d)
        <3>1. todo' \in Seq(Puts) /\ mem = After(todo')
            BY <1>1, <1>6 DEF Typed
        <3> QED BY <1>4, <1>6, <1>8, <3>1, AfterIs
    <2> QED BY <1>3, <2>1 DEF Pictured, Lifting
<1>11. Ladder(Z, d, vp, rank, 0, mem, words)
    <2>1. \A m \in Z : words[m].up \in Z \cup {NULL}
        BY <1>8 DEF Linked
    <2>2. \A m \in Z : words[m].up = vp[m]
        BY <1>8
    <2> QED BY <1>10, <2>1, <2>2 DEF Ladder, Ways
<1>12. Climbing(Z, d, vp, NULL, i)
    <2> SUFFICES ASSUME NEW m \in Z, m # g PROVE a[m] = Compute(d, a, m)
        BY DEF Climbing
    <2>1. \A e \in Sides : d[m][e] = c[m][e]
        BY <1>3, <1>5 DEF Unlinked
    <2>2. Compute(d, a, m) = Compute(c, a, m)
        BY <2>1, ComputeSame
    <2> QED BY <1>3, <1>7, <2>2 DEF First, Exact
<1>13. b \in Values /\ SameOff(Z, a, b) /\ ExactBut(Z, d, b, NULL)
    <2>1. NULL \in Z \cup {NULL} /\ 0 \in Nat /\ b = AugPropagate(mem, words, a, g, NULL) /\ a \in Values
        BY <1>6, <1>7
    <2>2. g # NULL => rank[g] >= 0
        BY <1>3, <1>5, <1>9 DEF Ranked, Links
    <2> QED BY <1>5, <1>8, <1>9, <1>11, <1>12, <2>1, <2>2, PropagateIs
<1>14. First(Z, d, aug, leftmost)'
    <2>1. Foremost(Z, d, leftmost')
        <3> PICK f : f = leftmost
            OBVIOUS
        <3>1. Foremost(T, c, f)
            BY <1>7 DEF First
        <3>2. /\ leftmost' = FirstWithout(c, up, f, z)
              /\ z = f /\ c[z]["right"] # NULL => c[c[z]["right"]]["left"] = NULL
            <4>1. CASE z = f
                BY <1>3, <1>6, <3>1, <4>1, NextOfFirst DEF LeftmostWithout
            <4>2. CASE z # f
                BY <1>6, <4>2 DEF LeftmostWithout, FirstWithout
            <4> QED BY <4>1, <4>2
        <3> QED BY <1>3, <1>4, <3>1, <3>2, UnlinkForemost
    <2>2. Exact(Z, d, aug')
        BY <1>3, <1>13, NodeAssumption DEF ExactBut, Exact
    <2> QED BY <2>1, <2>2 DEF First
<1>15. o \in Calls /\ Typed /\ Settled
    BY CallsAre DEF TreeInv
<1> QED BY <1>6, <1>8, <1>13, <1>14, <1>15, CallValues

\* The descent of an insertion stays in every set that its turns stay in.
LEMMA SpotWithin ==
    ASSUME NEW T \in SUBSET Nodes, root \in T \cup {NULL},
           \A m \in T, e \in Sides : child[m][e] \in T \cup {NULL}, NEW n,
           NEW X, From(root) \in X, \A s \in X : Deeper(child, s, n) \in X
    PROVE  Spot(n) \in X
<1> PICK N : N = Cardinality(Nodes)
    OBVIOUS
<1> PICK mem : mem = child
    OBVIOUS
<1> PICK rt : rt = root
    OBVIOUS
<1>0. N \in Nat
    BY NodeAssumption, FS_CardinalityType
<1>1. /\ rt \in T \cup {NULL} /\ \A m \in T, e \in Sides : mem[m][e] \in T \cup {NULL}
      /\ From(rt) \in X /\ \A s \in X : Deeper(mem, s, n) \in X
    OBVIOUS
<1> DEFINE f == CHOOSE f : f = Sought(f, mem, rt, n)
<1>2. Spot(n) = f[N]
    BY DEF Spot, Sought
<1>3. f = Sought(f, mem, rt, n)
    BY <1>1, SoughtExists
<1> HIDE DEF f
<1>4. \A k \in 0 .. N : f[k] = IF k = 0 THEN From(rt) ELSE Deeper(mem, f[k - 1], n)
    BY <1>3, Zenon DEF Sought, From, Deeper
<1>5. f[0] = From(rt) /\ \A k \in 0 .. (N - 1) : f[k + 1] = Deeper(mem, f[k], n)
    BY <1>0, <1>4
<1> DEFINE S == {k \in 0 .. N : f[k] \in X}
<1>6. 0 \in S
    BY <1>0, <1>1, <1>5
<1>7. ASSUME NEW k \in 0 .. (N - 1), k \in S PROVE k + 1 \in S
    <2>1. k + 1 \in 0 .. N /\ f[k] \in X
        BY <1>0, <1>7
    <2> QED BY <1>1, <1>5, <2>1
<1>8. \A k \in 0 .. N : k \in S
    <2> HIDE DEF S
    <2> QED BY <1>0, <1>6, <1>7, CountingUp
<1>9. N \in 0 .. N
    BY <1>0
<1> QED BY <1>2, <1>8, <1>9

\* A descent: its path runs from the root to the parent, and it is the first element's
\* way as long as it has only gone left.
Tracing(T, c, up, S, s) ==
    /\ s \in Descents(T) /\ s.at = c[s.parent][s.side]
    /\ s.parent # NULL => s.parent \in s.path
    /\ \A x \in s.path : up[x] = NULL \/ up[x] \in s.path
    /\ \A x \in s.path : x = s.parent \/ \E e \in Sides : c[x][e] \in s.path
    /\ s.first <=> s.parent \in S /\ s.side = "left"

LEMMA TracingFrom ==
    ASSUME NEW T \in SUBSET Nodes, NEW c, NEW up, Linked(T, c, up), NEW f, NEW S, Spine(c, f, S),
           NEW rt, rt = c[NULL]["left"], rt \in T \cup {NULL}
    PROVE  Tracing(T, c, up, S, From(rt))
<1>1. NULL \in S
    BY DEF Spine
<1>2. From(rt) \in Descents(T)
    BY DEF From, Descents, Sides
<1> QED BY <1>1, <1>2 DEF From, Tracing

LEMMA TracingDeeper ==
    ASSUME NEW T \in SUBSET Nodes, NEW c, NEW up, Linked(T, c, up), NEW f,
           NEW S \in SUBSET (T \cup {NULL}), Spine(c, f, S),
           NEW mem, \A m \in T, e \in Sides : mem[m][e] = c[m][e], NEW n,
           NEW s, Tracing(T, c, up, S, s)
    PROVE  Tracing(T, c, up, S, Deeper(mem, s, n))
<1>1. CASE s.at = NULL
    BY <1>1 DEF Deeper
<1>2. CASE s.at # NULL
    <2> PICK e : e = IF Key[s.at] < Key[n] THEN "left" ELSE "right"
        OBVIOUS
    <2> PICK x : x = s.at
        OBVIOUS
    <2>1. /\ s \in Descents(T) /\ x = c[s.parent][s.side] /\ x # NULL
          /\ s.parent # NULL => s.parent \in s.path
          /\ \A y \in s.path : up[y] = NULL \/ up[y] \in s.path
          /\ \A y \in s.path : y = s.parent \/ \E i \in Sides : c[y][i] \in s.path
          /\ s.first <=> s.parent \in S /\ s.side = "left"
        BY <1>2 DEF Tracing
    <2>2. /\ x \in T /\ s.parent \in T \cup {NULL} /\ s.side \in Sides /\ s.path \in SUBSET T
          /\ e \in Sides /\ s.first \in BOOLEAN
        BY <2>1 DEF Descents, Sides
    <2>3. up[x] = s.parent
        BY <2>1, <2>2 DEF Linked
    <2> PICK z : z = [at |-> c[x][e], parent |-> x, side |-> e,
                      first |-> s.first /\ e = "left", path |-> s.path \cup {x}]
        OBVIOUS
    <2>4. Deeper(mem, s, n) = z
        BY <1>2, <2>2 DEF Deeper
    <2>5. /\ z.at = c[x][e] /\ z.parent = x /\ z.side = e /\ z.path = s.path \cup {x}
          /\ z.first = (s.first /\ e = "left")
        OBVIOUS
    <2>6. z \in Descents(T)
        <3>1. c[x][e] \in T \cup {NULL} /\ (s.first /\ e = "left") \in BOOLEAN
              /\ s.path \cup {x} \in SUBSET T
            BY <2>2 DEF Linked
        <3> QED BY <2>2, <3>1 DEF Descents
    <2>7. \A y \in z.path : up[y] = NULL \/ up[y] \in z.path
        BY <2>1, <2>2, <2>3, <2>5
    <2>8. \A y \in z.path : y = z.parent \/ \E i \in Sides : c[y][i] \in z.path
        <3> SUFFICES ASSUME NEW y \in s.path PROVE \E i \in Sides : c[y][i] \in s.path \cup {x}
            BY <2>5
        <3> QED BY <2>1, <2>2
    <2>9. s.first <=> x \in S
        <3>1. ASSUME s.first PROVE x \in S
            <4>1. s.parent \in S /\ c[s.parent]["left"] = x
                BY <2>1, <3>1
            <4>2. s.parent # f
                BY <2>1, <4>1 DEF Spine
            <4> QED BY <4>1, <4>2 DEF Spine
        <3>2. ASSUME x \in S PROVE s.first
            <4>1. PICK m \in S : c[m]["left"] = x
                BY <2>1, <3>2 DEF Spine
            <4>2. Once(T, c)
                BY OneSide
            <4>3. m \in T \cup {NULL} /\ "left" \in Sides
                BY DEF Sides
            <4>4. m = s.parent /\ s.side = "left"
                <5> PICK p : p = s.parent
                    OBVIOUS
                <5> PICK i : i = s.side
                    OBVIOUS
                <5>1. c[m]["left"] = c[p][i] /\ c[m]["left"] # NULL
                    BY <2>1, <4>1
                <5>2. p \in T \cup {NULL} /\ i \in Sides
                    BY <2>2
                <5>3. m = p /\ "left" = i
                    BY <4>2, <4>3, <5>1, <5>2 DEF Once
                <5> QED BY <5>3
            <4> QED BY <2>1, <4>1, <4>4
        <3> QED BY <2>2, <3>1, <3>2
    <2>10. z.first <=> z.parent \in S /\ z.side = "left"
        BY <2>5, <2>9
    <2>11. z.parent # NULL => z.parent \in z.path
        BY <2>5
    <2>12. z.at = c[z.parent][z.side]
        BY <2>5
    <2>13. Tracing(T, c, up, S, z)
        BY <2>6, <2>7, <2>8, <2>10, <2>11, <2>12, Zenon DEF Tracing
    <2> QED BY <2>4, <2>13
<1> QED BY <1>1, <1>2

\* What the descent of an insertion has come by.
LEMMA SpotTraces ==
    ASSUME NEW T \in SUBSET Nodes, NEW c, NEW up, Linked(T, c, up), Held(T, c), NEW f,
           NEW S \in SUBSET (T \cup {NULL}), Spine(c, f, S), NEW n
    PROVE  Tracing(T, c, up, S, Spot(n))
<1> PICK X : X = {s \in Descents(T) : Tracing(T, c, up, S, s)}
    OBVIOUS
<1> PICK mem : mem = child
    OBVIOUS
<1>1. /\ root = c[NULL]["left"] /\ root \in T \cup {NULL}
      /\ \A m \in T, e \in Sides : mem[m][e] = c[m][e]
    BY HeldAre DEF Linked, Sides
<1>2. \A m \in T, e \in Sides : mem[m][e] \in T \cup {NULL}
    BY <1>1 DEF Linked
<1>3. From(root) \in X
    <2>1. Tracing(T, c, up, S, From(root))
        BY <1>1, TracingFrom
    <2> QED BY <2>1 DEF Tracing
<1>4. ASSUME NEW s \in X PROVE Deeper(mem, s, n) \in X
    <2>1. Tracing(T, c, up, S, Deeper(mem, s, n))
        BY <1>1, TracingDeeper
    <2> QED BY <2>1 DEF Tracing
<1>5. Spot(n) \in X
    BY <1>1, <1>2, <1>3, <1>4, SpotWithin
<1> QED BY <1>5

\* The values after a new leaf n is hung below p: n is added on the way down to it.
Grown(a, b, n, path) ==
    \A m \in Nodes : b[m] = IF m = n THEN {n} ELSE IF m \in path THEN a[m] \cup {n} ELSE a[m]

LEMMA LeafExact ==
    ASSUME NEW T \in SUBSET Nodes, NEW c, NEW up, Linked(T, c, up), NEW d,
           NEW p \in T \cup {NULL}, NEW s \in Sides, NEW n \in Nodes, Hung(T, c, d, p, s, n),
           NEW path \in SUBSET T, p # NULL => p \in path,
           \A x \in path : up[x] = NULL \/ up[x] \in path,
           \A x \in path : x = p \/ \E e \in Sides : c[x][e] \in path,
           NEW a, NEW b, Grown(a, b, n, path), Exact(T, c, a)
    PROVE  Exact(T \cup {n}, d, b)
<1>1. NULL \notin Nodes /\ n \notin T /\ n # NULL
    BY NodeAssumption DEF Hung
<1>2. /\ c[p][s] = NULL
      /\ \A m \in T \cup {n, NULL}, e \in Sides :
           d[m][e] = IF m = n THEN NULL ELSE IF m = p /\ e = s THEN n ELSE c[m][e]
    BY DEF Hung
<1>3. "left" \in Sides /\ "right" \in Sides /\ \A e \in Sides : e = "left" \/ e = "right"
    BY DEF Sides
<1> SUFFICES ASSUME NEW m \in T \cup {n} PROVE b[m] = Compute(d, b, m)
    BY DEF Exact
<1>4. CASE m = n
    <2>1. d[n]["left"] = NULL /\ d[n]["right"] = NULL
        BY <1>2, <1>3
    <2>2. b[n] = {n}
        BY DEF Grown
    <2> QED BY <1>4, <2>1, <2>2 DEF Compute, Below
<1>5. CASE m # n
    <2>1. m \in T
        BY <1>5
    <2>2. a[m] = Compute(c, a, m)
        BY <2>1 DEF Exact
    <2>3. \A e \in Sides : c[m][e] # NULL => c[m][e] \in T /\ up[c[m][e]] = m /\ c[m][e] # n
        BY <1>1, <2>1 DEF Linked
    <2>4. ASSUME NEW e \in Sides
          PROVE  Below(b, d[m][e]) = Below(a, c[m][e])
                   \cup (IF (m = p /\ e = s) \/ c[m][e] \in path THEN {n} ELSE {})
        <3>1. CASE m = p /\ e = s
            <4>1. d[m][e] = n /\ c[m][e] = NULL
                BY <1>2, <2>1, <1>5, <3>1
            <4>2. b[n] = {n}
                BY DEF Grown
            <4> QED BY <1>1, <3>1, <4>1, <4>2 DEF Below
        <3>2. CASE ~(m = p /\ e = s)
            <4>1. d[m][e] = c[m][e]
                BY <1>2, <2>1, <1>5, <3>2
            <4>2. CASE c[m][e] = NULL
                <5>1. c[m][e] \notin path
                    BY <1>1, <4>2
                <5> QED BY <3>2, <4>1, <4>2, <5>1 DEF Below
            <4>3. CASE c[m][e] # NULL
                <5>1. b[c[m][e]] = IF c[m][e] \in path THEN a[c[m][e]] \cup {n} ELSE a[c[m][e]]
                    BY <2>3, <4>3 DEF Grown
                <5> QED BY <3>2, <4>1, <4>3, <5>1 DEF Below
            <4> QED BY <4>2, <4>3
        <3> QED BY <3>1, <3>2
    <2>5. b[m] = IF m \in path THEN a[m] \cup {n} ELSE a[m]
        BY <1>5, <2>1 DEF Grown
    <2> DEFINE In2(e) == (m = p /\ e = s) \/ c[m][e] \in path
    <2>6. m \in path <=> In2("left") \/ In2("right")
        <3>1. ASSUME m \in path PROVE \E e \in Sides : In2(e)
            BY <3>1
        <3>2. ASSUME NEW e \in Sides, In2(e) PROVE m \in path
            <4>1. CASE m = p /\ e = s
                BY <1>1, <2>1, <4>1
            <4>2. CASE c[m][e] \in path
                <5>1. c[m][e] # NULL
                    BY <1>1, <4>2
                <5>2. up[c[m][e]] = m /\ m # NULL
                    BY <1>1, <2>1, <2>3, <5>1
                <5> QED BY <4>2, <5>2
            <4> QED BY <3>2, <4>1, <4>2
        <3> QED BY <1>3, <3>1, <3>2
    <2>7. Compute(d, b, m) = Compute(c, a, m) \cup (IF In2("left") THEN {n} ELSE {})
                               \cup (IF In2("right") THEN {n} ELSE {})
        <3> PICK x : x = (IF In2("left") THEN {n} ELSE {})
            OBVIOUS
        <3> PICK y : y = (IF In2("right") THEN {n} ELSE {})
            OBVIOUS
        <3>1. Below(b, d[m]["left"]) = Below(a, c[m]["left"]) \cup x
            BY <1>3, <2>4
        <3>2. Below(b, d[m]["right"]) = Below(a, c[m]["right"]) \cup y
            BY <1>3, <2>4
        <3> HIDE DEF In2
        <3> QED BY <3>1, <3>2 DEF Compute
    <2> HIDE DEF In2
    <2> QED BY <2>2, <2>5, <2>6, <2>7
<1> QED BY <1>4, <1>5

LEMMA InsertLinkValues == TreeInv /\ Valued /\ (\E o \in Inserts : InsertLink(o)) => Valued'
<1> SUFFICES ASSUME TreeInv, Valued, NEW o \in Inserts, InsertLink(o) PROVE Valued'
    OBVIOUS
<1> PICK n : n = o.node
    OBVIOUS
<1> PICK spot : spot = Spot(n)
    OBVIOUS
<1> PICK p : p = spot.parent
    OBVIOUS
<1> PICK s : s = spot.side
    OBVIOUS
<1>1. /\ Typed' /\ Settled' /\ n \in Links
      /\ \E T \in SUBSET Nodes, c \in Memory, up \in Ups, red \in SUBSET Nodes,
            h \in Heights, t \in Sides, Z \in SUBSET Nodes, d \in Memory, vp \in Ups,
            r \in SUBSET Nodes, h2 \in Heights :
           Addition(T, c, up, red, h, t, Z, d, vp, r, h2, n, p, s)
    <2>1. p = Spot(n).parent /\ s = Spot(n).side
        OBVIOUS
    <2> QED BY <2>1, InsertLinkFinds
<1>2. PICK T \in SUBSET Nodes, c \in Memory, up \in Ups, red \in SUBSET Nodes,
           h \in Heights, t \in Sides, Z \in SUBSET Nodes, d \in Memory, vp \in Ups,
           r \in SUBSET Nodes, h2 \in Heights :
           Addition(T, c, up, red, h, t, Z, d, vp, r, h2, n, p, s)
    BY <1>1
<1>3. /\ Resting(T, c, up, red, h, t) /\ p \in T \cup {NULL} /\ s \in Sides
      /\ n \in Nodes \ T /\ waits[n] = {} /\ Z = T \cup {n} /\ Hung(T, c, d, p, s, n)
      /\ Fits(Z, d, vp, r, h2, n, NULL, t)' /\ w'.pc = "insert"
    BY <1>2 DEF Addition
<1>4. Linked(T, c, up) /\ Held(T, c)
    BY <1>3 DEF Resting
<1> PICK path : path = spot.path
    OBVIOUS
<1>5. /\ Begin(o) /\ w.pc = "idle" /\ w'.op = o
      /\ aug' = [m \in Nodes |-> IF m = n THEN {n}
                                 ELSE IF m \in path THEN aug[m] \cup {n} ELSE aug[m]]
      /\ leftmost' = IF spot.first THEN n ELSE leftmost
    <2>1. /\ Begin(o)
          /\ aug' = [m \in Nodes |-> IF m = n THEN {n}
                                 ELSE IF m \in spot.path THEN aug[m] \cup {n} ELSE aug[m]]
          /\ leftmost' = IF spot.first THEN n ELSE leftmost
          /\ w' = [Idle EXCEPT !.pc = "insert", !.op = o, !.node = n, !.parent = spot.parent]
        BY DEF InsertLink
    <2>2. w.pc = "idle" /\ w'.op = o
        BY <2>1 DEF Begin, Idle
    <2> QED BY <2>1, <2>2
<1>6. First(T, c, aug, leftmost) /\ aug \in Values
    BY <1>3, <1>5, RestValues
<1> PICK f : f = leftmost
    OBVIOUS
<1> PICK a : a = aug
    OBVIOUS
<1> PICK b : b = aug'
    OBVIOUS
<1>7. Foremost(T, c, f) /\ Exact(T, c, a) /\ a \in Values
    BY <1>6 DEF First
<1>8. PICK S \in SUBSET (T \cup {NULL}) : Spine(c, f, S)
    BY <1>7 DEF Foremost
<1>9. Tracing(T, c, up, S, spot)
    BY <1>4, <1>8, SpotTraces
<1>10. /\ path \in SUBSET T /\ spot.at = c[p][s]
       /\ p # NULL => p \in path
       /\ \A x \in path : up[x] = NULL \/ up[x] \in path
       /\ \A x \in path : x = p \/ \E e \in Sides : c[x][e] \in path
       /\ spot.first <=> p \in S /\ s = "left"
    BY <1>9 DEF Tracing, Descents
<1>11. Grown(a, b, n, path) /\ b \in Values /\ SameOff(Z, a, b)
    <2>1. \A m \in Nodes : b[m] = IF m = n THEN {n} ELSE IF m \in path THEN a[m] \cup {n} ELSE a[m]
        BY <1>5
    <2>2. b = [m \in Nodes |-> b[m]]
        BY <1>5
    <2>3. \A m \in Nodes : b[m] \in SUBSET Nodes
        BY <1>3, <1>7, <2>1 DEF Values
    <2> QED BY <1>3, <1>10, <2>1, <2>2, <2>3 DEF Grown, Values, SameOff
<1>12. Exact(Z, d, b)
    BY <1>3, <1>4, <1>7, <1>10, <1>11, LeafExact
<1>13. leftmost' = IF p = f /\ s = "left" THEN n ELSE f
    <2>1. c[p][s] = NULL
        BY <1>3 DEF Hung
    <2>2. p \in S /\ s = "left" => p = f
        BY <1>8, <2>1 DEF Spine
    <2>3. f \in S
        BY <1>8 DEF Spine
    <2> QED BY <1>5, <1>10, <2>2, <2>3
<1>14. First(Z, d, aug, leftmost)'
    <2>1. Foremost(Z, d, leftmost')
        <3> PICK e : e = IF p = f /\ s = "left" THEN n ELSE f
            OBVIOUS
        <3>1. n \in Nodes /\ Hung(T, c, d, p, s, n) /\ p \in T \cup {NULL} /\ s \in Sides
            BY <1>3
        <3>2. Foremost(T \cup {n}, d, e)
            BY <1>7, <3>1, LeafForemost
        <3> QED BY <1>3, <1>13, <3>2
    <2> QED BY <1>12, <2>1 DEF First
<1>15. o \in Calls /\ Typed /\ Settled
    BY CallsAre DEF TreeInv
<1>16. Seen(Z, d)' /\ Members' = Z
    <2>1. w'.pc # "outer"
        BY <1>3
    <2>2. Fits(Z, d, vp, r, h2, n, NULL, t)'
        BY <1>3
    <2>3. Left(Z, d, vp)
        BY <2>1, <2>2, LeftBy
    <2> QED BY <2>3 DEF Left
<1> QED BY <1>3, <1>5, <1>11, <1>14, <1>15, <1>16, CallValues

\* The elements around an erasure with two children, as its tree has them.
Mended(T, c, up, d, z, r, l, v, b, k, g, j) ==
    /\ d[v]["left"] = l /\ (v # r => d[v]["right"] = r) /\ (v = r => d[v]["right"] = b)
    /\ \A m \in (T \ {z}) \cup {NULL}, e \in Sides :
         m # v => d[m][e] = IF m = g /\ e = j THEN v ELSE IF c[m][e] = v THEN b ELSE c[m][e]
    /\ \A m \in T \cup {NULL}, e \in Sides :
         /\ c[m][e] = z <=> m = g /\ e = j
         /\ c[m][e] = v <=> m = up[v] /\ e = k

LEMMA SpliceTree ==
    ASSUME NEW T \in SUBSET Nodes, NEW c, NEW up, Linked(T, c, up), NEW red, NEW d, NEW vp, NEW reds,
           NEW z, NEW r, NEW l, NEW v, NEW b, NEW q, NEW k, NEW g, NEW j,
           Splice(T, c, up, z, r, l, v, b, q, k, g, j),
           Succeeded(T, c, up, red, d, vp, reds, z, k, g, j, v, b)
    PROVE  Mended(T, c, up, d, z, r, l, v, b, k, g, j)
<1>1. /\ z \in T /\ v \in T /\ v # z /\ c[v]["left"] = NULL
      /\ k \in Sides /\ c[up[v]][k] = v /\ g = up[z] /\ j \in Sides /\ c[g][j] = z /\ g # v
      /\ c[z]["left"] = l /\ c[z]["right"] = r /\ c[v]["right"] = b
      /\ (v = r <=> up[v] = z) /\ up[v] \in T /\ k = IF v = r THEN "right" ELSE "left"
    BY DEF Splice, Successor
<1>2. /\ v \in (T \ {z}) \cup {NULL}
      /\ \A m \in (T \ {z}) \cup {NULL}, e \in Sides :
           d[m][e] = IF m = v THEN IF up[v] = z /\ e = k THEN b ELSE c[z][e]
                     ELSE IF m = g /\ e = j THEN v
                     ELSE IF m = up[v] /\ e = k THEN b ELSE c[m][e]
    BY <1>1 DEF Succeeded
<1>3. "left" \in Sides /\ "right" \in Sides /\ "left" # "right" /\ NULL \notin Nodes
    BY NodeAssumption DEF Sides
<1>4. g \in T \cup {NULL} /\ Once(T, c)
    BY <1>1, OneSide DEF Linked
<1>5. \A m \in T \cup {NULL}, e \in Sides :
        /\ c[m][e] = z <=> m = g /\ e = j
        /\ c[m][e] = v <=> m = up[v] /\ e = k
    <2> SUFFICES ASSUME NEW m \in T \cup {NULL}, NEW e \in Sides
                 PROVE  /\ c[m][e] = z <=> m = g /\ e = j
                        /\ c[m][e] = v <=> m = up[v] /\ e = k
        OBVIOUS
    <2>1. z # NULL /\ v # NULL
        BY <1>1, <1>3
    <2>2. c[m][e] = z => m = g /\ e = j
        BY <1>1, <1>4, <2>1 DEF Once
    <2>3. c[m][e] = v => m = up[v] /\ e = k
        BY <1>1, <1>4, <2>1 DEF Once
    <2> QED BY <1>1, <2>2, <2>3
<1>6. /\ d[v]["left"] = l /\ (v # r => d[v]["right"] = r) /\ (v = r => d[v]["right"] = b)
    <2>1. CASE v = r
        BY <1>1, <1>2, <1>3, <2>1
    <2>2. CASE v # r
        BY <1>1, <1>2, <1>3, <2>2
    <2> QED BY <2>1, <2>2
<1>7. ASSUME NEW m \in (T \ {z}) \cup {NULL}, NEW e \in Sides, m # v
      PROVE  d[m][e] = IF m = g /\ e = j THEN v ELSE IF c[m][e] = v THEN b ELSE c[m][e]
    <2>1. c[m][e] = v <=> m = up[v] /\ e = k
        BY <1>5
    <2> QED BY <1>2, <1>7, <2>1
<1> QED BY <1>5, <1>6, <1>7 DEF Mended

\* The successor takes the place of z on the way to the first element, too.
LEMMA SuccessorForemost ==
    ASSUME NEW T \in SUBSET Nodes, NEW c, NEW up, Linked(T, c, up), NEW red, NEW d, NEW vp, NEW reds,
           NEW z, NEW r, NEW l, NEW v, NEW b, NEW q, NEW k, NEW g, NEW j,
           Splice(T, c, up, z, r, l, v, b, q, k, g, j), g \in T \cup {NULL},
           Succeeded(T, c, up, red, d, vp, reds, z, k, g, j, v, b),
           NEW f, NEW S \in SUBSET (T \cup {NULL}), Spine(c, f, S), v \notin S
    PROVE  Foremost(T \ {z}, d, f) /\ f # z
<1>1. /\ d[v]["left"] = l
      /\ \A m \in (T \ {z}) \cup {NULL}, e \in Sides :
           m # v => d[m][e] = IF m = g /\ e = j THEN v ELSE IF c[m][e] = v THEN b ELSE c[m][e]
      /\ \A m \in T \cup {NULL}, e \in Sides :
           /\ c[m][e] = z <=> m = g /\ e = j
           /\ c[m][e] = v <=> m = up[v] /\ e = k
    <2>1. Mended(T, c, up, d, z, r, l, v, b, k, g, j)
        BY SpliceTree
    <2> QED BY <2>1, Zenon DEF Mended
<1>2. /\ z \in T /\ v \in T /\ v # z /\ g = up[z] /\ g # v /\ l = c[z]["left"] /\ l \in T /\ j \in Sides
    BY DEF Splice, Successor
<1>3. "left" \in Sides /\ NULL \notin Nodes /\ g # z /\ l # z /\ v # NULL
    BY <1>2, NodeAssumption DEF Linked, Sides
<1>4. /\ NULL \in S /\ f \in S /\ c[f]["left"] = NULL
      /\ \A n \in S \ {f} : c[n]["left"] \in S \ {NULL}
      /\ \A n \in S \ {NULL} : \E m \in S : c[m]["left"] = n
    BY DEF Spine
<1>5. f # z /\ f # v
    BY <1>2, <1>3, <1>4
\* No element of the way has v to its left, and only g may have z.
<1>6. ASSUME NEW m \in S, m # z
      PROVE  d[m]["left"] = IF c[m]["left"] = z THEN v ELSE c[m]["left"]
    <2>1. c[m]["left"] # v
        BY <1>3, <1>4
    <2>2. m \in (T \ {z}) \cup {NULL} /\ m # v /\ m \in T \cup {NULL}
        BY <1>6
    <2>3. d[m]["left"] = IF m = g /\ "left" = j THEN v
                         ELSE IF c[m]["left"] = v THEN b ELSE c[m]["left"]
        BY <1>1, <1>3, <2>2
    <2>4. c[m]["left"] = z <=> m = g /\ "left" = j
        BY <1>1, <1>3, <2>2
    <2> QED BY <2>1, <2>3, <2>4
<1> PICK W : W = IF z \in S THEN (S \ {z}) \cup {v} ELSE S
    OBVIOUS
<1>7. W \in SUBSET ((T \ {z}) \cup {NULL}) /\ NULL \in W /\ f \in W /\ S \ {z} \in SUBSET W
    BY <1>2, <1>3, <1>4, <1>5
<1>8. \A m \in W : m # v => m \in S /\ m # z
    BY <1>2
<1>9. v \in W <=> z \in S
    OBVIOUS
<1>10. d[f]["left"] = NULL
    BY <1>2, <1>3, <1>4, <1>5, <1>6
<1>11. ASSUME NEW n \in W \ {f} PROVE d[n]["left"] \in W \ {NULL}
    <2>1. CASE n = v
        <3>1. z \in S \ {f}
            BY <1>5, <1>9, <2>1
        <3>2. l \in S \ {NULL} /\ l # z
            BY <1>2, <1>3, <1>4, <3>1
        <3> QED BY <1>1, <1>7, <2>1, <3>2
    <2>2. CASE n # v
        <3>1. n \in S \ {f} /\ n # z
            BY <1>8, <2>2
        <3>2. c[n]["left"] \in S \ {NULL}
            BY <1>4, <3>1
        <3>3. CASE c[n]["left"] = z
            BY <1>3, <1>6, <1>9, <3>1, <3>2, <3>3
        <3>4. CASE c[n]["left"] # z
            BY <1>6, <1>7, <3>1, <3>2, <3>4
        <3> QED BY <3>3, <3>4
    <2> QED BY <2>1, <2>2
<1>12. ASSUME NEW n \in W \ {NULL} PROVE \E m \in W : d[m]["left"] = n
    <2>1. CASE n = v
        <3>1. z \in S \ {NULL}
            BY <1>2, <1>3, <1>9, <2>1
        <3>2. PICK m \in S : c[m]["left"] = z
            BY <1>4, <3>1
        <3>3. m # z
            <4>1. m = g
                BY <1>1, <1>3, <3>2
            <4> QED BY <1>3, <4>1
        <3>4. d[m]["left"] = v /\ m \in W
            BY <1>6, <1>7, <3>2, <3>3
        <3> QED BY <2>1, <3>4
    <2>2. CASE n # v
        <3>1. n \in S \ {NULL} /\ n # z
            BY <1>8, <2>2
        <3>2. PICK m \in S : c[m]["left"] = n
            BY <1>4, <3>1
        <3>3. CASE m = z
            <4>1. v \in W /\ d[v]["left"] = n
                BY <1>1, <1>2, <1>9, <3>2, <3>3
            <4> QED BY <4>1
        <3>4. CASE m # z
            <4>1. d[m]["left"] = n /\ m \in W
                BY <1>6, <1>7, <3>1, <3>2, <3>4
            <4> QED BY <4>1
        <3> QED BY <3>3, <3>4
    <2> QED BY <2>1, <2>2
<1>13. Spine(d, f, W)
    BY <1>7, <1>10, <1>11, <1>12 DEF Spine
<1> QED BY <1>5, <1>7, <1>13 DEF Foremost

\* The successor is not on the way to the first element.
LEMMA SuccessorOff ==
    ASSUME NEW T \in SUBSET Nodes, NEW c, NEW up, Linked(T, c, up), Held(T, c),
           NEW z \in T, NEW r \in T, NEW l, NEW v, NEW b, NEW q, NEW k, NEW g, NEW j,
           Splice(T, c, up, z, r, l, v, b, q, k, g, j),
           NEW f, NEW S \in SUBSET (T \cup {NULL}), Spine(c, f, S)
    PROVE  Deepest(r, "left") \notin S
<1>0. r = c[z]["right"]
    BY DEF Splice
<1>1. "left" \in Sides /\ "right" \in Sides /\ "left" # "right" /\ NULL \notin T
    BY NodeAssumption DEF Sides
<1>2. \A m \in T : child[m]["left"] = c[m]["left"]
    <2>1. \A m \in T, s \in Sides : child[m][s] = c[m][s]
        BY HeldAre
    <2> QED BY <1>1, <2>1
<1>3. Once(T, c)
    BY OneSide
<1> PICK X : X = T \ S
    OBVIOUS
<1>4. ASSUME NEW m \in T, NEW e \in Sides, c[m][e] \in S \ {NULL} PROVE m \in S /\ e = "left"
    <2>1. PICK x \in S : c[x]["left"] = c[m][e]
        BY <1>4 DEF Spine
    <2>2. x \in T \cup {NULL} /\ m \in T \cup {NULL} /\ c[m][e] # NULL
        BY <1>4
    <2>3. x = m /\ "left" = e
        BY <1>1, <1>3, <2>1, <2>2 DEF Once
    <2> QED BY <2>3
<1>5. r \in X
    BY <1>0, <1>1, <1>4
<1>6. \A m \in T : child[m]["left"] \in T \cup {NULL}
    BY <1>1, <1>2 DEF Linked
<1>7. \A m \in X : child[m]["left"] \in X \cup {NULL}
    <2> SUFFICES ASSUME NEW m \in X PROVE c[m]["left"] \in X \cup {NULL}
        BY <1>2
    <2>1. m \in T /\ m \notin S /\ c[m]["left"] \in T \cup {NULL}
        BY <1>2, <1>6
    <2> QED BY <1>1, <1>4, <2>1
<1>8. Deepest(r, "left") \in X
    BY <1>5, <1>6, <1>7, DeepestWithin
<1> QED BY <1>8

\* The parent of the successor ranks no higher than z's right child.
Beneath(up, rank, r, v) ==
    rank[v] <= rank[r] /\ (v # r => rank[up[v]] <= rank[r])

Promoted(rank, rk, z, v) == rk = [rank EXCEPT ![v] = rank[z]]

\* With z's rank the successor is above all it was below.
LEMMA SuccessorRanked ==
    ASSUME NEW T \in SUBSET Nodes, NEW c, NEW up, Linked(T, c, up), NEW red, NEW d, NEW vp, NEW reds,
           NEW z, NEW r, NEW l, NEW v, NEW b, NEW q, NEW k, NEW g, NEW j,
           Splice(T, c, up, z, r, l, v, b, q, k, g, j),
           Succeeded(T, c, up, red, d, vp, reds, z, k, g, j, v, b),
           NEW Z, Z = T \ {z}, Linked(Z, d, vp),
           NEW rank, Ranked(T, c, rank), Beneath(up, rank, r, v),
           NEW rk, Promoted(rank, rk, z, v)
    PROVE  Ranked(Z, d, rk) /\ (b # NULL => rk[b] < rk[v] /\ rk[b] < rk[q])
<1>1. Mended(T, c, up, d, z, r, l, v, b, k, g, j)
    BY SpliceTree
<1>2. /\ d[v]["left"] = l /\ (v # r => d[v]["right"] = r) /\ (v = r => d[v]["right"] = b)
      /\ \A m \in (T \ {z}) \cup {NULL}, e \in Sides :
           m # v => d[m][e] = IF m = g /\ e = j THEN v ELSE IF c[m][e] = v THEN b ELSE c[m][e]
      /\ \A m \in T \cup {NULL}, e \in Sides :
           /\ c[m][e] = z <=> m = g /\ e = j
           /\ c[m][e] = v <=> m = up[v] /\ e = k
    BY <1>1 DEF Mended
<1>3. /\ z \in T /\ v \in T /\ v # z /\ l \in T /\ r \in T /\ b \in T \cup {NULL}
      /\ l # v /\ b # v /\ b # z /\ k \in Sides /\ up[v] \in T
      /\ c[z]["left"] = l /\ c[z]["right"] = r /\ c[v]["right"] = b
      /\ q = IF v = r THEN v ELSE up[v]
    BY DEF Splice, Successor
<1>4. "left" \in Sides /\ "right" \in Sides /\ NULL \notin Nodes
      /\ \A e \in Sides : e = "left" \/ e = "right"
    BY NodeAssumption DEF Sides
<1>5. /\ rank \in [Links -> Nat]
      /\ \A n \in T, s \in Sides : c[n][s] # NULL => c[n][s] \in T /\ rank[c[n][s]] < rank[n]
    BY DEF Ranked
<1>6. /\ \A m \in T \cup {NULL} : rk[m] = IF m = v THEN rank[z] ELSE rank[m]
      /\ \A m \in T \cup {NULL} : rank[m] \in Nat /\ rk[m] \in Nat
      /\ rk \in [Links -> Nat]
    BY <1>3, <1>5 DEF Links, Promoted
<1>7. rank[r] < rank[z] /\ rank[l] < rank[z] /\ rank[v] < rank[z]
    <2>1. r # NULL /\ l # NULL
        BY <1>3, <1>4
    <2>2. rank[r] < rank[z] /\ rank[l] < rank[z]
        BY <1>3, <1>4, <1>5, <2>1
    <2>3. rank[v] <= rank[r]
        BY DEF Beneath
    <2> QED BY <1>3, <1>6, <2>2, <2>3
<1>8. b # NULL => b \in T /\ rank[b] < rank[v]
    BY <1>3, <1>4, <1>5
<1>9. up[v] # v /\ c[up[v]][k] = v /\ rank[v] < rank[up[v]]
    <2>1. up[v] # v /\ c[up[v]][k] = v /\ v # NULL
        BY <1>2, <1>3, <1>4 DEF Linked
    <2> QED BY <1>3, <1>5, <2>1
<1>10. ASSUME NEW n \in Z, NEW s \in Sides, d[n][s] # NULL
       PROVE  d[n][s] \in Z /\ rk[d[n][s]] < rk[n]
    <2>0. d[n][s] \in Z
        BY <1>10 DEF Linked
    <2>1. CASE n = v
        <3>1. d[n][s] = l \/ (d[n][s] = r /\ v # r) \/ d[n][s] = b
            <4>1. /\ d[v]["left"] = l /\ (v # r => d[v]["right"] = r)
                  /\ v = r => d[v]["right"] = b
                BY <1>2
            <4>2. s = "left" \/ s = "right"
                BY <1>4
            <4>3. d[n][s] = d[v]["left"] \/ d[n][s] = d[v]["right"]
                BY <2>1, <4>2
            <4> HIDE <1>10
            <4> QED BY <4>1, <4>3
        <3>2. d[n][s] # v /\ d[n][s] \in T
            BY <1>3, <2>0, <3>1
        <3>3. rk[n] = rank[z] /\ rk[d[n][s]] = rank[d[n][s]]
            BY <1>3, <1>6, <2>1, <3>2
        <3>4. rank[d[n][s]] < rank[z]
            <4>1. CASE d[n][s] = b
                <5>1. b # NULL
                    BY <1>10, <4>1
                <5>2. rank[b] < rank[v] /\ rank[b] \in Nat /\ rank[v] \in Nat /\ rank[z] \in Nat
                    BY <1>3, <1>6, <1>8, <5>1
                <5> QED BY <1>7, <4>1, <5>2
            <4>2. CASE d[n][s] # b
                BY <1>7, <3>1, <4>2
            <4> QED BY <4>1, <4>2
        <3> QED BY <2>0, <3>3, <3>4
    <2>2. CASE n # v
        <3>0. n \in T /\ n \in (T \ {z}) \cup {NULL} /\ n \in T \cup {NULL} /\ rk[n] = rank[n]
            BY <1>6, <2>2
        <3>1. CASE n = g /\ s = j
            <4>1. d[n][s] = v /\ c[n][s] = z /\ z # NULL
                BY <1>2, <1>3, <1>4, <2>2, <3>0, <3>1
            <4>2. rank[z] < rank[n]
                BY <1>5, <3>0, <4>1
            <4> QED BY <1>3, <1>6, <2>0, <3>0, <4>1, <4>2
        <3>2. CASE ~(n = g /\ s = j) /\ c[n][s] = v
            <4>1. d[n][s] = b /\ v # NULL
                BY <1>2, <1>3, <1>4, <2>2, <3>0, <3>2
            <4>2. rank[v] < rank[n]
                BY <1>5, <3>0, <3>2, <4>1
            <4>3. b \in T /\ rank[b] < rank[v] /\ rk[b] = rank[b]
                BY <1>3, <1>6, <1>8, <1>10, <4>1
            <4> QED BY <1>3, <1>6, <2>0, <3>0, <4>1, <4>2, <4>3
        <3>3. CASE ~(n = g /\ s = j) /\ c[n][s] # v
            <4>1. d[n][s] = c[n][s]
                BY <1>2, <2>2, <3>0, <3>3
            <4>2. rank[c[n][s]] < rank[n] /\ c[n][s] \in T
                BY <1>5, <1>10, <3>0, <4>1
            <4> QED BY <1>6, <2>0, <3>0, <3>3, <4>1, <4>2
        <3> QED BY <3>1, <3>2, <3>3
    <2> QED BY <2>1, <2>2
<1>11. b # NULL => rk[b] < rk[v] /\ rk[b] < rk[q]
    <2> SUFFICES ASSUME b # NULL PROVE rk[b] < rk[v] /\ rk[b] < rk[q]
        OBVIOUS
    <2>1. /\ rk[b] = rank[b] /\ rk[v] = rank[z] /\ rank[b] < rank[v]
          /\ rank[b] \in Nat /\ rank[v] \in Nat /\ rank[z] \in Nat
        BY <1>3, <1>6, <1>8
    <2>2. rk[b] < rk[v]
        BY <1>7, <2>1
    <2>3. CASE v = r
        BY <1>3, <2>2, <2>3
    <2>4. CASE v # r
        <3>1. q = up[v] /\ rk[q] = rank[q] /\ rank[q] \in Nat /\ rank[v] < rank[q]
            BY <1>3, <1>6, <1>9, <2>4
        <3> QED BY <2>1, <2>2, <3>1
    <2> QED BY <2>3, <2>4
<1>12. Ranked(Z, d, rk)
    BY <1>6, <1>10 DEF Ranked
<1> QED BY <1>11, <1>12

Copied(a, copied, z, v) == copied = [a EXCEPT ![v] = a[z]]

\* The successor has z's value; below what it left, the values are wrong up to it.
LEMMA CopiedExact ==
    ASSUME NEW T \in SUBSET Nodes, NEW c, NEW up, Linked(T, c, up), NEW red, NEW d, NEW vp, NEW reds,
           NEW z, NEW r, NEW l, NEW v, NEW b, NEW q, NEW k, NEW g, NEW j,
           Splice(T, c, up, z, r, l, v, b, q, k, g, j),
           Succeeded(T, c, up, red, d, vp, reds, z, k, g, j, v, b),
           NEW a \in Values, Exact(T, c, a),
           NEW copied, Copied(a, copied, z, v),
           NEW m \in T \ {z}, m # v, m # q
    PROVE  copied[m] = Compute(d, copied, m)
<1>1. Mended(T, c, up, d, z, r, l, v, b, k, g, j)
    BY SpliceTree
<1>2. /\ \A e \in Sides : d[m][e] = IF m = g /\ e = j THEN v ELSE IF c[m][e] = v THEN b ELSE c[m][e]
      /\ \A e \in Sides : /\ c[m][e] = z <=> m = g /\ e = j
                          /\ c[m][e] = v <=> m = up[v] /\ e = k
    BY <1>1 DEF Mended
<1>3. /\ v \in T /\ z \in T /\ v # z /\ (v = r <=> up[v] = z) /\ q = IF v = r THEN v ELSE up[v]
    BY DEF Splice, Successor
<1>4. m # up[v]
    BY <1>3
<1>5. \A e \in Sides : c[m][e] # v /\ d[m][e] = IF c[m][e] = z THEN v ELSE c[m][e]
    BY <1>2, <1>4
<1>6. \A x \in Nodes : copied[x] = IF x = v THEN a[z] ELSE a[x]
    BY <1>3 DEF Values, Copied
<1>7. NULL \notin Nodes
    BY NodeAssumption
<1>8. \A e \in Sides : Below(copied, d[m][e]) = Below(a, c[m][e])
    <2> SUFFICES ASSUME NEW e \in Sides PROVE Below(copied, d[m][e]) = Below(a, c[m][e])
        OBVIOUS
    <2>1. CASE c[m][e] = z
        BY <1>3, <1>5, <1>6, <1>7, <2>1 DEF Below
    <2>2. CASE c[m][e] # z
        <3>1. d[m][e] = c[m][e] /\ c[m][e] # v
            BY <1>5, <2>2
        <3>2. c[m][e] # NULL => c[m][e] \in Nodes
            BY DEF Linked
        <3> QED BY <1>6, <3>1, <3>2 DEF Below
    <2> QED BY <2>1, <2>2
<1>9. Compute(d, copied, m) = Compute(c, a, m)
    BY <1>8 DEF Compute, Sides
<1> QED BY <1>6, <1>9 DEF Exact

\* The words the climbs go by lag behind at the child the successor had.
Lagging(Z, vp, v, b, words) ==
    \A m \in Z : words[m].up = IF m = b THEN v ELSE vp[m]

\* The values after the copy, the climb to the successor and the climb from it.
TwoClimbs(mem, words, a, z, r, v, q, copied, climbed, f) ==
    /\ copied = [a EXCEPT ![v] = a[z]]
    /\ climbed = IF v = r THEN copied ELSE AugPropagate(mem, words, copied, q, v)
    /\ f = AugPropagate(mem, words, climbed, v, NULL)

\* Both climbs together make the values right.
LEMMA ClimbsExact ==
    ASSUME NEW T \in SUBSET Nodes, NEW c, NEW up, Linked(T, c, up), NEW red, NEW d, NEW vp, NEW reds,
           NEW z, NEW r, NEW l, NEW v, NEW b, NEW q, NEW k, NEW g, NEW j,
           Splice(T, c, up, z, r, l, v, b, q, k, g, j),
           Succeeded(T, c, up, red, d, vp, reds, z, k, g, j, v, b),
           NEW Z, Z = T \ {z}, Linked(Z, d, vp),
           NEW rank, Ranked(T, c, rank), Beneath(up, rank, r, v),
           NEW mem \in Children, \A m \in Z, e \in Sides : mem[m][e] = d[m][e],
           NEW words, Lagging(Z, vp, v, b, words),
           NEW a \in Values, Exact(T, c, a), NEW copied, NEW climbed, NEW f,
           TwoClimbs(mem, words, a, z, r, v, q, copied, climbed, f)
    PROVE  f \in Values /\ SameOff(Z, a, f) /\ Exact(Z, d, f)
<1>1. /\ z \in T /\ v \in Z /\ b \in Z \cup {NULL} /\ b # v /\ q \in Z
      /\ v = r => q = v
    BY DEF Splice, Successor
<1>2. NULL \notin Nodes /\ Z \in SUBSET Nodes
    BY NodeAssumption
<1>3. PICK rk : Ranked(Z, d, rk) /\ (b # NULL => rk[b] < rk[v] /\ rk[b] < rk[q])
    <2>1. PICK rk : Promoted(rank, rk, z, v)
        BY DEF Promoted
    <2>2. Ranked(Z, d, rk) /\ (b # NULL => rk[b] < rk[v] /\ rk[b] < rk[q])
        BY <2>1, SuccessorRanked
    <2> QED BY <2>2
<1>c. /\ copied = [a EXCEPT ![v] = a[z]]
      /\ climbed = IF v = r THEN copied ELSE AugPropagate(mem, words, copied, q, v)
      /\ f = AugPropagate(mem, words, climbed, v, NULL)
    BY DEF TwoClimbs
<1>l. PICK low : low = IF b = NULL THEN 0 ELSE rk[b] + 1
    OBVIOUS
<1>4. low \in Nat /\ rk[v] >= low /\ rk[q] >= low /\ (b # NULL => ~(rk[b] >= low))
    <2>1. rk[v] \in Nat /\ rk[q] \in Nat /\ (b # NULL => rk[b] \in Nat)
        BY <1>1, <1>2, <1>3 DEF Ranked, Links
    <2> QED BY <1>3, <1>l, <2>1
<1>5. Ladder(Z, d, vp, rk, low, mem, words)
    <2>1. \A m \in Z : words[m].up \in Z \cup {NULL}
        BY <1>1 DEF Linked, Lagging
    <2>2. \A m \in Z : rk[m] >= low => words[m].up = vp[m]
        BY <1>2, <1>4 DEF Lagging
    <2> QED BY <2>1, <2>2 DEF Ladder, Ways
<1>6. copied \in Values /\ SameOff(Z, a, copied)
    BY <1>1, <1>c, <1>2 DEF Values, SameOff
<1>7. \A m \in Z : m # v /\ m # q => copied[m] = Compute(d, copied, m)
    <2> SUFFICES ASSUME NEW m \in Z, m # v, m # q PROVE copied[m] = Compute(d, copied, m)
        OBVIOUS
    <2>1. Copied(a, copied, z, v) /\ m \in T \ {z}
        BY <1>c DEF Copied
    <2> QED BY <2>1, CopiedExact
<1>8. climbed \in Values /\ SameOff(Z, copied, climbed) /\ ExactBut(Z, d, climbed, v)
    <2>1. CASE v = r
        BY <1>1, <1>6, <1>7, <1>c, <2>1 DEF SameOff, ExactBut
    <2>2. CASE v # r
        <3> PICK i : i = [values |-> copied, at |-> q]
            OBVIOUS
        <3>1. Climbing(Z, d, vp, v, i)
            BY <1>7 DEF Climbing
        <3>2. climbed = AugPropagate(mem, words, copied, q, v)
            BY <1>c, <2>2
        <3>3. v \in Z \cup {NULL} /\ q \in Z \cup {NULL} /\ (q # NULL => rk[q] >= low) /\ low \in Nat
            BY <1>1, <1>4
        <3> QED BY <1>2, <1>3, <1>5, <1>6, <3>1, <3>2, <3>3, PropagateIs
    <2> QED BY <2>1, <2>2
<1>9. f \in Values /\ SameOff(Z, climbed, f) /\ ExactBut(Z, d, f, NULL)
    <2> PICK i : i = [values |-> climbed, at |-> v]
        OBVIOUS
    <2>1. Climbing(Z, d, vp, NULL, i)
        BY <1>8 DEF Climbing, ExactBut
    <2>2. NULL \in Z \cup {NULL} /\ v \in Z \cup {NULL} /\ (v # NULL => rk[v] >= low) /\ low \in Nat
        BY <1>1, <1>4
    <2>3. f = AugPropagate(mem, words, climbed, v, NULL)
        BY <1>c
    <2> QED BY <1>2, <1>3, <1>5, <1>8, <2>1, <2>2, <2>3, PropagateIs
<1>10. SameOff(Z, a, f)
    BY <1>6, <1>8, <1>9 DEF SameOff
<1>11. Exact(Z, d, f)
    BY <1>2, <1>9 DEF ExactBut, Exact
<1> QED BY <1>9, <1>10, <1>11

\* The words before the successor's child is told of its parent.
LEMMA MovedLags ==
    ASSUME NEW T \in SUBSET Nodes, NEW c, NEW up, Linked(T, c, up), NEW red, NEW d, NEW vp, NEW reds,
           NEW z, NEW r, NEW l, NEW v, NEW b, NEW q, NEW k, NEW g, NEW j,
           Splice(T, c, up, z, r, l, v, b, q, k, g, j),
           Succeeded(T, c, up, red, d, vp, reds, z, k, g, j, v, b),
           NEW Z, Z = T \ {z},
           NEW words \in Words, Told(T, up, red, words),
           NEW moved, moved = Moved(words, z, r, l, v)
    PROVE  Lagging(Z, vp, v, b, moved)
<1>1. /\ z \in T /\ v \in T /\ l \in T /\ r \in T /\ v # z /\ l # v /\ l # r /\ b \in T \cup {NULL}
      /\ b # l /\ b # r /\ b # v /\ b # z /\ g = up[z] /\ up[l] = z /\ up[r] = z
      /\ c[z]["left"] = l /\ c[z]["right"] = r /\ (b # NULL => up[b] = v)
      /\ (v = r <=> up[v] = z)
    BY DEF Splice, Successor
<1>2. AsMoved(words, z, r, l, v, moved)
    <2>1. z \in Nodes /\ r \in Nodes /\ l \in Nodes /\ v \in Nodes /\ l # v /\ l # r
        BY <1>1
    <2> QED BY <2>1, MovedIs
<1>3. \A m \in T : up[m] = words[m].up
    BY DEF Told
<1>4. \A m \in Z : moved[m].up = IF m = v THEN up[z] ELSE IF m = l \/ m = r THEN v ELSE up[m]
    BY <1>1, <1>2, <1>3 DEF AsMoved
<1>5. \A m \in Z : vp[m] = IF m = v THEN g
                           ELSE IF (IF m = b THEN up[v] ELSE up[m]) = z THEN v
                           ELSE IF m = b THEN up[v] ELSE up[m]
    BY DEF Succeeded
<1>6. ASSUME NEW m \in Z PROVE up[m] = z => m = l \/ m = r
    <2> SUFFICES ASSUME up[m] = z PROVE m = l \/ m = r
        OBVIOUS
    <2>1. PICK e \in Sides : c[up[m]][e] = m
        BY DEF Linked
    <2>2. e = "left" \/ e = "right"
        BY DEF Sides
    <2>3. CASE e = "left"
        BY <1>1, <2>1, <2>3
    <2>4. CASE e = "right"
        BY <1>1, <2>1, <2>4
    <2> QED BY <2>2, <2>3, <2>4
<1> SUFFICES ASSUME NEW m \in Z PROVE moved[m].up = IF m = b THEN v ELSE vp[m]
    BY DEF Lagging
<1>7. CASE m = b
    <2>1. m # NULL
        BY NodeAssumption
    <2> QED BY <1>1, <1>4, <1>7, <2>1
<1>8. CASE m # b
    <2>1. CASE m = v
        BY <1>1, <1>4, <1>5, <1>8, <2>1
    <2>2. CASE m # v
        BY <1>1, <1>4, <1>5, <1>6, <1>8, <2>2
    <2> QED BY <2>1, <2>2
<1> QED BY <1>7, <1>8

\* The values in an erasure with two children, in its own terms.
CopiesTwo(o, z, r, l, v, b, q, moved, mem, copied, climbed) ==
    /\ Begin(o) /\ z \in present /\ child' = child
    /\ moved = Moved(word, z, r, l, v) /\ mem = After(todo')
    /\ TwoClimbs(mem, moved, aug, z, r, v, q, copied, climbed, aug')
    /\ leftmost' = LeftmostWithout(z)
    /\ w'.op = o /\ w'.pc # "idle" /\ w.pc = "idle"

Sequel(z, r, l, v, b, q) ==
    (IF v = r THEN <<>> ELSE <<Put(q, "left", b), Put(v, "right", r)>>)
    \o <<Put(v, "left", l), ChangeChild(z, v, word[z].up)>>

\* What EraseTwo says of the values.
ClimbsTwo(z, r, l, v, b, q) ==
    LET stores == Sequel(z, r, l, v, b, q)
        copied == [aug EXCEPT ![v] = aug[z]]
        climbed == IF v = r THEN copied
                   ELSE AugPropagate(After(stores), Moved(word, z, r, l, v), copied, q, v)
    IN  /\ todo' = stores
        /\ aug' = AugPropagate(After(stores), Moved(word, z, r, l, v), climbed, v, NULL)

LEMMA EraseTwoClimbs ==
    ASSUME NEW o \in Erases, EraseTwo(o)
    PROVE  ClimbsTwo(o.node, child[o.node]["right"], child[o.node]["left"],
                     Deepest(child[o.node]["right"], "left"),
                     child[Deepest(child[o.node]["right"], "left")]["right"],
                     IF Deepest(child[o.node]["right"], "left") = child[o.node]["right"]
                     THEN Deepest(child[o.node]["right"], "left")
                     ELSE word[Deepest(child[o.node]["right"], "left")].up)
BY Zenon DEF EraseTwo, ClimbsTwo, Sequel, Moved

LEMMA EraseTwoCopies ==
    ASSUME NEW o \in Erases, EraseTwo(o),
           NEW z, NEW r, NEW l, NEW v, NEW b, NEW q, Roles(o, z, r, l, v, b, q)
    PROVE  \E moved, mem, copied, climbed :
             CopiesTwo(o, z, r, l, v, b, q, moved, mem, copied, climbed)
<1>1. /\ z = o.node /\ r = child[z]["right"] /\ l = child[z]["left"]
      /\ v = Deepest(r, "left") /\ b = child[v]["right"]
      /\ q = IF v = r THEN v ELSE word[v].up
    BY DEF Roles
<1> PICK moved : moved = Moved(word, z, r, l, v)
    OBVIOUS
<1> PICK mem : mem = After(todo')
    OBVIOUS
<1> PICK copied : copied = [aug EXCEPT ![v] = aug[z]]
    OBVIOUS
<1> PICK climbed : climbed = IF v = r THEN copied ELSE AugPropagate(mem, moved, copied, q, v)
    OBVIOUS
<1>2. EraseBegin(o)
    BY DEF EraseTwo
<1>3. w'.op = o /\ w'.pc # "idle"
    <2>1. \E g : Rebalance(o, g)
        BY DEF EraseTwo
    <2> QED BY <2>1 DEF Rebalance, Idle
<1>4. Begin(o) /\ z \in present /\ child' = child /\ leftmost' = LeftmostWithout(z) /\ w.pc = "idle"
    BY <1>1, <1>2 DEF EraseBegin, Begin
<1>5. aug' = AugPropagate(mem, moved, climbed, v, NULL)
    <2>1. ClimbsTwo(z, r, l, v, b, q)
        BY <1>1, EraseTwoClimbs, Zenon
    <2> QED BY <2>1, Zenon DEF ClimbsTwo
<1>6. TwoClimbs(mem, moved, aug, z, r, v, q, copied, climbed, aug')
    BY <1>5 DEF TwoClimbs
<1> QED BY <1>3, <1>4, <1>6, Zenon DEF CopiesTwo

\* Where the way down from r ends, it ranks no higher than r.
LEMMA DeepestBeneath ==
    ASSUME NEW T \in SUBSET Nodes, NEW c, NEW up, Linked(T, c, up), Held(T, c),
           NEW rank, Ranked(T, c, rank), NEW r \in T
    PROVE  Beneath(up, rank, r, Deepest(r, "left"))
<1>1. LastBelow(T, c, rank, r, "left", Deepest(r, "left"))
    <2>1. \A m \in T, e \in Sides : child[m][e] = c[m][e]
        BY HeldAre
    <2>2. "left" \in Sides
        BY DEF Sides
    <2>3. \A m \in T : child[m]["left"] = c[m]["left"]
        BY <2>1, <2>2
    <2> QED BY <2>2, <2>3, DeepestIs
<1> PICK v : v = Deepest(r, "left")
    OBVIOUS
<1>2. v \in T /\ rank[v] <= rank[r] /\ (v # r => \E p \in T : c[p]["left"] = v /\ rank[p] <= rank[r])
    BY <1>1 DEF LastBelow
<1>3. ASSUME NEW p \in T, c[p]["left"] = v PROVE up[v] = p
    <2>1. v # NULL /\ "left" \in Sides
        BY <1>2, NodeAssumption DEF Sides
    <2> QED BY <1>2, <1>3, <2>1 DEF Linked
<1>4. v # r => rank[up[v]] <= rank[r]
    BY <1>2, <1>3
<1> QED BY <1>2, <1>4 DEF Beneath

LEMMA EraseTwoValues == TreeInv /\ Valued /\ (\E o \in Erases : EraseTwo(o)) => Valued'
<1> SUFFICES ASSUME TreeInv, Valued, NEW o \in Erases, EraseTwo(o) PROVE Valued'
    OBVIOUS
<1>0. \E z, r, l, v, b, q : Roles(o, z, r, l, v, b, q)
    BY DEF Roles
<1>r. PICK z, r, l, v, b, q : Roles(o, z, r, l, v, b, q)
    BY <1>0
<1>1. /\ Typed' /\ Settled'
      /\ \E T \in SUBSET Nodes, c \in Memory, up \in Ups, red \in SUBSET Nodes,
            h \in Heights, t \in Sides, Z \in SUBSET Nodes, d \in Memory, vp \in Ups,
            reds \in SUBSET Nodes, h2 \in Heights, y \in Links, s \in Sides,
            k \in Sides, g \in Links, j \in Sides :
           Succession(T, c, up, red, h, t, Z, d, vp, reds, h2, y, s, z, r, l, v, b, q, k, g, j)
    BY <1>r, EraseTwoFinds
<1>2. PICK T \in SUBSET Nodes, c \in Memory, up \in Ups, red \in SUBSET Nodes,
           h \in Heights, t \in Sides, Z \in SUBSET Nodes, d \in Memory, vp \in Ups,
           reds \in SUBSET Nodes, h2 \in Heights, y \in Links, s \in Sides,
           k \in Sides, g \in Links, j \in Sides :
           Succession(T, c, up, red, h, t, Z, d, vp, reds, h2, y, s, z, r, l, v, b, q, k, g, j)
    BY <1>1
<1>3. PICK moved, mem, copied, climbed : CopiesTwo(o, z, r, l, v, b, q, moved, mem, copied, climbed)
    BY <1>r, EraseTwoCopies
<1>4. /\ Resting(T, c, up, red, h, t) /\ z \in T /\ Z = T \ {z} /\ g \in T \cup {NULL}
      /\ Splice(T, c, up, z, r, l, v, b, q, k, g, j)
      /\ Succeeded(T, c, up, red, d, vp, reds, z, k, g, j, v, b)
      /\ Fits(Z, d, vp, reds, h2, NULL, y, s)' /\ w'.pc # "outer"
    BY <1>2 DEF Succession
<1>5. /\ Linked(T, c, up) /\ Held(T, c) /\ child \in [Nodes -> [Sides -> Links]]
      /\ Balanced(T, c, red, h, NULL, NULL, t)
      /\ word \in Words /\ Typed /\ Settled
    BY <1>4 DEF Resting, TreeInv, Typed
<1>6. Told(T, up, red, word)
    BY <1>4 DEF Resting, Told, IsRed
<1>7. /\ Begin(o) /\ child' = child /\ moved = Moved(word, z, r, l, v) /\ mem = After(todo')
      /\ TwoClimbs(mem, moved, aug, z, r, v, q, copied, climbed, aug')
      /\ leftmost' = LeftmostWithout(z)
      /\ w'.op = o /\ w'.pc # "idle" /\ w.pc = "idle"
    BY <1>3 DEF CopiesTwo
<1>8. First(T, c, aug, leftmost) /\ aug \in Values
    BY <1>4, <1>7, RestValues
<1>9. /\ Seen(Z, d)' /\ Shown(Z, d)' /\ Members' = Z /\ Linked(Z, d, vp)
    <2>1. Fits(Z, d, vp, reds, h2, NULL, y, s)' /\ w'.pc # "outer"
        BY <1>4
    <2>2. Left(Z, d, vp)
        BY <2>1, LeftBy
    <2> QED BY <2>2 DEF Left
<1>10. PICK rank : Ranked(T, c, rank)
    BY <1>5, RankExists
<1>11. r \in T /\ v = Deepest(r, "left")
    BY <1>4, <1>r DEF Splice, Roles
<1>12. Beneath(up, rank, r, v)
    BY <1>5, <1>10, <1>11, DeepestBeneath
<1>13. mem \in Children /\ \A m \in Z, e \in Sides : mem[m][e] = d[m][e]
    <2>1. todo' \in Seq(Puts)
        BY <1>1 DEF Typed
    <2>2. Pictured(Z, mem, d)
        BY <1>5, <1>7, <1>9, <2>1, AfterIs
    <2> QED BY <1>4, <2>2 DEF Pictured, Lifting
<1>14. Lagging(Z, vp, v, b, moved)
    <2>1. PICK words : words = word
        OBVIOUS
    <2>2. words \in Words /\ Told(T, up, red, words) /\ moved = Moved(words, z, r, l, v) /\ Z = T \ {z}
        BY <1>4, <1>5, <1>6, <1>7, <2>1
    <2> QED BY <1>4, <1>5, <2>2, MovedLags
<1>15. PICK a, f : a = aug /\ f = aug'
    OBVIOUS
<1>16. f \in Values /\ SameOff(Z, a, f) /\ Exact(Z, d, f)
    <2>1. a \in Values /\ Exact(T, c, a) /\ TwoClimbs(mem, moved, a, z, r, v, q, copied, climbed, f)
        BY <1>7, <1>8, <1>15 DEF First
    <2>2. Z = T \ {z} /\ Linked(Z, d, vp)
        BY <1>4, <1>9
    <2> QED BY <1>4, <1>5, <1>10, <1>12, <1>13, <1>14, <2>1, <2>2, ClimbsExact
<1>17. Foremost(Z, d, leftmost')
    <2>1. PICK lm : lm = leftmost
        OBVIOUS
    <2>2. PICK S \in SUBSET (T \cup {NULL}) : Spine(c, lm, S)
        BY <1>8, <2>1 DEF First, Foremost
    <2>3. v \notin S
        BY <1>4, <1>5, <1>11, <2>2, SuccessorOff
    <2>4. Foremost(T \ {z}, d, lm) /\ lm # z
        BY <1>4, <1>5, <2>2, <2>3, SuccessorForemost
    <2>5. leftmost' = lm
        BY <1>7, <2>1, <2>4 DEF LeftmostWithout
    <2> QED BY <1>4, <2>4, <2>5
<1>18. First(Z, d, aug, leftmost)'
    <2>1. Exact(Z, d, aug')
        BY <1>15, <1>16
    <2> QED BY <1>17, <2>1 DEF First
<1>19. o \in Calls
    BY CallsAre
<1>20. aug' \in Values /\ SameOff(Z, aug, aug')
    BY <1>15, <1>16
<1> QED BY <1>5, <1>7, <1>9, <1>18, <1>19, <1>20, CallValues

LEMMA StepValues == TreeInv /\ Valued /\ [Next]_vars => Valued'
<1>1. ASSUME TreeInv, Valued, UNCHANGED vars PROVE Valued'
    <2>1. /\ root' = root /\ leftmost' = leftmost /\ child' = child /\ aug' = aug /\ todo' = todo
          /\ w' = w /\ present' = present /\ waits' = waits
        BY <1>1 DEF vars
    <2>2. Members' = Members /\ Visible' = Visible
        BY <2>1 DEF Members, Visible
    <2>3. aug' \in Values /\ Blank'
        BY <1>1, <2>1, <2>2 DEF Valued, Blank
    <2>4. Members \in SUBSET Nodes
        BY <1>1 DEF TreeInv, Fits
    <2> QED BY <1>1, <2>1, <2>2, <2>3, <2>4, ApartValues
<1>2. ASSUME TreeInv, Valued, Call PROVE Valued'
    <2>1. \/ \E o \in Inserts : InsertLink(o)
          \/ \E o \in Erases : EraseOne(o)
          \/ \E o \in Erases : EraseTwo(o)
          \/ \E o \in Replaces : Replace(o)
        BY <1>2 DEF Call
    <2> QED BY <1>2, <2>1, InsertLinkValues, EraseOneValues, EraseTwoValues, ReplaceValues
<1>3. ASSUME TreeInv, Valued, InsertColor PROVE Valued'
    BY <1>3, InsertEndValues, InsertFlipValues, InsertInnerValues, InsertOuterValues DEF InsertColor
<1>4. ASSUME TreeInv, Valued, EraseColor PROVE Valued'
    BY <1>4, EraseRedSiblingValues, EraseFlipValues, EraseInnerValues, EraseOuterValues DEF EraseColor
<1> QED BY <1>1, <1>2, <1>3, <1>4, StoreValues, ReturnValues, ReaderValues DEF Next

LEMMA RestLeftmost == TreeInv /\ Valued => LeftmostAgrees
<1> SUFFICES ASSUME TreeInv, Valued, w.pc = "idle" PROVE leftmost = RbFirst
    BY DEF LeftmostAgrees, AtRest
<1>1. PICK T \in SUBSET Nodes, c \in Memory, up \in Ups, red \in SUBSET Nodes, h \in Heights,
           t \in Sides : Resting(T, c, up, red, h, t)
    BY RestSees
<1>2. Linked(T, c, up) /\ Held(T, c) /\ Balanced(T, c, red, h, NULL, NULL, t)
    BY <1>1 DEF Resting
<1>3. PICK S \in SUBSET (T \cup {NULL}) : Spine(c, leftmost, S)
    <2>1. First(T, c, aug, leftmost)
        BY <1>1, RestValues
    <2> QED BY <2>1 DEF First, Foremost
<1>4. /\ NULL \in S /\ leftmost \in S /\ c[leftmost]["left"] = NULL
      /\ \A n \in S \ {leftmost} : c[n]["left"] \in S \ {NULL}
    BY <1>3 DEF Spine
<1>5. "left" \in Sides /\ root = c[NULL]["left"] /\ \A m \in T : child[m]["left"] = c[m]["left"]
    <2>0. Held(T, c)
        BY <1>2
    <2>1. /\ root = c[NULL]["left"] /\ \A m \in T, e \in Sides : child[m][e] = c[m][e]
        BY <2>0, HeldAre
    <2>2. "left" \in Sides
        BY DEF Sides
    <2> QED BY <2>1, <2>2
<1>6. CASE root = NULL
    BY <1>4, <1>5, <1>6 DEF RbFirst
<1>7. CASE root # NULL
    <2> PICK X : X = S \ {NULL}
        OBVIOUS
    <2>1. root \in X /\ root \in T /\ leftmost # NULL
        BY <1>4, <1>5, <1>7
    <2>2. \A m \in X : child[m]["left"] \in X \cup {NULL}
        BY <1>4, <1>5
    <2>3. \A m \in T : child[m]["left"] \in T \cup {NULL}
        BY <1>2, <1>5 DEF Linked
    <2>4. Deepest(root, "left") \in X
        BY <2>1, <2>2, <2>3, DeepestWithin
    <2>5. c[Deepest(root, "left")]["left"] = NULL
        <3>1. PICK rank : Ranked(T, c, rank)
            BY <1>2, RankExists
        <3>2. LastBelow(T, c, rank, root, "left", Deepest(root, "left"))
            BY <1>5, <2>1, <3>1, DeepestIs
        <3> QED BY <3>2 DEF LastBelow
    <2>6. Deepest(root, "left") = leftmost
        BY <1>4, <2>4, <2>5
    <2> QED BY <1>7, <2>6 DEF RbFirst
<1> QED BY <1>6, <1>7

LEMMA RestExact == TreeInv /\ Valued => AugmentedExact
<1> SUFFICES ASSUME TreeInv, Valued, w.pc = "idle", NEW n \in present
             PROVE  aug[n] = Compute(child, aug, n)
    BY DEF AugmentedExact, AtRest
<1>1. PICK T \in SUBSET Nodes, c \in Memory, up \in Ups, red \in SUBSET Nodes, h \in Heights,
           t \in Sides : Resting(T, c, up, red, h, t)
    BY RestSees
<1>2. T = present /\ Held(T, c)
    BY <1>1 DEF Resting
<1>3. aug[n] = Compute(c, aug, n)
    <2>1. First(T, c, aug, leftmost)
        BY <1>1, RestValues
    <2> QED BY <1>2, <2>1 DEF First, Exact
<1>4. \A e \in Sides : child[n][e] = c[n][e]
    BY <1>2, HeldAre
<1>5. Compute(child, aug, n) = Compute(c, aug, n)
    BY <1>4, ComputeSame
<1> QED BY <1>3, <1>5

\* Every call, store, turn and lookup keeps the first element and the values those of
\* the tree the pending stores make.
THEOREM ValuedAlways == Spec => []Valued
<1>1. Init => TreeInv /\ Valued
    BY InitTree, InitValues
<1>2. TreeInv /\ Valued /\ [Next]_vars => TreeInv' /\ Valued'
    BY StepKeeps, StepValues
<1> QED BY <1>1, <1>2, PTL DEF Spec

\* Between calls the cached first element is the first.
THEOREM LeftmostAgreesAlways == Spec => []LeftmostAgrees
<1> QED BY TreeAlways, ValuedAlways, RestLeftmost, PTL

\* Between calls an element's augmented value is that of its whole subtree.
THEOREM AugmentedExactAlways == Spec => []AugmentedExact
<1> QED BY TreeAlways, ValuedAlways, RestExact, PTL

-----------------------------------------------------------------------------
(* Types.                                                                  *)

\* The elements below m in order, given those below its children.
Between(mem, g, m) ==
    IF m = NULL THEN <<>> ELSE g[mem[m]["left"]] \o <<m>> \o g[mem[m]["right"]]
\* The levels of InOrder, as an equation.
Levelled(f, mem) ==
    [k \in 0 .. Cardinality(Nodes) |->
       IF k = 0 THEN [m \in Links |-> <<>>]
       ELSE LET g == f[k - 1]
            IN  [m \in Links |-> IF m = NULL THEN <<>>
                                 ELSE g[mem[m]["left"]] \o <<m>> \o g[mem[m]["right"]]]]

\* The lowest level, and the one above g.
Level(mem, g, k) == IF k = 0 THEN [m \in Links |-> <<>>] ELSE [m \in Links |-> Between(mem, g, m)]

LEMMA BetweenIs ==
    ASSUME NEW mem \in Children, NEW g \in [Links -> Seq(Nodes)], NEW m \in Links
    PROVE  Between(mem, g, m) \in Seq(Nodes)
<1>1. CASE m = NULL
    BY <1>1 DEF Between
<1>2. CASE m # NULL
    <2>1. m \in Nodes /\ mem[m]["left"] \in Links /\ mem[m]["right"] \in Links
        BY <1>2 DEF Links, Children, Sides
    <2>2. g[mem[m]["left"]] \in Seq(Nodes) /\ <<m>> \in Seq(Nodes) /\ g[mem[m]["right"]] \in Seq(Nodes)
        BY <2>1
    <2> PICK l, r : l = g[mem[m]["left"]] /\ r = g[mem[m]["right"]]
        OBVIOUS
    <2>3. (l \o <<m>>) \o r \in Seq(Nodes)
        BY <2>2
    <2> QED BY <1>2, <2>3 DEF Between
<1> QED BY <1>1, <1>2

LEMMA LevelledExists ==
    ASSUME NEW mem \in Children
    PROVE  \E f : f = Levelled(f, mem)
<1> PICK N : N = Cardinality(Nodes)
    OBVIOUS
<1>x. PICK X : X = [Links -> Seq(Nodes)]
    OBVIOUS
<1>i. PICK i : i = [m \in Links |-> <<>>]
    OBVIOUS
<1> DEFINE level(g) == [m \in Links |-> Between(mem, g, m)]
           next == [g \in X |-> level(g)]
<1>1. N \in Nat /\ next \in [X -> X] /\ i \in X
    <2>1. \A g \in X : level(g) \in X
        BY <1>x, BetweenIs
    <2>2. i \in X
        BY <1>x, <1>i
    <2> QED BY <2>1, <2>2, NodeAssumption, FS_CardinalityType
<1>2. \A g \in X : next[g] = level(g)
    OBVIOUS
<1> HIDE DEF next
<1>3. \A Y : \A a \in Y : \A g \in [Y -> Y] :
        \E f : /\ f \in [0 .. N -> Y]
               /\ f = [k \in 0 .. N |-> IF k = 0 THEN a ELSE g[f[k - 1]]]
    BY <1>1, LoopExists, Zenon
<1>a. i \in X /\ next \in [X -> X]
    BY <1>1
<1>b. \E f : /\ f \in [0 .. N -> X]
             /\ f = [k \in 0 .. N |-> IF k = 0 THEN i ELSE next[f[k - 1]]]
    <2> HIDE <1>1
    <2> QED BY <1>a, <1>3
<1>4. PICK f : /\ f \in [0 .. N -> X]
               /\ f = [k \in 0 .. N |-> IF k = 0 THEN i ELSE next[f[k - 1]]]
    BY <1>b
<1>5. ASSUME NEW k \in 0 .. N
      PROVE  (IF k = 0 THEN i ELSE next[f[k - 1]]) = (IF k = 0 THEN i ELSE level(f[k - 1]))
    <2>1. CASE k = 0
        BY <2>1
    <2>2. CASE k # 0
        <3>a. k - 1 \in 0 .. N
            BY <1>1, <2>2
        <3>b. f \in [0 .. N -> X]
            BY <1>4
        <3>1. f[k - 1] \in X
            BY <3>a, <3>b
        <3> QED BY <1>2, <2>2, <3>1
    <2> QED BY <2>1, <2>2
<1>6. f = [k \in 0 .. N |-> IF k = 0 THEN [m \in Links |-> <<>>] ELSE level(f[k - 1])]
    BY <1>4, <1>5, <1>i
<1>7. f = Levelled(f, mem)
    BY <1>6, Zenon DEF Levelled, Between
<1> QED BY <1>7

LEMMA InOrderIs ==
    ASSUME Typed
    PROVE  InOrder \in Seq(Nodes)
<1> PICK N : N = Cardinality(Nodes)
    OBVIOUS
<1> PICK mem : mem = child
    OBVIOUS
<1>0. N \in Nat /\ mem \in Children /\ root \in Links
    BY NodeAssumption, FS_CardinalityType DEF Typed, Children
<1> DEFINE f == CHOOSE f : f = Levelled(f, mem)
<1>1. InOrder = f[N][root]
    BY DEF InOrder, Levelled
<1>2. f = Levelled(f, mem)
    BY <1>0, LevelledExists
<1> HIDE DEF f
<1>3. \A k \in 0 .. N : f[k] = IF k = 0 THEN Level(mem, f, 0) ELSE Level(mem, f[k - 1], 1)
    <2>1. \A k \in 0 .. N :
            f[k] = IF k = 0 THEN [m \in Links |-> <<>>] ELSE [m \in Links |-> Between(mem, f[k - 1], m)]
        BY <1>2, Zenon DEF Levelled, Between
    <2>2. \A g : Level(mem, g, 0) = [m \in Links |-> <<>>]
        BY DEF Level
    <2>3. \A g : Level(mem, g, 1) = [m \in Links |-> Between(mem, g, m)]
        BY DEF Level
    <2> QED BY <2>1, <2>2, <2>3, Zenon
<1>4. f[0] = Level(mem, f, 0) /\ \A k \in 0 .. (N - 1) : f[k + 1] = Level(mem, f[k], 1)
    BY <1>0, <1>3
<1> DEFINE S == {k \in 0 .. N : f[k] \in [Links -> Seq(Nodes)]}
<1>5. 0 \in S
    <2>1. Level(mem, f, 0) \in [Links -> Seq(Nodes)]
        BY DEF Level
    <2> QED BY <1>0, <1>4, <2>1
<1>6. ASSUME NEW k \in 0 .. (N - 1), k \in S PROVE k + 1 \in S
    <2>1. k + 1 \in 0 .. N
        BY <1>0
    <2>2. \A m \in Links : Between(mem, f[k], m) \in Seq(Nodes)
        BY <1>0, <1>6, BetweenIs
    <2>3. Level(mem, f[k], 1) \in [Links -> Seq(Nodes)]
        BY <2>2 DEF Level
    <2> QED BY <1>4, <2>1, <2>3
<1>7. \A k \in 0 .. N : k \in S
    <2> HIDE DEF S
    <2> QED BY <1>0, <1>5, <1>6, CountingUp
<1>8. f[N] \in [Links -> Seq(Nodes)]
    BY <1>0, <1>7
<1> QED BY <1>0, <1>1, <1>8

Ordered == order \in Seq(Nodes)

LEMMA StepOrdered == TreeInv /\ Ordered /\ [Next]_vars => Ordered'
<1> SUFFICES ASSUME TreeInv, Ordered, [Next]_vars PROVE Ordered'
    OBVIOUS
<1>1. CASE order' = order
    BY <1>1 DEF Ordered
<1>2. CASE Return
    BY <1>2, InOrderIs DEF TreeInv, Return, Ordered
<1>3. CASE Call
    BY <1>1, <1>3 DEF Call, InsertLink, EraseOne, EraseTwo, EraseBegin, Replace, Begin
<1>4. CASE Store
    BY <1>1, <1>4 DEF Store
<1>5. CASE InsertColor
    BY <1>1, <1>5 DEF InsertColor, InsertEnd, InsertFlip, InsertInner, InsertOuter, Turn
<1>6. CASE EraseColor
    BY <1>1, <1>6 DEF EraseColor, EraseRedSibling, EraseFlip, EraseInner, EraseOuter, Turn
<1>7. CASE \E r \in Readers : Reader(r)
    BY <1>1, <1>7 DEF Reader, ReadStart, ReadStep, ReadEnd, WriterSame
<1>8. CASE UNCHANGED vars
    BY <1>1, <1>8 DEF vars
<1> QED BY <1>2, <1>3, <1>4, <1>5, <1>6, <1>7, <1>8 DEF Next

LEMMA AllTyped == TreeInv /\ ReachInv /\ Valued /\ Ordered => TypeOK
<1> SUFFICES ASSUME TreeInv, ReachInv, Valued, Ordered PROVE TypeOK
    OBVIOUS
<1>1. Typed
    BY DEF TreeInv
<1>2. PICK T \in SUBSET Nodes, c \in Memory, up \in Ups, red \in SUBSET Nodes, h \in Heights,
           x \in Links, y \in Links, t \in Sides : Fits(T, c, up, red, h, x, y, t)
    BY DEF TreeInv
<1>3. w.pc \in {"erase", "outer"} => w.parent # NULL
    <2>1. Standing(T, c, up, red, x, y, t)
        BY <1>2 DEF Fits
    <2>2. w.pc = "outer" => Lifting("insert") \/ Lifting("erase")
        BY DEF TreeInv, Settled, Lifting
    <2> QED BY <2>1, <2>2, NodeAssumption DEF Standing
<1>4. leftmost \in Links
    <2>1. PICK T2, c2 : T2 = Members /\ First(T2, c2, aug, leftmost)
        BY DEF Valued
    <2>2. T2 \in SUBSET Nodes
        BY <1>2, <2>1 DEF Fits
    <2> QED BY <2>1, <2>2 DEF First, Foremost, Spine, Links
<1>5. aug \in [Nodes -> SUBSET Nodes]
    BY DEF Valued, Values
<1>6. rd \in [Readers -> [pc : {"out", "walk"}, key : Keys \cup {0}, at : Links, calls : 0 .. MaxCalls]]
    BY DEF ReachInv, Lookups
<1>7. order \in Seq(Nodes)
    BY DEF Ordered
<1> QED BY <1>1, <1>3, <1>4, <1>5, <1>6, <1>7 DEF TypeOK, Typed, Words, Writers, Puts

\* Every variable stays in its domain.
THEOREM TypeAlways == Spec => []TypeOK
<1>1. Init => TreeInv /\ ReachInv /\ Valued /\ Ordered
    BY InitTree, InitReach, InitValues DEF Init, Ordered
<1>2. TreeInv /\ ReachInv /\ Valued /\ Ordered /\ [Next]_vars
        => TreeInv' /\ ReachInv' /\ Valued' /\ Ordered'
    BY StepKeeps, StepReaches, StepValues, StepOrdered
<1> QED BY <1>1, <1>2, AllTyped, PTL DEF Spec

-----------------------------------------------------------------------------
(* No loops: memory's pointers go down in some rank.                       *)

Ranks == [Nodes -> Nat]
\* Every pointer goes down.
Falls(mem, rank) == \A m \in Nodes, e \in Sides : mem[m][e] # NULL => rank[mem[m][e]] < rank[m]

LEMMA LowestExists ==
    ASSUME NEW S \in SUBSET Nodes, S # {}, NEW rank \in Ranks
    PROVE  \E n \in S : \A m \in S : rank[n] <= rank[m]
<1> DEFINE R == {rank[n] : n \in S}
<1>1. R \in SUBSET Nat /\ R # {}
    BY DEF Ranks
<1>2. PICK k \in R : \A y \in R : <<y, k>> \notin OpToRel(<, Nat)
    <2> HIDE DEF R
    <2> QED BY <1>1, NatLessThanWellFounded, WFMin, Zenon
<1>3. \A y \in R : y \in Nat /\ k \in Nat /\ ~(y < k)
    BY <1>1, <1>2 DEF OpToRel
<1>4. PICK n \in S : k = rank[n]
    OBVIOUS
<1>5. \A m \in S : rank[m] \in R
    OBVIOUS
<1> HIDE DEF R
<1> QED BY <1>3, <1>4, <1>5

\* Elements with a child in g.
Over(mem, g) == {n \in Nodes : \E s \in Sides : mem[n][s] \in g}
\* The levels of NoLoops, as an equation.
Lengthened(f, mem) ==
    [k \in 0 .. Cardinality(Nodes) |->
       IF k = 0 THEN Nodes ELSE {n \in Nodes : \E s \in Sides : mem[n][s] \in f[k - 1]}]

LEMMA LengthenedExists == \A mem : \E f : f = Lengthened(f, mem)
<1> TAKE mem
<1> PICK N : N = Cardinality(Nodes)
    OBVIOUS
<1>x. PICK X : X = SUBSET Nodes
    OBVIOUS
<1>i. PICK i : i = Nodes
    OBVIOUS
<1> DEFINE next == [g \in X |-> Over(mem, g)]
<1>1. N \in Nat /\ next \in [X -> X] /\ i \in X
    BY <1>x, <1>i, NodeAssumption, FS_CardinalityType DEF Over
<1>2. \A g \in X : next[g] = Over(mem, g)
    OBVIOUS
<1> HIDE DEF next
<1>3. \A Y : \A a \in Y : \A g \in [Y -> Y] :
        \E f : /\ f \in [0 .. N -> Y]
               /\ f = [k \in 0 .. N |-> IF k = 0 THEN a ELSE g[f[k - 1]]]
    BY <1>1, LoopExists, Zenon
<1>4. PICK f : /\ f \in [0 .. N -> X]
               /\ f = [k \in 0 .. N |-> IF k = 0 THEN i ELSE next[f[k - 1]]]
    BY <1>1, <1>3
<1>5. ASSUME NEW k \in 0 .. N
      PROVE  (IF k = 0 THEN i ELSE next[f[k - 1]]) = (IF k = 0 THEN i ELSE Over(mem, f[k - 1]))
    <2>1. CASE k = 0
        BY <2>1
    <2>2. CASE k # 0
        <3>a. k - 1 \in 0 .. N
            BY <1>1, <2>2
        <3>b. f \in [0 .. N -> X]
            BY <1>4
        <3>1. f[k - 1] \in X
            BY <3>a, <3>b
        <3> QED BY <1>2, <2>2, <3>1
    <2> QED BY <2>1, <2>2
<1>6. f = [k \in 0 .. N |-> IF k = 0 THEN Nodes ELSE Over(mem, f[k - 1])]
    BY <1>4, <1>5, <1>i
<1>7. f = Lengthened(f, mem)
    BY <1>6, Zenon DEF Lengthened, Over
<1> QED BY <1>7

\* Each level has fewer elements than the one before: the lowest leaves.
LEMMA OverFewer ==
    ASSUME NEW mem \in Children, NEW rank \in Ranks, Falls(mem, rank),
           NEW g \in SUBSET Nodes, Over(mem, g) \in SUBSET g
    PROVE  /\ Cardinality(Over(mem, g)) \in Nat /\ Cardinality(g) \in Nat
           /\ g = {} \/ Cardinality(Over(mem, g)) < Cardinality(g)
<1>1. IsFiniteSet(g) /\ Cardinality(g) \in Nat
    BY NodeAssumption, FS_Subset, FS_CardinalityType
<1>2. Cardinality(Over(mem, g)) \in Nat
    BY <1>1, FS_Subset, FS_CardinalityType
<1>3. CASE g = {}
    BY <1>1, <1>2, <1>3
<1>4. CASE g # {}
    <2>1. PICK n \in g : \A m \in g : rank[n] <= rank[m]
        BY <1>4, LowestExists
    <2>2. n \notin Over(mem, g)
        <3>1. SUFFICES ASSUME NEW s \in Sides, mem[n][s] \in g PROVE FALSE
            BY DEF Over
        <3>2. mem[n][s] # NULL /\ mem[n][s] \in Nodes /\ n \in Nodes
            BY <3>1, NodeAssumption
        <3>3. rank[mem[n][s]] < rank[n] /\ rank[n] <= rank[mem[n][s]]
            BY <2>1, <3>1, <3>2 DEF Falls
        <3> QED BY <3>2, <3>3 DEF Ranks
    <2>3. Over(mem, g) \in SUBSET g /\ Over(mem, g) # g
        BY <2>1, <2>2
    <2>4. Cardinality(Over(mem, g)) <= Cardinality(g) /\ Cardinality(Over(mem, g)) # Cardinality(g)
        BY <1>1, <2>3, FS_Subset
    <2> QED BY <1>1, <1>2, <2>4
<1> QED BY <1>3, <1>4

\* Where every pointer goes down there is no loop.
LEMMA FallsEnd ==
    ASSUME child \in Children, NEW rank \in Ranks, Falls(child, rank)
    PROVE  NoLoops
<1>n. PICK N : N = Cardinality(Nodes)
    OBVIOUS
<1> PICK mem : mem = child
    OBVIOUS
<1>0. N \in Nat /\ mem \in Children /\ Falls(mem, rank)
    BY <1>n, NodeAssumption, FS_CardinalityType
<1> DEFINE f == CHOOSE f : f = Lengthened(f, mem)
<1>1. NoLoops <=> f[N] = {}
    BY <1>n DEF NoLoops, Lengthened
<1>2. f = Lengthened(f, mem)
    BY LengthenedExists
<1> HIDE DEF f
<1>3. \A k \in 0 .. N : f[k] = IF k = 0 THEN Nodes ELSE Over(mem, f[k - 1])
    BY <1>2, <1>n, Zenon DEF Lengthened, Over
<1>4. f[0] = Nodes /\ \A k \in 0 .. (N - 1) : f[k + 1] = Over(mem, f[k])
    BY <1>0, <1>3
<1> DEFINE Shrunk(k, g) == g \in SUBSET Nodes /\ Over(mem, g) \in SUBSET g /\ Cardinality(g) <= N - k
           S == {k \in 0 .. N : Shrunk(k, f[k])}
<1>5. 0 \in S
    BY <1>0, <1>4, <1>n DEF Over
<1>6. ASSUME NEW k \in 0 .. (N - 1), k \in S PROVE k + 1 \in S
    <2> PICK g : g = f[k]
        OBVIOUS
    <2>1. Shrunk(k, g) /\ k + 1 \in 0 .. N /\ f[k + 1] = Over(mem, g)
        BY <1>0, <1>4, <1>6
    <2>2. Over(mem, g) \in SUBSET Nodes /\ Over(mem, Over(mem, g)) \in SUBSET Over(mem, g)
        BY <2>1 DEF Over
    <2>3. /\ Cardinality(Over(mem, g)) \in Nat /\ Cardinality(g) \in Nat
          /\ g = {} \/ Cardinality(Over(mem, g)) < Cardinality(g)
        BY <1>0, <2>1, OverFewer
    <2>4. Cardinality(Over(mem, g)) <= N - (k + 1)
        <3>1. CASE g = {}
            <4>1. Over(mem, g) = {}
                BY <3>1 DEF Over
            <4> QED BY <1>0, <4>1, FS_EmptySet
        <3>2. CASE g # {}
            BY <1>0, <2>1, <2>3, <3>2
        <3> QED BY <3>1, <3>2
    <2> QED BY <2>1, <2>2, <2>4
<1>7. \A k \in 0 .. N : k \in S
    <2> HIDE DEF S
    <2> QED BY <1>0, <1>5, <1>6, CountingUp
<1>8. Shrunk(N, f[N]) /\ N - N = 0
    <2>1. N \in 0 .. N /\ N - N = 0
        BY <1>0
    <2>2. N \in S
        BY <1>7, <2>1
    <2> QED BY <2>1, <2>2
<1>9. IsFiniteSet(f[N]) /\ Cardinality(f[N]) = 0
    <2>1. IsFiniteSet(f[N]) /\ Cardinality(f[N]) \in Nat
        BY <1>8, NodeAssumption, FS_Subset, FS_CardinalityType
    <2> QED BY <1>8, <2>1
<1> QED BY <1>1, <1>9, FS_EmptySet

\* The next store overwrites m's pointer on side e.
Overwritten(m, e) == todo # <<>> /\ Head(todo).at = m /\ Head(todo).side = e
\* The pointers that stay and those to come go down, the one case 2 of an insertion
\* leaves to case 3 included.
Ranking(rank) ==
    /\ \A m \in Nodes, e \in Sides :
         child[m][e] # NULL /\ ~Overwritten(m, e) => rank[child[m][e]] < rank[m]
    /\ \A st \in Stores : st.at # NULL /\ st.to # NULL => rank[st.to] < rank[st.at]
    /\ Lifting("insert") => rank[w.parent] < rank[w.gparent]

LoopFree ==
    /\ \E K \in Nat : \E rank \in [Nodes -> 0 .. K] : Falls(child, rank)
    /\ \E K \in Nat : \E rank \in [Nodes -> 0 .. K] : Ranking(rank)

LEMMA NoStores == todo = <<>> => Stores = {}
BY DEF Stores

\* With no store pending, elements of the tree point to such, and case 3 of an insertion
\* works at such.
LEMMA MembersPoint ==
    ASSUME TreeInv, ReachInv, todo = <<>>
    PROVE  /\ \A m \in Members, e \in Sides : child[m][e] \in Members \cup {NULL}
           /\ Lifting("insert") => w.parent \in Members /\ w.gparent \in Members
<1>1. PICK T \in SUBSET Nodes, c \in Memory, up \in Ups, red \in SUBSET Nodes, h \in Heights,
           x \in Links, y \in Links, t \in Sides : Fits(T, c, up, red, h, x, y, t)
    BY DEF TreeInv
<1>2. T = Members /\ Shown(T, c) /\ Linked(T, c, up) /\ Standing(T, c, up, red, x, y, t)
    BY <1>1 DEF Fits
<1>3. Typed /\ Settled
    BY DEF TreeInv
<1>4. CASE Lifting("insert")
    <2>1. w.op \in Calls /\ w.op.kind = "insert" /\ w.pc # "idle"
        BY <1>3, <1>4 DEF Settled, Lifting
    <2>2. Out(w.op) = {}
        BY <2>1 DEF Out
    <2>3. Visible = Members
        BY <1>3, <2>1, <2>2, VisibleIs
    <2>4. \A m \in Visible, e \in Sides : child[m][e] \in Visible \cup {NULL}
        BY DEF ReachInv
    <2>5. w.parent \in T /\ w.gparent \in T
        BY <1>2, <1>4 DEF Standing
    <2> QED BY <1>2, <2>3, <2>4, <2>5
<1>5. CASE ~Lifting("insert")
    <2>1. Held(T, c)
        BY <1>2, <1>5, TurnSees
    <2>2. \A m \in T, e \in Sides : child[m][e] = c[m][e]
        BY <2>1, HeldAre
    <2>3. \A m \in T, e \in Sides : c[m][e] \in T \cup {NULL}
        BY <1>2 DEF Linked
    <2> QED BY <1>2, <1>5, <2>2, <2>3
<1> QED BY <1>4, <1>5

\* All go down, and the elements of the tree are below all others.
Stratified(rank) ==
    /\ Falls(child, rank)
    /\ \A m \in Nodes \ Members, n \in Members : rank[n] < rank[m]
    /\ Lifting("insert") => rank[w.parent] < rank[w.gparent]

LEMMA StratifiedExists ==
    ASSUME TreeInv, ReachInv, LoopFree, todo = <<>>
    PROVE  \E K \in Nat : \E rank \in [Nodes -> 0 .. K] : Stratified(rank)
<1>1. PICK K \in Nat : \E rank \in [Nodes -> 0 .. K] : Ranking(rank)
    BY DEF LoopFree
<1>2. PICK rank \in [Nodes -> 0 .. K] : Ranking(rank)
    BY <1>1
<1> PICK T : T = Members
    OBVIOUS
<1>3. T \in SUBSET Nodes /\ child \in Children
    BY MembersNodes DEF TreeInv, Typed, Children
<1>4. /\ \A m \in T, e \in Sides : child[m][e] \in T \cup {NULL}
      /\ Lifting("insert") => w.parent \in T /\ w.gparent \in T
    BY MembersPoint
<1>5. PICK rk \in [Nodes -> 0 .. (K + K + 1)] :
           \A m \in Nodes : rk[m] = IF m \in T THEN rank[m] ELSE rank[m] + K + 1
    <2> DEFINE f == [m \in Nodes |-> IF m \in T THEN rank[m] ELSE rank[m] + K + 1]
    <2>1. f \in [Nodes -> 0 .. (K + K + 1)]
        OBVIOUS
    <2> QED BY <2>1
<1>6. \A m \in Nodes : /\ rank[m] \in Nat /\ rank[m] <= K
                       /\ m \in T => rk[m] = rank[m]
                       /\ m \notin T => rk[m] = rank[m] + K + 1
    BY <1>5
<1>7. ASSUME NEW m \in Nodes, NEW e \in Sides, child[m][e] # NULL PROVE rk[child[m][e]] < rk[m]
    <2> PICK n : n = child[m][e]
        OBVIOUS
    <2>1. n \in Nodes /\ rank[n] < rank[m]
        BY <1>2, <1>3, <1>7 DEF Ranking, Overwritten, Children, Links
    <2>2. m \in T => n \in T
        BY <1>4, <1>7
    <2>3. /\ rank[m] \in Nat /\ rank[n] \in Nat /\ rank[n] <= K
          /\ m \in T => rk[m] = rank[m]
          /\ m \notin T => rk[m] = rank[m] + K + 1
          /\ n \in T => rk[n] = rank[n]
          /\ n \notin T => rk[n] = rank[n] + K + 1
        BY <1>6, <2>1
    <2>4. rk[n] < rk[m]
        BY <2>1, <2>2, <2>3
    <2> QED BY <2>4
<1>8. \A m \in Nodes \ T, n \in T : rk[n] < rk[m]
    <2> SUFFICES ASSUME NEW m \in Nodes \ T, NEW n \in T PROVE rk[n] < rk[m]
        OBVIOUS
    <2>1. n \in Nodes
        BY <1>3
    <2>2. /\ rank[m] \in Nat /\ rank[n] \in Nat /\ rank[n] <= K
          /\ rk[m] = rank[m] + K + 1 /\ rk[n] = rank[n]
        BY <1>6, <2>1
    <2> QED BY <2>2
<1>9. Lifting("insert") => rk[w.parent] < rk[w.gparent]
    <2>1. Lifting("insert") => rank[w.parent] < rank[w.gparent]
        BY <1>2 DEF Ranking
    <2>2. Lifting("insert") => rk[w.parent] = rank[w.parent] /\ rk[w.gparent] = rank[w.gparent]
        BY <1>3, <1>4, <1>6
    <2> QED BY <2>1, <2>2
<1>10. Stratified(rk)
    BY <1>7, <1>8, <1>9 DEF Stratified, Falls
<1>11. K + K + 1 \in Nat
    OBVIOUS
<1> QED BY <1>10, <1>11

\* rk is rank with room between any two, and q at x.
Spread(rank, rk, q, x) == \A m \in Nodes : rk[m] = IF m = q THEN x ELSE 2 * rank[m]

LEMMA SpreadExists ==
    ASSUME NEW K \in Nat, NEW rank \in [Nodes -> 0 .. K], NEW q, NEW x \in 0 .. (K + K + 1)
    PROVE  \E rk \in [Nodes -> 0 .. (K + K + 1)] : Spread(rank, rk, q, x)
<1> DEFINE f == [m \in Nodes |-> IF m = q THEN x ELSE 2 * rank[m]]
<1>1. f \in [Nodes -> 0 .. (K + K + 1)]
    OBVIOUS
<1> QED BY <1>1 DEF Spread

\* The stores of a rotation that lifts q above p, below g.
RotationStores(p, q, b, g, s, o, k) ==
    /\ todo' # <<>> /\ Head(todo') = Put(p, s, b)
    /\ \A st \in Stores' : st \in {Put(p, s, b), Put(q, o, p), Put(g, k, q)}

\* What a rotation needs: q is below p, and in the tree only p points to it, on side s.
Liftable(T, rank, p, q, b, g, s, o) ==
    /\ p \in T /\ q \in T /\ g \in T \cup {NULL}
    /\ rank[q] < rank[p] /\ (g # NULL => rank[p] < rank[g])
    /\ b = child[q][o] /\ b # q /\ o \in Sides
    /\ \A m \in T, e \in Sides : child[m][e] = q => m = p /\ e = s

\* A rotation's lift goes just above p; all stores go down then.
LEMMA RotationRanks ==
    ASSUME NEW K \in Nat, NEW rank \in [Nodes -> 0 .. K], Stratified(rank), child \in Children,
           NEW T \in SUBSET Nodes, T = Members, NEW p, NEW q, NEW b, NEW g, NEW s, NEW o, NEW k,
           Liftable(T, rank, p, q, b, g, s, o), RotationStores(p, q, b, g, s, o, k),
           child' = child, Lifting("insert")' => w'.parent = q /\ w'.gparent = g /\ g # NULL
    PROVE  \E L \in Nat : \E rk \in [Nodes -> 0 .. L] : Ranking(rk)'
<1>1. p \in T /\ q \in T /\ p \in Nodes /\ q \in Nodes /\ p # NULL /\ q # NULL
    BY NodeAssumption DEF Liftable
<1>r. \A m \in Nodes : rank[m] \in Nat /\ rank[m] <= K
    OBVIOUS
<1>2. rank[p] \in Nat /\ rank[q] \in Nat /\ rank[p] <= K /\ rank[q] < rank[p]
    BY <1>1, <1>r DEF Liftable
<1>3. 2 * rank[p] + 1 \in 0 .. (K + K + 1)
    BY <1>2
<1>4. PICK rk \in [Nodes -> 0 .. (K + K + 1)] : Spread(rank, rk, q, 2 * rank[p] + 1)
    BY <1>3, SpreadExists
<1>5. /\ rk[q] = 2 * rank[p] + 1 /\ rk[p] = 2 * rank[p]
      /\ \A m \in Nodes \ {q} : rk[m] = 2 * rank[m]
    BY <1>1, <1>2, <1>4 DEF Spread
<1>6. ASSUME NEW m \in Nodes, NEW n \in Nodes, n # q, rank[n] < rank[m]
      PROVE  rk[n] < rk[m]
    <2>1. rk[n] = 2 * rank[n] /\ rank[n] \in Nat /\ rank[m] \in Nat
        BY <1>5, <1>6, <1>r
    <2>2. CASE m = q
        BY <1>2, <1>5, <1>6, <2>1, <2>2
    <2>3. CASE m # q
        <3>1. rk[m] = 2 * rank[m]
            BY <1>5, <2>3
        <3> QED BY <1>6, <2>1, <3>1
    <2> QED BY <2>2, <2>3
<1>7. ASSUME NEW m \in Nodes, rank[p] < rank[m] PROVE rk[q] < rk[m]
    <2>1. m # q /\ rank[m] \in Nat
        BY <1>2, <1>7, <1>r
    <2>2. rk[m] = 2 * rank[m]
        BY <1>5, <2>1
    <2> QED BY <1>2, <1>5, <1>7, <2>1, <2>2
<1>8. ASSUME NEW m \in Nodes, NEW e \in Sides, child'[m][e] # NULL, ~Overwritten(m, e)'
      PROVE  rk[child'[m][e]] < rk[m]
    <2> PICK n : n = child[m][e]
        OBVIOUS
    <2>1. n \in Nodes /\ n # NULL /\ child'[m][e] = n
        BY <1>8 DEF Children, Links
    <2>2. rank[n] < rank[m]
        BY <2>1 DEF Stratified, Falls
    <2>3. CASE n = q
        <3>1. ~(m = p /\ e = s)
            BY <1>8, PutsAre DEF Overwritten, RotationStores, Put
        <3>2. m \notin T
            BY <2>3, <3>1 DEF Liftable
        <3>3. rank[p] < rank[m]
            BY <1>1, <3>2 DEF Stratified
        <3> QED BY <1>7, <2>1, <2>3, <3>3
    <2> QED BY <1>6, <2>1, <2>2, <2>3
<1>9. ASSUME NEW st \in Stores', st.at # NULL, st.to # NULL PROVE rk[st.to] < rk[st.at]
    <2>1. CASE st = Put(p, s, b)
        <3>1. st.at = p /\ st.to = b /\ b # NULL /\ b = child[q][o] /\ o \in Sides /\ b # q
            BY <1>9, <2>1 DEF Put, Liftable
        <3>2. b \in Nodes /\ rank[b] < rank[q]
            BY <1>1, <3>1 DEF Children, Links, Stratified, Falls
        <3>3. rank[b] < rank[p]
            BY <1>2, <1>r, <3>2
        <3> QED BY <1>1, <1>6, <3>1, <3>2, <3>3
    <2>2. CASE st = Put(q, o, p)
        <3>1. st.at = q /\ st.to = p
            BY <2>2 DEF Put
        <3> QED BY <1>2, <1>5, <3>1
    <2>3. CASE st = Put(g, k, q)
        <3>1. st.at = g /\ st.to = q /\ g # NULL
            BY <1>9, <2>3 DEF Put
        <3>2. g \in Nodes /\ rank[p] < rank[g]
            BY <3>1 DEF Liftable
        <3> QED BY <1>7, <3>1, <3>2
    <2> QED BY <2>1, <2>2, <2>3 DEF RotationStores
<1>10. ASSUME Lifting("insert")' PROVE rk[w'.parent] < rk[w'.gparent]
    <2>1. g \in Nodes /\ rank[p] < rank[g] /\ w'.parent = q /\ w'.gparent = g
        BY <1>10 DEF Liftable
    <2> QED BY <1>7, <2>1
<1>11. Ranking(rk)'
    BY <1>8, <1>9, <1>10 DEF Ranking
<1>12. K + K + 1 \in Nat
    OBVIOUS
<1> QED BY <1>11, <1>12

\* A turn or a call that stores nothing to memory at once keeps what memory has.
LEMMA FreeAgain ==
    ASSUME LoopFree, child' = child, \E K \in Nat : \E rank \in [Nodes -> 0 .. K] : Ranking(rank)'
    PROVE  LoopFree'
<1>1. PICK K \in Nat : \E rank \in [Nodes -> 0 .. K] : Falls(child, rank)
    BY DEF LoopFree
<1>2. \E rank \in [Nodes -> 0 .. K] : Falls(child', rank)
    BY <1>1
<1> QED BY <1>2 DEF LoopFree

\* A turn without stores.
LEMMA StillFree ==
    ASSUME LoopFree, child' = child, todo = <<>>, todo' = <<>>, ~Lifting("insert")'
    PROVE  LoopFree'
<1>1. PICK K \in Nat : \E rank \in [Nodes -> 0 .. K] : Ranking(rank)
    BY DEF LoopFree
<1>2. PICK rank \in [Nodes -> 0 .. K] : Ranking(rank)
    BY <1>1
<1>3. Stores' = {}
    BY DEF Stores
<1>4. Ranking(rank)'
    BY <1>2, <1>3 DEF Ranking, Overwritten
<1> QED BY <1>4, FreeAgain

\* Where the tree has q below p, memory or the writer knows.
Known(p, q, s) == child[p][s] = q \/ (Lifting("insert") /\ p = w.gparent /\ q = w.parent)

\* A turn that rotates.
LEMMA RotationFree ==
    ASSUME TreeInv, ReachInv, LoopFree, todo = <<>>, child' = child,
           NEW T \in SUBSET Nodes, T = Members, NEW c \in Memory, NEW up \in Ups,
           NEW p, NEW s, NEW j, Around(T, c, up, p, s, j), HeldBut(T, c, p, s),
           NEW q, q = c[p][s], Known(p, q, s), NEW b, b = child[q][Other(s)], NEW g, g = up[p],
           NEW k, RotationStores(p, q, b, g, s, Other(s), k),
           Lifting("insert")' => w'.parent = q /\ w'.gparent = g /\ g # NULL
    PROVE  LoopFree'
<1> PICK o : o = Other(s)
    OBVIOUS
<1>1. Apart(T, c, p, q, c[q][o], g, s, o, j)
    BY AroundIs
<1>2. PICK K \in Nat : \E rank \in [Nodes -> 0 .. K] : Stratified(rank)
    BY StratifiedExists
<1>3. PICK rank \in [Nodes -> 0 .. K] : Stratified(rank)
    BY <1>2
<1>4. child \in Children
    BY DEF TreeInv, Typed, Children
<1>5. /\ p \in T /\ q \in T /\ g \in T \cup {NULL} /\ s \in Sides /\ o \in Sides /\ j \in Sides
      /\ g # p /\ q # p /\ o # s
      /\ \A m \in T \cup {NULL}, e \in Sides : c[m][e] = q => m = p /\ e = s
    BY <1>1 DEF Apart
<1>6. NULL \notin T /\ p \in Nodes /\ q \in Nodes
    BY <1>5, NodeAssumption
<1>7. \A m \in T, e \in Sides : ~(m = p /\ e = s) => child[m][e] = c[m][e]
    BY <1>6 DEF HeldBut, Real
<1>8. rank[q] < rank[p]
    <2>1. CASE child[p][s] = q
        BY <1>3, <1>5, <1>6, <2>1, NodeAssumption DEF Stratified, Falls
    <2>2. CASE Lifting("insert") /\ p = w.gparent /\ q = w.parent
        BY <1>3, <2>2 DEF Stratified
    <2> QED BY <2>1, <2>2 DEF Known
<1>9. g # NULL => rank[p] < rank[g]
    <2> SUFFICES ASSUME g # NULL PROVE rank[p] < rank[g]
        OBVIOUS
    <2>1. g \in T /\ g \in Nodes /\ c[g][j] = p
        BY <1>1, <1>5 DEF Apart
    <2>2. child[g][j] = p
        BY <1>5, <1>7, <2>1
    <2> QED BY <1>3, <1>5, <1>6, <2>1, <2>2, NodeAssumption DEF Stratified, Falls
<1>10. b = child[q][o] /\ b # q
    <2>1. child[q][o] = c[q][o]
        BY <1>5, <1>7
    <2>2. c[q][o] # q
        BY <1>1 DEF Apart
    <2> QED BY <2>1, <2>2
<1>11. \A m \in T, e \in Sides : child[m][e] = q => m = p /\ e = s
    BY <1>5, <1>7
<1>12. Liftable(T, rank, p, q, b, g, s, o)
    BY <1>5, <1>8, <1>9, <1>10, <1>11 DEF Liftable
<1>13. RotationStores(p, q, b, g, s, o, k)
    OBVIOUS
<1>14. \E L \in Nat : \E rk \in [Nodes -> 0 .. L] : Ranking(rk)'
    BY <1>3, <1>4, <1>12, <1>13, RotationRanks
<1> QED BY <1>14, FreeAgain

\* The queue of a lift.
LEMMA LiftQueue ==
    ASSUME NEW p \in Links, NEW q \in Links, NEW b \in Links, NEW g \in Links,
           NEW s \in Sides, NEW o \in Sides, NEW k \in Sides,
           todo' = <<Put(p, s, b), Put(q, o, p)>> \o <<Put(g, k, q)>>
    PROVE  RotationStores(p, q, b, g, s, o, k)
<1> PICK x : x = Put(p, s, b)
    OBVIOUS
<1> PICK y : y = Put(q, o, p)
    OBVIOUS
<1> PICK z : z = Put(g, k, q)
    OBVIOUS
<1>1. x \in Puts /\ y \in Puts /\ z \in Puts
    BY PutsAre
<1>2. todo' = <<x, y>> \o <<z>>
    OBVIOUS
<1>3. Stores' = {x, y, z}
    BY <1>1, <1>2, ThreeStores DEF Stores
<1>4. todo' # <<>> /\ Head(todo') = x
    BY <1>2
<1> QED BY <1>3, <1>4 DEF RotationStores

LEMMA InnerQueue ==
    ASSUME NEW p \in Links, NEW q \in Links, NEW b \in Links, NEW g, NEW k,
           NEW s \in Sides, NEW o \in Sides, todo' = <<Put(p, s, b), Put(q, o, p)>>
    PROVE  RotationStores(p, q, b, g, s, o, k)
<1> PICK x : x = Put(p, s, b)
    OBVIOUS
<1> PICK y : y = Put(q, o, p)
    OBVIOUS
<1>1. x \in Puts /\ y \in Puts
    BY PutsAre
<1>2. todo' = <<x, y>>
    OBVIOUS
<1>3. Stores' = {x, y}
    BY <1>1, <1>2, TwoStores DEF Stores
<1>4. todo' # <<>> /\ Head(todo') = x
    BY <1>2
<1> QED BY <1>3, <1>4 DEF RotationStores

LEMMA HeldHeldBut ==
    ASSUME NEW T, NEW c, Held(T, c)
    PROVE  \A p, s : HeldBut(T, c, p, s)
BY DEF Held, HeldBut

LEMMA ChangeChildPuts ==
    ASSUME NEW p, NEW q, NEW g
    PROVE  \E k \in Sides : ChangeChild(p, q, g) = Put(g, k, q)
BY DEF ChangeChild, Sides

LEMMA InsertInnerFree == TreeInv /\ ReachInv /\ LoopFree /\ InsertInner => LoopFree'
<1> SUFFICES ASSUME TreeInv, ReachInv, LoopFree, InsertInner PROVE LoopFree'
    OBVIOUS
<1>1. At("insert") /\ Turn
    BY DEF InsertInner, BlackUncle
<1>2. PICK T \in SUBSET Nodes, c \in Memory, up \in Ups, red \in SUBSET Nodes, h \in Heights,
           x \in Links, t \in Sides : Inserting(T, c, up, red, h, x, t)
    BY <1>1, InsertSees
<1>3. /\ Typed /\ todo = <<>> /\ w.pc = "insert" /\ w.op.kind = "insert"
    BY <1>1, InsertSees DEF At
<1> PICK e : e = ParentSide
    OBVIOUS
<1> PICK s : s = Other(e)
    OBVIOUS
<1> PICK p : p = w.parent
    OBVIOUS
<1>4. PICK d \in Memory : Raised(T, c, up, d, p, x, s, e)
    BY <1>2, <1>3, InsertInnerDoes
<1>5. Held(T, c) /\ T = Members /\ x = w.node
    BY <1>2 DEF Inserting
<1>6. /\ todo' = Rotation(p, x, s)
      /\ w' = [w EXCEPT !.pc = "outer", !.parent = x, !.gparent = Gparent, !.side = e]
    BY <1>5 DEF InsertInner
<1>7. w'.parent = x /\ w'.gparent = Gparent
    BY <1>3, <1>6 DEF Typed, Writers
<1>8. RedParent(T, c, up, red, x)
    BY <1>2, RedParentSees DEF InsertInner, BlackUncle
<1> PICK g : g = up[p]
    OBVIOUS
<1>9. Gparent = g /\ g \in T
    BY <1>8 DEF RedParent
<1>10. Around(T, c, up, p, s, e) /\ c[p][s] = x
    BY <1>4 DEF Raised
<1>11. p \in T /\ x \in T /\ s \in Sides /\ Other(s) \in Sides /\ g # NULL
    BY <1>9, <1>10, SidesAre, NodeAssumption DEF Around
<1>12. HeldBut(T, c, p, s)
    BY <1>5, HeldHeldBut
<1>13. child[p][s] = x
    <2>1. \A m \in T, f \in Sides : child[m][f] = c[m][f]
        BY <1>5, HeldAre
    <2> QED BY <1>10, <1>11, <2>1
<1> PICK b : b = child[x][Other(s)]
    OBVIOUS
<1>14. b \in Links /\ p \in Links /\ x \in Links
    BY <1>3, <1>11 DEF Typed, Links
<1>15. RotationStores(p, x, b, g, s, Other(s), e)
    BY <1>6, <1>11, <1>14, InnerQueue DEF Rotation
<1>16. child' = child
    BY <1>1 DEF Turn
<1>17. Known(p, x, s)
    BY <1>13 DEF Known
<1>18. Lifting("insert")' => w'.parent = x /\ w'.gparent = g /\ g # NULL
    BY <1>7, <1>9, <1>11
<1> QED BY <1>3, <1>5, <1>10, <1>12, <1>15, <1>16, <1>17, <1>18, RotationFree

LEMMA InsertOuterFree == TreeInv /\ ReachInv /\ LoopFree /\ InsertOuter => LoopFree'
<1> SUFFICES ASSUME TreeInv, ReachInv, LoopFree, InsertOuter PROVE LoopFree'
    OBVIOUS
<1>1. Turn /\ Typed /\ Settled /\ todo = <<>> /\ w.pc # "idle"
    BY InsertOuterSees
<1>2. PICK T \in SUBSET Nodes, c \in Memory, up \in Ups, red \in SUBSET Nodes, h \in Heights,
           x \in Links, t \in Sides, g \in Nodes, p \in Nodes, s \in Sides :
              /\ TwoRed(T, c, up, red, h, x, t, g, p, s) /\ InsertLift(g, p, s)
              /\ Shown(T, c) /\ (Lifting("insert") => c[w.gparent][w.side] = w.parent)
    BY InsertOuterSees
<1>3. PICK j \in Sides, d \in Memory : Raised(T, c, up, d, g, p, s, j)
    BY <1>1, <1>2, InsertLiftDoes
<1>4. Around(T, c, up, g, s, j) /\ c[g][s] = p
    BY <1>3 DEF Raised
<1>5. /\ T = Members /\ HeldBut(T, c, g, s) /\ g \in T /\ p \in T /\ Linked(T, c, up)
      /\ \A n \in T : n # p => up[n] = word[n].up
    BY <1>2 DEF TwoRed
<1> PICK a : a = up[g]
    OBVIOUS
<1>6. g # p
    BY <1>4, <1>5, NoSelf
<1>7. a = word[g].up /\ a \in Links /\ g \in Links /\ p \in Links /\ Other(s) \in Sides
    <2>1. a \in T \cup {NULL}
        BY <1>5 DEF Linked
    <2> QED BY <1>5, <1>6, <2>1, SidesAre DEF Links
<1> PICK b : b = child[p][Other(s)]
    OBVIOUS
<1>8. b \in Links
    BY <1>1, <1>5, <1>7 DEF Typed
<1>9. PICK k \in Sides : ChangeChild(g, p, a) = Put(a, k, p)
    BY ChangeChildPuts
<1>10. Done /\ todo' = Rotation(g, p, s) \o <<ChangeChild(g, p, a)>>
    BY <1>2, <1>7 DEF InsertLift
<1>11. todo' = <<Put(g, s, b), Put(p, Other(s), g)>> \o <<Put(a, k, p)>>
    BY <1>9, <1>10 DEF Rotation
<1>12. RotationStores(g, p, b, a, s, Other(s), k)
    BY <1>7, <1>8, <1>11, LiftQueue
<1>13. Known(g, p, s)
    <2>1. CASE Lifting("insert") /\ g = w.gparent /\ s = w.side
        BY <1>2, <1>4, <2>1 DEF Known
    <2>2. CASE ~(Lifting("insert") /\ g = w.gparent /\ s = w.side)
        <3>1. Stores = {} /\ g # NULL
            BY <1>1, NoStores, NodeAssumption
        <3>2. c[g][s] = Real(g, s)
            BY <1>2, <1>5, <2>2, <3>1 DEF Shown
        <3> QED BY <1>4, <3>1, <3>2 DEF Known, Real
    <2> QED BY <2>1, <2>2
<1>14. ~Lifting("insert")' /\ child' = child
    BY <1>1, <1>10, DoneIs DEF Lifting, Turn
<1> QED BY <1>1, <1>4, <1>5, <1>12, <1>13, <1>14, RotationFree

LEMMA EraseLiftFree ==
    ASSUME TreeInv, ReachInv, LoopFree, Turn, todo = <<>>, w.op.kind = "erase", w'.op = w.op,
           NEW T \in SUBSET Nodes, NEW c \in Memory, NEW up \in Ups, NEW red \in SUBSET Nodes,
           NEW h \in Heights, NEW y \in Links, NEW t \in Sides, Lacking(T, c, up, red, h, y, t),
           NEW words \in Words, NEW color \in Colors, EraseLift(words, color), up[y] = word[y].up
    PROVE  LoopFree'
<1> PICK o : o = Other(t)
    OBVIOUS
<1> PICK q : q = Sibling
    OBVIOUS
<1>1. PICK j \in Sides, d \in Memory : LiftDone(T, c, up, d, y, q, o, j, words, color)
    BY EraseLiftDoes
<1>2. Around(T, c, up, y, o, j)
    BY <1>1 DEF LiftDone
<1>3. Held(T, c) /\ T = Members /\ y = w.parent /\ y \in T /\ Linked(T, c, up)
    BY DEF Lacking
<1>4. Short(T, c, y, t)
    BY ShortSees
<1>5. q = c[y][o] /\ q \in T /\ ShortSide = t
    BY <1>4 DEF Short
<1> PICK g : g = up[y]
    OBVIOUS
<1>6. g \in Links /\ q \in Links /\ o \in Sides /\ Other(o) \in Sides
    <2>1. g \in T \cup {NULL}
        BY <1>3 DEF Linked
    <2> QED BY <1>5, <2>1, SidesAre DEF Links
<1> PICK b : b = child[q][Other(o)]
    OBVIOUS
<1>7. b \in Links
    BY <1>5, <1>6 DEF TreeInv, Typed
<1>8. PICK k \in Sides : ChangeChild(y, q, g) = Put(g, k, q)
    BY ChangeChildPuts
<1>9. todo' = Rotation(y, q, o) \o <<ChangeChild(y, q, g)>>
    BY <1>3, <1>5 DEF EraseLift
<1>10. todo' = <<Put(y, o, b), Put(q, Other(o), y)>> \o <<Put(g, k, q)>>
    BY <1>8, <1>9 DEF Rotation
<1>11. RotationStores(y, q, b, g, o, Other(o), k)
    BY <1>6, <1>7, <1>10, LiftQueue
<1>12. Known(y, q, o)
    <2>1. c[y][o] = Real(y, o)
        BY <1>3, <1>6 DEF Held
    <2>2. y # NULL
        BY <1>3, NodeAssumption
    <2> QED BY <1>5, <2>1, <2>2 DEF Real, Known
<1>13. ~Lifting("insert")' /\ child' = child
    BY DEF Lifting, Turn
<1>14. HeldBut(T, c, y, o)
    BY <1>3, HeldHeldBut
<1> QED BY <1>2, <1>3, <1>5, <1>11, <1>12, <1>13, <1>14, RotationFree

LEMMA EraseRedSiblingFree == TreeInv /\ ReachInv /\ LoopFree /\ EraseRedSibling => LoopFree'
<1> SUFFICES ASSUME TreeInv, ReachInv, LoopFree, EraseRedSibling PROVE LoopFree'
    OBVIOUS
<1>1. At("erase") /\ Turn /\ w' = w
    BY DEF EraseRedSibling
<1>2. PICK T \in SUBSET Nodes, c \in Memory, up \in Ups, red \in SUBSET Nodes, h \in Heights,
           y \in Links, t \in Sides : Erasing(T, c, up, red, h, y, t)
    BY <1>1, EraseSees
<1>3. /\ Typed /\ todo = <<>> /\ w.op.kind = "erase"
    BY <1>1, EraseSees
<1>4. Lacking(T, c, up, red, h, y, t) /\ up[y] = word[y].up /\ y = w.parent
    BY <1>2 DEF Erasing, Lacking
<1> PICK words : words = [word EXCEPT ![Near] = [up |-> y, color |-> "black"]]
    OBVIOUS
<1> PICK color : color = "red"
    OBVIOUS
<1>5. words \in Words /\ color \in Colors
    <2>1. word \in Words
        BY <1>3 DEF Typed
    <2> QED BY <2>1 DEF Words, Colors
<1>6. EraseLift(words, color)
    BY <1>4 DEF EraseRedSibling
<1>7. w'.op = w.op
    BY <1>1
<1> QED BY <1>1, <1>3, <1>4, <1>5, <1>6, <1>7, EraseLiftFree

LEMMA EraseOuterFree == TreeInv /\ ReachInv /\ LoopFree /\ EraseOuter => LoopFree'
<1> SUFFICES ASSUME TreeInv, ReachInv, LoopFree, EraseOuter PROVE LoopFree'
    OBVIOUS
<1>1. Turn /\ Done
    BY DEF EraseOuter
<1>2. PICK T \in SUBSET Nodes, c \in Memory, up \in Ups, red \in SUBSET Nodes, h \in Heights,
           y \in Links, t \in Sides : FarRed(T, c, up, red, h, y, t)
    BY FarRedSees
<1>3. Typed /\ Settled /\ todo = <<>> /\ w.pc # "idle" /\ w.op.kind = "erase"
    <2>1. Typed /\ Settled /\ todo = <<>> /\ w.pc # "idle"
        BY FarRedSees
    <2> QED BY <2>1 DEF EraseOuter, BlackSibling, At, Settled
<1>4. Lacking(T, c, up, red, h, y, t) /\ up[y] = word[y].up /\ y = w.parent
    BY <1>2, FarRedParent DEF FarRed, Lacking
<1> PICK far : far = [word EXCEPT ![Far] = [up |-> Sibling, color |-> "black"]]
    OBVIOUS
<1> PICK words : words = IF Near = NULL THEN far ELSE [far EXCEPT ![Near].up = y]
    OBVIOUS
<1> PICK color : color = "black"
    OBVIOUS
<1>5. words \in Words /\ color \in Colors
    <2>1. word \in Words /\ Sibling \in Links
        <3>1. Short(T, c, y, t)
            BY <1>4, ShortSees
        <3> QED BY <1>3, <3>1 DEF Typed, Short, Links
    <2>2. far \in Words
        BY <2>1 DEF Words, Colors
    <2>3. words \in Words
        BY <2>2 DEF Words
    <2> QED BY <2>3 DEF Colors
<1>6. EraseLift(words, color)
    BY <1>4 DEF EraseOuter
<1>7. w'.op = w.op
    BY <1>1, <1>3, DoneIs
<1> QED BY <1>1, <1>3, <1>4, <1>5, <1>6, <1>7, EraseLiftFree

LEMMA EraseInnerFree == TreeInv /\ ReachInv /\ LoopFree /\ EraseInner => LoopFree'
<1> SUFFICES ASSUME TreeInv, ReachInv, LoopFree, EraseInner PROVE LoopFree'
    OBVIOUS
<1>1. At("erase") /\ Turn
    BY DEF EraseInner, BlackSibling
<1>2. PICK T \in SUBSET Nodes, c \in Memory, up \in Ups, red \in SUBSET Nodes, h \in Heights,
           y \in Links, t \in Sides : Erasing(T, c, up, red, h, y, t)
    BY <1>1, EraseSees
<1>3. /\ Typed /\ Settled /\ todo = <<>> /\ w.pc = "erase" /\ w.op.kind = "erase"
    BY <1>1, EraseSees
<1>r. Lacking(T, c, up, red, h, y, t)
    BY <1>2 DEF Erasing
<1>4. Held(T, c) /\ T = Members /\ y = w.parent /\ y \in T /\ Linked(T, c, up)
    BY <1>r DEF Lacking
<1> PICK o : o = Other(t)
    OBVIOUS
<1> PICK p : p = Sibling
    OBVIOUS
<1> PICK q : q = Near
    OBVIOUS
<1>5. PICK d \in Memory : Raised(T, c, up, d, p, q, t, o)
    BY <1>2, EraseInnerDoes
<1>6. Around(T, c, up, p, t, o) /\ c[p][t] = q
    BY <1>5 DEF Raised
<1>7. Short(T, c, y, t)
    BY <1>r, ShortSees
<1>8. p = c[y][o] /\ p \in T /\ ShortSide = t
    BY <1>7 DEF Short
<1>9. o \in Sides /\ t \in Sides /\ NULL \notin T
    BY NodeAssumption, SidesAre
<1>10. q \in T /\ up[p] = y
    <2>1. p # NULL
        BY <1>8, <1>9
    <2> QED BY <1>4, <1>6, <1>8, <1>9, <2>1 DEF Around, Linked
<1> PICK b : b = child[q][o]
    OBVIOUS
<1>11. p \in Links /\ q \in Links /\ y \in Links
    BY <1>8, <1>10 DEF Links
<1>12. b \in Links
    BY <1>3, <1>9, <1>10 DEF Typed
<1>13. todo' = <<Put(p, t, b), Put(q, o, p)>> \o <<Put(y, o, q)>>
    BY <1>4, <1>8 DEF EraseInner, Rotation
<1>14. RotationStores(p, q, b, y, t, o, o)
    BY <1>9, <1>11, <1>12, <1>13, LiftQueue
<1>15. Known(p, q, t)
    <2>1. c[p][t] = Real(p, t)
        BY <1>4, <1>8, <1>9 DEF Held
    <2>2. p # NULL
        BY <1>8, <1>9
    <2> QED BY <1>6, <2>1, <2>2 DEF Real, Known
<1>16. HeldBut(T, c, p, t)
    BY <1>4, HeldHeldBut
<1>17. child' = child /\ ~Lifting("insert")'
    <2>1. w'.op = w.op
        BY <1>3 DEF EraseInner, Typed, Writers
    <2> QED BY <1>1, <1>3, <2>1 DEF Turn, Lifting
<1> QED BY <1>3, <1>4, <1>6, <1>10, <1>14, <1>15, <1>16, <1>17, RotationFree

LEMMA TurnsFree == TreeInv /\ ReachInv /\ LoopFree /\ (InsertColor \/ EraseColor) => LoopFree'
<1> SUFFICES ASSUME TreeInv, ReachInv, LoopFree, InsertColor \/ EraseColor PROVE LoopFree'
    OBVIOUS
<1>1. w \in Writers
    BY DEF TreeInv, Typed
<1>2. CASE InsertEnd \/ InsertFlip \/ EraseFlip
    <2>1. todo = <<>> /\ todo' = <<>> /\ child' = child
        BY <1>2 DEF InsertEnd, InsertFlip, BlackSibling, EraseFlip, At, Turn
    <2>2. w'.pc # "outer"
        BY <1>1, <1>2 DEF InsertEnd, InsertFlip, BlackSibling, EraseFlip, At, Done, Idle, Writers
    <2> QED BY <2>1, <2>2, StillFree DEF Lifting
<1> QED BY <1>2, InsertInnerFree, InsertOuterFree, EraseRedSiblingFree, EraseInnerFree,
           EraseOuterFree DEF InsertColor, EraseColor

LEMMA InitFree == Init => LoopFree
<1> SUFFICES ASSUME Init PROVE LoopFree
    OBVIOUS
<1> DEFINE rank == [m \in Nodes |-> 0]
<1>1. rank \in [Nodes -> 0 .. 0] /\ 0 \in Nat
    OBVIOUS
<1>2. \A m \in Nodes, e \in Sides : child[m][e] = NULL
    BY DEF Init, Leaf
<1>3. Stores = {} /\ w.pc = "idle"
    BY NoStores DEF Init, Idle
<1>4. Falls(child, rank) /\ Ranking(rank)
    BY <1>2, <1>3 DEF Falls, Ranking, Lifting
<1> HIDE DEF rank
<1> QED BY <1>1, <1>4 DEF LoopFree

\* Pointers only go away.
LEMMA FewerFree ==
    ASSUME LoopFree, \A m \in Nodes, e \in Sides : child'[m][e] \in {child[m][e], NULL},
           todo' = todo, Lifting("insert")' => Lifting("insert") /\ w' = w
    PROVE  LoopFree'
<1>1. PICK K \in Nat : \E rank \in [Nodes -> 0 .. K] : Falls(child, rank)
    BY DEF LoopFree
<1>2. PICK rank \in [Nodes -> 0 .. K] : Falls(child, rank)
    BY <1>1
<1>3. Falls(child', rank)
    BY <1>2 DEF Falls
<1>4. PICK L \in Nat : \E rk \in [Nodes -> 0 .. L] : Ranking(rk)
    BY DEF LoopFree
<1>5. PICK rk \in [Nodes -> 0 .. L] : Ranking(rk)
    BY <1>4
<1>6. Stores' = Stores /\ \A m, e : Overwritten(m, e)' <=> Overwritten(m, e)
    BY DEF Stores, Overwritten
<1>7. ASSUME NEW m \in Nodes, NEW e \in Sides, child'[m][e] # NULL, ~Overwritten(m, e)'
      PROVE  rk[child'[m][e]] < rk[m]
    <2>1. child'[m][e] = child[m][e] /\ child[m][e] # NULL /\ ~Overwritten(m, e)
        BY <1>6, <1>7
    <2> QED BY <1>5, <2>1 DEF Ranking
<1>8. \A st \in Stores' : st.at # NULL /\ st.to # NULL => rk[st.to] < rk[st.at]
    BY <1>5, <1>6 DEF Ranking
<1>9. Lifting("insert")' => rk[w'.parent] < rk[w'.gparent]
    BY <1>5 DEF Ranking
<1>10. Ranking(rk)'
    BY <1>7, <1>8, <1>9 DEF Ranking
<1> QED BY <1>2, <1>3, <1>5, <1>10 DEF LoopFree

\* A store only does what the rank already accounts for.
LEMMA StoreFree == TreeInv /\ LoopFree /\ Store => LoopFree'
<1> SUFFICES ASSUME TreeInv, LoopFree, Store PROVE LoopFree'
    OBVIOUS
<1>0. PICK st : st = Head(todo)
    OBVIOUS
<1>1. /\ todo \in Seq(Puts) /\ todo # <<>> /\ todo' = Tail(todo) /\ w' = w
      /\ child \in [Nodes -> [Sides -> Links]]
    BY DEF TreeInv, Typed, Store
<1>2. st \in Puts
    BY <1>0, <1>1, HeadAndTail
<1>3. Stores = {st} \cup Stores'
    <2>1. Len(todo) \in Nat /\ Len(todo) >= 1 /\ Len(todo') = Len(todo) - 1 /\ st = todo[1]
          /\ \A i \in 1 .. Len(todo') : todo'[i] = todo[i + 1]
        BY <1>0, <1>1
    <2>2. \A i \in 1 .. Len(todo) : i = 1 \/ (i - 1 \in 1 .. Len(todo') /\ todo[i] = todo'[i - 1])
        BY <2>1
    <2>3. \A i \in 1 .. Len(todo') : i + 1 \in 1 .. Len(todo)
        BY <2>1
    <2> QED BY <2>1, <2>2, <2>3 DEF Stores
<1>4. PICK K \in Nat : \E rank \in [Nodes -> 0 .. K] : Ranking(rank)
    BY DEF LoopFree
<1>5. PICK rank \in [Nodes -> 0 .. K] : Ranking(rank)
    BY <1>4
<1>6. st.at \in Links /\ st.side \in Sides /\ st.to \in Links /\ NULL \notin Nodes
    BY <1>2, NodeAssumption DEF Puts
<1>7. \A m \in Nodes, e \in Sides :
         child'[m][e] = IF m = st.at /\ e = st.side THEN st.to ELSE child[m][e]
    <2>1. CASE st.at = NULL
        BY <1>0, <1>6, <2>1 DEF Store
    <2>2. CASE st.at # NULL
        <3>1. st.at \in Nodes /\ child' = [child EXCEPT ![st.at][st.side] = st.to]
            BY <1>0, <1>6, <2>2 DEF Store, Links
        <3> QED BY <1>1, <1>6, <3>1
    <2> QED BY <2>1, <2>2
<1>8. ASSUME NEW m \in Nodes, NEW e \in Sides, child'[m][e] # NULL
      PROVE  rank[child'[m][e]] < rank[m]
    <2>1. CASE m = st.at /\ e = st.side
        <3>1. child'[m][e] = st.to /\ st \in Stores /\ st.at # NULL
            BY <1>3, <1>6, <1>7, <2>1
        <3> QED BY <1>5, <1>8, <2>1, <3>1 DEF Ranking
    <2>2. CASE ~(m = st.at /\ e = st.side)
        <3>1. child'[m][e] = child[m][e]
            BY <1>7, <2>2
        <3>2. ~Overwritten(m, e)
            BY <1>0, <2>2 DEF Overwritten
        <3> QED BY <1>5, <1>8, <3>1, <3>2 DEF Ranking
    <2> QED BY <2>1, <2>2
<1>9. \A q \in Stores' : q.at # NULL /\ q.to # NULL => rank[q.to] < rank[q.at]
    BY <1>3, <1>5 DEF Ranking
<1>10. Lifting("insert")' => rank[w'.parent] < rank[w'.gparent]
    BY <1>1, <1>5 DEF Ranking, Lifting
<1>11. Falls(child', rank) /\ Ranking(rank)'
    BY <1>8, <1>9, <1>10 DEF Falls, Ranking
<1> QED BY <1>11 DEF LoopFree

LEMMA ForgetFewer ==
    ASSUME NEW gone, Forget(gone)
    PROVE  \A m \in Nodes, e \in Sides : child'[m][e] \in {child[m][e], NULL}
BY DEF Forget, Leaf

LEMMA ReturnFree == TreeInv /\ LoopFree /\ Return => LoopFree'
<1> SUFFICES ASSUME LoopFree, Return PROVE LoopFree'
    OBVIOUS
<1> PICK gone : gone = IF Walking = {} THEN Out(w.op) ELSE {}
    OBVIOUS
<1>1. Forget(gone) /\ todo' = todo /\ w' = Idle
    BY DEF Return
<1>2. ~Lifting("insert")'
    BY <1>1 DEF Lifting, Idle
<1> QED BY <1>1, <1>2, ForgetFewer, FewerFree

LEMMA ReaderFree == TreeInv /\ LoopFree /\ (\E r \in Readers : Reader(r)) => LoopFree'
<1> SUFFICES ASSUME LoopFree, NEW r \in Readers, Reader(r) PROVE LoopFree'
    OBVIOUS
<1>1. w' = w /\ todo' = todo
    BY DEF Reader, ReadStart, ReadStep, ReadEnd, WriterSame
<1>2. \A m \in Nodes, e \in Sides : child'[m][e] \in {child[m][e], NULL}
    <2>1. CASE child' = child
        BY <2>1
    <2>2. CASE \E gone : Forget(gone)
        BY <2>2, ForgetFewer
    <2> QED BY <2>1, <2>2 DEF Reader, ReadStart, ReadStep, ReadEnd
<1>3. Lifting("insert")' => Lifting("insert")
    BY <1>1 DEF Lifting
<1> QED BY <1>1, <1>2, <1>3, FewerFree

\* What a call begins from.
LEMMA RestRanks ==
    ASSUME TreeInv, ReachInv, LoopFree, w.pc = "idle"
    PROVE  /\ todo = <<>> /\ child \in Children /\ word \in Words /\ ~Lifting("insert")
           /\ Members = present
           /\ \E K \in Nat : \E rank \in [Nodes -> 0 .. K] : Stratified(rank)
<1>1. todo = <<>> /\ Typed
    BY RestSees
<1>2. \E K \in Nat : \E rank \in [Nodes -> 0 .. K] : Stratified(rank)
    BY <1>1, StratifiedExists
<1> QED BY <1>1, <1>2 DEF Lifting, Members, Typed, Children

\* The new element is below all others.
LEMMA InsertLinkFree == TreeInv /\ ReachInv /\ LoopFree /\ (\E o \in Inserts : InsertLink(o)) => LoopFree'
<1> SUFFICES ASSUME TreeInv, ReachInv, LoopFree, NEW o \in Inserts, InsertLink(o) PROVE LoopFree'
    OBVIOUS
<1> PICK n : n = o.node
    OBVIOUS
<1> PICK p : p = Spot(n).parent
    OBVIOUS
<1> PICK s : s = Spot(n).side
    OBVIOUS
<1>1. /\ w.pc = "idle" /\ child' = [child EXCEPT ![n] = Leaf] /\ todo' = <<Put(p, s, n)>>
    BY DEF InsertLink, Begin
<1>2. n \in Links
    BY InsertLinkFinds
<1>3. PICK T \in SUBSET Nodes, c \in Memory, up \in Ups, red \in SUBSET Nodes, h \in Heights,
           t \in Sides, Z \in SUBSET Nodes, d \in Memory, vp \in Ups, r \in SUBSET Nodes,
           h2 \in Heights : Addition(T, c, up, red, h, t, Z, d, vp, r, h2, n, p, s)
    BY InsertLinkFinds
<1>4. /\ p \in T \cup {NULL} /\ s \in Sides /\ n \in Nodes \ T /\ w'.pc = "insert"
    BY <1>3 DEF Addition
<1>5. child \in Children
    BY DEF TreeInv, Typed, Children
<1>6. PICK K \in Nat : \E rank \in [Nodes -> 0 .. K] : Falls(child, rank)
    BY DEF LoopFree
<1>7. PICK rank \in [Nodes -> 0 .. K] : Falls(child, rank)
    BY <1>6
<1>8. PICK rk \in [Nodes -> 0 .. (K + 1)] : \A m \in Nodes : rk[m] = IF m = n THEN 0 ELSE rank[m] + 1
    <2> DEFINE f == [m \in Nodes |-> IF m = n THEN 0 ELSE rank[m] + 1]
    <2>1. f \in [Nodes -> 0 .. (K + 1)]
        OBVIOUS
    <2> QED BY <2>1
<1>9. rk[n] = 0 /\ \A m \in Nodes : rank[m] \in Nat /\ (m # n => rk[m] = rank[m] + 1)
    BY <1>4, <1>8
<1>10. \A e \in Sides : child'[n][e] = NULL /\ \A m \in Nodes : m # n => child'[m][e] = child[m][e]
    BY <1>1, <1>4, <1>5 DEF Children, Leaf
<1>11. ASSUME NEW m \in Nodes, NEW e \in Sides, child'[m][e] # NULL PROVE rk[child'[m][e]] < rk[m]
    <2> PICK x : x = child[m][e]
        OBVIOUS
    <2>1. m # n
        BY <1>10, <1>11
    <2>2. x = child'[m][e] /\ x # NULL /\ x \in Nodes
        BY <1>5, <1>10, <1>11, <2>1 DEF Children, Links
    <2>3. rank[x] < rank[m] /\ rank[x] \in Nat /\ rank[m] \in Nat /\ rk[m] = rank[m] + 1
        BY <1>7, <1>9, <2>1, <2>2 DEF Falls
    <2>4. rk[x] = 0 \/ rk[x] = rank[x] + 1
        BY <1>9, <2>2
    <2>5. rk[x] < rk[m]
        BY <2>3, <2>4
    <2> QED BY <2>2, <2>5
<1>12. p \in Links /\ Put(p, s, n) \in Puts /\ Put(p, s, n).at = p /\ Put(p, s, n).to = n
    <2>1. p \in Links
        BY <1>4 DEF Links
    <2> QED BY <1>2, <1>4, <2>1, PutsAre
<1>13. Stores' = {Put(p, s, n)}
    <2> PICK a : a = Put(p, s, n)
        OBVIOUS
    <2>1. a \in Puts /\ todo' = <<a>>
        BY <1>1, <1>12
    <2> QED BY <2>1, OneStore DEF Stores
<1>14. ASSUME NEW st \in Stores', st.at # NULL, st.to # NULL PROVE rk[st.to] < rk[st.at]
    <2>1. st.at = p /\ st.to = n /\ p \in T /\ p \in Nodes /\ p # n
        BY <1>4, <1>12, <1>13, <1>14
    <2>2. rk[p] = rank[p] + 1 /\ rank[p] \in Nat
        BY <1>9, <2>1
    <2> QED BY <1>9, <2>1, <2>2
<1>15. ~Lifting("insert")'
    BY <1>4 DEF Lifting
<1>16. Falls(child', rk) /\ Ranking(rk)'
    BY <1>11, <1>14, <1>15 DEF Falls, Ranking
<1>17. K + 1 \in Nat
    OBVIOUS
<1> QED BY <1>16, <1>17 DEF LoopFree

\* What is put in the place of z is below it already.
LEMMA EraseOneFree == TreeInv /\ ReachInv /\ LoopFree /\ (\E o \in Erases : EraseOne(o)) => LoopFree'
<1> SUFFICES ASSUME TreeInv, ReachInv, LoopFree, NEW o \in Erases, EraseOne(o) PROVE LoopFree'
    OBVIOUS
<1> PICK z : z = o.node
    OBVIOUS
<1> PICK g : g = word[z].up
    OBVIOUS
<1> PICK b : b = IF child[z]["left"] = NULL THEN child[z]["right"] ELSE child[z]["left"]
    OBVIOUS
<1>1. w.pc = "idle" /\ child' = child /\ todo' = <<ChangeChild(z, b, g)>>
    BY DEF EraseOne, EraseBegin, Begin
<1>2. PICK T \in SUBSET Nodes, c \in Memory, up \in Ups, red \in SUBSET Nodes, h \in Heights,
           t \in Sides, Z \in SUBSET Nodes, d \in Memory, vp \in Ups, r \in SUBSET Nodes,
           h2 \in Heights, y \in Links, t2 \in Sides, s \in Sides, k \in Sides :
              Removal(T, c, up, red, h, t, Z, d, vp, r, h2, y, t2, z, s, k)
    BY EraseOneFinds
<1>3. Resting(T, c, up, red, h, t) /\ z \in T /\ w'.pc # "outer"
    BY <1>2 DEF Removal
<1>4. Linked(T, c, up) /\ Held(T, c) /\ up[z] = g
    BY <1>3 DEF Resting
<1>5. child \in Children /\ z \in Nodes /\ "left" \in Sides /\ "right" \in Sides
    BY <1>3 DEF TreeInv, Typed, Children, Sides
<1>6. /\ g \in T \cup {NULL}
      /\ g # NULL => \E e \in Sides : child[g][e] = z
    <2>1. \A m \in T, e \in Sides : child[m][e] = c[m][e]
        BY <1>4, HeldAre
    <2> QED BY <1>3, <1>4, <2>1 DEF Linked
<1>7. b \in Links /\ g \in Links
    BY <1>5, <1>6 DEF Children, Links
<1>8. PICK K \in Nat : \E rank \in [Nodes -> 0 .. K] : Falls(child, rank)
    BY DEF LoopFree
<1>9. PICK rank \in [Nodes -> 0 .. K] : Falls(child, rank)
    BY <1>8
<1>10. PICK j \in Sides : ChangeChild(z, b, g) = Put(g, j, b)
    BY ChangeChildPuts
<1>11. Put(g, j, b) \in Puts /\ Put(g, j, b).at = g /\ Put(g, j, b).to = b
    BY <1>7, PutsAre
<1>12. Stores' = {Put(g, j, b)}
    <2> PICK a : a = Put(g, j, b)
        OBVIOUS
    <2>1. a \in Puts /\ todo' = <<a>>
        BY <1>1, <1>10, <1>11
    <2> QED BY <2>1, OneStore DEF Stores
<1>13. ASSUME g # NULL, b # NULL PROVE rank[b] < rank[g]
    <2>1. g \in Nodes /\ b \in Nodes /\ z # NULL
        BY <1>5, <1>6, <1>7, <1>13, NodeAssumption DEF Links
    <2>2. rank[z] < rank[g]
        BY <1>6, <1>9, <1>13, <2>1 DEF Falls
    <2>3. rank[b] < rank[z]
        BY <1>5, <1>9, <1>13 DEF Falls
    <2>4. rank[b] \in Nat /\ rank[z] \in Nat /\ rank[g] \in Nat
        BY <1>5, <2>1
    <2> QED BY <2>2, <2>3, <2>4
<1>14. \A st \in Stores' : st.at # NULL /\ st.to # NULL => rank[st.to] < rank[st.at]
    BY <1>11, <1>12, <1>13
<1>15. ~Lifting("insert")'
    BY <1>3 DEF Lifting
<1>16. Ranking(rank)'
    BY <1>1, <1>9, <1>14, <1>15 DEF Falls, Ranking
<1> QED BY <1>1, <1>16, FreeAgain

\* n, which no element of the tree points to, takes the rank of v, whose place it takes.
LEMMA ReplaceFree == TreeInv /\ ReachInv /\ LoopFree /\ (\E o \in Replaces : Replace(o)) => LoopFree'
<1> SUFFICES ASSUME TreeInv, ReachInv, LoopFree, NEW o \in Replaces, Replace(o) PROVE LoopFree'
    OBVIOUS
<1> PICK v : v = o.victim
    OBVIOUS
<1> PICK n : n = o.node
    OBVIOUS
<1> PICK g : g = word[v].up
    OBVIOUS
<1>1. /\ w.pc = "idle" /\ child' = [child EXCEPT ![n] = child[v]]
      /\ todo' = <<ChangeChild(v, n, g)>> /\ w'.pc = "done"
    BY DEF Replace, Begin, Idle
<1>2. PICK T \in SUBSET Nodes, c \in Memory, up \in Ups, red \in SUBSET Nodes, h \in Heights,
           t \in Sides, Z \in SUBSET Nodes, d \in Memory, vp \in Ups, r \in SUBSET Nodes,
           h2 \in Heights, k \in Sides : Exchange(T, c, up, red, h, t, Z, d, vp, r, h2, v, n, k)
    BY ReplaceFinds
<1>3. Resting(T, c, up, red, h, t) /\ v \in T /\ n \in Nodes \ T
    BY <1>2 DEF Exchange
<1>4. Linked(T, c, up) /\ Held(T, c) /\ up[v] = g /\ T = present
    BY <1>3 DEF Resting
<1>5. /\ child \in Children /\ T = Members
      /\ \E K \in Nat : \E rank \in [Nodes -> 0 .. K] : Stratified(rank)
    BY <1>1, <1>4, RestRanks
<1>6. v \in Nodes /\ n \in Nodes /\ v # n /\ v # NULL
    BY <1>3, NodeAssumption
<1>7. \A m \in T, e \in Sides : child[m][e] = c[m][e]
    BY <1>4, HeldAre
<1>8. /\ g \in T \cup {NULL}
      /\ g # NULL => \E e \in Sides : child[g][e] = v
    BY <1>3, <1>4, <1>7 DEF Linked
<1>9. \A m \in T, e \in Sides : child[m][e] # n
    <2>1. \A m \in T, e \in Sides : c[m][e] # NULL => c[m][e] \in T
        BY <1>4 DEF Linked
    <2> QED BY <1>3, <1>7, <2>1, NodeAssumption
<1>10. PICK K \in Nat : \E rank \in [Nodes -> 0 .. K] : Stratified(rank)
    BY <1>5
<1>11. PICK rank \in [Nodes -> 0 .. K] : Stratified(rank)
    BY <1>10
<1>12. PICK rk \in [Nodes -> 0 .. K] : \A m \in Nodes : rk[m] = IF m = n THEN rank[v] ELSE rank[m]
    <2> DEFINE f == [m \in Nodes |-> IF m = n THEN rank[v] ELSE rank[m]]
    <2>1. f \in [Nodes -> 0 .. K]
        BY <1>6
    <2> QED BY <2>1
<1>13. /\ rk[n] = rank[v] /\ rk[v] = rank[v]
       /\ \A m \in Nodes : m # n => rk[m] = rank[m]
    BY <1>6, <1>12
<1>14. \A m \in Nodes, e \in Sides : child'[m][e] = IF m = n THEN child[v][e] ELSE child[m][e]
    BY <1>1, <1>5, <1>6 DEF Children
<1>15. \A m \in Nodes : m \notin T => rank[v] < rank[m]
    BY <1>3, <1>5, <1>11 DEF Stratified
<1>16. ASSUME NEW m \in Nodes, NEW e \in Sides, child'[m][e] # NULL PROVE rk[child'[m][e]] < rk[m]
    <2> PICK x : x = child'[m][e]
        OBVIOUS
    <2>1. CASE m = n
        <3>1. x = child[v][e] /\ x # NULL /\ x # n /\ x \in Nodes
            BY <1>3, <1>5, <1>6, <1>9, <1>14, <1>16, <2>1 DEF Children, Links
        <3>2. rank[x] < rank[v]
            BY <1>6, <1>11, <3>1 DEF Stratified, Falls
        <3> QED BY <1>13, <2>1, <3>1, <3>2
    <2>2. CASE m # n
        <3>1. x = child[m][e] /\ x # NULL /\ x \in Nodes /\ rk[m] = rank[m]
            BY <1>5, <1>13, <1>14, <1>16, <2>2 DEF Children, Links
        <3>2. CASE x = n
            <4>1. m \notin T
                BY <1>9, <3>1, <3>2
            <4> QED BY <1>13, <1>15, <3>1, <3>2, <4>1
        <3>3. CASE x # n
            <4>1. rank[x] < rank[m]
                BY <1>11, <3>1 DEF Stratified, Falls
            <4> QED BY <1>13, <3>1, <3>3, <4>1
        <3> QED BY <3>2, <3>3
    <2> QED BY <2>1, <2>2
<1>17. PICK j \in Sides : ChangeChild(v, n, g) = Put(g, j, n)
    BY ChangeChildPuts
<1>18. Put(g, j, n) \in Puts /\ Put(g, j, n).at = g /\ Put(g, j, n).to = n
    <2>1. g \in Links /\ n \in Links
        BY <1>6, <1>8 DEF Links
    <2> QED BY <2>1, PutsAre
<1>19. Stores' = {Put(g, j, n)}
    <2> PICK a : a = Put(g, j, n)
        OBVIOUS
    <2>1. a \in Puts /\ todo' = <<a>>
        BY <1>1, <1>17, <1>18
    <2> QED BY <2>1, OneStore DEF Stores
<1>20. ASSUME NEW st \in Stores', st.at # NULL, st.to # NULL PROVE rk[st.to] < rk[st.at]
    <2>1. st.at = g /\ st.to = n /\ g \in T /\ g \in Nodes /\ g # n
        BY <1>3, <1>8, <1>18, <1>19, <1>20
    <2>2. rank[v] < rank[g]
        BY <1>6, <1>8, <1>11, <1>20, <2>1 DEF Stratified, Falls
    <2> QED BY <1>13, <2>1, <2>2
<1>21. ~Lifting("insert")'
    BY <1>1 DEF Lifting
<1>22. Falls(child', rk) /\ Ranking(rk)'
    BY <1>16, <1>20, <1>21 DEF Falls, Ranking
<1> QED BY <1>22 DEF LoopFree

\* The way down does not go up.
LEMMA DeepestLower ==
    ASSUME NEW T \in SUBSET Nodes, NEW s \in Sides, NEW n \in T,
           \A m \in T : child[m][s] \in T \cup {NULL},
           NEW rank \in Ranks, Falls(child, rank)
    PROVE  rank[Deepest(n, s)] <= rank[n]
<1> PICK X : X = {m \in T : rank[m] <= rank[n]}
    OBVIOUS
<1>1. n \in X
    BY DEF Ranks
<1>2. ASSUME NEW m \in X PROVE child[m][s] \in X \cup {NULL}
    <2> PICK x : x = child[m][s]
        OBVIOUS
    <2>1. m \in T /\ rank[m] <= rank[n] /\ x \in T \cup {NULL}
        OBVIOUS
    <2>2. CASE x # NULL
        <3>1. rank[x] < rank[m] /\ x \in T
            BY <2>1, <2>2 DEF Falls
        <3>2. rank[x] \in Nat /\ rank[m] \in Nat /\ rank[n] \in Nat
            BY <2>1, <3>1 DEF Ranks
        <3> QED BY <2>1, <3>1, <3>2
    <2> QED BY <2>2
<1>3. Deepest(n, s) \in X
    BY <1>1, <1>2, DeepestWithin
<1> QED BY <1>3

\* What an erasure with two children needs: z's children l and r are below it, v is r or
\* below it and has b below it, and in the tree only z or q's left pointer, which goes
\* first, leads to v.
Promotable(T, rank, z, r, l, v, b, q, g) ==
    /\ z \in T /\ r \in T /\ l \in T /\ v \in T /\ q \in T /\ v # z /\ v # l
    /\ b \in T \cup {NULL} /\ b # v /\ g \in T \cup {NULL} /\ g # v
    /\ rank[r] < rank[z] /\ rank[l] < rank[z] /\ rank[v] < rank[z]
    /\ (b # NULL => rank[b] < rank[v]) /\ (g # NULL => rank[z] < rank[g])
    /\ v # r => q # v /\ rank[v] < rank[q]
    /\ \A m \in T, e \in Sides : child[m][e] = v => m = z \/ (v # r /\ m = q /\ e = "left")
PromotionStores(z, r, l, v, b, q, g, j) ==
    /\ v # r => todo' # <<>> /\ Head(todo') = Put(q, "left", b)
    /\ Stores' = Spliced(z, r, l, v, b, q, g, j)

\* v goes just below z; all stores go down then.
LEMMA PromotionRanks ==
    ASSUME NEW K \in Nat, NEW rank \in [Nodes -> 0 .. K], Stratified(rank), child \in Children,
           NEW T \in SUBSET Nodes, T = Members, NEW z, NEW r, NEW l, NEW v, NEW b, NEW q, NEW g,
           NEW j \in Sides, Promotable(T, rank, z, r, l, v, b, q, g),
           PromotionStores(z, r, l, v, b, q, g, j), child' = child, ~Lifting("insert")'
    PROVE  \E L \in Nat : \E rk \in [Nodes -> 0 .. L] : Ranking(rk)'
<1>1. /\ z \in T /\ r \in T /\ l \in T /\ v \in T /\ q \in T /\ v # z /\ v # l
      /\ b \in T \cup {NULL} /\ b # v /\ g \in T \cup {NULL} /\ g # v
      /\ rank[r] < rank[z] /\ rank[l] < rank[z] /\ rank[v] < rank[z]
      /\ (b # NULL => rank[b] < rank[v]) /\ (g # NULL => rank[z] < rank[g])
      /\ v # r => q # v /\ rank[v] < rank[q]
    BY DEF Promotable
<1>2. /\ z \in Nodes /\ r \in Nodes /\ l \in Nodes /\ v \in Nodes /\ q \in Nodes
      /\ b \in Links /\ g \in Links
    BY <1>1 DEF Links
<1>r. \A m \in Nodes : rank[m] \in Nat /\ rank[m] <= K
    OBVIOUS
<1>3. rank[z] \in Nat /\ rank[v] \in Nat /\ rank[z] <= K
    BY <1>2, <1>r
<1>4. 2 * rank[z] - 1 \in 0 .. (K + K + 1)
    BY <1>1, <1>3
<1>5. PICK rk \in [Nodes -> 0 .. (K + K + 1)] : Spread(rank, rk, v, 2 * rank[z] - 1)
    BY <1>4, SpreadExists
<1>6. rk[v] = 2 * rank[z] - 1 /\ \A m \in Nodes : m # v => rk[m] = 2 * rank[m]
    BY <1>2, <1>5 DEF Spread
\* Between others nothing changes, and v goes over all that z was over.
<1>7. ASSUME NEW m \in Nodes, NEW n \in Nodes, n # v, m # v, rank[n] < rank[m]
      PROVE  rk[n] < rk[m]
    <2>1. rank[n] \in Nat /\ rank[m] \in Nat /\ rk[n] = 2 * rank[n] /\ rk[m] = 2 * rank[m]
        BY <1>6, <1>7, <1>r
    <2> QED BY <1>7, <2>1
<1>8. ASSUME NEW n \in Nodes, n # v, rank[n] < rank[z] PROVE rk[n] < rk[v]
    <2>1. rank[n] \in Nat /\ rk[n] = 2 * rank[n]
        BY <1>6, <1>8, <1>r
    <2> QED BY <1>3, <1>6, <1>8, <2>1
<1>9. ASSUME NEW m \in Nodes, m # v, rank[z] <= rank[m] PROVE rk[v] < rk[m]
    <2>1. rank[m] \in Nat /\ rk[m] = 2 * rank[m]
        BY <1>6, <1>9, <1>r
    <2> QED BY <1>3, <1>6, <1>9, <2>1
<1>10. ASSUME NEW m \in Nodes, NEW e \in Sides, child'[m][e] # NULL, ~Overwritten(m, e)'
       PROVE  rk[child'[m][e]] < rk[m]
    <2> PICK n : n = child[m][e]
        OBVIOUS
    <2>1. n \in Nodes /\ n # NULL /\ child'[m][e] = n
        BY <1>10 DEF Children, Links
    <2>2. rank[n] < rank[m]
        BY <2>1 DEF Stratified, Falls
    <2>3. CASE n = v
        <3>1. ~(v # r /\ m = q /\ e = "left")
            <4>1. ASSUME v # r, m = q, e = "left" PROVE FALSE
                <5>1. Head(todo') = Put(m, e, b) /\ todo' # <<>>
                    BY <4>1 DEF PromotionStores
                <5>2. Put(m, e, b).at = m /\ Put(m, e, b).side = e
                    BY DEF Put
                <5> QED BY <1>10, <5>1, <5>2 DEF Overwritten
            <4> QED BY <4>1
        <3>2. m \notin T \/ m = z
            BY <2>3, <3>1 DEF Promotable
        <3>3. m # v /\ rank[z] <= rank[m]
            <4>1. CASE m = z
                BY <1>1, <1>3, <4>1
            <4>2. CASE m \notin T
                <5>1. rank[z] < rank[m] /\ rank[m] \in Nat
                    BY <1>1, <1>r, <4>2 DEF Stratified
                <5> QED BY <1>1, <1>3, <4>2, <5>1
            <4> QED BY <3>2, <4>1, <4>2
        <3> QED BY <1>9, <2>1, <2>3, <3>3
    <2>4. CASE n # v /\ m # v
        BY <1>7, <2>1, <2>2, <2>4
    <2>5. CASE n # v /\ m = v
        <3>1. rank[n] \in Nat
            BY <1>r, <2>1
        <3>2. rank[n] < rank[z]
            BY <1>1, <1>3, <2>2, <2>5, <3>1
        <3> QED BY <1>8, <2>1, <2>5, <3>2
    <2> QED BY <2>3, <2>4, <2>5
<1>11. ASSUME NEW st \in Stores', st.at # NULL, st.to # NULL PROVE rk[st.to] < rk[st.at]
    <2>0. \/ st = Put(v, "left", l) \/ st = Put(g, j, v)
          \/ v # r /\ (st = Put(q, "left", b) \/ st = Put(v, "right", r))
        BY DEF PromotionStores, Spliced
    <2>1. CASE st = Put(v, "left", l)
        <3>1. st.at = v /\ st.to = l
            BY <2>1 DEF Put
        <3> QED BY <1>1, <1>2, <1>8, <3>1
    <2>2. CASE st = Put(g, j, v)
        <3>1. st.at = g /\ st.to = v
            BY <2>2 DEF Put
        <3>2. g \in Nodes /\ rank[z] < rank[g] /\ rank[g] \in Nat
            BY <1>1, <1>2, <1>11, <1>r, <3>1 DEF Links
        <3>3. rank[z] <= rank[g]
            BY <1>3, <3>2
        <3> QED BY <1>1, <1>9, <3>1, <3>2, <3>3
    <2>3. CASE v # r /\ st = Put(q, "left", b)
        <3>1. st.at = q /\ st.to = b
            BY <2>3 DEF Put
        <3>2. b \in Nodes /\ rank[b] < rank[v] /\ rank[v] < rank[q] /\ q # v
            BY <1>1, <1>2, <1>11, <2>3, <3>1 DEF Links
        <3>3. rank[b] \in Nat /\ rank[q] \in Nat
            BY <1>2, <1>r, <3>2
        <3>4. rank[b] < rank[q]
            BY <1>3, <3>2, <3>3
        <3> QED BY <1>1, <1>2, <1>7, <3>1, <3>2, <3>4
    <2>4. CASE v # r /\ st = Put(v, "right", r)
        <3>1. st.at = v /\ st.to = r
            BY <2>4 DEF Put
        <3> QED BY <1>1, <1>2, <1>8, <2>4, <3>1
    <2> QED BY <2>0, <2>1, <2>2, <2>3, <2>4
<1>12. Ranking(rk)'
    BY <1>10, <1>11 DEF Ranking
<1>13. K + K + 1 \in Nat
    OBVIOUS
<1> QED BY <1>12, <1>13

LEMMA PromotionQueue ==
    ASSUME NEW z, NEW r \in Links, NEW l \in Links, NEW v \in Links, NEW b \in Links,
           NEW q \in Links, NEW g \in Links, NEW j \in Sides, todo' = Queue(r, l, v, b, q, g, j)
    PROVE  PromotionStores(z, r, l, v, b, q, g, j)
<1> DEFINE P1 == Put(v, "left", l)
           P2 == Put(g, j, v)
           P3 == Put(q, "left", b)
           P4 == Put(v, "right", r)
<1>1. "left" \in Sides /\ "right" \in Sides
    BY DEF Sides
<1>2. P1 \in Puts /\ P2 \in Puts /\ P3 \in Puts /\ P4 \in Puts
    BY <1>1, PutsAre
<1>3. Spliced(z, r, l, v, b, q, g, j) = {P1, P2} \cup (IF v = r THEN {} ELSE {P3, P4})
    BY DEF Spliced
<1>4. todo' = (IF v = r THEN <<>> ELSE <<P3, P4>>) \o <<P1, P2>>
    BY DEF Queue
<1>5. Stores' = {todo'[i] : i \in 1 .. Len(todo')}
    BY DEF Stores
<1>6. PromotionStores(z, r, l, v, b, q, g, j)
        <=> (v # r => todo' # <<>> /\ Head(todo') = P3) /\ Stores' = Spliced(z, r, l, v, b, q, g, j)
    BY DEF PromotionStores
<1> HIDE DEF P1, P2, P3, P4
<1>7. CASE v = r
    <2>1. todo' = <<>> \o <<P1, P2>>
        BY <1>4, <1>7
    <2>2. Stores' = {P1, P2}
        BY <1>2, <1>5, <2>1, NoStoresFirst
    <2> QED BY <1>3, <1>6, <1>7, <2>2
<1>8. CASE v # r
    <2>1. todo' = <<P3, P4>> \o <<P1, P2>>
        BY <1>4, <1>8
    <2>2. Stores' = {P3, P4, P1, P2}
        BY <1>2, <1>5, <2>1, FourStores
    <2>3. todo' # <<>> /\ Head(todo') = P3
        BY <2>1
    <2> QED BY <1>3, <1>6, <1>8, <2>2, <2>3
<1> QED BY <1>7, <1>8

LEMMA EraseTwoFree == TreeInv /\ ReachInv /\ LoopFree /\ (\E o \in Erases : EraseTwo(o)) => LoopFree'
<1> SUFFICES ASSUME TreeInv, ReachInv, LoopFree, NEW o \in Erases, EraseTwo(o) PROVE LoopFree'
    OBVIOUS
<1>0. \E z, r, l, v, b, q : Roles(o, z, r, l, v, b, q)
    BY DEF Roles
<1>r. PICK z, r, l, v, b, q : Roles(o, z, r, l, v, b, q)
    BY <1>0
<1>1. PICK T \in SUBSET Nodes, c \in Memory, up \in Ups, red \in SUBSET Nodes, h \in Heights,
           t \in Sides, Z \in SUBSET Nodes, d \in Memory, vp \in Ups, reds \in SUBSET Nodes,
           h2 \in Heights, y \in Links, s \in Sides, k \in Sides, g \in Links, j \in Sides :
              Succession(T, c, up, red, h, t, Z, d, vp, reds, h2, y, s, z, r, l, v, b, q, k, g, j)
    BY <1>r, EraseTwoFinds
<1>2. /\ Resting(T, c, up, red, h, t) /\ z \in T /\ g \in T \cup {NULL}
      /\ Splice(T, c, up, z, r, l, v, b, q, k, g, j) /\ w'.pc # "outer"
    BY <1>1 DEF Succession
<1>3. Linked(T, c, up) /\ Held(T, c) /\ T = present /\ word[z].up = up[z]
    BY <1>2 DEF Resting
<1>4. /\ v \in T /\ v # z /\ g = up[z] /\ c[g][j] = z /\ g # v /\ c[up[v]][k] = v
    BY <1>2 DEF Splice, Successor
<1>5. /\ c[z]["left"] = l /\ c[z]["right"] = r /\ c[v]["right"] = b
      /\ l \in T /\ r \in T /\ b \in T \cup {NULL} /\ l # v /\ b # v
      /\ (v = r <=> up[v] = z) /\ up[v] \in T
      /\ q = (IF v = r THEN v ELSE up[v]) /\ k = (IF v = r THEN "right" ELSE "left")
    BY <1>2 DEF Splice
<1>6. ErasesTwo(o, z, r, l, v, b, q) /\ v = Deepest(r, "left")
    BY <1>r, EraseTwoDoes DEF Roles
<1>7. w.pc = "idle" /\ child' = child
    BY <1>6 DEF ErasesTwo, EraseBegin, Begin
<1>8. /\ child \in Children /\ T = Members
      /\ \E K \in Nat : \E rank \in [Nodes -> 0 .. K] : Stratified(rank)
    BY <1>3, <1>7, RestRanks
<1>9. PICK K \in Nat : \E rank \in [Nodes -> 0 .. K] : Stratified(rank)
    BY <1>8
<1>10. PICK rank \in [Nodes -> 0 .. K] : Stratified(rank)
    BY <1>9
<1>11. \A m \in T, e \in Sides : child[m][e] = c[m][e]
    BY <1>3, HeldAre
<1>12. "left" \in Sides /\ "right" \in Sides /\ NULL \notin T
    BY NodeAssumption DEF Sides
<1>13. ASSUME NEW m \in T, NEW e \in Sides, c[m][e] # NULL PROVE rank[c[m][e]] < rank[m]
    <2>1. child[m][e] = c[m][e]
        BY <1>11
    <2> QED BY <1>10, <1>13, <2>1 DEF Stratified, Falls
<1>14. rank[r] < rank[z] /\ rank[l] < rank[z]
    BY <1>2, <1>5, <1>12, <1>13
<1>15. b # NULL => rank[b] < rank[v]
    BY <1>4, <1>5, <1>12, <1>13
<1>16. g # NULL => rank[z] < rank[g]
    BY <1>2, <1>4, <1>12, <1>13
<1>17. rank[v] < rank[z]
    <2>1. rank \in Ranks /\ Falls(child, rank)
        BY <1>10 DEF Ranks, Stratified
    <2>2. \A m \in T : child[m]["left"] \in T \cup {NULL}
        BY <1>3, <1>11, <1>12 DEF Linked
    <2>3. rank[v] <= rank[r]
        BY <1>5, <1>6, <1>12, <2>1, <2>2, DeepestLower
    <2>4. rank[v] \in Nat /\ rank[r] \in Nat /\ rank[z] \in Nat
        BY <1>2, <1>4, <1>5, <2>1 DEF Ranks
    <2> QED BY <1>14, <2>3, <2>4
<1>18. q \in T /\ (v # r => q # v /\ c[q]["left"] = v /\ rank[v] < rank[q])
    <2>1. q \in T
        BY <1>4, <1>5
    <2>2. ASSUME v # r PROVE q # v /\ c[q]["left"] = v /\ rank[v] < rank[q]
        <3>1. c[q]["left"] = v /\ q = up[v]
            BY <1>4, <1>5, <2>2
        <3>2. q # v
            BY <1>3, <1>4, <3>1 DEF Linked
        <3>3. rank[v] < rank[q]
            BY <1>4, <1>12, <1>13, <2>1, <3>1
        <3> QED BY <3>1, <3>2, <3>3
    <2> QED BY <2>1, <2>2
<1>19. ASSUME NEW m \in T, NEW e \in Sides, child[m][e] = v
       PROVE  m = z \/ (v # r /\ m = q /\ e = "left")
    <2>1. c[m][e] = v /\ v # NULL
        BY <1>4, <1>11, <1>12, <1>19
    <2>2. up[v] = m
        BY <1>3, <2>1 DEF Linked
    <2>3. CASE v = r
        BY <1>5, <2>2, <2>3
    <2>4. CASE v # r
        <3>1. q = m /\ c[m]["left"] = v
            BY <1>5, <1>18, <2>2, <2>4
        <3>2. e # "right"
            BY <1>3, <2>1, <3>1 DEF Linked
        <3> QED BY <2>4, <3>1, <3>2 DEF Sides
    <2> QED BY <2>3, <2>4
<1>20. Promotable(T, rank, z, r, l, v, b, q, g)
    BY <1>2, <1>4, <1>5, <1>14, <1>15, <1>16, <1>17, <1>18, <1>19 DEF Promotable
<1>21. PICK i \in Sides : todo' = Queue(r, l, v, b, q, g, i)
    <2> PICK i : i = IF word[z].up # NULL /\ child[word[z].up]["left"] # z THEN "right" ELSE "left"
        OBVIOUS
    <2>1. i \in Sides
        BY <1>12
    <2>2. todo' = Queue(r, l, v, b, q, g, i)
        BY <1>3, <1>4, <1>6 DEF ErasesTwo
    <2> QED BY <2>1, <2>2
<1>22. PromotionStores(z, r, l, v, b, q, g, i)
    <2>1. r \in Links /\ l \in Links /\ v \in Links /\ b \in Links /\ q \in Links /\ g \in Links
        BY <1>2, <1>4, <1>5, <1>18 DEF Links
    <2> QED BY <1>21, <2>1, PromotionQueue
<1>23. ~Lifting("insert")'
    BY <1>2 DEF Lifting
<1>24. \E L \in Nat : \E rk \in [Nodes -> 0 .. L] : Ranking(rk)'
    BY <1>7, <1>8, <1>10, <1>20, <1>22, <1>23, PromotionRanks
<1> QED BY <1>7, <1>24, FreeAgain

LEMMA CallsFree == TreeInv /\ ReachInv /\ LoopFree /\ Call => LoopFree'
BY InsertLinkFree, EraseOneFree, EraseTwoFree, ReplaceFree DEF Call

LEMMA StepFree == TreeInv /\ ReachInv /\ LoopFree /\ [Next]_vars => LoopFree'
<1> SUFFICES ASSUME TreeInv, ReachInv, LoopFree, [Next]_vars PROVE LoopFree'
    OBVIOUS
<1>1. CASE UNCHANGED vars
    <2>1. child' = child /\ todo' = todo /\ w' = w
        BY <1>1 DEF vars
    <2>2. Lifting("insert")' => Lifting("insert")
        BY <2>1 DEF Lifting
    <2>3. \A m \in Nodes, e \in Sides : child'[m][e] \in {child[m][e], NULL}
        BY <2>1
    <2> QED BY <2>1, <2>2, <2>3, FewerFree
<1>2. CASE Next
    BY <1>2, CallsFree, StoreFree, TurnsFree, ReturnFree, ReaderFree DEF Next
<1> QED BY <1>1, <1>2

LEMMA FreeEnds == TreeInv /\ LoopFree => NoLoops
<1> SUFFICES ASSUME TreeInv, LoopFree PROVE NoLoops
    OBVIOUS
<1>1. PICK K \in Nat : \E rank \in [Nodes -> 0 .. K] : Falls(child, rank)
    BY DEF LoopFree
<1>2. PICK rank \in [Nodes -> 0 .. K] : Falls(child, rank)
    BY <1>1
<1>3. rank \in Ranks
    BY <1>1 DEF Ranks
<1>4. child \in Children
    BY DEF TreeInv, Typed, Children
<1> QED BY <1>2, <1>3, <1>4, FallsEnd

\* At no store do child pointers form a loop, not even among elements that left the tree
\* and that a lookup may still stand on: every lookup comes to an end.
THEOREM NoLoopsAlways == Spec => []NoLoops
<1>1. Init => TreeInv /\ ReachInv /\ LoopFree
    BY InitTree, InitReach, InitFree
<1>2. TreeInv /\ ReachInv /\ LoopFree /\ [Next]_vars => TreeInv' /\ ReachInv' /\ LoopFree'
    BY StepKeeps, StepReaches, StepFree
<1> QED BY <1>1, <1>2, FreeEnds, PTL DEF Spec
=============================================================================
