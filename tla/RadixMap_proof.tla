---------------------------- MODULE RadixMap_proof ---------------------------
(***************************************************************************)
(* The radix tree is a map with tags: what an index finds, and with which  *)
(* tags, changes with the one store of a call that is meant to change it,  *)
(* for the call's own index and no other, however the tree grows, shrinks  *)
(* and is pruned meanwhile.                                                *)
(***************************************************************************)
EXTENDS RadixTree_proof

-----------------------------------------------------------------------------
(* The nodes a lookup passes, told from their parents: a node is on the    *)
(* way to an index if its parent is and the digit there leads to it.       *)

\* What is known of a tree with top entry t in memory mem (z is being retired).
Tree(t, mem, hp, z) ==
    /\ t \in Entries /\ mem \in Memory
    /\ Rooted(t, mem, hp) /\ Down(mem, hp, z) /\ Up(t, mem, hp, z)
    /\ z \in Nodes => hp[z] = "live" /\ z # t /\ mem[z].parent = NULL

TopMax(t, mem) == IF t \in Nodes THEN ShiftMaxIndex(mem[t].shift) ELSE 0
Way(t, mem, i) == CHOOSE f : f = Looked(f, t, mem, i)
Digit(mem, n, i) == Offset(mem[n].shift, i)
Passed(t, mem, i) ==
    {n \in Nodes : i <= TopMax(t, mem) /\ \E k \in 0 .. Height : Way(t, mem, i)[k] = n}

LEMMA WayIs ==
    ASSUME NEW t, NEW mem, NEW hp, NEW z, Tree(t, mem, hp, z), NEW i \in Indices
    PROVE  IsWalk(Way(t, mem, i), t, mem, i)
<1>1. t \in Entries /\ mem \in Memory
    BY DEF Tree
<1> QED BY <1>1, LookedIsWalk DEF Way

LEMMA TopMaxType ==
    ASSUME NEW t, NEW mem \in Memory
    PROVE  TopMax(t, mem) \in 0 .. MaxIndex
BY MemoryFields, ShiftMaxIndexType, IndexAssumption DEF TopMax

LEMMA ParentIs ==
    ASSUME NEW t, NEW mem, NEW hp, NEW z, Tree(t, mem, hp, z),
           NEW n \in Nodes, hp[n] = "live", n # z
    PROVE  IF mem[n].parent = NULL THEN n = t
           ELSE /\ mem[n].parent \in Nodes /\ hp[mem[n].parent] = "live" /\ mem[n].parent # z
                /\ mem[n].offset \in Slots
                /\ mem[mem[n].parent].slots[mem[n].offset] = n
                /\ mem[n].shift + 1 = mem[mem[n].parent].shift
<1>1. mem[n].parent \in Nodes \cup {NULL} /\ mem[n].offset \in Slots
    BY MemoryFields DEF Tree
<1>2. CASE mem[n].parent = NULL
    BY <1>2 DEF Tree, Up
<1>3. CASE mem[n].parent # NULL
    <2> DEFINE p == mem[n].parent
               o == mem[n].offset
    <2>1. p \in Nodes /\ o \in Slots /\ hp[p] = "live" /\ p # z /\ mem[p].slots[o] = n
        BY <1>1, <1>3 DEF Tree, Up
    <2> HIDE DEF p, o
    <2>2. mem[n].shift + 1 = mem[p].shift
        BY <2>1 DEF Tree, Down
    <2> QED BY <1>3, <2>1, <2>2 DEF p, o
<1> QED BY <1>2, <1>3

LEMMA PassedLive ==
    ASSUME NEW t, NEW mem, NEW hp, NEW z, Tree(t, mem, hp, z), NEW i \in Indices,
           NEW n \in Passed(t, mem, i)
    PROVE  n \in Nodes /\ hp[n] = "live" /\ t \in Nodes /\ n # z
<1> DEFINE f == Way(t, mem, i)
<1>1. PICK k \in 0 .. Height : f[k] = n /\ n \in Nodes
    BY DEF Passed
<1>2. IsWalk(f, t, mem, i)
    BY WayIs
<1> HIDE DEF f
<1>3. hp[n] = "live" /\ t \in Nodes
    BY <1>1, <1>2, WalkDown DEF Tree
<1>4. n # z
    <2> SUFFICES ASSUME n = z PROVE FALSE
        OBVIOUS
    <2>1. k # 0 /\ hp[z] = "live" /\ mem[z].parent = NULL /\ z \in Nodes
        BY <1>1, <1>2 DEF Tree, IsWalk
    <2>2. k \in 1 .. Height /\ k - 1 \in 0 .. Height
        BY <2>1, SizeAssumption
    <2>3. z = NextEntry(mem, f[k - 1], i)
        BY <1>1, <1>2, <2>2 DEF IsWalk
    <2> DEFINE e == f[k - 1]
    <2>4. e \in Nodes /\ hp[e] = "live"
        <3>1. e \in Nodes \/ e = z
            BY <2>3 DEF NextEntry
        <3>2. e \in Nodes
            BY <2>1, <3>1
        <3> QED BY <1>2, <2>2, <3>2, WalkDown DEF Tree
    <2>5. e = z
        <3>1. Offset(mem[e].shift, i) \in Slots /\ z = mem[e].slots[Offset(mem[e].shift, i)]
            BY <2>3, <2>4, MemoryFields, OffsetType DEF NextEntry, Tree
        <3> HIDE DEF e
        <3> QED BY <2>1, <2>4, <3>1, EntryAssumption DEF Tree, Down
    <2>6. Offset(mem[z].shift, i) \in Slots /\ z = mem[z].slots[Offset(mem[z].shift, i)]
        BY <2>1, <2>3, <2>5, MemoryFields, OffsetType DEF NextEntry, Tree
    <2>7. mem[z].shift + 1 = mem[z].shift /\ mem[z].shift \in Int
        BY <2>1, <2>6, MemoryFields DEF Tree, Down, Shifts
    <2> QED BY <2>7
<1> QED BY <1>1, <1>3, <1>4

LEMMA PassedUp ==
    ASSUME NEW t, NEW mem, NEW hp, NEW z, Tree(t, mem, hp, z), NEW i \in Indices,
           NEW n \in Nodes, hp[n] = "live", n # z
    PROVE  n \in Passed(t, mem, i) <=>
             IF mem[n].parent = NULL THEN i <= TopMax(t, mem)
             ELSE /\ mem[n].parent \in Passed(t, mem, i)
                  /\ Digit(mem, mem[n].parent, i) = mem[n].offset
<1> DEFINE f == Way(t, mem, i)
           p == mem[n].parent
           o == mem[n].offset
           max == TopMax(t, mem)
<1>1. IsWalk(f, t, mem, i)
    BY WayIs
<1>2. \A m \in Nodes : m \in Passed(t, mem, i) <=> i <= max /\ \E k \in 0 .. Height : f[k] = m
    BY DEF Passed
<1>3. \A m \in Nodes : m \in Passed(t, mem, i) => hp[m] = "live" /\ m # z
    BY PassedLive
<1>4. /\ Height \in Nat /\ 0 \in 0 .. Height /\ f[0] = t
      /\ t \in Nodes => mem[t].parent = NULL
    BY <1>1, SizeAssumption DEF IsWalk, Tree, Rooted
<1> HIDE DEF f, max
<1>5. CASE p = NULL
    <2>1. n = t
        BY <1>5, ParentIs
    <2> QED BY <1>2, <1>4, <1>5, <2>1 DEF max
<1>6. CASE p # NULL
    <2>1. /\ p \in Nodes /\ hp[p] = "live" /\ o \in Slots /\ mem[p].slots[o] = n
        BY <1>6, ParentIs
    <2>2. ASSUME n \in Passed(t, mem, i)
          PROVE  p \in Passed(t, mem, i) /\ Digit(mem, p, i) = o
        <3>1. PICK k \in 0 .. Height : f[k] = n
            BY <1>2, <2>2
        <3>2. k # 0
            BY <1>4, <1>6, <3>1
        <3>3. k \in 1 .. Height /\ k - 1 \in 0 .. Height
            BY <1>4, <3>2
        <3> DEFINE e == f[k - 1]
        <3>4. n = NextEntry(mem, e, i)
            BY <1>1, <3>1, <3>3 DEF IsWalk
        <3>5. e \in Nodes
            <4>1. e \in Nodes \/ e = n
                BY <3>4 DEF NextEntry
            <4> QED BY <4>1
        <3>6. e \in Passed(t, mem, i) /\ hp[e] = "live" /\ e # z
            <4>1. e \in Passed(t, mem, i)
                BY <1>2, <2>2, <3>3, <3>5
            <4> HIDE DEF e
            <4> QED BY <1>3, <3>5, <4>1
        <3> DEFINE d == Digit(mem, e, i)
        <3>7. d \in Slots /\ mem[e].slots[d] = n
            <4> HIDE DEF e
            <4> QED BY <3>4, <3>5, MemoryFields, OffsetType DEF NextEntry, Tree, Digit
        <3>8. e = p /\ d = o
            <4> HIDE DEF e, d
            <4> QED BY <3>5, <3>6, <3>7 DEF Tree, Down
        <3> QED BY <3>6, <3>8
    <2>3. ASSUME p \in Passed(t, mem, i), Digit(mem, p, i) = o
          PROVE  n \in Passed(t, mem, i)
        <3>1. PICK k \in 0 .. Height : f[k] = p /\ i <= max
            BY <1>2, <2>1, <2>3
        <3>2. k # Height
            BY <1>1, <2>1, <3>1, WalkEnds, EntryAssumption DEF Tree
        <3>3. k + 1 \in 1 .. Height /\ k + 1 \in 0 .. Height /\ (k + 1) - 1 = k
            BY <1>4, <3>2
        <3>4. f[k + 1] = NextEntry(mem, p, i)
            BY <1>1, <3>1, <3>3 DEF IsWalk
        <3>5. f[k + 1] = n
            BY <2>1, <2>3, <3>4 DEF NextEntry, Digit
        <3> QED BY <1>2, <3>1, <3>3, <3>5
    <2> QED BY <1>6, <2>2, <2>3
<1> QED BY <1>5, <1>6

\* S is a set of nodes both trees have, of which each is passed in both or in none,
\* or hangs in both at the same slot of another one of S.
Alike(S, t, mem, hp, z, u, new, hq, y, i) ==
    \A n \in S :
      /\ hp[n] = "live" /\ hq[n] = "live" /\ n # z /\ n # y /\ new[n].shift = mem[n].shift
      /\ \/ n \in Passed(t, mem, i) <=> n \in Passed(u, new, i)
         \/ /\ mem[n].parent \in S /\ new[n].parent = mem[n].parent
            /\ new[n].offset = mem[n].offset

LEMMA PassedAlike ==
    ASSUME NEW t, NEW mem, NEW hp, NEW z, Tree(t, mem, hp, z),
           NEW u, NEW new, NEW hq, NEW y, Tree(u, new, hq, y),
           NEW i \in Indices, NEW S \in SUBSET Nodes, Alike(S, t, mem, hp, z, u, new, hq, y, i)
    PROVE  \A n \in S : n \in Passed(t, mem, i) <=> n \in Passed(u, new, i)
<1> DEFINE same(n) == n \in Passed(t, mem, i) <=> n \in Passed(u, new, i)
           T == {d \in 0 .. Height : \A n \in S : mem[n].shift >= Height - d => same(n)}
<1>1. /\ Height \in Nat /\ NULL \notin Nodes
      /\ \A n \in Nodes : mem[n].shift \in 0 .. (Height - 1)
    BY SizeAssumption, EntryAssumption, MemoryFields DEF Tree, Shifts
<1>2. 0 \in T
    BY <1>1
<1>3. ASSUME NEW d \in 0 .. (Height - 1), d \in T PROVE d + 1 \in T
    <2>1. SUFFICES ASSUME NEW n \in S, mem[n].shift >= Height - (d + 1) PROVE same(n)
        BY <1>1
    <2>2. /\ hp[n] = "live" /\ hq[n] = "live" /\ n # z /\ n # y
          /\ \/ same(n)
             \/ /\ mem[n].parent \in S /\ new[n].parent = mem[n].parent
                /\ new[n].offset = mem[n].offset
        BY DEF Alike
    <2>3. CASE /\ mem[n].parent \in S /\ new[n].parent = mem[n].parent
               /\ new[n].offset = mem[n].offset
        <3> DEFINE p == mem[n].parent
        <3>1. /\ p \in S /\ p \in Nodes /\ p # NULL /\ n \in Nodes
              /\ mem[n].shift + 1 = mem[p].shift
            BY <1>1, <2>2, <2>3, ParentIs
        <3>2. mem[p].shift >= Height - d
            <4> HIDE DEF p
            <4> QED BY <1>1, <2>1, <3>1
        <3>3. same(p)
            <4> HIDE DEF p, same
            <4> QED BY <1>3, <3>1, <3>2
        <3>4. Digit(mem, p, i) = Digit(new, p, i)
            <4>1. new[p].shift = mem[p].shift
                BY <3>1 DEF Alike
            <4> QED BY <4>1 DEF Digit
        <3>5. n \in Passed(t, mem, i) <=> p \in Passed(t, mem, i) /\ Digit(mem, p, i) = mem[n].offset
            BY <2>2, <3>1, PassedUp
        <3>6. n \in Passed(u, new, i) <=> p \in Passed(u, new, i) /\ Digit(new, p, i) = new[n].offset
            BY <2>2, <2>3, <3>1, PassedUp
        <3> QED BY <2>3, <3>3, <3>4, <3>5, <3>6
    <2> QED BY <2>2, <2>3
<1>4. \A d \in 0 .. Height : d \in T
    <2> HIDE DEF T
    <2> QED BY <1>1, <1>2, <1>3, CountingUp
<1>5. Height \in T
    BY <1>1, <1>4
<1> SUFFICES ASSUME NEW n \in S PROVE same(n)
    OBVIOUS
<1>6. mem[n].shift >= Height - Height
    BY <1>1
<1> HIDE DEF same
<1> QED BY <1>5, <1>6

-----------------------------------------------------------------------------
(* Only one index ends at a slot of a lowest node.                         *)

LEMMA TimesMonotone == ASSUME NEW p \in Nat, NEW d \in Nat, NEW m \in Nat, d <= m PROVE p * d <= p * m
<1>1. PICK k \in Nat : m = d + k
    <2>1. m - d \in Nat /\ m = d + (m - d)
        OBVIOUS
    <2> QED BY <2>1
<1>2. p * m = p * d + p * k /\ p * k \in Nat /\ p * d \in Nat
    BY <1>1
<1> QED BY <1>2

\* A number is the digits of its quotient.
LEMMA TwoDigits ==
    ASSUME NEW a \in Nat, NEW p \in Nat \ {0}, NEW m \in Nat \ {0}
    PROVE  a \div p = m * (a \div (m * p)) + ((a \div p) % m)
<1>1. PICK q \in Nat, r \in 0 .. (p - 1) : a = p * q + r
    BY Quotient
<1>2. PICK b \in Nat, d \in 0 .. (m - 1) : q = m * b + d
    BY Quotient
<1>3. a \div p = q /\ q % m = d
    BY <1>1, <1>2, QuotientIs
<1> DEFINE v == m * p
           x == p * d + r
<1>4. v \in Nat \ {0} /\ x \in 0 .. (v - 1)
    <2>1. p * d <= p * (m - 1) /\ p * d \in Nat
        <3>1. d \in Nat /\ m - 1 \in Nat /\ d <= m - 1 /\ p \in Nat
            OBVIOUS
        <3>2. p * d <= p * (m - 1)
            BY <3>1, TimesMonotone
        <3> QED BY <3>1, <3>2
    <2>2. p * (m - 1) = m * p - p
        OBVIOUS
    <2>3. m * p \in Nat \ {0}
        OBVIOUS
    <2> QED BY <2>1, <2>2, <2>3
<1>5. a = v * b + x
    <2>1. p * (m * b + d) = (m * p) * b + p * d
        OBVIOUS
    <2> QED BY <1>1, <1>2, <2>1
<1> HIDE DEF v, x
<1>6. a \div v = b
    BY <1>4, <1>5, QuotientIs
<1>7. a \div (m * p) = b
    BY <1>6 DEF v
<1> QED BY <1>2, <1>3, <1>7

LEMMA PassedPrefix ==
    ASSUME NEW t, NEW mem, NEW hp, NEW z, Tree(t, mem, hp, z), NEW i \in Indices, NEW j \in Indices
    PROVE  \A n \in Passed(t, mem, i) \cap Passed(t, mem, j) :
             i \div MapSize ^ (mem[n].shift + 1) = j \div MapSize ^ (mem[n].shift + 1)
<1> DEFINE P == Passed(t, mem, i) \cap Passed(t, mem, j)
           same(n) == i \div MapSize ^ (mem[n].shift + 1) = j \div MapSize ^ (mem[n].shift + 1)
           T == {d \in 0 .. Height : \A n \in P : mem[n].shift >= Height - d => same(n)}
<1>1. /\ Height \in Nat /\ NULL \notin Nodes
      /\ \A n \in Nodes : mem[n].shift \in 0 .. (Height - 1)
      /\ i \in 0 .. MaxIndex /\ j \in 0 .. MaxIndex /\ i \in Nat /\ j \in Nat
    BY SizeAssumption, EntryAssumption, IndexAssumption, MemoryFields DEF Tree, Shifts
<1>2. \A n \in P : n \in Nodes /\ hp[n] = "live" /\ n # z
    BY PassedLive
<1>3. 0 \in T
    BY <1>1, <1>2
<1>4. ASSUME NEW d \in 0 .. (Height - 1), d \in T PROVE d + 1 \in T
    <2>1. SUFFICES ASSUME NEW n \in P, mem[n].shift >= Height - (d + 1) PROVE same(n)
        BY <1>1
    <2>2. n \in Nodes /\ hp[n] = "live" /\ n # z /\ n \in Passed(t, mem, i) /\ n \in Passed(t, mem, j)
        BY <1>2
    <2> DEFINE p == mem[n].parent
               s == mem[n].shift
    <2>3. s \in Shifts
        BY <2>2, MemoryFields DEF Tree
    <2>4. CASE p = NULL
        <3>1. n = t /\ i <= TopMax(t, mem) /\ j <= TopMax(t, mem)
            BY <2>2, <2>4, ParentIs, PassedUp
        <3>2. i < MapSize ^ (s + 1) /\ j < MapSize ^ (s + 1)
            BY <1>1, <2>2, <2>3, <3>1, LargestIndex DEF TopMax
        <3>3. MapSize ^ (s + 1) \in Nat \ {0}
            BY <2>3, SpanAssumption, SizeAssumption DEF Shifts
        <3> DEFINE v == MapSize ^ (s + 1)
        <3>4. i \div v = 0 /\ j \div v = 0
            <4> HIDE DEF s
            <4>1. v \in Nat \ {0} /\ i < v /\ j < v
                BY <3>2, <3>3
            <4> HIDE DEF v
            <4> QED BY <1>1, <4>1
        <3> QED BY <3>4
    <2>5. CASE p # NULL
        <3>1. p \in Nodes /\ s + 1 = mem[p].shift
            BY <2>2, <2>5, ParentIs
        <3>2. /\ p \in Passed(t, mem, i) /\ p \in Passed(t, mem, j)
              /\ Offset(mem[p].shift, i) = mem[n].offset /\ Offset(mem[p].shift, j) = mem[n].offset
            BY <2>2, <2>5, PassedUp DEF Digit
        <3>3. mem[p].shift >= Height - d
            <4> HIDE DEF p, s
            <4>1. s \in Int /\ s >= Height - (d + 1)
                BY <2>1, <2>3 DEF s, Shifts
            <4> QED BY <1>1, <3>1, <4>1
        <3>4. same(p)
            <4>1. p \in P
                BY <3>2
            <4> HIDE DEF p, same, P
            <4> QED BY <1>4, <3>3, <4>1
        <3> DEFINE h == s + 1
                   a == MapSize ^ h
        <3>5. /\ a \in Nat \ {0} /\ MapSize \in Nat \ {0} /\ MapSize ^ (h + 1) = MapSize * a
              /\ h = mem[p].shift
            <4>1. mem[p].shift \in Shifts
                BY <3>1, MemoryFields DEF Tree
            <4> QED BY <3>1, <4>1, SpanAssumption, SizeAssumption, PowerAssumption DEF Shifts
        <3>6. /\ i \div (MapSize * a) = j \div (MapSize * a)
              /\ (i \div a) % MapSize = (j \div a) % MapSize
            BY <3>2, <3>4, <3>5 DEF Offset
        <3>7. i \div a = j \div a
            <4> HIDE DEF a
            <4>1. /\ i \div a = MapSize * (i \div (MapSize * a)) + ((i \div a) % MapSize)
                  /\ j \div a = MapSize * (j \div (MapSize * a)) + ((j \div a) % MapSize)
                BY <1>1, <3>5, TwoDigits
            <4> QED BY <3>6, <4>1
        <3> QED BY <3>7
    <2> QED BY <2>4, <2>5
<1>5. \A d \in 0 .. Height : d \in T
    <2> HIDE DEF T
    <2> QED BY <1>1, <1>3, <1>4, CountingUp
<1>6. Height \in T
    BY <1>1, <1>5
<1> SUFFICES ASSUME NEW n \in P PROVE same(n)
    OBVIOUS
<1>7. mem[n].shift >= Height - Height
    BY <1>1, <1>2
<1> HIDE DEF same
<1> QED BY <1>6, <1>7

LEMMA LeafOwn ==
    ASSUME NEW t, NEW mem, NEW hp, NEW z, Tree(t, mem, hp, z), NEW i \in Indices, NEW j \in Indices,
           NEW n \in Passed(t, mem, i), n \in Passed(t, mem, j), mem[n].shift = 0,
           Digit(mem, n, i) = Digit(mem, n, j)
    PROVE  i = j
<1>1. i \div MapSize ^ (0 + 1) = j \div MapSize ^ (0 + 1)
    BY PassedPrefix
<1>2. (i \div MapSize ^ 0) % MapSize = (j \div MapSize ^ 0) % MapSize
    BY DEF Digit, Offset
<1>3. MapSize ^ 0 = 1 /\ MapSize ^ (0 + 1) = MapSize * 1 /\ MapSize \in Nat \ {0}
    <2>1. 0 \in 0 .. (Height - 1)
        BY SizeAssumption
    <2> QED BY <2>1, SizeAssumption, PowerAssumption
<1>4. i \in Nat /\ j \in Nat
    BY IndexAssumption
<1>5. \A a \in Nat : a \div 1 = a
    OBVIOUS
<1>6. i \div 1 = j \div 1
    <2>1. /\ i \div 1 = MapSize * (i \div (MapSize * 1)) + ((i \div 1) % MapSize)
          /\ j \div 1 = MapSize * (j \div (MapSize * 1)) + ((j \div 1) % MapSize)
        BY <1>3, <1>4, TwoDigits
    <2>2. i \div (MapSize * 1) = j \div (MapSize * 1) /\ (i \div 1) % MapSize = (j \div 1) % MapSize
        BY <1>1, <1>2, <1>3, Zenon
    <2> QED BY <2>1, <2>2
<1> QED BY <1>4, <1>5, <1>6

-----------------------------------------------------------------------------
(* What an index finds, and with which tags, told from the nodes passed.   *)

Under(mem, n, i) == mem[n].slots[Digit(mem, n, i)]

Holds(t, mem, i, e) ==
    i <= TopMax(t, mem) /\ (t = e \/ \E n \in Passed(t, mem, i) : Under(mem, n, i) = e)

\* The slot that holds the item of index i has tag x.
Carries(ts, t, mem, i, x) ==
    \/ t \in Items /\ i <= TopMax(t, mem) /\ x \in ts
    \/ \E n \in Passed(t, mem, i) :
         Under(mem, n, i) \in Items /\ Digit(mem, n, i) \in mem[n].tags[x]

\* What a lookup of i returns, and whether it has tag x.
Finds(t, mem, i) == IF i > TopMax(t, mem) THEN NULL ELSE Way(t, mem, i)[Height]
HasTag(ts, t, mem, i, x) ==
    /\ x \in ts /\ i <= TopMax(t, mem)
    /\ \A k \in 0 .. Height : Way(t, mem, i)[k] \in Nodes =>
         Digit(mem, Way(t, mem, i)[k], i) \in mem[Way(t, mem, i)[k]].tags[x]

LEMMA PassedSlot ==
    ASSUME NEW t, NEW mem, NEW hp, NEW z, Tree(t, mem, hp, z), NEW i \in Indices,
           NEW n \in Passed(t, mem, i)
    PROVE  /\ Digit(mem, n, i) \in Slots
           /\ Under(mem, n, i) \in Items \cup Nodes \cup {NULL}
           /\ Under(mem, n, i) \in Items => mem[n].shift = 0
<1>1. n \in Nodes /\ hp[n] = "live"
    BY PassedLive
<1> DEFINE d == Digit(mem, n, i)
<1>2. d \in Slots /\ mem[n].slots[d] \in Entries
    BY <1>1, MemoryFields, OffsetType DEF Tree, Digit
<1> HIDE DEF d
<1>3. mem[n].slots[d] # RETRY /\ (mem[n].slots[d] \in Items => mem[n].shift = 0)
    BY <1>1, <1>2 DEF Tree, Down
<1> QED BY <1>2, <1>3 DEF Under, d, Entries

LEMMA FindsHeld ==
    ASSUME NEW t, NEW mem, NEW hp, NEW z, Tree(t, mem, hp, z), NEW i \in Indices
    PROVE  /\ Finds(t, mem, i) \in Items \cup {NULL}
           /\ \A e \in Items : Finds(t, mem, i) = e <=> Holds(t, mem, i, e)
<1> DEFINE f == Way(t, mem, i)
           max == TopMax(t, mem)
<1>1. /\ IsWalk(f, t, mem, i) /\ Height \in Nat /\ NULL \notin Items /\ Nodes \cap Items = {}
      /\ i \in 0 .. MaxIndex /\ max \in 0 .. MaxIndex /\ MaxIndex \in Nat
    BY WayIs, TopMaxType, SizeAssumption, EntryAssumption, IndexAssumption DEF Tree
<1>2. /\ Finds(t, mem, i) = IF i > max THEN NULL ELSE f[Height]
      /\ \A n \in Nodes : n \in Passed(t, mem, i) <=> i <= max /\ \E k \in 0 .. Height : f[k] = n
    BY DEF Finds, Passed
<1>3. f[0] = t /\ \A k \in 1 .. Height : f[k] = NextEntry(mem, f[k - 1], i)
    BY <1>1 DEF IsWalk
<1> HIDE DEF f, max
<1>4. f[Height] \in Items \cup {NULL}
    BY <1>1, WalkEnds DEF Tree
<1>5. Finds(t, mem, i) \in Items \cup {NULL}
    BY <1>2, <1>4
<1>6. ASSUME NEW e \in Items, Holds(t, mem, i, e) PROVE Finds(t, mem, i) = e
    <2>1. i <= max /\ ~(i > max)
        BY <1>1, <1>6 DEF Holds, max
    <2>2. SUFFICES \E k \in 0 .. Height : f[k] = e
        <3>1. PICK k \in 0 .. Height : f[k] = e
            BY <2>2
        <3>2. f[k] \notin Nodes
            BY <1>1, <3>1
        <3>3. f[Height] = f[k]
            BY <1>1, <3>2, WalkStays
        <3> QED BY <1>2, <2>1, <3>1, <3>3
    <2>3. CASE t = e
        BY <1>1, <1>3, <2>3
    <2>4. CASE \E n \in Passed(t, mem, i) : Under(mem, n, i) = e
        <3>1. PICK n \in Passed(t, mem, i) : Under(mem, n, i) = e
            BY <2>4
        <3>2. n \in Nodes
            BY PassedLive
        <3>3. PICK k \in 0 .. Height : f[k] = n
            BY <1>2, <3>2
        <3>4. k # Height
            BY <1>1, <1>4, <3>2, <3>3, EntryAssumption
        <3>5. k + 1 \in 1 .. Height /\ k + 1 \in 0 .. Height /\ (k + 1) - 1 = k
            BY <1>1, <3>4
        <3>6. f[k + 1] = Under(mem, n, i)
            BY <1>3, <3>2, <3>3, <3>5 DEF NextEntry, Under, Digit
        <3> QED BY <3>1, <3>5, <3>6
    <2> QED BY <1>6, <2>3, <2>4 DEF Holds
<1>7. ASSUME NEW e \in Items, Finds(t, mem, i) = e PROVE Holds(t, mem, i, e)
    <2>1. i <= max /\ f[Height] = e
        BY <1>1, <1>2, <1>7
    <2> SUFFICES ASSUME t # e, \A n \in Passed(t, mem, i) : Under(mem, n, i) # e PROVE FALSE
        BY <2>1 DEF Holds, max
    <2> DEFINE S == {k \in 0 .. Height : f[k] # e}
    <2>2. 0 \in S
        BY <1>1, <1>3
    <2>3. ASSUME NEW k \in 0 .. (Height - 1), k \in S PROVE k + 1 \in S
        <3>1. k + 1 \in 1 .. Height /\ k + 1 \in 0 .. Height /\ (k + 1) - 1 = k /\ k \in 0 .. Height
            BY <1>1
        <3>2. f[k + 1] = NextEntry(mem, f[k], i) /\ f[k] # e
            BY <1>3, <2>3, <3>1
        <3>3. CASE f[k] \in Nodes
            <4>1. f[k] \in Passed(t, mem, i)
                BY <1>2, <2>1, <3>1, <3>3
            <4> QED BY <3>1, <3>2, <3>3, <4>1 DEF NextEntry, Under, Digit
        <3>4. CASE f[k] \notin Nodes
            BY <3>1, <3>2, <3>4 DEF NextEntry
        <3> QED BY <3>3, <3>4
    <2>4. \A k \in 0 .. Height : k \in S
        <3> HIDE DEF S
        <3> QED BY <1>1, <2>2, <2>3, CountingUp
    <2>5. Height \in S
        BY <1>1, <2>4
    <2> QED BY <2>1, <2>5
<1> QED BY <1>5, <1>6, <1>7

\* A bit above an item is set all the way up.
LEMMA BitsUp ==
    ASSUME NEW ts, NEW t, NEW mem, NEW hp, NEW p, NEW g, Tree(t, mem, hp, NULL),
           Marked(ts, t, mem, hp, NULL, p, g), NEW i \in Indices, NEW x \in Tags,
           NEW n \in Passed(t, mem, i), mem[n].shift = 0, Digit(mem, n, i) \in mem[n].tags[x]
    PROVE  HasTag(ts, t, mem, i, x)
<1> DEFINE f == Way(t, mem, i)
           bit(j) == Digit(mem, f[j], i) \in mem[f[j]].tags[x]
<1>1. /\ t \in Entries /\ mem \in Memory /\ NULL \notin Nodes
      /\ Rooted(t, mem, hp) /\ Down(mem, hp, NULL) /\ Height \in Nat
    BY EntryAssumption, SizeAssumption DEF Tree
<1>2. IsWalk(f, t, mem, i)
    BY WayIs
<1>3. /\ f[0] = t
      /\ \A j \in 1 .. Height : f[j] = NextEntry(mem, f[j - 1], i)
    BY <1>2 DEF IsWalk
<1>4. HasTag(ts, t, mem, i, x) <=>
        x \in ts /\ i <= TopMax(t, mem) /\ \A j \in 0 .. Height : f[j] \in Nodes => bit(j)
    BY DEF HasTag
<1>5. i <= TopMax(t, mem) /\ n \in Nodes /\ \E k \in 0 .. Height : f[k] = n
    BY DEF Passed
<1>6. PICK h \in 0 .. Height : f[h] = n
    BY <1>5
<1> HIDE DEF f
<1>7. \A j \in 0 .. Height : f[j] \in Nodes =>
        t \in Nodes /\ hp[f[j]] = "live" /\ mem[f[j]].shift + j = mem[t].shift
    BY <1>1, <1>2, WalkDown
<1>8. bit(h)
    BY <1>6
<1> DEFINE S == {m \in 0 .. h : f[h - m] \in Nodes /\ bit(h - m)}
<1>9. h \in Nat /\ 0 \in S /\ h - 0 = h
    BY <1>1, <1>5, <1>6, <1>8
<1>10. ASSUME NEW m \in 0 .. (h - 1), m \in S PROVE m + 1 \in S
    <2>1. /\ h - m \in 1 .. Height /\ (h - m) - 1 = h - (m + 1) /\ h - (m + 1) \in 0 .. Height
          /\ m + 1 \in 0 .. h
        BY <1>1
    <2> DEFINE c == f[h - m]
               e == f[h - (m + 1)]
    <2>2. c \in Nodes /\ mem[c].tags[x] # {} /\ c = NextEntry(mem, e, i)
        BY <1>3, <1>10, <2>1
    <2>3. e \in Nodes /\ hp[e] = "live"
        BY <1>7, <2>1, <2>2 DEF NextEntry
    <2> DEFINE q == Digit(mem, e, i)
    <2>4. q \in Slots /\ c = mem[e].slots[q]
        BY <1>1, <2>2, <2>3, MemoryFields, OffsetType DEF NextEntry, Digit
    <2> HIDE DEF c, e, q
    <2>5. q \in mem[e].tags[x]
        BY <1>1, <2>2, <2>3, <2>4 DEF Marked, SlotsMarked
    <2> QED BY <2>1, <2>3, <2>5 DEF e, q
<1>11. \A m \in 0 .. h : m \in S
    <2> HIDE DEF S
    <2> QED BY <1>9, <1>10, CountingUp
<1>12. ASSUME NEW j \in 0 .. h PROVE f[j] \in Nodes /\ bit(j)
    <2>1. h - j \in 0 .. h /\ h - (h - j) = j
        BY <1>9
    <2> HIDE DEF bit
    <2> QED BY <1>11, <2>1
<1>13. x \in ts
    <2>1. t \in Nodes /\ mem[t].tags[x] # {}
        BY <1>3, <1>9, <1>12
    <2> QED BY <2>1 DEF Marked, RootMarked
<1>14. ASSUME NEW j \in 0 .. Height, f[j] \in Nodes PROVE j \in 0 .. h
    <2>1. mem[f[j]].shift + j = mem[t].shift /\ mem[f[h]].shift + h = mem[t].shift
        BY <1>5, <1>6, <1>7, <1>14
    <2>2. mem[f[j]].shift \in Nat /\ mem[f[j]].shift + j = h
        BY <1>1, <1>6, <1>14, <2>1, MemoryFields DEF Shifts
    <2> QED BY <1>9, <2>2
<1> QED BY <1>4, <1>5, <1>12, <1>13, <1>14

\* A tag is the bit at the index's own item.
LEMMA TagCarried ==
    ASSUME NEW ts, NEW t, NEW mem, NEW hp, NEW p, NEW g, Tree(t, mem, hp, NULL),
           Marked(ts, t, mem, hp, NULL, p, g), NEW i \in Indices, NEW x \in Tags
    PROVE  HasTag(ts, t, mem, i, x) <=> Carries(ts, t, mem, i, x)
<1> DEFINE f == Way(t, mem, i)
           max == TopMax(t, mem)
           bit(n) == Digit(mem, n, i) \in mem[n].tags[x]
<1>1. /\ t \in Entries /\ mem \in Memory /\ NULL \notin Nodes \cup Items /\ Nodes \cap Items = {}
      /\ Rooted(t, mem, hp) /\ Down(mem, hp, NULL) /\ Height \in Nat
    BY EntryAssumption, SizeAssumption DEF Tree
<1>2. IsWalk(f, t, mem, i)
    BY WayIs
<1>3. /\ f[0] = t
      /\ \A j \in 1 .. Height : f[j] = NextEntry(mem, f[j - 1], i)
    BY <1>2 DEF IsWalk
<1>4. HasTag(ts, t, mem, i, x) <=>
        x \in ts /\ i <= max /\ \A j \in 0 .. Height : f[j] \in Nodes => bit(f[j])
    BY DEF HasTag
<1>5. \A n \in Nodes : n \in Passed(t, mem, i) <=> i <= max /\ \E k \in 0 .. Height : f[k] = n
    BY DEF Passed
<1>6. Carries(ts, t, mem, i, x) <=>
        \/ t \in Items /\ i <= max /\ x \in ts
        \/ \E n \in Passed(t, mem, i) : Under(mem, n, i) \in Items /\ bit(n)
    BY DEF Carries
<1> HIDE DEF f, max
<1>7. ASSUME HasTag(ts, t, mem, i, x) PROVE Carries(ts, t, mem, i, x)
    <2>1. x \in ts /\ i <= max /\ \A j \in 0 .. Height : f[j] \in Nodes => bit(f[j])
        BY <1>4, <1>7
    <2>2. CASE t \notin Nodes
        BY <1>1, <1>6, <2>1, <2>2 DEF Marked, RootMarked, Rooted, Entries
    <2>3. CASE t \in Nodes
        <3> SUFFICES ASSUME \A n \in Passed(t, mem, i) : ~(Under(mem, n, i) \in Items /\ bit(n)) PROVE FALSE
            BY <1>6
        <3> DEFINE S == {k \in 0 .. Height : f[k] \in Nodes}
        <3>1. 0 \in S
            BY <1>1, <1>3, <2>3
        <3>2. ASSUME NEW k \in 0 .. (Height - 1), k \in S PROVE k + 1 \in S
            <4>1. k + 1 \in 1 .. Height /\ k + 1 \in 0 .. Height /\ (k + 1) - 1 = k /\ k \in 0 .. Height
                BY <1>1
            <4> DEFINE n == f[k]
            <4>2. n \in Nodes /\ n \in Passed(t, mem, i) /\ bit(n)
                BY <1>5, <2>1, <3>2, <4>1
            <4>3. f[k + 1] = Under(mem, n, i)
                BY <1>3, <4>1, <4>2 DEF NextEntry, Under, Digit
            <4> HIDE DEF n
            <4>4. Digit(mem, n, i) \in Slots /\ Under(mem, n, i) \in Nodes \cup {NULL} /\ hp[n] = "live"
                BY <4>2, PassedSlot, PassedLive
            <4>5. Under(mem, n, i) # NULL
                BY <1>1, <4>2, <4>4 DEF Marked, SlotsMarked, Under
            <4> QED BY <4>1, <4>3, <4>4, <4>5
        <3>3. \A k \in 0 .. Height : k \in S
            <4> HIDE DEF S
            <4> QED BY <1>1, <3>1, <3>2, CountingUp
        <3>4. f[Height] \in Nodes
            BY <1>1, <3>3
        <3>5. f[Height] \in Items \cup {NULL}
            BY <1>1, <1>2, WalkEnds
        <3> QED BY <1>1, <3>4, <3>5
    <2> QED BY <2>2, <2>3
<1>8. ASSUME Carries(ts, t, mem, i, x) PROVE HasTag(ts, t, mem, i, x)
    <2>1. CASE t \in Items /\ i <= max /\ x \in ts
        <3>1. \A j \in 0 .. Height : f[j] \in Nodes => t \in Nodes
            BY <1>1, <1>2, WalkDown
        <3> QED BY <1>1, <1>4, <2>1, <3>1
    <2>2. CASE \E n \in Passed(t, mem, i) : Under(mem, n, i) \in Items /\ bit(n)
        <3>1. PICK n \in Passed(t, mem, i) : Under(mem, n, i) \in Items /\ bit(n)
            BY <2>2
        <3>2. mem[n].shift = 0
            BY <3>1, PassedSlot
        <3> QED BY <3>1, <3>2, BitsUp
    <2> QED BY <1>6, <1>8, <2>1, <2>2
<1> QED BY <1>7, <1>8

-----------------------------------------------------------------------------
(* Two trees that hold the same at an index.                               *)

\* Index i finds the same in both trees, with the same of the tags in X.
Same(ts, t, mem, us, u, new, i, X) ==
    /\ \A e \in Items : Holds(t, mem, i, e) <=> Holds(u, new, i, e)
    /\ \A x \in X : Carries(ts, t, mem, i, x) <=> Carries(us, u, new, i, x)

\* Node n has the same under index i in both memories, if one of them an item.
SameUnder(mem, new, n, i, X) ==
    \/ Under(mem, n, i) \notin Items /\ Under(new, n, i) \notin Items
    \/ /\ Under(mem, n, i) = Under(new, n, i)
       /\ \A x \in X : Digit(mem, n, i) \in mem[n].tags[x] <=> Digit(new, n, i) \in new[n].tags[x]

LEMMA LeavesSame ==
    ASSUME NEW ts, NEW t, NEW mem, NEW us, NEW u, NEW new, NEW i, NEW X, NEW S,
           \A n \in S : n \in Passed(t, mem, i) <=> n \in Passed(u, new, i),
           \A n \in S : n \in Passed(t, mem, i) => SameUnder(mem, new, n, i, X),
           \A n \in Passed(t, mem, i) \ S : Under(mem, n, i) \notin Items,
           \A n \in Passed(u, new, i) \ S : Under(new, n, i) \notin Items,
           \/ t \notin Items /\ u \notin Items
           \/ t = u /\ t \in Items /\ t \notin Nodes /\ \A x \in X : x \in ts <=> x \in us
    PROVE  Same(ts, t, mem, us, u, new, i, X)
<1> DEFINE P == Passed(t, mem, i)
           Q == Passed(u, new, i)
           top == i <= TopMax(t, mem)
           toq == i <= TopMax(u, new)
           at(n) == Under(mem, n, i)
           aq(n) == Under(new, n, i)
<1>1. /\ \A n \in P : top
      /\ \A n \in Q : toq
    BY DEF Passed
<1>2. t = u /\ t \notin Nodes => (top <=> toq)
    BY DEF TopMax
<1>3. \A e \in Items : /\ Holds(t, mem, i, e) <=> top /\ (t = e \/ \E n \in P : at(n) = e)
                       /\ Holds(u, new, i, e) <=> toq /\ (u = e \/ \E n \in Q : aq(n) = e)
    BY DEF Holds
<1>4. \A x : /\ Carries(ts, t, mem, i, x) <=>
                  \/ t \in Items /\ top /\ x \in ts
                  \/ \E n \in P : at(n) \in Items /\ Digit(mem, n, i) \in mem[n].tags[x]
             /\ Carries(us, u, new, i, x) <=>
                  \/ u \in Items /\ toq /\ x \in us
                  \/ \E n \in Q : aq(n) \in Items /\ Digit(new, n, i) \in new[n].tags[x]
    BY DEF Carries
<1>5. /\ \A n \in S : n \in P <=> n \in Q
      /\ \A n \in P \ S : at(n) \notin Items
      /\ \A n \in Q \ S : aq(n) \notin Items
      /\ \A n \in S \cap P :
           \/ at(n) \notin Items /\ aq(n) \notin Items
           \/ /\ at(n) = aq(n)
              /\ \A x \in X : Digit(mem, n, i) \in mem[n].tags[x] <=> Digit(new, n, i) \in new[n].tags[x]
    BY DEF SameUnder
<1> HIDE DEF P, Q, top, toq, at, aq
<1>6. \A e \in Items : (\E n \in P : at(n) = e) <=> (\E n \in Q : aq(n) = e)
    BY <1>5
<1>7. \A x \in X :
        (\E n \in P : at(n) \in Items /\ Digit(mem, n, i) \in mem[n].tags[x])
          <=> (\E n \in Q : aq(n) \in Items /\ Digit(new, n, i) \in new[n].tags[x])
    BY <1>5
<1>8. \A e \in Items : Holds(t, mem, i, e) <=> Holds(u, new, i, e)
    BY <1>1, <1>2, <1>3, <1>6
<1>9. \A x \in X : Carries(ts, t, mem, i, x) <=> Carries(us, u, new, i, x)
    BY <1>1, <1>2, <1>4, <1>7
<1> QED BY <1>8, <1>9 DEF Same

\* The nodes a tree consists of.
InTree(hp, z) == {n \in Nodes : hp[n] = "live" /\ n # z}

\* Slot s of node n holds the same in both memories, if one of them an item.
SameSlot(mem, new, n, s, X) ==
    \/ mem[n].slots[s] \notin Items /\ new[n].slots[s] \notin Items
    \/ /\ mem[n].slots[s] = new[n].slots[s]
       /\ \A x \in X : s \in mem[n].tags[x] <=> s \in new[n].tags[x]

\* Shared nodes that hang alike are passed alike.
LEMMA PassedSame ==
    ASSUME NEW t, NEW mem, NEW hp, NEW z, Tree(t, mem, hp, z),
           NEW u, NEW new, NEW hq, NEW y, Tree(u, new, hq, y),
           NEW i \in Indices, NEW S,
           S \subseteq InTree(hp, z) \cap InTree(hq, y),
           \A n \in S : /\ new[n].shift = mem[n].shift /\ new[n].parent = mem[n].parent
                        /\ new[n].offset = mem[n].offset
                        /\ mem[n].parent \in S \cup {NULL}
    PROVE  \A n \in S : n \in Passed(t, mem, i) <=> n \in Passed(u, new, i)
<1>1. /\ S \subseteq Nodes /\ NULL \notin Nodes
      /\ \A n \in S : hp[n] = "live" /\ n # z /\ hq[n] = "live" /\ n # y
    BY EntryAssumption DEF InTree
<1>2. ASSUME NEW n \in S, mem[n].parent = NULL
      PROVE  n \in Passed(t, mem, i) <=> n \in Passed(u, new, i)
    <2>1. n = t /\ n = u /\ mem[n].shift = new[n].shift /\ new[n].parent = NULL
        BY <1>1, <1>2, ParentIs
    <2>2. n \in Passed(t, mem, i) <=> i <= TopMax(t, mem)
        BY <1>1, <1>2, PassedUp
    <2>3. n \in Passed(u, new, i) <=> i <= TopMax(u, new)
        BY <1>1, <2>1, PassedUp
    <2> QED BY <2>1, <2>2, <2>3 DEF TopMax
<1>3. Alike(S, t, mem, hp, z, u, new, hq, y, i)
    BY <1>1, <1>2 DEF Alike
<1> QED BY <1>1, <1>3, PassedAlike

\* S are the nodes the trees share; the others hold no items.
LEMMA TreeSame ==
    ASSUME NEW ts, NEW t, NEW mem, NEW hp, NEW z, Tree(t, mem, hp, z),
           NEW us, NEW u, NEW new, NEW hq, NEW y, Tree(u, new, hq, y),
           NEW i \in Indices, NEW X, NEW S,
           S \subseteq InTree(hp, z) \cap InTree(hq, y),
           \A n \in S : /\ new[n].shift = mem[n].shift /\ new[n].parent = mem[n].parent
                        /\ new[n].offset = mem[n].offset
                        /\ mem[n].parent \in S \cup {NULL},
           \A n \in InTree(hp, z) \ S, s \in Slots : mem[n].slots[s] \notin Items,
           \A n \in InTree(hq, y) \ S, s \in Slots : new[n].slots[s] \notin Items,
           \A n \in S : n \in Passed(t, mem, i) => SameSlot(mem, new, n, Digit(mem, n, i), X),
           \/ t \notin Items /\ u \notin Items
           \/ t = u /\ \A x \in X : x \in ts <=> x \in us
    PROVE  /\ Same(ts, t, mem, us, u, new, i, X)
           /\ \A n \in S : n \in Passed(t, mem, i) <=> n \in Passed(u, new, i)
<1>1. /\ S \subseteq Nodes /\ NULL \notin Nodes /\ Nodes \cap Items = {}
      /\ \A n \in S : hp[n] = "live" /\ n # z /\ hq[n] = "live" /\ n # y
    BY EntryAssumption DEF InTree
<1>2. \A n \in Passed(t, mem, i) : n \in InTree(hp, z) /\ Digit(mem, n, i) \in Slots
    BY PassedLive, PassedSlot DEF InTree
<1>3. \A n \in Passed(u, new, i) : n \in InTree(hq, y) /\ Digit(new, n, i) \in Slots
    BY PassedLive, PassedSlot DEF InTree
<1>4. \A n \in S : Digit(new, n, i) = Digit(mem, n, i)
    BY DEF Digit
<1>7. \A n \in S : n \in Passed(t, mem, i) <=> n \in Passed(u, new, i)
    BY PassedSame
<1>8. \A n \in S : n \in Passed(t, mem, i) => SameUnder(mem, new, n, i, X)
    BY <1>4 DEF SameSlot, SameUnder, Under
<1>9. /\ \A n \in Passed(t, mem, i) \ S : Under(mem, n, i) \notin Items
      /\ \A n \in Passed(u, new, i) \ S : Under(new, n, i) \notin Items
    BY <1>2, <1>3 DEF Under
<1>10. \/ t \notin Items /\ u \notin Items
       \/ t = u /\ t \in Items /\ t \notin Nodes /\ \A x \in X : x \in ts <=> x \in us
    BY <1>1
<1> QED BY <1>7, <1>8, <1>9, <1>10, LeavesSame

\* new is mem with node n put on top, over the entry t that was the top.
Topped(t, mem, hp, z, n, new, hq) ==
    /\ InTree(hq, NULL) = InTree(hp, z) \cup {n} /\ n \notin InTree(hp, z)
    /\ \A m \in InTree(hp, z) :
         /\ new[m].shift = mem[m].shift /\ new[m].slots = mem[m].slots
         /\ new[m].tags = mem[m].tags /\ new[m].offset = mem[m].offset
         /\ new[m].parent = IF m = t THEN n ELSE mem[m].parent
    /\ \A q \in Slots : new[n].slots[q] = IF q = 0 THEN t ELSE NULL
    /\ t \in Items => new[n].shift = 0
    /\ t \in Nodes => new[n].shift = mem[t].shift + 1

LEMMA LowDigit ==
    ASSUME NEW s \in Shifts, s + 1 \in Shifts, NEW i \in Indices
    PROVE  i <= ShiftMaxIndex(s) <=> i <= ShiftMaxIndex(s + 1) /\ Offset(s + 1, i) = 0
<1>1. i \in 0 .. MaxIndex /\ MaxIndex \in Nat /\ i \in Nat
    BY IndexAssumption
<1> DEFINE p == MapSize ^ (s + 1)
           q == MapSize ^ ((s + 1) + 1)
<1>2. p \in Nat \ {0} /\ q \in Nat \ {0} /\ q = MapSize * p /\ MapSize \in Nat /\ MapSize >= 2
    <2>1. s + 1 \in 0 .. (Height - 1) /\ s + 1 \in 0 .. Height /\ (s + 1) + 1 \in 0 .. Height
        BY SizeAssumption DEF Shifts
    <2> QED BY <2>1, SpanAssumption, PowerAssumption, SizeAssumption
<1>3. (i <= ShiftMaxIndex(s) <=> i < p) /\ (i <= ShiftMaxIndex(s + 1) <=> i < q)
    BY <1>1, LargestIndex
<1>4. i < p => Offset(s + 1, i) = 0
    BY <1>1, LeadingZero
<1>5. i >= p /\ i < q => Offset(s + 1, i) # 0
    BY <1>1, HighDigit
<1> HIDE DEF p, q
<1>6. p <= q
    <2>1. p * 1 <= p * MapSize
        BY <1>2, TimesMonotone
    <2> QED BY <1>2, <2>1
<1> QED BY <1>1, <1>2, <1>3, <1>4, <1>5, <1>6

\* The nodes below the new top are passed as they were.
LEMMA TopPassed ==
    ASSUME NEW t \in Nodes, NEW mem, NEW hp, NEW z, Tree(t, mem, hp, z),
           NEW n \in Nodes, NEW new, NEW hq, Tree(n, new, hq, NULL),
           Topped(t, mem, hp, z, n, new, hq), NEW i \in Indices
    PROVE  \A m \in InTree(hp, z) : m \in Passed(t, mem, i) <=> m \in Passed(n, new, i)
<1> DEFINE S == InTree(hp, z)
<1>1. /\ NULL \notin Nodes \cup Items /\ Nodes \cap Items = {} /\ 0 \in Slots
      /\ mem \in Memory /\ new \in Memory
      /\ i \in 0 .. MaxIndex /\ MaxIndex \in Nat
    BY EntryAssumption, SizeAssumption, IndexAssumption DEF Slots, Tree
<1>2. /\ \A m \in S : m \in Nodes /\ hp[m] = "live" /\ m # z /\ hq[m] = "live" /\ m # NULL /\ m # n
      /\ hq[n] = "live" /\ n # NULL
      /\ \A m \in Nodes : hq[m] = "live" => m \in S \/ m = n
      /\ \A m \in Nodes : hp[m] = "live" /\ m # z => m \in S
    BY <1>1 DEF Topped, InTree
<1> DEFINE d == Digit(new, n, i)
<1>3. d \in Slots /\ new[n].parent = NULL /\ new[n].shift \in Shifts /\ d = Offset(new[n].shift, i)
    BY <1>1, OffsetType, MemoryFields DEF Digit, Tree, Rooted
<1>4. n \in Passed(n, new, i) <=> i <= ShiftMaxIndex(new[n].shift)
    BY <1>2, <1>3, PassedUp DEF TopMax
<1> HIDE DEF d
<1>5. t \in S /\ mem[t].parent = NULL /\ mem[t].offset = 0
    <2>1. hp[t] = "live" /\ mem[t].parent = NULL /\ mem[t].offset = 0 /\ (z \in Nodes => t # z)
        BY DEF Tree, Rooted
    <2> QED BY <1>2, <2>1
<1>6. new[t].parent = n /\ new[t].offset = 0
    BY <1>5 DEF Topped
<1>7. t \in Passed(t, mem, i) <=> i <= ShiftMaxIndex(mem[t].shift)
    BY <1>2, <1>5, PassedUp DEF TopMax
<1>8. t \in Passed(n, new, i) <=> i <= ShiftMaxIndex(new[n].shift) /\ d = 0
    BY <1>1, <1>2, <1>4, <1>5, <1>6, PassedUp DEF d
<1>9. t \in Passed(t, mem, i) <=> t \in Passed(n, new, i)
    <2>1. mem[t].shift \in Shifts /\ new[n].shift = mem[t].shift + 1
        BY <1>1, MemoryFields DEF Topped
    <2> QED BY <1>3, <1>7, <1>8, <2>1, LowDigit
<1>10. ASSUME NEW m \in S, m # t
      PROVE  /\ mem[m].parent \in S /\ new[m].parent = mem[m].parent
             /\ new[m].offset = mem[m].offset
    <2>1. mem[m].parent # NULL
        BY <1>2, <1>10, ParentIs
    <2> QED BY <1>2, <1>10, <2>1, ParentIs DEF Topped
<1>11. Alike(S, t, mem, hp, z, n, new, hq, NULL, i)
    BY <1>2, <1>9, <1>10 DEF Alike, Topped
<1>12. \A m \in S : m \in Passed(t, mem, i) <=> m \in Passed(n, new, i)
    BY <1>2, <1>11, PassedAlike
<1> QED BY <1>12

\* A tree whose top is an item has no node.
LEMMA TopItemAlone ==
    ASSUME NEW t \in Items, NEW mem, NEW hp, NEW z, Tree(t, mem, hp, z)
    PROVE  InTree(hp, z) = {}
<1> DEFINE S == InTree(hp, z)
           T == {e \in 0 .. Height : \A q \in S : mem[q].shift >= Height - e => FALSE}
<1>1. /\ mem \in Memory /\ t \notin Nodes /\ Height \in Nat
      /\ \A q \in S : q \in Nodes /\ hp[q] = "live" /\ q # z
    BY SizeAssumption, EntryAssumption DEF Tree, InTree
<1>2. \A q \in S : mem[q].parent \in S /\ mem[q].shift + 1 = mem[mem[q].parent].shift
    BY <1>1, ParentIs DEF InTree
<1>3. \A q \in S : mem[q].shift \in 0 .. (Height - 1)
    BY <1>1, MemoryFields DEF Shifts
<1> HIDE DEF S
<1>4. 0 \in T
    BY <1>1, <1>3
<1>5. ASSUME NEW e \in 0 .. (Height - 1), e \in T PROVE e + 1 \in T
    <2> SUFFICES ASSUME NEW q \in S, mem[q].shift >= Height - (e + 1) PROVE FALSE
        BY <1>1
    <2>1. mem[mem[q].parent].shift >= Height - e /\ mem[q].parent \in S
        BY <1>1, <1>2, <1>3
    <2> QED BY <1>5, <2>1
<1>6. \A e \in 0 .. Height : e \in T
    <2> HIDE DEF T
    <2> QED BY <1>1, <1>4, <1>5, CountingUp
<1>7. ASSUME NEW m \in S PROVE FALSE
    <2>1. mem[m].shift >= Height - Height /\ Height \in T
        BY <1>1, <1>3, <1>6
    <2> QED BY <2>1
<1> QED BY <1>7 DEF S

LEMMA TopSame ==
    ASSUME NEW ts, NEW t \in Items \cup Nodes, NEW mem, NEW hp, NEW z, Tree(t, mem, hp, z),
           NEW us, NEW n \in Nodes, NEW new, NEW hq, Tree(n, new, hq, NULL),
           Topped(t, mem, hp, z, n, new, hq), NEW i \in Indices, NEW X,
           t \in Items => \A x \in X : x \in ts <=> 0 \in new[n].tags[x]
    PROVE  Same(ts, t, mem, us, n, new, i, X)
<1> DEFINE S == InTree(hp, z)
<1>1. /\ NULL \notin Nodes \cup Items /\ Nodes \cap Items = {} /\ 0 \in Slots
      /\ mem \in Memory /\ new \in Memory
      /\ i \in 0 .. MaxIndex /\ MaxIndex \in Nat
    BY EntryAssumption, SizeAssumption, IndexAssumption DEF Slots, Tree
<1>2. /\ \A m \in S : m \in Nodes /\ hp[m] = "live" /\ m # z /\ hq[m] = "live" /\ m # NULL /\ m # n
      /\ hq[n] = "live" /\ n # NULL
      /\ \A m \in Nodes : hq[m] = "live" => m \in S \/ m = n
      /\ \A m \in Nodes : hp[m] = "live" /\ m # z => m \in S
    BY <1>1 DEF Topped, InTree
<1> DEFINE d == Digit(new, n, i)
<1>3. d \in Slots /\ new[n].parent = NULL /\ new[n].shift \in Shifts /\ d = Offset(new[n].shift, i)
    BY <1>1, OffsetType, MemoryFields DEF Digit, Tree, Rooted
<1>4. n \in Passed(n, new, i) <=> i <= ShiftMaxIndex(new[n].shift)
    BY <1>2, <1>3, PassedUp DEF TopMax
<1>5. Under(new, n, i) = IF d = 0 THEN t ELSE NULL
    BY <1>3 DEF Topped, Under
<1> HIDE DEF d
<1>6. CASE t \in Nodes
    <2>1. \A m \in S : m \in Passed(t, mem, i) <=> m \in Passed(n, new, i)
        BY <1>6, TopPassed
    <2>2. \A m \in S : SameUnder(mem, new, m, i, X)
        BY DEF Topped, SameUnder, Under, Digit
    <2>3. \A m \in Passed(t, mem, i) \ S : Under(mem, m, i) \notin Items
        BY <1>2, PassedLive
    <2>4. \A m \in Passed(n, new, i) \ S : Under(new, m, i) \notin Items
        BY <1>1, <1>2, <1>5, <1>6, PassedLive
    <2>5. t \notin Items /\ n \notin Items
        BY <1>1, <1>6
    <2> HIDE DEF S
    <2> QED BY <2>1, <2>2, <2>3, <2>4, <2>5, LeavesSame
<1>7. CASE t \in Items
    <2>1. Passed(t, mem, i) = {}
        BY <1>1, <1>7, PassedLive
    <2>2. i <= TopMax(t, mem) <=> i = 0
        BY <1>1, <1>7 DEF TopMax
    <2>3. \A m \in Passed(n, new, i) : m = n
        <3>1. S = {}
            BY <1>7, TopItemAlone
        <3> QED BY <1>2, <3>1, PassedLive
    <2>4. new[n].shift = 0 /\ n \notin Items
        BY <1>1, <1>7 DEF Topped
    <2>5. i <= ShiftMaxIndex(0) /\ d = 0 <=> i = 0
        <3>1. 0 \in Shifts
            BY <1>3, <2>4
        <3>2. i <= ShiftMaxIndex(0) <=> i < MapSize ^ (0 + 1)
            BY <1>1, <3>1, LargestIndex
        <3>3. MapSize ^ 0 = 1
            BY PowerAssumption
        <3>4. i < 1 => Offset(0, i) = 0
            BY <1>1, <3>1, <3>3, LeadingZero
        <3>5. i >= 1 /\ i < MapSize ^ (0 + 1) => Offset(0, i) # 0
            BY <1>1, <3>1, <3>3, HighDigit
        <3>6. MapSize ^ (0 + 1) \in Nat /\ MapSize ^ (0 + 1) >= 1
            <4>1. 0 + 1 \in 0 .. Height
                BY SizeAssumption
            <4> QED BY <4>1, SpanAssumption
        <3>7. d = Offset(0, i)
            BY <1>3, <2>4
        <3> QED BY <1>1, <3>2, <3>4, <3>5, <3>6, <3>7
    <2>6. n \in Passed(n, new, i) /\ Under(new, n, i) = t <=> i = 0
        <3>1. t # NULL
            BY <1>1
        <3> QED BY <1>4, <1>5, <2>4, <2>5, <3>1
    <2>7. n \in Passed(n, new, i) => Under(new, n, i) \in {t, NULL} /\ i <= TopMax(n, new)
        BY <1>5 DEF Passed
    <2>8. \A e \in Items : /\ Holds(t, mem, i, e) <=> i = 0 /\ t = e
                           /\ Holds(n, new, i, e) <=> i = 0 /\ t = e
        BY <1>1, <2>1, <2>2, <2>3, <2>4, <2>6, <2>7 DEF Holds
    <2>9. \A x \in X : /\ Carries(ts, t, mem, i, x) <=> i = 0 /\ x \in ts
                       /\ Carries(us, n, new, i, x) <=> i = 0 /\ 0 \in new[n].tags[x]
        <3>1. \A x : Carries(ts, t, mem, i, x) <=> i = 0 /\ x \in ts
            BY <1>7, <2>1, <2>2 DEF Carries
        <3>2. \A x : Carries(us, n, new, i, x) <=>
                n \in Passed(n, new, i) /\ Under(new, n, i) \in Items /\ d \in new[n].tags[x]
            BY <2>3, <2>4 DEF Carries, d
        <3>3. n \in Passed(n, new, i) /\ Under(new, n, i) \in Items => i = 0
            BY <1>1, <2>6, <2>7
        <3>4. i = 0 => n \in Passed(n, new, i) /\ Under(new, n, i) \in Items /\ d = 0
            BY <1>7, <2>5, <2>6
        <3> QED BY <3>1, <3>2, <3>3, <3>4
    <2> QED BY <1>7, <2>8, <2>9 DEF Same
<1> QED BY <1>6, <1>7

-----------------------------------------------------------------------------
(* The model's tree: what its indices find, before and after a step.       *)

\* Index i has an item, and its slot has tag x.
Bit(i, x) == Carries(root.tags, root.rnode, node, i, x)

LEMMA TreeNow ==
    /\ StructInv => Tree(root.rnode, node, heap, Retiring)
    /\ StructInv' => Tree(root'.rnode, node', heap', Retiring')
<1>1. /\ StructInv => /\ root.rnode \in Entries /\ node \in Memory
                      /\ Shape(root.rnode, node, heap, Retiring)
      /\ StructInv' => /\ root'.rnode \in Entries /\ node' \in Memory
                       /\ Shape(root'.rnode, node', heap', Retiring')
    BY DEF StructInv, TypeInv, TypeOK, Memory, ShapeInv
<1>2. /\ StructInv /\ Retiring \in Nodes =>
           /\ heap[Retiring] = "live" /\ root.rnode # Retiring /\ node[Retiring].parent = NULL
      /\ StructInv' /\ Retiring' \in Nodes =>
           /\ heap'[Retiring'] = "live" /\ root'.rnode # Retiring' /\ node'[Retiring'].parent = NULL
    BY EntryAssumption DEF StructInv, CursorInv, Retiring
<1> QED BY <1>1, <1>2 DEF Tree, Shape

LEMMA Finding ==
    ASSUME NEW i
    PROVE  /\ Value(i) = Finds(root.rnode, node, i)
           /\ Value(i)' = Finds(root'.rnode, node', i)
           /\ \A x : Tagged(i, x) <=> HasTag(root.tags, root.rnode, node, i, x)
           /\ \A x : Tagged(i, x)' <=> HasTag(root'.tags, root'.rnode, node', i, x)
           /\ RootMaxIndex = TopMax(root.rnode, node)
           /\ RootMaxIndex' = TopMax(root'.rnode, node')
           /\ Walk(i) = Way(root.rnode, node, i)
           /\ \A x : Bit(i, x) <=> Carries(root.tags, root.rnode, node, i, x)
           /\ \A x : Bit(i, x)' <=> Carries(root'.tags, root'.rnode, node', i, x)
<1>1. RootMaxIndex = TopMax(root.rnode, node) /\ RootMaxIndex' = TopMax(root'.rnode, node')
    BY DEF RootMaxIndex, TopMax, ShiftMaxIndex
<1>2. Walk(i) = Way(root.rnode, node, i) /\ Walk(i)' = Way(root'.rnode, node', i)
    BY DEF Walk, Way, Looked
<1>3. Value(i) = Finds(root.rnode, node, i) /\ Value(i)' = Finds(root'.rnode, node', i)
    BY <1>1, <1>2 DEF Value, Finds
<1>4. \A x : Tagged(i, x) <=> HasTag(root.tags, root.rnode, node, i, x)
    BY <1>1, <1>2 DEF Tagged, HasTag, Digit
<1>5. \A x : Tagged(i, x)' <=> HasTag(root'.tags, root'.rnode, node', i, x)
    BY <1>1, <1>2 DEF Tagged, HasTag, Digit, Offset
<1>6. \A x : /\ Bit(i, x) <=> Carries(root.tags, root.rnode, node, i, x)
             /\ Bit(i, x)' <=> Carries(root'.tags, root'.rnode, node', i, x)
    BY DEF Bit
<1> QED BY <1>1, <1>2, <1>3, <1>4, <1>5, <1>6

\* A step that leaves index i with the same item, and the same of the tags in X.
Kept(i, X) == Same(root.tags, root.rnode, node, root'.tags, root'.rnode, node', i, X)

LEMMA KeptIs ==
    ASSUME StructInv, StructInv', NEW i \in Indices, NEW X, Kept(i, X)
    PROVE  Value(i)' = Value(i) /\ \A x \in X : Bit(i, x)' <=> Bit(i, x)
<1>1. /\ Tree(root.rnode, node, heap, Retiring)
      /\ Tree(root'.rnode, node', heap', Retiring')
    BY TreeNow
<1>2. Finds(root'.rnode, node', i) = Finds(root.rnode, node, i)
    <2>1. /\ Finds(root.rnode, node, i) \in Items \cup {NULL}
          /\ \A e \in Items : Finds(root.rnode, node, i) = e <=> Holds(root.rnode, node, i, e)
        BY <1>1, FindsHeld
    <2>2. /\ Finds(root'.rnode, node', i) \in Items \cup {NULL}
          /\ \A e \in Items : Finds(root'.rnode, node', i) = e <=> Holds(root'.rnode, node', i, e)
        BY <1>1, FindsHeld
    <2> QED BY <2>1, <2>2 DEF Kept, Same
<1>3. \A x \in X : Carries(root'.tags, root'.rnode, node', i, x) <=> Carries(root.tags, root.rnode, node, i, x)
    BY DEF Kept, Same
<1> QED BY <1>2, <1>3, Finding

LEMMA StillKept ==
    ASSUME UNCHANGED <<root, node>>
    PROVE  \A i : \A X : Kept(i, X)
BY DEF Kept, Same

\* An index has an item where it has a tag; between calls the tag is that bit.
LEMMA BitItem ==
    /\ StructInv => /\ \A i \in Indices : Value(i) \in Items \cup {NULL}
                    /\ \A i \in Indices, x \in Tags : Bit(i, x) => Value(i) \in Items
    /\ StructInv' => /\ \A i \in Indices : Value(i)' \in Items \cup {NULL}
                     /\ \A i \in Indices, x \in Tags : Bit(i, x)' => Value(i)' \in Items
<1>1. ASSUME NEW ts, NEW t, NEW mem, NEW hp, NEW z, Tree(t, mem, hp, z), NEW i \in Indices
      PROVE  /\ Finds(t, mem, i) \in Items \cup {NULL}
             /\ \A x : Carries(ts, t, mem, i, x) => Finds(t, mem, i) \in Items
    <2>1. /\ Finds(t, mem, i) \in Items \cup {NULL}
          /\ \A e \in Items : Finds(t, mem, i) = e <=> Holds(t, mem, i, e)
        BY <1>1, FindsHeld
    <2>2. \A x : Carries(ts, t, mem, i, x) => \E e \in Items : Holds(t, mem, i, e)
        BY DEF Carries, Holds, Passed
    <2> QED BY <2>1, <2>2
<1>2. StructInv => Tree(root.rnode, node, heap, Retiring)
    BY TreeNow
<1>3. StructInv' => Tree(root'.rnode, node', heap', Retiring')
    BY TreeNow
<1>4. ASSUME StructInv, NEW i \in Indices
      PROVE  Value(i) \in Items \cup {NULL} /\ \A x \in Tags : Bit(i, x) => Value(i) \in Items
    BY <1>1, <1>2, <1>4, Finding
<1>5. ASSUME StructInv', NEW i \in Indices
      PROVE  Value(i)' \in Items \cup {NULL} /\ \A x \in Tags : Bit(i, x)' => Value(i)' \in Items
    BY <1>1, <1>3, <1>5, Finding
<1> QED BY <1>4, <1>5

LEMMA TagsNow ==
    /\ StructInv /\ TagsInv /\ w.pc \notin {"find", "retire"} =>
         \A i \in Indices, x \in Tags : Tagged(i, x) <=> Bit(i, x)
    /\ StructInv' /\ TagsInv' /\ w'.pc \notin {"find", "retire"} =>
         \A i \in Indices, x \in Tags : Tagged(i, x)' <=> Bit(i, x)'
<1>1. ASSUME StructInv, TagsInv, w.pc \notin {"find", "retire"}, NEW i \in Indices, NEW x \in Tags
      PROVE  Tagged(i, x) <=> Bit(i, x)
    <2>1. Tree(root.rnode, node, heap, NULL)
        BY <1>1, TreeNow DEF Retiring
    <2>2. Marked(root.tags, root.rnode, node, heap, NULL, 0, 0)
        BY <1>1, NowMarked DEF Ahead
    <2>3. HasTag(root.tags, root.rnode, node, i, x) <=> Carries(root.tags, root.rnode, node, i, x)
        BY <2>1, <2>2, TagCarried
    <2> QED BY <2>3, Finding
<1>2. ASSUME StructInv', TagsInv', w'.pc \notin {"find", "retire"}, NEW i \in Indices, NEW x \in Tags
      PROVE  Tagged(i, x)' <=> Bit(i, x)'
    <2>1. Tree(root'.rnode, node', heap', NULL)
        BY <1>2, TreeNow DEF Retiring
    <2>2. Marked(root'.tags, root'.rnode, node', heap', NULL, w'.off, w'.op.tag)
        BY <1>2 DEF Ahead, TagsInv
    <2>3. HasTag(root'.tags, root'.rnode, node', i, x) <=> Carries(root'.tags, root'.rnode, node', i, x)
        BY <2>1, <2>2, TagCarried
    <2> QED BY <2>3, Finding
<1> QED BY <1>1, <1>2

-----------------------------------------------------------------------------
(* Growing, shrinking and pruning: what every index finds is kept.         *)

\* Memory that is out of the tree changes.
LEMMA UntouchedSame ==
    ASSUME NEW ts, NEW t, NEW mem, NEW hp, NEW z, Tree(t, mem, hp, z),
           NEW new, NEW hq, NEW y, Tree(t, new, hq, y), NEW i \in Indices, NEW X,
           InTree(hq, y) = InTree(hp, z), \A m \in InTree(hp, z) : new[m] = mem[m]
    PROVE  /\ Same(ts, t, mem, ts, t, new, i, X)
           /\ \A m \in Nodes : m \in Passed(t, mem, i) => m \in Passed(t, new, i)
<1> DEFINE S == InTree(hp, z)
<1>1. \A m \in S : mem[m].parent \in S \cup {NULL}
    BY ParentIs DEF InTree
<1>2. S \subseteq InTree(hp, z) \cap InTree(hq, y) /\ InTree(hp, z) \ S = {}
      /\ InTree(hq, y) \ S = {} /\ \A m \in S : new[m] = mem[m]
    OBVIOUS
<1>3. \A m \in Nodes : m \in Passed(t, mem, i) => m \in S
    BY PassedLive DEF InTree
<1> HIDE DEF S
<1>4. \A m \in S : SameSlot(mem, new, m, Digit(mem, m, i), X)
    BY <1>2 DEF SameSlot
<1>5. /\ \A m \in InTree(hp, z) \ S, q \in Slots : mem[m].slots[q] \notin Items
      /\ \A m \in InTree(hq, y) \ S, q \in Slots : new[m].slots[q] \notin Items
    BY <1>2
<1>6. \A m \in S : m \in Passed(t, mem, i) => SameSlot(mem, new, m, Digit(mem, m, i), X)
    BY <1>4
<1>7. \A m \in S : /\ new[m].shift = mem[m].shift /\ new[m].parent = mem[m].parent
                   /\ new[m].offset = mem[m].offset /\ mem[m].parent \in S \cup {NULL}
    BY <1>1, <1>2
<1>8. S \subseteq InTree(hp, z) \cap InTree(hq, y)
    BY <1>2
<1>9. t = t /\ \A x \in X : x \in ts <=> x \in ts
    OBVIOUS
<1>10. Same(ts, t, mem, ts, t, new, i, X)
    BY <1>5, <1>6, <1>7, <1>8, <1>9, TreeSame
<1>11. \A m \in S : m \in Passed(t, mem, i) <=> m \in Passed(t, new, i)
    BY <1>7, <1>8, PassedSame
<1> QED BY <1>3, <1>10, <1>11

LEMMA FreedKept ==
    ASSUME StructInv, StructInv', root' = root,
           InTree(heap', Retiring') = InTree(heap, Retiring),
           \A m \in InTree(heap, Retiring) : node'[m] = node[m]
    PROVE  \A i \in Indices :
             /\ Kept(i, Tags)
             /\ \A m \in Nodes : m \in Passed(root.rnode, node, i) => m \in Passed(root'.rnode, node', i)
<1>1. Tree(root.rnode, node, heap, Retiring) /\ Tree(root'.rnode, node', heap', Retiring')
    BY TreeNow
<1> QED BY <1>1, UntouchedSame DEF Kept
LEMMA RcuFreeKept ==
    ASSUME StructInv, StructInv', NEW n \in Nodes, RcuFree(n)
    PROVE  \A i \in Indices :
             /\ Kept(i, Tags)
             /\ \A m \in Nodes : m \in Passed(root.rnode, node, i) => m \in Passed(root'.rnode, node', i)
<1>1. /\ heap[n] = "rcu" /\ heap' = [heap EXCEPT ![n] = "free"]
      /\ node' = [node EXCEPT ![n] = Blank] /\ root' = root /\ w' = w
    BY DEF RcuFree, WriterSame
<1>2. Retiring' = Retiring
    BY <1>1 DEF Retiring
<1>3. \A m \in Nodes : heap'[m] = "live" <=> heap[m] = "live"
    BY <1>1 DEF StructInv, TypeInv, TypeOK
<1>4. InTree(heap', Retiring') = InTree(heap, Retiring)
    BY <1>2, <1>3 DEF InTree
<1>5. \A m \in InTree(heap, Retiring) : node'[m] = node[m]
    BY <1>1 DEF InTree, StructInv, TypeInv, TypeOK
<1> QED BY <1>1, <1>4, <1>5, FreedKept

LEMMA ShrinkRetireKept ==
    ASSUME StructInv, StructInv', ShrinkRetire PROVE \A i \in Indices : Kept(i, Tags)
<1> DEFINE n == w.cur
           mem == IF node[n].slots[0] \in Nodes THEN node
                  ELSE [node EXCEPT ![n].slots[0] = RETRY]
<1>1. /\ w.pc = "retire" /\ w \in WriterType /\ Retire(mem, n) /\ root' = root
      /\ w' = [w EXCEPT !.pc = "shrink"]
    BY DEF ShrinkRetire, Goto, StructInv, TypeInv, TypeOK
<1>2. n \in Nodes /\ NULL \notin Nodes
    BY <1>1, WriterFields, EntryAssumption DEF StructInv, TypeInv, CallInv
<1>3. \A m \in Nodes \ {n} : mem[m] = node[m]
    BY <1>2 DEF StructInv, TypeInv, TypeOK
<1>4. /\ heap'[n] # "live" /\ \A m \in Nodes \ {n} : heap'[m] = heap[m]
      /\ \A m \in Nodes \ {n} : node'[m] = mem[m]
    <2>1. DOMAIN mem = Nodes /\ heap \in [Nodes -> {"free", "live", "rcu"}]
        BY DEF StructInv, TypeInv, TypeOK
    <2> HIDE DEF mem, n
    <2> QED BY <1>1, <1>2, <2>1 DEF Retire
<1>5. Retiring = n /\ Retiring' = NULL
    <2>1. w'.pc = "shrink"
        BY <1>1 DEF WriterType
    <2> QED BY <1>1, <2>1 DEF Retiring
<1> HIDE DEF n, mem
<1>6. InTree(heap', Retiring') = InTree(heap, Retiring)
    BY <1>2, <1>4, <1>5 DEF InTree
<1>7. \A m \in InTree(heap, Retiring) : node'[m] = node[m]
    BY <1>3, <1>4, <1>5 DEF InTree
<1> QED BY <1>1, <1>6, <1>7, FreedKept

\* radix_tree_extend: the new top leads to the old one by leading zeros.
LEMMA ExtendKept ==
    ASSUME StructInv, StructInv', Extend, Leftovers = {NULL}
    PROVE  /\ \A i \in Indices : Kept(i, Tags)
           /\ RootMaxIndex' = ShiftMaxIndex(w.shift) /\ root'.rnode \in Nodes
           /\ \A i \in Indices, m \in InTree(heap, NULL) :
                m \in Passed(root.rnode, node, i) => m \in Passed(root'.rnode, node', i)
           /\ \A m \in Nodes : heap[m] # "free" => node'[m].shift = node[m].shift
<1> DEFINE t == root.rnode
           ts == root.tags
<1>1. /\ w.pc = "extend" /\ w \in WriterType /\ TypeOK /\ t \in Items \cup Nodes
      /\ w.shift = RootShift /\ node \in Memory /\ ts \in SUBSET Tags
    BY DEF Extend, StructInv, TypeInv, TypeOK, CursorInv, Memory
<1>2. w'.pc \in {"extend", "create"}
    BY <1>1 DEF Extend, Goto, WriterType
<1>3. PICK n \in Nodes, left \in [Slots -> Leftovers] :
         /\ heap[n] = "free"
         /\ node' = [Reparented(t, n) EXCEPT ![n] = NewTop(left)]
         /\ heap' = [heap EXCEPT ![n] = "live"]
         /\ root' = [root EXCEPT !.rnode = n]
    BY DEF Extend, Free
<1>4. root'.rnode = n
    BY <1>1, <1>3 DEF TypeOK
<1>5. \A m \in Nodes : heap'[m] = IF m = n THEN "live" ELSE heap[m]
    BY <1>1, <1>3 DEF TypeOK
<1>6. node'[n] = NewTop(left) /\ \A m \in Nodes \ {n} : node'[m] = Reparented(t, n)[m]
    <2>1. Reparented(t, n) \in Memory
        BY <1>1, ReparentedType
    <2> QED BY <1>3, <2>1 DEF Memory
<1>7. \A m \in Nodes \ {n} :
        /\ node'[m].shift = node[m].shift /\ node'[m].offset = node[m].offset
        /\ node'[m].parent = IF m = t THEN n ELSE node[m].parent
        /\ node'[m].slots = node[m].slots /\ node'[m].tags = node[m].tags
    <2> HIDE DEF t
    <2> QED BY <1>1, <1>6 DEF Reparented, Memory, NodeType
<1>8. /\ node'[n].shift = w.shift
      /\ \A q \in Slots : node'[n].slots[q] = IF q = 0 THEN t ELSE NULL
    BY <1>1, <1>6, NewTopFields
<1>9. \A x \in Tags : x \in ts <=> 0 \in node'[n].tags[x]
    <2>1. NewTop(left).tags = [x \in Tags |-> IF x \in ts THEN {0} ELSE {}]
        BY DEF NewTop, Fresh, Blank
    <2> QED BY <1>1, <1>6, <2>1
<1>10. /\ t \in Items => node'[n].shift = 0
       /\ t \in Nodes => node'[n].shift = node[t].shift + 1
    BY <1>1, <1>8, EntryAssumption DEF RootShift
<1>11. Tree(t, node, heap, NULL) /\ Tree(n, node', heap', NULL)
    <2>1. Retiring = NULL /\ Retiring' = NULL
        BY <1>1, <1>2 DEF Retiring
    <2> QED BY <1>4, <2>1, TreeNow
<1>12. heap[n] # "live"
    BY <1>3
<1>13. RootMaxIndex' = ShiftMaxIndex(w.shift)
    BY <1>4, <1>8 DEF RootMaxIndex, ShiftMaxIndex
<1> HIDE DEF t, ts
<1>14. Topped(t, node, heap, NULL, n, node', heap')
    <2>1. InTree(heap', NULL) = InTree(heap, NULL) \cup {n} /\ n \notin InTree(heap, NULL)
        BY <1>5, <1>12, EntryAssumption DEF InTree
    <2>2. \A m \in InTree(heap, NULL) : m \in Nodes \ {n}
        BY <2>1 DEF InTree
    <2> QED BY <1>7, <1>8, <1>10, <2>1, <2>2 DEF Topped
<1>15. ASSUME NEW i \in Indices PROVE Kept(i, Tags)
    <2>1. Same(ts, t, node, root'.tags, n, node', i, Tags)
        BY <1>1, <1>9, <1>11, <1>14, TopSame
    <2> QED BY <1>4, <2>1 DEF Kept, t, ts
<1>16. ASSUME NEW i \in Indices, NEW m \in InTree(heap, NULL), m \in Passed(t, node, i)
       PROVE  m \in Passed(n, node', i)
    <2>1. t \in Nodes
        BY <1>11, <1>16, PassedLive
    <2> QED BY <1>11, <1>14, <1>16, <2>1, TopPassed
<1>17. \A m \in Nodes : heap[m] # "free" => node'[m].shift = node[m].shift
    BY <1>3, <1>7
<1> QED BY <1>4, <1>13, <1>15, <1>16, <1>17 DEF t

\* radix_tree_shrink: what the dropped top leads to by other digits is empty.
LEMMA SameBack ==
    ASSUME NEW ts, NEW t, NEW mem, NEW us, NEW u, NEW new, NEW i, NEW X,
           Same(ts, t, mem, us, u, new, i, X)
    PROVE  Same(us, u, new, ts, t, mem, i, X)
BY DEF Same

LEMMA ShrinkRootKept ==
    ASSUME StructInv, StructInv', TagsInv, ShrinkRoot
    PROVE  /\ \A i \in Indices : Kept(i, Tags)
           /\ \A i \in Indices, m \in InTree(heap, root.rnode) :
                m \in Passed(root.rnode, node, i) => m \in Passed(root'.rnode, node', i)
           /\ \A m \in Nodes : node'[m].shift = node[m].shift /\ node'[m].slots = node[m].slots
           /\ \A q \in Slots :
                node[root.rnode].slots[q] = IF q = 0 THEN root'.rnode ELSE NULL
           /\ root.rnode \in Nodes /\ w'.pc = "retire" /\ w'.cur = root.rnode
<1> DEFINE n == root.rnode
           c == node[n].slots[0]
           mid == Reparented(c, NULL)
           ts == root.tags
<1>1. /\ w.pc = "shrink" /\ w \in WriterType /\ UNCHANGED heap /\ TypeOK
      /\ n \in Nodes /\ node[n].count = 1 /\ c # NULL /\ (c \in Nodes \/ node[n].shift = 0)
      /\ root'.rnode = c /\ root'.tags = ts
      /\ node' = [mid EXCEPT ![n].count = 0]
      /\ w' = [w EXCEPT !.pc = "retire", !.cur = n]
    BY DEF ShrinkRoot, Shrinkable, Goto, StructInv, TypeInv, TypeOK
<1>2. node \in Memory /\ node' \in Memory /\ NULL \notin Nodes /\ 0 \in Slots /\ ts \in SUBSET Tags
    BY EntryAssumption, SizeAssumption DEF StructInv, TypeInv, TypeOK, Memory, Slots
<1>3. \A m \in Nodes :
        /\ node'[m].shift = node[m].shift /\ node'[m].offset = node[m].offset
        /\ node'[m].parent = IF m = c THEN NULL ELSE node[m].parent
        /\ node'[m].slots = node[m].slots /\ node'[m].tags = node[m].tags
    <2>1. \A m \in Nodes :
            /\ mid[m].shift = node[m].shift /\ mid[m].offset = node[m].offset
            /\ mid[m].parent = IF m = c THEN NULL ELSE node[m].parent
            /\ mid[m].slots = node[m].slots /\ mid[m].tags = node[m].tags
        <3> HIDE DEF c
        <3> QED BY <1>2 DEF Reparented, Memory, NodeType
    <2>2. mid \in Memory
        BY ReparentedType DEF StructInv, TypeInv
    <2> HIDE DEF mid, c, n
    <2> QED BY <1>1, <2>1, <2>2 DEF Memory, NodeType
<1>4. Tree(n, node, heap, NULL) /\ Tree(c, node', heap, n)
    <2>1. w'.pc = "retire" /\ w'.cur = n
        BY <1>1 DEF WriterType
    <2>2. Retiring = NULL /\ Retiring' = n
        BY <1>1, <2>1 DEF Retiring
    <2> QED BY <1>1, <2>2, TreeNow
<1>5. \A q \in Slots : node[n].slots[q] = IF q = 0 THEN c ELSE NULL
    <2>1. n \in Nodes /\ heap[n] = "live" /\ node[n].count = 1 /\ node[n].slots[0] # NULL
          /\ w.pc # "retire"
        BY <1>1, <1>4 DEF Tree, Rooted
    <2> HIDE DEF n
    <2>2. \A q \in Slots \ {0} : node[n].slots[q] = NULL
        BY <2>1, CountedSlots
    <2> QED BY <2>2
<1>6. /\ c \in Items \cup Nodes
      /\ c \in Items => node[n].shift = 0
      /\ c \in Nodes => node[c].parent = n /\ node[c].shift + 1 = node[n].shift
    <2>1. /\ node[n].slots[0] # RETRY /\ node[n].slots[0] \in Entries
          /\ c \in Items => node[n].shift = 0
          /\ c \in Nodes => node[c].parent = n /\ node[c].shift + 1 = node[n].shift
        <3>1. heap[n] = "live" /\ n # NULL
            BY <1>1, <1>2, <1>4 DEF Tree, Rooted
        <3>2. node[n].slots[0] \in Entries
            BY <1>1, <1>2, MemoryFields
        <3> HIDE DEF n
        <3> QED BY <1>1, <1>2, <1>4, <3>1, <3>2 DEF Tree, Down
    <2> QED BY <1>1, <2>1 DEF Entries
<1>7. heap[n] = "live" /\ Marked(ts, n, node, heap, NULL, 0, 0)
    <2>1. Ahead = NULL
        BY <1>1 DEF Ahead
    <2> QED BY <1>1, <1>4, <2>1, NowMarked DEF Tree, Rooted
<1>8. \A x \in Tags : x \in ts <=> 0 \in node[n].tags[x]
    <2>1. \A x \in Tags : x \in ts <=> node[n].tags[x] # {}
        BY <1>1, <1>2, <1>7 DEF Marked, RootMarked
    <2>2. ASSUME NEW x \in Tags, NEW s \in Slots \ {0} PROVE s \notin node[n].tags[x]
        BY <1>1, <1>2, <1>5, <1>7 DEF Marked, SlotsMarked
    <2>3. \A x \in Tags : node[n].tags[x] \subseteq Slots
        BY <1>1, <1>2, TagFields
    <2> QED BY <2>1, <2>2, <2>3
<1> HIDE DEF n, c, ts, mid
<1>9. Topped(c, node', heap, n, n, node, heap)
    <2>1. InTree(heap, NULL) = InTree(heap, n) \cup {n} /\ n \notin InTree(heap, n)
        BY <1>1, <1>2, <1>7 DEF InTree
    <2>2. ASSUME NEW m \in InTree(heap, n)
          PROVE  node[m].parent = IF m = c THEN n ELSE node'[m].parent
        BY <1>3, <1>6, <2>2 DEF InTree
    <2>3. \A m \in InTree(heap, n) : m \in Nodes
        BY DEF InTree
    <2>4. c \in Nodes => node[n].shift = node'[c].shift + 1
        BY <1>3, <1>6
    <2> QED BY <1>3, <1>5, <1>6, <2>1, <2>2, <2>3, <2>4 DEF Topped
<1>10. ASSUME NEW i \in Indices PROVE Kept(i, Tags)
    <2>1. Same(ts, c, node', ts, n, node, i, Tags)
        BY <1>1, <1>4, <1>6, <1>8, <1>9, TopSame
    <2> QED BY <1>1, <2>1, SameBack DEF Kept, n, ts
<1>11. ASSUME NEW i \in Indices, NEW m \in InTree(heap, n), m \in Passed(n, node, i)
       PROVE  m \in Passed(c, node', i)
    <2>1. c \in Nodes
        <3>1. c \in Items => InTree(heap, n) = {}
            BY <1>4, TopItemAlone
        <3> QED BY <1>6, <3>1
    <2> QED BY <1>1, <1>4, <1>9, <1>11, <2>1, TopPassed
<1>12. w'.pc = "retire" /\ w'.cur = n
    BY <1>1 DEF WriterType
<1> QED BY <1>1, <1>3, <1>5, <1>10, <1>11, <1>12 DEF n, c

-----------------------------------------------------------------------------
(* A node without entries is linked, or unlinked.                          *)

\* new is mem with node n, all of whose slots are empty, in place of an empty slot.
Grafted(t, mem, hp, u, new, hq, n) ==
    /\ InTree(hq, NULL) = InTree(hp, NULL) \cup {n} /\ n \notin InTree(hp, NULL)
    /\ \A m \in InTree(hp, NULL) :
         /\ new[m].shift = mem[m].shift /\ new[m].parent = mem[m].parent
         /\ new[m].offset = mem[m].offset /\ new[m].tags = mem[m].tags
         /\ \A q \in Slots : \/ new[m].slots[q] = mem[m].slots[q]
                             \/ mem[m].slots[q] = NULL /\ new[m].slots[q] = n
    /\ \A q \in Slots : new[n].slots[q] = NULL
    /\ t = u \/ (t = NULL /\ u = n)

LEMMA GraftSame ==
    ASSUME NEW ts, NEW t, NEW mem, NEW hp, Tree(t, mem, hp, NULL),
           NEW us, NEW u, NEW new, NEW hq, Tree(u, new, hq, NULL), NEW n \in Nodes,
           Grafted(t, mem, hp, u, new, hq, n), t = u => ts = us, NEW i \in Indices
    PROVE  /\ Same(ts, t, mem, us, u, new, i, Tags)
           /\ \A m \in InTree(hp, NULL) : m \in Passed(t, mem, i) <=> m \in Passed(u, new, i)
<1> DEFINE S == InTree(hp, NULL)
<1>1. NULL \notin Nodes \cup Items /\ Nodes \cap Items = {}
    BY EntryAssumption
<1>2. \A m \in S : mem[m].parent \in S \cup {NULL}
    BY ParentIs DEF InTree
<1>3. \A m \in S : /\ new[m].shift = mem[m].shift /\ new[m].parent = mem[m].parent
                   /\ new[m].offset = mem[m].offset /\ mem[m].parent \in S \cup {NULL}
    BY <1>2 DEF Grafted
<1>4. S \subseteq InTree(hp, NULL) \cap InTree(hq, NULL)
    BY DEF Grafted
<1>5. /\ \A m \in InTree(hp, NULL) \ S, q \in Slots : mem[m].slots[q] \notin Items
      /\ \A m \in InTree(hq, NULL) \ S, q \in Slots : new[m].slots[q] \notin Items
    BY <1>1 DEF Grafted
<1>6. \A m \in S, q \in Slots : SameSlot(mem, new, m, q, Tags)
    BY <1>1 DEF Grafted, SameSlot
<1>7. \A m \in S : m \in Passed(t, mem, i) => SameSlot(mem, new, m, Digit(mem, m, i), Tags)
    BY <1>6, PassedSlot
<1>8. \/ t \notin Items /\ u \notin Items
      \/ t = u /\ \A x \in Tags : x \in ts <=> x \in us
    BY <1>1 DEF Grafted
<1> HIDE DEF S
<1>9. /\ Same(ts, t, mem, us, u, new, i, Tags)
      /\ \A m \in S : m \in Passed(t, mem, i) <=> m \in Passed(u, new, i)
    BY <1>3, <1>4, <1>5, <1>7, <1>8, TreeSame
<1> QED BY <1>9 DEF S

\* __radix_tree_create links a new child: nothing is found there yet.
LEMMA CreateChildKept ==
    ASSUME StructInv, StructInv', CreateChild, Leftovers = {NULL}
    PROVE  /\ \A i \in Indices : Kept(i, Tags)
           /\ w'.cur \in Nodes /\ w'.off = Digit(node', w'.cur, w.op.index)
           /\ w'.op = w.op /\ w'.pc = "create" /\ w'.shift = w.shift - 1
           /\ node'[w'.cur].shift = w.shift - 1 /\ node'[w'.cur].parent = w.cur
           /\ node'[w'.cur].offset = w.off
           /\ w.cur = NULL => root.rnode = NULL /\ root'.rnode = w'.cur
           /\ \A i \in Indices : w.cur \in Passed(root.rnode, node, i) =>
                                   w.cur \in Passed(root'.rnode, node', i)
<1> DEFINE c == w.cur
           o == w.off
           t == root.rnode
           u == root'.rnode
<1>1. /\ w.pc = "create" /\ w \in WriterType /\ TypeOK /\ AtSlot = NULL
      /\ c \in Nodes \cup {NULL} /\ o \in Slots /\ (c # NULL => heap[c] = "live")
      /\ node \in Memory /\ SameShape(node, node) /\ NULL \notin Nodes
    BY WriterFields, SameMemory, EntryAssumption
       DEF CreateChild, StructInv, TypeInv, TypeOK, CursorInv
<1>2. PICK n \in Nodes, left \in [Slots -> Leftovers] :
         /\ heap[n] = "free"
         /\ node' = [Stored(node, c, o, n, 1, 0)
                        EXCEPT ![n] = Fresh(w.shift - 1, o, 0, c, left)]
         /\ heap' = [heap EXCEPT ![n] = "live"]
         /\ root' = RootStored(c, n)
         /\ w' = [w EXCEPT !.shift = @ - 1, !.cur = n, !.off = Offset(w.shift - 1, w.op.index)]
    BY DEF CreateChild, Free, Goto
<1>3. /\ \A m \in Nodes : heap'[m] = IF m = n THEN "live" ELSE heap[m]
      /\ u = (IF c = NULL THEN n ELSE t) /\ root'.tags = root.tags
    BY <1>1, <1>2 DEF TypeOK, RootStored
<1> DEFINE base == Stored(node, c, o, n, 1, 0)
<1>4. base \in Memory /\ StoreOf(base, node, c, o, n, 1, 0)
    <2>1. 1 \in Int /\ 0 \in Int /\ n \in Entries
        BY DEF Entries
    <2> HIDE DEF c, o
    <2> QED BY <1>1, <2>1, StoredType, StoredStores
<1>5. node'[n] = Fresh(w.shift - 1, o, 0, c, left) /\ \A m \in Nodes \ {n} : node'[m] = base[m]
    <2>1. node' = [base EXCEPT ![n] = Fresh(w.shift - 1, o, 0, c, left)]
        BY <1>2
    <2> HIDE DEF base
    <2> QED BY <1>4, <2>1 DEF Memory
<1>6. /\ node'[n].shift = w.shift - 1 /\ node'[n].parent = c /\ node'[n].offset = o
      /\ \A q \in Slots : node'[n].slots[q] = NULL
    BY <1>5, ZeroedSlots DEF Fresh, Blank
<1>7. \A m \in Nodes \ {n} : node'[m].tags = node[m].tags
    <2>1. \A m \in Nodes : base[m].tags = node[m].tags
        BY <1>1, StoredTags
    <2> QED BY <1>5, <2>1
<1>8. /\ w'.shift = w.shift - 1 /\ w'.cur = n /\ w'.op = w.op /\ w'.pc = "create"
      /\ w'.off = Offset(w.shift - 1, w.op.index)
    BY <1>1, <1>2 DEF WriterType
<1>9. Tree(t, node, heap, NULL) /\ Tree(u, node', heap', NULL)
    <2>1. Retiring = NULL /\ Retiring' = NULL
        BY <1>1, <1>8 DEF Retiring
    <2> QED BY <2>1, TreeNow
<1>10. IF c = NULL THEN t = NULL ELSE node[c].slots[o] = NULL
    BY <1>1 DEF AtSlot
<1>11. heap[n] = "free"
    BY <1>2
<1>12. w'.off = Digit(node', n, w.op.index)
    BY <1>6, <1>8 DEF Digit
<1> HIDE DEF c, o, t, u, base
<1>13. Grafted(t, node, heap, u, node', heap', n)
    <2>1. InTree(heap', NULL) = InTree(heap, NULL) \cup {n} /\ n \notin InTree(heap, NULL)
        BY <1>1, <1>3, <1>11 DEF InTree
    <2>2. ASSUME NEW m \in InTree(heap, NULL)
          PROVE  /\ node'[m].shift = node[m].shift /\ node'[m].parent = node[m].parent
                 /\ node'[m].offset = node[m].offset /\ node'[m].tags = node[m].tags
                 /\ \A q \in Slots : \/ node'[m].slots[q] = node[m].slots[q]
                                     \/ node[m].slots[q] = NULL /\ node'[m].slots[q] = n
        <3>1. m \in Nodes \ {n}
            BY <2>1 DEF InTree
        <3>2. node'[m] = base[m]
            BY <1>5, <3>1
        <3> QED BY <1>1, <1>4, <1>7, <1>10, <3>1, <3>2 DEF StoreOf
    <2>3. t = u \/ (t = NULL /\ u = n)
        <3>1. CASE c = NULL
            BY <1>3, <1>10, <3>1
        <3>2. CASE c # NULL
            BY <1>3, <3>2
        <3> QED BY <3>1, <3>2
    <2> QED BY <1>6, <2>1, <2>2, <2>3 DEF Grafted
<1>14. ASSUME NEW i \in Indices
       PROVE  /\ Kept(i, Tags)
              /\ \A m \in InTree(heap, NULL) : m \in Passed(t, node, i) => m \in Passed(u, node', i)
    <2>1. t = u => root.tags = root'.tags
        BY <1>3
    <2>2. /\ Same(root.tags, t, node, root'.tags, u, node', i, Tags)
          /\ \A m \in InTree(heap, NULL) : m \in Passed(t, node, i) <=> m \in Passed(u, node', i)
        BY <1>9, <1>13, <2>1, GraftSame
    <2> QED BY <2>2 DEF Kept, t, u
<1>15. ASSUME NEW i \in Indices, c \in Passed(t, node, i) PROVE c \in Passed(u, node', i)
    <2>1. c \in InTree(heap, NULL)
        BY <1>9, <1>15, PassedLive DEF InTree
    <2> QED BY <1>14, <1>15, <2>1
<1>16. c = NULL => t = NULL /\ u = n
    BY <1>3, <1>10
<1> QED BY <1>6, <1>8, <1>12, <1>14, <1>15, <1>16 DEF c, t, u, o

\* delete_node unlinks a node that has nothing left.
LEMMA PruneNodeKept ==
    ASSUME StructInv, StructInv', PruneNode PROVE \A i \in Indices : Kept(i, Tags)
<1> DEFINE n == w.cur
           k == node[n].parent
           o == node[n].offset
           t == root.rnode
           u == root'.rnode
           base == Stored(node, k, o, NULL, -1, 0)
<1>1. /\ w.pc = "prune" /\ w \in WriterType /\ node[n].count = 0 /\ Retire(base, n)
      /\ root' = IF k = NULL THEN [rnode |-> NULL, tags |-> {}] ELSE root
      /\ IF k = NULL THEN Return(w.res) ELSE w' = [w EXCEPT !.cur = k]
    BY DEF PruneNode, Goto, StructInv, TypeInv, TypeOK
<1>2. n \in Nodes /\ heap[n] = "live" /\ NULL \in Entries /\ n # NULL
    BY <1>1, WriterFields, EntryAssumption DEF StructInv, CursorInv, TypeInv, CallInv, Entries
<1>3. k \in Nodes \cup {NULL} /\ o \in Slots /\ node \in Memory /\ SameShape(node, node)
      /\ NULL \notin Nodes
    BY <1>2, MemoryFields, SameMemory, EntryAssumption DEF StructInv
<1>4. Retiring = NULL /\ Retiring' = NULL
    <2>1. w'.pc # "retire"
        BY <1>1 DEF Return, Idle, WriterType
    <2> QED BY <1>1, <2>1 DEF Retiring
<1>5. base \in Memory /\ StoreOf(base, node, k, o, NULL, -1, 0)
    <2>1. -1 \in Int /\ 0 \in Int
        OBVIOUS
    <2> HIDE DEF k, o
    <2> QED BY <1>2, <1>3, <2>1, StoredType, StoredStores
<1>6. /\ heap'[n] # "live" /\ \A m \in Nodes \ {n} : heap'[m] = heap[m]
      /\ \A m \in Nodes \ {n} : node'[m] = base[m]
    <2> HIDE DEF base, n
    <2> QED BY <1>1, <1>2, <1>5, RetireFields DEF StructInv, TypeInv
<1>7. \A m \in Nodes \ {n} : node'[m].tags = node[m].tags
    <2>1. \A m \in Nodes : base[m].tags = node[m].tags
        BY <1>3, StoredTags
    <2> QED BY <1>6, <2>1
<1>8. \A s \in Slots : node[n].slots[s] = NULL
    <2> HIDE DEF n
    <2> QED BY <1>1, <1>2, CountedSlots
<1>9. (k = NULL => u = NULL) /\ (k # NULL => u = t /\ root'.tags = root.tags)
    BY <1>1
<1>10. Tree(t, node, heap, NULL) /\ Tree(u, node', heap', NULL)
    BY <1>4, TreeNow
<1>11. IF k = NULL THEN t = n ELSE node[k].slots[o] = n
    <2>1. n # NULL /\ heap[n] = "live"
        BY <1>2
    <2> HIDE DEF n
    <2> QED BY <1>2, <1>10, <2>1, ParentIs
<1> HIDE DEF n, k, o, t, u, base
<1>12. Grafted(u, node', heap', t, node, heap, n)
    <2>1. InTree(heap, NULL) = InTree(heap', NULL) \cup {n} /\ n \notin InTree(heap', NULL)
        BY <1>2, <1>6 DEF InTree
    <2>2. ASSUME NEW m \in InTree(heap', NULL)
          PROVE  /\ node[m].shift = node'[m].shift /\ node[m].parent = node'[m].parent
                 /\ node[m].offset = node'[m].offset /\ node[m].tags = node'[m].tags
                 /\ \A q \in Slots : \/ node[m].slots[q] = node'[m].slots[q]
                                     \/ node'[m].slots[q] = NULL /\ node[m].slots[q] = n
        <3>1. m \in Nodes \ {n}
            BY <2>1 DEF InTree
        <3>2. node'[m] = base[m]
            BY <1>6, <3>1
        <3> QED BY <1>3, <1>5, <1>7, <1>11, <3>1, <3>2 DEF StoreOf
    <2>3. u = t \/ (u = NULL /\ t = n)
        <3>1. CASE k = NULL
            BY <1>9, <1>11, <3>1
        <3>2. CASE k # NULL
            BY <1>9, <3>2
        <3> QED BY <3>1, <3>2
    <2> QED BY <1>8, <2>1, <2>2, <2>3 DEF Grafted
<1> SUFFICES ASSUME NEW i \in Indices PROVE Kept(i, Tags)
    OBVIOUS
<1>13. u = t => root'.tags = root.tags
    BY <1>2, <1>3, <1>9, <1>11
<1>14. Same(root'.tags, u, node', root.tags, t, node, i, Tags)
    BY <1>2, <1>10, <1>12, <1>13, GraftSame
<1> QED BY <1>14, SameBack DEF Kept, t, u

-----------------------------------------------------------------------------
(* A store to the slot of one index.                                       *)

\* The way to index j leads to slot o of node c, or to the top entry (c is NULL).
Stands(t, mem, c, o, j) ==
    IF c = NULL THEN j <= TopMax(t, mem) ELSE c \in Passed(t, mem, j) /\ Digit(mem, c, j) = o
Spot(t, mem, c, o) == IF c = NULL THEN t ELSE mem[c].slots[o]

\* A way that has left the nodes stays out of them.
LEMMA WalkStopped ==
    ASSUME NEW t, NEW mem, NEW i, NEW f, IsWalk(f, t, mem, i),
           NEW k \in 0 .. Height, f[k] \notin Nodes
    PROVE  \A j \in k .. Height : f[j] \notin Nodes
<1>1. Height \in Nat /\ \A j \in 1 .. Height : f[j] = NextEntry(mem, f[j - 1], i)
    BY SizeAssumption DEF IsWalk
<1> DEFINE h == Height - k
           S == {m \in 0 .. h : f[k + m] \notin Nodes}
<1>2. h \in Nat /\ 0 \in S
    BY <1>1
<1>3. ASSUME NEW m \in 0 .. (h - 1), m \in S PROVE m + 1 \in S
    <2>1. k + (m + 1) \in 1 .. Height /\ (k + (m + 1)) - 1 = k + m /\ m + 1 \in 0 .. h
        BY <1>1
    <2> QED BY <1>1, <1>3, <2>1 DEF NextEntry
<1>4. \A m \in 0 .. h : m \in S
    <2> HIDE DEF S, h
    <2> QED BY <1>2, <1>3, CountingUp
<1> SUFFICES ASSUME NEW j \in k .. Height PROVE f[j] \notin Nodes
    OBVIOUS
<1>5. j - k \in 0 .. h /\ k + (j - k) = j
    BY <1>1
<1> QED BY <1>4, <1>5

\* Only one node on the way has no node under the index.
LEMMA OneEnd ==
    ASSUME NEW t, NEW mem, NEW hp, NEW z, Tree(t, mem, hp, z), NEW i \in Indices,
           NEW m \in Passed(t, mem, i), NEW n \in Passed(t, mem, i),
           Under(mem, m, i) \notin Nodes, Under(mem, n, i) \notin Nodes
    PROVE  m = n
<1> DEFINE f == Way(t, mem, i)
<1>1. IsWalk(f, t, mem, i) /\ Height \in Nat
    BY WayIs, SizeAssumption
<1>2. PICK j \in 0 .. Height, k \in 0 .. Height : f[j] = m /\ f[k] = n /\ m \in Nodes /\ n \in Nodes
    BY DEF Passed
<1> HIDE DEF f
<1>3. ASSUME NEW a \in 0 .. Height, NEW b \in 0 .. Height, f[a] \in Nodes, f[b] \in Nodes,
             Under(mem, f[a], i) \notin Nodes
      PROVE  ~(a < b)
    <2> SUFFICES ASSUME a < b PROVE FALSE
        OBVIOUS
    <2>1. a + 1 \in 1 .. Height /\ a + 1 \in 0 .. Height /\ (a + 1) - 1 = a /\ b \in (a + 1) .. Height
        BY <1>1
    <2>2. f[a + 1] = Under(mem, f[a], i)
        BY <1>1, <1>3, <2>1 DEF IsWalk, NextEntry, Under, Digit
    <2> QED BY <1>1, <1>3, <2>1, <2>2, WalkStopped
<1>4. ~(j < k) /\ ~(k < j)
    BY <1>2, <1>3
<1> QED BY <1>2, <1>4

\* The index a slot belongs to finds what the slot holds, with its tags.
LEMMA PlaceOwn ==
    ASSUME NEW ts, NEW t, NEW mem, NEW hp, NEW z, Tree(t, mem, hp, z), NEW j \in Indices,
           NEW c \in Nodes \cup {NULL}, NEW o, Stands(t, mem, c, o, j),
           Spot(t, mem, c, o) \notin Nodes
    PROVE  LET e == Spot(t, mem, c, o) IN
           /\ e \in Items \cup {NULL} /\ Finds(t, mem, j) = e
           /\ \A x : Carries(ts, t, mem, j, x) <=>
                       e \in Items /\ IF c = NULL THEN x \in ts ELSE o \in mem[c].tags[x]
<1> DEFINE e == Spot(t, mem, c, o)
<1>1. /\ NULL \notin Nodes \cup Items /\ Nodes \cap Items = {}
      /\ Finds(t, mem, j) \in Items \cup {NULL}
      /\ \A y \in Items : Finds(t, mem, j) = y <=> Holds(t, mem, j, y)
    BY EntryAssumption, FindsHeld
<1>2. CASE c = NULL
    <2>1. Passed(t, mem, j) = {}
        BY <1>2, PassedLive DEF Spot
    <2>2. e = t /\ e \in Items \cup {NULL} /\ j <= TopMax(t, mem)
        BY <1>2 DEF Spot, Stands, Tree, Rooted, Entries
    <2>3. \A y \in Items : Holds(t, mem, j, y) <=> t = y
        BY <2>1, <2>2 DEF Holds
    <2>4. \A x : Carries(ts, t, mem, j, x) <=> t \in Items /\ x \in ts
        BY <2>1, <2>2 DEF Carries
    <2> HIDE DEF e
    <2> QED BY <1>1, <1>2, <2>2, <2>3, <2>4 DEF e
<1>3. CASE c # NULL
    <2>1. c \in Passed(t, mem, j) /\ Digit(mem, c, j) = o /\ Under(mem, c, j) = e
        BY <1>3 DEF Stands, Spot, Under
    <2>2. e \in Items \cup {NULL} /\ e \notin Nodes /\ t \notin Items /\ j <= TopMax(t, mem)
        BY <1>1, <2>1, PassedSlot, PassedLive DEF Passed
    <2>3. \A n \in Passed(t, mem, j) : Under(mem, n, j) \in Items => n = c
        BY <1>1, <2>1, <2>2, OneEnd
    <2> HIDE DEF e
    <2>4. \A y \in Items : Holds(t, mem, j, y) <=> e = y
        BY <2>1, <2>2, <2>3 DEF Holds
    <2>5. \A x : Carries(ts, t, mem, j, x) <=> e \in Items /\ o \in mem[c].tags[x]
        BY <2>1, <2>2, <2>3 DEF Carries
    <2> QED BY <1>1, <1>3, <2>2, <2>4, <2>5 DEF e
<1> QED BY <1>2, <1>3

\* new is mem after a store to slot o of node c, or to the root; tags may change
\* there and at slots that hold no item.
Refilled(t, mem, hp, u, new, c, o) ==
    /\ \A m \in InTree(hp, NULL) :
         /\ new[m].shift = mem[m].shift /\ new[m].parent = mem[m].parent
         /\ new[m].offset = mem[m].offset
         /\ \A q \in Slots : m # c \/ q # o =>
              /\ new[m].slots[q] = mem[m].slots[q]
              /\ mem[m].slots[q] \in Items =>
                   \A x \in Tags : q \in new[m].tags[x] <=> q \in mem[m].tags[x]
    /\ IF c = NULL THEN t \notin Nodes /\ u \notin Nodes ELSE t = u

LEMMA RefilledPassed ==
    ASSUME NEW t, NEW mem, NEW hp, Tree(t, mem, hp, NULL),
           NEW u, NEW new, Tree(u, new, hp, NULL),
           NEW c, NEW o, Refilled(t, mem, hp, u, new, c, o), NEW i \in Indices
    PROVE  /\ \A n \in InTree(hp, NULL) : n \in Passed(t, mem, i) <=> n \in Passed(u, new, i)
           /\ \A n \in InTree(hp, NULL) : Digit(new, n, i) = Digit(mem, n, i)
           /\ TopMax(u, new) = TopMax(t, mem)
<1> DEFINE S == InTree(hp, NULL)
<1>1. /\ \A m \in S : /\ new[m].shift = mem[m].shift /\ new[m].parent = mem[m].parent
                      /\ new[m].offset = mem[m].offset
      /\ \A m \in S : m \in Nodes /\ hp[m] = "live" /\ m # NULL
    BY DEF Refilled, InTree
<1>2. \A n \in S : Digit(new, n, i) = Digit(mem, n, i)
    BY <1>1 DEF Digit
<1>3. TopMax(u, new) = TopMax(t, mem)
    <2>1. CASE c = NULL
        BY <2>1 DEF Refilled, TopMax
    <2>2. CASE c # NULL
        <3>1. t = u /\ (t \in Nodes => t \in S)
            BY <2>2, EntryAssumption DEF Refilled, Tree, Rooted, InTree
        <3> QED BY <1>1, <3>1 DEF TopMax
    <2> QED BY <2>1, <2>2
<1>4. \A n \in S : mem[n].parent \in S \cup {NULL}
    BY ParentIs DEF InTree
<1>5. ASSUME NEW n \in S, mem[n].parent = NULL
      PROVE  n \in Passed(t, mem, i) <=> n \in Passed(u, new, i)
    <2>1. n \in Passed(t, mem, i) <=> i <= TopMax(t, mem)
        BY <1>1, <1>5, PassedUp
    <2>2. n \in Passed(u, new, i) <=> i <= TopMax(u, new)
        BY <1>1, <1>5, PassedUp
    <2> QED BY <1>3, <2>1, <2>2
<1>6. Alike(S, t, mem, hp, NULL, u, new, hp, NULL, i)
    <2> HIDE DEF S
    <2> QED BY <1>1, <1>4, <1>5 DEF Alike
<1>7. S \in SUBSET Nodes
    BY <1>1
<1>8. \A n \in S : n \in Passed(t, mem, i) <=> n \in Passed(u, new, i)
    <2> HIDE DEF S
    <2> QED BY <1>6, <1>7, PassedAlike
<1> QED BY <1>2, <1>3, <1>8

\* The store leaves every other index alone ...
LEMMA RefilledOthers ==
    ASSUME NEW ts, NEW t, NEW mem, NEW hp, Tree(t, mem, hp, NULL),
           NEW us, NEW u, NEW new, Tree(u, new, hp, NULL),
           NEW c \in Nodes \cup {NULL}, NEW o \in Slots, Refilled(t, mem, hp, u, new, c, o),
           NEW j \in Indices, Stands(t, mem, c, o, j), NEW i \in Indices, i # j
    PROVE  Same(ts, t, mem, us, u, new, i, Tags)
<1>1. /\ NULL \notin Nodes \cup Items /\ Nodes \cap Items = {}
      /\ i \in 0 .. MaxIndex /\ j \in 0 .. MaxIndex /\ MaxIndex \in Nat
    BY EntryAssumption, IndexAssumption
<1>2. CASE c = NULL
    <2>1. t \notin Nodes /\ u \notin Nodes /\ j <= TopMax(t, mem)
        BY <1>2 DEF Refilled, Stands
    <2>2. TopMax(t, mem) = 0 /\ TopMax(u, new) = 0
        BY <2>1 DEF TopMax
    <2>3. ~(i <= 0)
        BY <1>1, <2>1, <2>2
    <2> QED BY <2>2, <2>3 DEF Same, Holds, Carries, Passed
<1>3. CASE c # NULL
    <2> DEFINE S == InTree(hp, NULL)
    <2>1. t = u /\ c \in Passed(t, mem, j) /\ Digit(mem, c, j) = o /\ t \in Nodes
          /\ hp[c] = "live" /\ c \in S
        BY <1>3, PassedLive DEF Refilled, Stands, InTree
    <2>2. \A n \in S : /\ new[n].shift = mem[n].shift /\ new[n].parent = mem[n].parent
                       /\ new[n].offset = mem[n].offset /\ mem[n].parent \in S \cup {NULL}
        BY ParentIs DEF InTree, Refilled
    <2>3. ASSUME NEW n \in S, n \in Passed(t, mem, i)
          PROVE  SameSlot(mem, new, n, Digit(mem, n, i), Tags)
        <3> DEFINE d == Digit(mem, n, i)
        <3>1. d \in Slots
            BY <2>3, PassedSlot
        <3>2. CASE n # c \/ d # o
            BY <2>3, <3>1, <3>2 DEF Refilled, SameSlot
        <3>3. CASE n = c /\ d = o
            <4>1. mem[c].shift # 0 /\ new[c].shift # 0
                BY <2>1, <2>2, <2>3, <3>3, LeafOwn
            <4>2. mem[c].slots[o] \notin Items /\ new[c].slots[o] \notin Items
                BY <1>3, <2>1, <4>1 DEF Tree, Down
            <4> QED BY <3>3, <4>2 DEF SameSlot
        <3> QED BY <3>2, <3>3
    <2>4. t \notin Items /\ u \notin Items
        BY <1>1, <2>1
    <2>5. /\ S \subseteq InTree(hp, NULL) \cap InTree(hp, NULL)
          /\ \A m \in InTree(hp, NULL) \ S, q \in Slots : mem[m].slots[q] \notin Items
          /\ \A m \in InTree(hp, NULL) \ S, q \in Slots : new[m].slots[q] \notin Items
        OBVIOUS
    <2> HIDE DEF S
    <2> QED BY <2>2, <2>3, <2>4, <2>5, TreeSame
<1> QED BY <1>2, <1>3

\* ... and its own finds the new entry with the tags of the slot.
LEMMA RefilledOwn ==
    ASSUME NEW t, NEW mem, NEW hp, Tree(t, mem, hp, NULL),
           NEW u, NEW new, Tree(u, new, hp, NULL),
           NEW c \in Nodes \cup {NULL}, NEW o, Refilled(t, mem, hp, u, new, c, o),
           NEW j \in Indices, Stands(t, mem, c, o, j)
    PROVE  Stands(u, new, c, o, j)
<1>1. CASE c = NULL
    BY <1>1, RefilledPassed DEF Stands
<1>2. CASE c # NULL
    <2>1. c \in Passed(t, mem, j) /\ Digit(mem, c, j) = o
        BY <1>2 DEF Stands
    <2>2. c \in InTree(hp, NULL)
        BY <2>1, PassedLive DEF InTree
    <2> QED BY <1>2, <2>1, <2>2, RefilledPassed DEF Stands
<1> QED BY <1>1, <1>2

\* Slot o of node c is tagged x in memory mem; the root's tags are ts.
SlotTagged(ts, mem, c, o, x) == IF c = NULL THEN x \in ts ELSE o \in mem[c].tags[x]

\* A step of the writer that stores to the slot of index a.
LEMMA ChangeKeeps ==
    ASSUME StructInv, StructInv', Retiring = NULL, Retiring' = NULL, heap' = heap,
           NEW c \in Nodes \cup {NULL}, NEW o \in Slots,
           Refilled(root.rnode, node, heap, root'.rnode, node', c, o),
           NEW a \in Indices, Stands(root.rnode, node, c, o, a),
           NEW old, old = Spot(root.rnode, node, c, o), NEW e, e = Spot(root'.rnode, node', c, o)
    PROVE  /\ \A i \in Indices \ {a} : Kept(i, Tags)
           /\ old \notin Nodes =>
                /\ Value(a) = old
                /\ \A x \in Tags : Bit(a, x) <=> old \in Items /\ SlotTagged(root.tags, node, c, o, x)
           /\ e \notin Nodes =>
                /\ Value(a)' = e
                /\ \A x \in Tags : Bit(a, x)' <=> e \in Items /\ SlotTagged(root'.tags, node', c, o, x)
<1> DEFINE t == root.rnode
           u == root'.rnode
           new == node'
           ts == root.tags
           us == root'.tags
<1>1. Tree(t, node, heap, NULL) /\ Tree(u, new, heap, NULL)
    BY TreeNow
<1> HIDE DEF t, u, new, ts, us
<1>2. Refilled(t, node, heap, u, new, c, o) /\ Stands(t, node, c, o, a)
      /\ old = Spot(t, node, c, o) /\ e = Spot(u, new, c, o)
    BY DEF t, u, new
<1>3. Stands(u, new, c, o, a)
    BY <1>1, <1>2, RefilledOwn
<1>4. \A i \in Indices \ {a} : Same(ts, t, node, us, u, new, i, Tags)
    BY <1>1, <1>2, RefilledOthers
<1>5. old \notin Nodes =>
        /\ Finds(t, node, a) = old
        /\ \A x : Carries(ts, t, node, a, x) <=> old \in Items /\ SlotTagged(ts, node, c, o, x)
    <2> SUFFICES ASSUME old \notin Nodes
                 PROVE  /\ Finds(t, node, a) = old
                        /\ \A x : Carries(ts, t, node, a, x) <=> old \in Items /\ SlotTagged(ts, node, c, o, x)
        OBVIOUS
    <2>1. Spot(t, node, c, o) \notin Nodes
        BY <1>2
    <2>3. Tree(t, node, heap, NULL) /\ Stands(t, node, c, o, a)
        BY <1>1, <1>2
    <2>2. /\ Finds(t, node, a) = Spot(t, node, c, o)
          /\ \A x : Carries(ts, t, node, a, x) <=>
                      Spot(t, node, c, o) \in Items /\ IF c = NULL THEN x \in ts ELSE o \in node[c].tags[x]
        BY <2>1, <2>3, PlaceOwn, SMTT(30)
    <2> QED BY <1>2, <2>2 DEF SlotTagged
<1>6. e \notin Nodes =>
        /\ Finds(u, new, a) = e
        /\ \A x : Carries(us, u, new, a, x) <=> e \in Items /\ SlotTagged(us, new, c, o, x)
    <2> SUFFICES ASSUME e \notin Nodes
                 PROVE  /\ Finds(u, new, a) = e
                        /\ \A x : Carries(us, u, new, a, x) <=> e \in Items /\ SlotTagged(us, new, c, o, x)
        OBVIOUS
    <2>1. Spot(u, new, c, o) \notin Nodes
        BY <1>2
    <2>2. /\ Finds(u, new, a) = Spot(u, new, c, o)
          /\ \A x : Carries(us, u, new, a, x) <=>
                      Spot(u, new, c, o) \in Items /\ IF c = NULL THEN x \in us ELSE o \in new[c].tags[x]
        BY <1>1, <1>3, <2>1, PlaceOwn
    <2> QED BY <1>2, <2>2 DEF SlotTagged
<1>7. \A i \in Indices \ {a} : Kept(i, Tags)
    BY <1>4 DEF Kept, t, u, new, ts, us
<1>8. old \notin Nodes =>
        /\ Value(a) = old
        /\ \A x \in Tags : Bit(a, x) <=> old \in Items /\ SlotTagged(root.tags, node, c, o, x)
    BY <1>5, Finding DEF t, ts
<1>9. e \notin Nodes =>
        /\ Value(a)' = e
        /\ \A x \in Tags : Bit(a, x)' <=> e \in Items /\ SlotTagged(root'.tags, node', c, o, x)
    BY <1>6, Finding DEF u, us, new
<1> QED BY <1>7, <1>8, <1>9

\* The tags of node base are those of node, but for the slots without an item
\* and for slot o of node c.
TagsBut(base, c, o) ==
    \A m \in Nodes, q \in Slots :
      heap[m] = "live" /\ (m # c \/ q # o) /\ node[m].slots[q] \in Items =>
        \A x \in Tags : q \in base[m].tags[x] <=> q \in node[m].tags[x]

\* The store *slot = e and its accounting, tags (base's) included.
LEMMA StoreKeeps ==
    ASSUME StructInv, StructInv', w.pc \in {"create", "find"}, w'.pc # "retire", heap' = heap,
           NEW base \in Memory, SameShape(base, node), TagsBut(base, w.cur, w.off),
           AtSlot \notin Nodes, NEW e \in Items \cup {NULL}, NEW dc \in Int, NEW dx \in Int,
           node' = Stored(base, w.cur, w.off, e, dc, dx),
           root'.rnode = IF w.cur = NULL THEN e ELSE root.rnode,
           NEW a \in Indices, Stands(root.rnode, node, w.cur, w.off, a)
    PROVE  /\ \A i \in Indices \ {a} : Kept(i, Tags)
           /\ Value(a) = AtSlot /\ Value(a)' = e
           /\ \A x \in Tags : /\ Bit(a, x) <=> AtSlot \in Items /\ SlotTagged(root.tags, node, w.cur, w.off, x)
                              /\ Bit(a, x)' <=> e \in Items /\ SlotTagged(root'.tags, base, w.cur, w.off, x)
<1> DEFINE c == w.cur
           o == w.off
           t == root.rnode
           u == root'.rnode
<1>1. /\ c \in Nodes \cup {NULL} /\ o \in Slots /\ e \in Entries /\ e \notin Nodes
      /\ node \in Memory /\ NULL \notin Nodes /\ Nodes \cap Items = {}
      /\ Retiring = NULL /\ Retiring' = NULL
    BY WriterFields, SameMemory, EntryAssumption DEF StructInv, Entries, Retiring
<1>2. AtSlot = Spot(t, node, c, o)
    BY DEF AtSlot, Spot
<1> HIDE DEF c, o, t, u
<1>3. node' = Stored(base, c, o, e, dc, dx) /\ TagsBut(base, c, o)
      /\ u = (IF c = NULL THEN e ELSE t)
    BY DEF c, o, t, u
<1>4. StoreOf(node', node, c, o, e, dc, dx)
    BY <1>1, <1>3, StoredStores
<1>5. \A m \in Nodes : node'[m].tags = base[m].tags
    BY <1>1, <1>3, StoredTags
<1>6. Refilled(t, node, heap, u, node', c, o)
    <2>1. ASSUME NEW m \in InTree(heap, NULL)
          PROVE  /\ node'[m].shift = node[m].shift /\ node'[m].parent = node[m].parent
                 /\ node'[m].offset = node[m].offset
                 /\ \A q \in Slots : m # c \/ q # o => node'[m].slots[q] = node[m].slots[q]
        BY <1>1, <1>4 DEF StoreOf, InTree
    <2>2. ASSUME NEW m \in InTree(heap, NULL), NEW q \in Slots, m # c \/ q # o,
                 node[m].slots[q] \in Items
          PROVE  \A x \in Tags : q \in node'[m].tags[x] <=> q \in node[m].tags[x]
        BY <1>3, <1>5, <2>2 DEF TagsBut, InTree
    <2>3. IF c = NULL THEN t \notin Nodes /\ u \notin Nodes ELSE t = u
        BY <1>1, <1>2, <1>3 DEF Spot
    <2> QED BY <2>1, <2>2, <2>3 DEF Refilled
<1>7. Spot(u, node', c, o) = e
    BY <1>1, <1>3, <1>4 DEF Spot, StoreOf
<1>8. \A x : SlotTagged(root'.tags, node', c, o, x) <=> SlotTagged(root'.tags, base, c, o, x)
    BY <1>1, <1>5 DEF SlotTagged
<1> DEFINE old == AtSlot
<1>9. /\ Refilled(root.rnode, node, heap, root'.rnode, node', c, o)
      /\ Stands(root.rnode, node, c, o, a)
      /\ old = Spot(root.rnode, node, c, o) /\ e = Spot(root'.rnode, node', c, o) /\ old \notin Nodes
    BY <1>2, <1>6, <1>7 DEF t, u, c, o
<1> HIDE DEF old
<1>10. /\ \A i \in Indices \ {a} : Kept(i, Tags)
       /\ Value(a) = old
       /\ \A x \in Tags : Bit(a, x) <=> old \in Items /\ SlotTagged(root.tags, node, c, o, x)
       /\ Value(a)' = e
       /\ \A x \in Tags : Bit(a, x)' <=> e \in Items /\ SlotTagged(root'.tags, node', c, o, x)
    BY <1>1, <1>9, ChangeKeeps
<1> QED BY <1>8, <1>10 DEF old, c, o

\* node_tag_clear leaves the tags of the other items alone.
LEMMA ClearKeeps ==
    ASSUME StructInv, w.pc = "find", NEW ts \in SUBSET Tags
    PROVE  TagsBut(TagsCleared(w.cur, w.off, ts), w.cur, w.off)
<1> DEFINE c == w.cur
           o == w.off
           f == Climb(c, o)
           new == TagsCleared(c, o, ts)
<1>1. /\ c \in Nodes \cup {NULL} /\ o \in Slots /\ TypeOK /\ node \in Memory
      /\ NULL \notin Nodes /\ Nodes \cap Items = {} /\ Height \in Nat \ {0}
      /\ (c # NULL => heap[c] = "live") /\ Shape(root.rnode, node, heap, NULL)
    BY WriterFields, SameMemory, EntryAssumption, SizeAssumption
       DEF StructInv, TypeInv, CursorInv, ShapeInv, Retiring
<1>2. IsClimb(f, c, o)
    BY <1>1, ClimbIs
<1>3. \A x \in Tags : ClearedUpTo(c, o, x) = Levels(f, BitsOf(node, x))
    BY <1>1, ClearedUpToIs
<1>4. \A m \in Nodes, x \in Tags :
        \A q \in Slots : q \in new[m].tags[x] <=>
           /\ q \in node[m].tags[x]
           /\ x \in ts => \A k \in ClearedUpTo(c, o, x) : f[k].n = m => f[k].o # q
    BY <1>1, ClearedFields
<1> HIDE DEF c, o, f, new
<1>5. ASSUME NEW m \in Nodes, NEW q \in Slots, m # c \/ q # o, node[m].slots[q] \in Items,
             NEW x \in Tags, NEW k \in ClearedUpTo(c, o, x)
      PROVE  ~(f[k].n = m /\ f[k].o = q)
    <2> SUFFICES ASSUME f[k].n = m, f[k].o = q PROVE FALSE
        OBVIOUS
    <2>1. k \in Levels(f, BitsOf(node, x)) /\ k \in 0 .. Height
        BY <1>3, LevelsAre
    <2>2. f[0].n = c /\ f[0].o = o
        BY <1>2 DEF IsClimb
    <2>3. k # 0
        BY <1>5, <2>2
    <2>4. 0 < k /\ 0 \in 0 .. Height /\ k - 1 \in 0 .. (Height - 1) /\ (k - 1) + 1 = k /\ k - 1 < k
          /\ k - 1 \in 0 .. Height
        BY <1>1, <2>1, <2>3
    <2>5. f[k - 1].n # NULL /\ f[0].n # NULL
        BY <2>1, <2>4, LevelsAre
    <2>6. f[k - 1].n \in Nodes
        BY <1>2, <2>4, <2>5 DEF IsClimb, SlotPlaces
    <2>7. c \in Nodes /\ heap[c] = "live"
        BY <1>1, <2>2, <2>5
    <2>8. node[f[k].n].slots[f[k].o] = f[k - 1].n
        <3>1. f[(k - 1) + 1].n # NULL
            BY <1>1, <1>5, <2>4
        <3>2. node[f[(k - 1) + 1].n].slots[f[(k - 1) + 1].o] = f[k - 1].n
            BY <1>1, <1>2, <2>4, <2>6, <2>7, <3>1, ClimbUp
        <3> QED BY <2>4, <3>2
    <2> QED BY <1>1, <1>5, <2>6, <2>8
<1>6. TagsBut(new, c, o)
    BY <1>4, <1>5 DEF TagsBut
<1> QED BY <1>6 DEF new, c, o

-----------------------------------------------------------------------------
(* The inductive invariant: in the middle of a call every index finds what *)
(* it found when the call began, and its tags are the bits it had then,    *)
(* but for the call's own index once the call's one store has been made.   *)

\* What a deletion or replacement leaves behind at its index.
Left(a) == IF a.kind = "delete" THEN NULL ELSE a.item
\* The store of a has been made to the slot of i; the tree is being pruned.
Changed(a, i) == w.pc \in Pruning /\ i = a.index

ValuesHold(a) ==
    \A i \in Indices : Value(i) = IF Changed(a, i) THEN Left(a) ELSE before.map[i]
\* radix_tree_tag_set may have set the bit at the item before it gets there.
BitsHold(a) ==
    \A i \in Indices, x \in Tags :
      IF Changed(a, i) /\ a.kind = "delete" THEN ~Bit(i, x)
      ELSE \/ w.pc = "find" /\ a.kind = "tag_set" /\ i = a.index /\ x = a.tag
           \/ Bit(i, x) <=> i \in before.tagged[x]
\* What delete and replace return.
ResultHolds(a) ==
    w.pc \in Pruning =>
      /\ a.kind \in {"delete", "replace"} /\ before.map[a.index] # NULL
      /\ a.kind = "delete" => w.res = before.map[a.index] /\ a.item \in {NULL, w.res}
      /\ a.kind = "replace" => w.res = "ok"
\* Where an insertion goes down to.
InsertHolds(a) ==
    /\ w.pc = "extend" => a.index <= ShiftMaxIndex(w.top) /\ before.map[a.index] = NULL
    /\ w.pc = "create" =>
         IF w.cur = NULL /\ root.rnode = NULL
         THEN IF w.shift = 0 THEN a.index = 0 ELSE a.index <= ShiftMaxIndex(w.shift - 1)
         ELSE Stands(root.rnode, node, w.cur, w.off, a.index)
AheadSet(a) ==
    w.pc = "find" /\ a.kind = "tag_set" /\ w.cur # NULL => w.off \in node[w.cur].tags[a.tag]

BeforeType == before \in [map : [Indices -> Items \cup {NULL}], tagged : [Tags -> SUBSET Indices]]
MapInv ==
    /\ BeforeType
    /\ \A a \in Calls :
         w.op = a => ValuesHold(a) /\ BitsHold(a) /\ ResultHolds(a) /\ InsertHolds(a) /\ AheadSet(a)

-----------------------------------------------------------------------------
(* Where the writer stands.                                                *)

LEMMA FindStands ==
    ASSUME StructInv, PlaceInv, w.pc = "find", NEW a \in Calls, w.op = a
    PROVE  Stands(root.rnode, node, w.cur, w.off, a.index) /\ a.kind \in Asking /\ Callable(a)
<1>1. /\ a.index <= RootMaxIndex /\ a.kind \in Asking /\ Callable(a)
      /\ \E k \in 0 .. Height : OnWay(a.index, k)
    BY DEF PlaceInv
<1>2. PICK k \in 0 .. Height : OnWay(a.index, k)
    BY <1>1
<1>3. CASE w.cur = NULL
    BY <1>1, <1>3, Finding DEF Stands
<1>4. CASE w.cur # NULL
    <2>1. k # 0 /\ Walk(a.index)[k - 1] = w.cur /\ w.off = Digit(node, w.cur, a.index)
        BY <1>2, <1>4 DEF OnWay, Digit
    <2>2. k - 1 \in 0 .. Height /\ w.cur \in Nodes
        BY <1>4, <2>1, WriterFields, SizeAssumption DEF StructInv
    <2>3. w.cur \in Passed(root.rnode, node, a.index)
        BY <1>1, <2>1, <2>2, Finding DEF Passed
    <2>4. Digit(node, w.cur, a.index) = w.off
        BY <2>1
    <2>5. Stands(root.rnode, node, w.cur, w.off, a.index)
        BY <1>4, <2>3, <2>4, Zenon DEF Stands
    <2> QED BY <1>1, <2>5
<1> QED BY <1>1, <1>3, <1>4

\* One turn further down.
LEMMA StandsDown ==
    ASSUME NEW t, NEW mem, NEW hp, Tree(t, mem, hp, NULL), NEW i \in Indices,
           NEW c \in Nodes \cup {NULL}, NEW o \in Slots, c # NULL => hp[c] = "live",
           Stands(t, mem, c, o, i), NEW n \in Nodes, n = Spot(t, mem, c, o)
    PROVE  Stands(t, mem, n, Digit(mem, n, i), i)
<1>1. NULL \notin Nodes
    BY EntryAssumption
<1>2. CASE c = NULL
    <2>1. n = t /\ hp[n] = "live" /\ mem[n].parent = NULL /\ i <= TopMax(t, mem)
        BY <1>2 DEF Spot, Stands, Tree, Rooted
    <2> QED BY <1>1, <2>1, PassedUp DEF Stands
<1>3. CASE c # NULL
    <2>1. c \in Nodes /\ hp[c] = "live" /\ n = mem[c].slots[o] /\ c \in Passed(t, mem, i)
          /\ Digit(mem, c, i) = o
        BY <1>3 DEF Spot, Stands
    <2>2. hp[n] = "live" /\ mem[n].parent = c /\ mem[n].offset = o
        BY <1>1, <2>1 DEF Tree, Down
    <2> QED BY <1>1, <1>3, <2>1, <2>2, PassedUp DEF Stands
<1> QED BY <1>2, <1>3

\* Steps that keep what every index finds.
LEMMA AllKept ==
    ASSUME StructInv, StructInv', MapInv, NEW a \in Calls, w.op = a, w'.op = a, before' = before,
           \A i \in Indices : Kept(i, Tags), w'.pc \in Pruning <=> w.pc \in Pruning,
           w.pc = "find" => w'.pc = "find"
    PROVE  BeforeType' /\ ValuesHold(a)' /\ BitsHold(a)'
<1>1. BeforeType /\ ValuesHold(a) /\ BitsHold(a)
    BY DEF MapInv
<1>2. \A i \in Indices : Value(i)' = Value(i) /\ \A x \in Tags : Bit(i, x)' <=> Bit(i, x)
    BY KeptIs
<1>3. \A i : Changed(a, i)' <=> Changed(a, i)
    BY DEF Changed
<1>4. ValuesHold(a)'
    BY <1>1, <1>2, <1>3 DEF ValuesHold
<1>5. BitsHold(a)'
    BY <1>1, <1>2, <1>3 DEF BitsHold
<1> QED BY <1>1, <1>4, <1>5 DEF BeforeType

\* A call in progress is the one there is.
LEMMA OneCall ==
    ASSUME NEW a \in Calls, w'.op = a, BeforeType', ValuesHold(a)', BitsHold(a)',
           ResultHolds(a)', InsertHolds(a)', AheadSet(a)'
    PROVE  MapInv'
BY DEF MapInv

LEMMA NoCall ==
    ASSUME TypeInv', w'.pc = "idle", BeforeType' PROVE MapInv'
<1>1. w'.op = NULL
    BY DEF TypeInv, CallInv
<1> QED BY <1>1, CallAssumption DEF MapInv

\* The steps that prune.
LEMMA PruningMap ==
    ASSUME StructInv, StructInv', TagsInv, MapInv, Prune, before' = before, w'.pc # "idle"
    PROVE  MapInv' /\ w'.op = w.op
<1>1. w \in WriterType /\ w.pc \in {"prune", "shrink", "retire"}
    BY DEF StructInv, TypeInv, TypeOK, Prune, PruneEnd, PruneNode, ShrinkEnd, ShrinkRoot, ShrinkRetire
<1>2. w'.pc \in {"prune", "shrink", "retire"} /\ w'.op = w.op /\ w'.res = w.res
      /\ \A i \in Indices : Kept(i, Tags)
    <2>1. CASE PruneEnd
        <3>1. w' = [w EXCEPT !.pc = "shrink"] /\ UNCHANGED <<root, node>>
            BY <2>1 DEF PruneEnd, Goto, Return, Idle, tree
        <3> QED BY <1>1, <3>1, StillKept DEF WriterType
    <2>2. CASE PruneNode
        <3>1. w' = [w EXCEPT !.cur = node[w.cur].parent] /\ w.pc = "prune"
            BY <2>2 DEF PruneNode, Goto, Return, Idle
        <3>2. w'.pc = "prune" /\ w'.op = w.op /\ w'.res = w.res
            BY <1>1, <3>1 DEF WriterType
        <3> QED BY <2>2, <3>2, PruneNodeKept
    <2>3. CASE ShrinkEnd
        BY <2>3 DEF ShrinkEnd, Return, Idle
    <2>4. CASE ShrinkRoot
        <3>1. w' = [w EXCEPT !.pc = "retire", !.cur = root.rnode]
            BY <2>4 DEF ShrinkRoot, Goto
        <3>2. w'.pc = "retire" /\ w'.op = w.op /\ w'.res = w.res
            BY <1>1, <3>1 DEF WriterType
        <3> QED BY <2>4, <3>2, ShrinkRootKept
    <2>5. CASE ShrinkRetire
        <3>1. w' = [w EXCEPT !.pc = "shrink"]
            BY <2>5 DEF ShrinkRetire, Goto
        <3>2. w'.pc = "shrink" /\ w'.op = w.op /\ w'.res = w.res
            BY <1>1, <3>1 DEF WriterType
        <3> QED BY <2>5, <3>2, ShrinkRetireKept
    <2> QED BY <2>1, <2>2, <2>3, <2>4, <2>5 DEF Prune
<1>3. w.op \in Calls
    BY <1>1, WriterFields DEF StructInv, TypeInv, CallInv
<1>4. PICK a \in Calls : w.op = a
    BY <1>3
<1>5. BeforeType' /\ ValuesHold(a)' /\ BitsHold(a)'
    BY <1>1, <1>2, <1>4, AllKept DEF Pruning
<1>6. ResultHolds(a)'
    <2>1. ResultHolds(a)
        BY <1>4 DEF MapInv
    <2> QED BY <1>1, <1>2, <2>1 DEF ResultHolds, Pruning
<1>7. InsertHolds(a)' /\ AheadSet(a)'
    BY <1>2 DEF InsertHolds, AheadSet
<1> QED BY <1>2, <1>4, <1>5, <1>6, <1>7, OneCall

-----------------------------------------------------------------------------
(* The steps of an insertion up to its store.                              *)

\* The insertion goes on: what its place says, and the rest.
LEMMA InsertGoes ==
    ASSUME StructInv, StructInv', MapInv, NEW a \in Calls, w.op = a, w'.op = a, before' = before,
           w.pc \in {"insert", "extend", "create"}, w'.pc \in {"extend", "create"},
           \A i \in Indices : Kept(i, Tags), InsertHolds(a)'
    PROVE  MapInv'
<1>1. BeforeType' /\ ValuesHold(a)' /\ BitsHold(a)'
    BY AllKept DEF Pruning
<1>2. ResultHolds(a)' /\ AheadSet(a)'
    BY DEF ResultHolds, AheadSet, Pruning
<1> QED BY <1>1, <1>2, OneCall

LEMMA InsertStartMap ==
    ASSUME StructInv, StructInv', MapInv, InsertStart, before' = before PROVE MapInv' /\ w'.op = w.op
<1>1. /\ w.pc = "insert" /\ w \in WriterType /\ w.cur = NULL /\ UNCHANGED <<root, node>>
      /\ w.op \in Calls /\ w.op.index \in Indices /\ NULL \notin Nodes
      /\ RootMaxIndex \in 0 .. MaxIndex /\ MaxIndex \in Nat
    BY InsertCall, RootMaxIndexType, EntryAssumption, IndexAssumption
       DEF InsertStart, StructInv, TypeInv, TypeOK, CursorInv, tree
<1>2. PICK a \in Calls : w.op = a
    BY <1>1
<1>6. a.index \in Indices /\ a.index \in 0 .. MaxIndex /\ a.index \in Nat
    <2>1. a.index \in Indices
        BY <1>1, <1>2
    <2>2. \A i \in Indices : i \in 0 .. MaxIndex /\ i \in Nat
        BY IndexAssumption
    <2> QED BY <2>1, <2>2
<1>3. /\ RootMaxIndex = TopMax(root.rnode, node)
      /\ a.index > RootMaxIndex => before.map[a.index] = NULL
    <2>1. Value(a.index) = before.map[a.index]
        BY <1>1, <1>2 DEF MapInv, ValuesHold, Changed, Pruning
    <2>2. a.index > RootMaxIndex => Value(a.index) = NULL
        BY DEF Value
    <2> QED BY <2>1, <2>2, Finding
<1>4. CASE a.index <= RootMaxIndex
    <2>1. w' = [w EXCEPT !.pc = "create", !.shift = RootShift]
        BY <1>2, <1>4 DEF InsertStart, Goto
    <2>2. w'.pc = "create" /\ w'.cur = NULL /\ w'.shift = RootShift /\ w'.op = a
        BY <1>1, <1>2, <2>1 DEF WriterType
    <2>3. root.rnode = NULL => w'.shift = 0 /\ a.index = 0
        <3>1. root.rnode = NULL => RootShift = 0 /\ RootMaxIndex = 0
            BY <1>1 DEF RootShift, RootMaxIndex
        <3>2. a.index \in Nat
            BY <1>6
        <3> QED BY <1>4, <2>2, <3>1, <3>2
    <2>4. InsertHolds(a)'
        BY <1>1, <1>3, <1>4, <2>2, <2>3 DEF InsertHolds, Stands
    <2> QED BY <1>1, <1>2, <2>2, <2>4, StillKept, InsertGoes
<1>5. CASE ~(a.index <= RootMaxIndex)
    <2>1. a.index > RootMaxIndex
        BY <1>1, <1>5, <1>6
    <2>2. PICK m \in Shifts :
            /\ a.index <= ShiftMaxIndex(m)
            /\ w' = IF root.rnode = NULL
                    THEN [w EXCEPT !.pc = "create", !.shift = m + 1]
                    ELSE [w EXCEPT !.pc = "extend", !.shift = RootShift, !.top = m]
        BY <1>2, <1>5 DEF InsertStart, Goto, Fits
    <2>3. CASE root.rnode = NULL
        <3>1. w'.pc = "create" /\ w'.cur = NULL /\ w'.shift = m + 1 /\ w'.op = a
            BY <1>1, <1>2, <2>2, <2>3 DEF WriterType
        <3>2. w'.shift # 0 /\ w'.shift - 1 = m
            BY <3>1 DEF Shifts
        <3>3. InsertHolds(a)'
            BY <1>1, <2>2, <2>3, <3>1, <3>2 DEF InsertHolds
        <3> QED BY <1>1, <1>2, <3>1, <3>3, StillKept, InsertGoes
    <2>4. CASE root.rnode # NULL
        <3>1. w'.pc = "extend" /\ w'.top = m /\ w'.op = a
            BY <1>1, <1>2, <2>2, <2>4 DEF WriterType
        <3>2. InsertHolds(a)'
            BY <1>3, <2>1, <2>2, <3>1 DEF InsertHolds
        <3> QED BY <1>1, <1>2, <3>1, <3>2, StillKept, InsertGoes
    <2> QED BY <2>3, <2>4
<1> QED BY <1>4, <1>5

LEMMA ExtendMap ==
    ASSUME StructInv, StructInv', MapInv, Extend, before' = before, Leftovers = {NULL}
    PROVE  MapInv' /\ w'.op = w.op
<1>1. /\ w.pc = "extend" /\ w \in WriterType /\ w.cur = NULL /\ w.op \in Calls
      /\ w.shift \in Int /\ w.top \in Int /\ w.shift <= w.top /\ NULL \notin Nodes
      /\ w.op.index \in Indices
    BY InsertCall, WriterFields, EntryAssumption, SizeAssumption
       DEF Extend, StructInv, TypeInv, CallInv, TypeOK, CursorInv, Shifts
<1>2. PICK a \in Calls : w.op = a
    BY <1>1
<1>3. w' = [w EXCEPT !.pc = IF w.shift < w.top THEN "extend" ELSE "create", !.shift = @ + 1]
    BY DEF Extend, Goto
<1>4. /\ w'.op = a /\ w'.cur = NULL /\ w'.top = w.top
      /\ w'.pc = IF w.shift < w.top THEN "extend" ELSE "create"
    BY <1>1, <1>2, <1>3 DEF WriterType
<1>5. /\ \A i \in Indices : Kept(i, Tags)
      /\ RootMaxIndex' = ShiftMaxIndex(w.shift) /\ root'.rnode \in Nodes
      /\ RootMaxIndex' = TopMax(root'.rnode, node')
    BY ExtendKept, Finding
<1>6. InsertHolds(a)
    BY <1>2 DEF MapInv
<1>7. InsertHolds(a)'
    <2>1. CASE w.shift < w.top
        BY <1>1, <1>4, <1>6, <2>1 DEF InsertHolds
    <2>2. CASE ~(w.shift < w.top)
        <3>1. w.shift = w.top
            BY <1>1, <2>2
        <3>2. a.index <= TopMax(root'.rnode, node')
            BY <1>1, <1>5, <1>6, <3>1 DEF InsertHolds
        <3> QED BY <1>1, <1>4, <1>5, <2>2, <3>2 DEF InsertHolds, Stands
    <2> QED BY <2>1, <2>2
<1>8. w'.pc \in {"extend", "create"}
    BY <1>4
<1> QED BY <1>1, <1>2, <1>4, <1>5, <1>7, <1>8, InsertGoes

LEMMA DescendMap ==
    ASSUME StructInv, StructInv', MapInv, Descend, before' = before PROVE MapInv' /\ w'.op = w.op
<1>1. /\ w.pc = "create" /\ w \in WriterType /\ w.op \in Calls /\ w.op.index \in Indices
      /\ w.cur \in Nodes \cup {NULL} /\ w.off \in Slots /\ (w.cur # NULL => heap[w.cur] = "live")
      /\ AtSlot \in Nodes /\ NULL \notin Nodes /\ UNCHANGED <<root, node>>
      /\ w' = [w EXCEPT !.shift = @ - 1, !.cur = AtSlot,
                        !.off = Offset(node[AtSlot].shift, w.op.index)]
    BY InsertCall, WriterFields, EntryAssumption
       DEF Descend, Goto, StructInv, TypeInv, TypeOK, CursorInv, tree
<1>2. PICK a \in Calls : w.op = a
    BY <1>1
<1>3. w'.pc = "create" /\ w'.op = a /\ w'.cur = AtSlot /\ w'.off = Digit(node, AtSlot, a.index)
    BY <1>1, <1>2 DEF WriterType, Digit
<1>4. Stands(root.rnode, node, w.cur, w.off, a.index)
    <2>1. InsertHolds(a)
        BY <1>2 DEF MapInv
    <2> QED BY <1>1, <2>1 DEF InsertHolds, AtSlot
<1>5. AtSlot = Spot(root.rnode, node, w.cur, w.off) /\ Tree(root.rnode, node, heap, NULL)
    BY <1>1, TreeNow DEF AtSlot, Spot, Retiring
<1> DEFINE n == AtSlot
           c == w.cur
           o == w.off
<1>6. Stands(root.rnode, node, n, Digit(node, n, a.index), a.index)
    <2>1. /\ c \in Nodes \cup {NULL} /\ o \in Slots /\ (c # NULL => heap[c] = "live")
          /\ n = Spot(root.rnode, node, c, o) /\ Stands(root.rnode, node, c, o, a.index)
          /\ n \in Nodes /\ a.index \in Indices
        BY <1>1, <1>2, <1>4, <1>5
    <2> HIDE DEF n, c, o
    <2> QED BY <1>5, <2>1, StandsDown
<1>7. InsertHolds(a)'
    BY <1>1, <1>3, <1>6 DEF InsertHolds
<1> QED BY <1>1, <1>2, <1>3, <1>7, StillKept, InsertGoes

LEMMA CreateChildMap ==
    ASSUME StructInv, StructInv', MapInv, CreateChild, before' = before, Leftovers = {NULL}
    PROVE  MapInv' /\ w'.op = w.op
<1>1. /\ w.pc = "create" /\ w.op \in Calls /\ w.op.index \in Indices /\ w.shift > 0
      /\ w.cur \in Nodes \cup {NULL} /\ NULL \notin Nodes /\ w.shift \in Int
      /\ (w.cur # NULL => w.shift = node[w.cur].shift)
    BY InsertCall, WriterFields, EntryAssumption, SizeAssumption
       DEF CreateChild, StructInv, TypeInv, TypeOK, CursorInv
<1>2. PICK a \in Calls : w.op = a
    BY <1>1
<1> DEFINE n == w'.cur
           c == w.cur
           u == root'.rnode
           t == root.rnode
<1>3. /\ \A i \in Indices : Kept(i, Tags)
      /\ n \in Nodes /\ w'.off = Digit(node', n, a.index)
      /\ w'.op = a /\ w'.pc = "create"
      /\ node'[n].shift = w.shift - 1 /\ node'[n].parent = c /\ node'[n].offset = w.off
      /\ c = NULL => t = NULL /\ u = n
      /\ c \in Passed(t, node, a.index) => c \in Passed(u, node', a.index)
    BY <1>1, <1>2, CreateChildKept
<1>4. Tree(u, node', heap', NULL) /\ heap'[n] = "live"
    <2>1. Retiring' = NULL /\ heap'[w'.cur] = "live"
        BY <1>1, <1>3 DEF Retiring, StructInv, CursorInv
    <2> QED BY <2>1, TreeNow
<1>5. InsertHolds(a)
    BY <1>2 DEF MapInv
<1>6. n \in Passed(u, node', a.index)
    <2>1. n # NULL /\ a.index \in Indices
        BY <1>1, <1>2, <1>3
    <2> HIDE DEF n, u, c, t
    <2>2. CASE c = NULL
        <3>1. a.index <= TopMax(u, node')
            <4>1. a.index <= ShiftMaxIndex(w.shift - 1)
                BY <1>1, <1>3, <1>5, <2>2 DEF InsertHolds, c, t
            <4> QED BY <1>3, <2>2, <4>1 DEF TopMax
        <3> QED BY <1>3, <1>4, <2>1, <2>2, <3>1, PassedUp
    <2>3. CASE c # NULL
        <3>1. c \in Passed(t, node, a.index) /\ Digit(node, c, a.index) = w.off
            BY <1>5, <1>1, <2>3 DEF InsertHolds, Stands, c, t
        <3>2. c \in Passed(u, node', a.index)
            BY <1>3, <3>1
        <3>3. node'[n].shift + 1 = node'[c].shift
            BY <1>3, <1>4, <2>1, <2>3, ParentIs
        <3>4. node'[c].shift = node[c].shift
            BY <1>1, <1>3, <2>3, <3>3 DEF c
        <3>5. Digit(node', c, a.index) = node'[n].offset
            BY <1>3, <3>1, <3>4 DEF Digit
        <3> QED BY <1>3, <1>4, <2>1, <2>3, <3>2, <3>5, PassedUp
    <2> QED BY <2>2, <2>3
<1>7. InsertHolds(a)'
    <2>1. Stands(root'.rnode, node', w'.cur, w'.off, a.index) /\ w'.cur # NULL /\ w'.pc = "create"
        BY <1>1, <1>3, <1>6 DEF Stands
    <2> QED BY <2>1 DEF InsertHolds
<1> QED BY <1>1, <1>2, <1>3, <1>7, InsertGoes

-----------------------------------------------------------------------------
(* The way down of a lookup.                                               *)

LEMMA FindStartMap ==
    ASSUME StructInv, StructInv', MapInv, FindStart, before' = before, w'.pc # "idle"
    PROVE  MapInv' /\ w'.op = w.op
<1>1. /\ w.pc \in Asking /\ w \in WriterType /\ w.cur = NULL /\ UNCHANGED <<root, node>>
      /\ w.op \in Calls
    BY FindCall DEF FindStart, StructInv, TypeInv, TypeOK, CursorInv, tree, Asking
<1>2. PICK a \in Calls : w.op = a
    BY <1>1
<1>3. w' = [w EXCEPT !.pc = "find"]
    BY DEF FindStart, Goto, Return, Idle
<1>4. w'.pc = "find" /\ w'.cur = NULL /\ w'.op = a
    BY <1>1, <1>2, <1>3 DEF WriterType
<1>5. BeforeType' /\ ValuesHold(a)' /\ BitsHold(a)'
    BY <1>1, <1>2, <1>4, StillKept, AllKept DEF Pruning, Asking
<1>6. ResultHolds(a)' /\ InsertHolds(a)' /\ AheadSet(a)'
    BY <1>4 DEF ResultHolds, InsertHolds, AheadSet, Pruning
<1> QED BY <1>2, <1>4, <1>5, <1>6, OneCall

\* A step that changes nothing in the tree but tags.
LEMMA SlotsKept ==
    ASSUME StructInv, StructInv', Retiring = NULL, Retiring' = NULL, UNCHANGED <<root, heap>>,
           NEW X \in SUBSET Tags,
           \A m \in Nodes : /\ node'[m].shift = node[m].shift /\ node'[m].parent = node[m].parent
                            /\ node'[m].offset = node[m].offset /\ node'[m].slots = node[m].slots
                            /\ \A x \in X : node'[m].tags[x] = node[m].tags[x]
    PROVE  \A i \in Indices : Kept(i, X)
<1> SUFFICES ASSUME NEW i \in Indices PROVE Kept(i, X)
    OBVIOUS
<1> DEFINE S == InTree(heap, NULL)
           t == root.rnode
           ts == root.tags
<1>1. Tree(t, node, heap, NULL) /\ Tree(t, node', heap, NULL)
    BY TreeNow
<1>2. \A m \in S : /\ node'[m].shift = node[m].shift /\ node'[m].parent = node[m].parent
                   /\ node'[m].offset = node[m].offset /\ node[m].parent \in S \cup {NULL}
    BY <1>1, ParentIs DEF InTree
<1>3. \A m \in S : m \in Passed(t, node, i) => SameSlot(node, node', m, Digit(node, m, i), X)
    BY DEF SameSlot, InTree
<1>4. /\ S \subseteq InTree(heap, NULL) \cap InTree(heap, NULL)
      /\ \A m \in InTree(heap, NULL) \ S, q \in Slots : node[m].slots[q] \notin Items
      /\ \A m \in InTree(heap, NULL) \ S, q \in Slots : node'[m].slots[q] \notin Items
      /\ t = t /\ \A x \in X : x \in ts <=> x \in ts
    OBVIOUS
<1> HIDE DEF S, t, ts
<1>5. Same(ts, t, node, ts, t, node', i, X)
    BY <1>1, <1>2, <1>3, <1>4, TreeSame
<1> QED BY <1>5 DEF Kept, t, ts

\* radix_tree_tag_set leaves its tag on the way; only its own index may notice.
LEMMA FindStepMap ==
    ASSUME StructInv, StructInv', PlaceInv, MapInv, FindStep, before' = before
    PROVE  MapInv' /\ w'.op = w.op
<1>1. /\ w.pc = "find" /\ AtSlot \in Nodes /\ heap[AtSlot] = "live" /\ UNCHANGED <<root, heap>>
      /\ w'.pc = "find" /\ w'.op = w.op /\ w'.cur = AtSlot
      /\ w'.off = Offset(node[AtSlot].shift, w.op.index) /\ w'.off \in Slots
      /\ w.op \in Calls /\ NULL \notin Nodes
    BY FindStepFields, FindCall, EntryAssumption DEF StructInv
<1>2. PICK a \in Calls : w.op = a
    BY <1>1
<1> DEFINE n == AtSlot
           o == w'.off
           t == root.rnode
<1>3. \A m \in Nodes :
        /\ node'[m].slots = node[m].slots /\ node'[m].shift = node[m].shift
        /\ a.kind # "tag_set" => node'[m].tags = node[m].tags
        /\ a.kind = "tag_set" => \A x \in Tags : node'[m].tags[x] =
             IF m = n /\ x = a.tag THEN node[m].tags[x] \cup {o} ELSE node[m].tags[x]
    BY <1>2, FindStepFields
<1>4. \A m \in Nodes : node'[m].parent = node[m].parent /\ node'[m].offset = node[m].offset
    <2>1. node \in Memory /\ node' \in Memory
        BY DEF StructInv, TypeInv, TypeOK, Memory
    <2>2. SameShape(node', node)
        BY <1>1, <2>1 DEF FindStep, SameShape, Memory, NodeType
    <2> QED BY <2>2 DEF SameShape
<1>5. Retiring = NULL /\ Retiring' = NULL /\ Tree(t, node, heap, NULL)
    BY <1>1, TreeNow DEF Retiring
<1>6. CASE a.kind # "tag_set"
    <2>1. \A i \in Indices : Kept(i, Tags)
        BY <1>1, <1>3, <1>4, <1>5, <1>6, SlotsKept
    <2>2. BeforeType' /\ ValuesHold(a)' /\ BitsHold(a)'
        BY <1>1, <1>2, <2>1, AllKept DEF Pruning
    <2>3. ResultHolds(a)' /\ InsertHolds(a)' /\ AheadSet(a)'
        BY <1>1, <1>6 DEF ResultHolds, InsertHolds, AheadSet, Pruning
    <2> QED BY <1>1, <1>2, <2>2, <2>3, OneCall
<1>7. CASE a.kind = "tag_set"
    <2>1. a.tag \in Tags /\ a.index \in Indices
        BY <1>1, <1>2, <1>7, FindCall DEF StructInv
    <2> DEFINE X == Tags \ {a.tag}
    <2>2. \A i \in Indices : Kept(i, X)
        <3>1. X \in SUBSET Tags
            OBVIOUS
        <3>2. \A m \in Nodes, x \in X : node'[m].tags[x] = node[m].tags[x]
            BY <1>3, <1>7
        <3> HIDE DEF X, n, o, t
        <3> QED BY <1>1, <1>3, <1>4, <1>5, <3>1, <3>2, SlotsKept
    <2>3. Stands(t, node, n, o, a.index)
        <3>1. Stands(t, node, w.cur, w.off, a.index)
            BY <1>1, <1>2, FindStands
        <3>2. /\ w.cur \in Nodes \cup {NULL} /\ w.off \in Slots
              /\ w.cur # NULL => heap[w.cur] = "live"
            BY <1>1, WriterFields DEF StructInv, CursorInv
        <3>3. n = Spot(t, node, w.cur, w.off) /\ o = Digit(node, n, a.index)
            BY <1>1, <1>2 DEF AtSlot, Spot, Digit
        <3> DEFINE c == w.cur
                   q == w.off
        <3>4. /\ c \in Nodes \cup {NULL} /\ q \in Slots /\ (c # NULL => heap[c] = "live")
              /\ Stands(t, node, c, q, a.index) /\ n \in Nodes /\ n = Spot(t, node, c, q)
            BY <1>1, <3>1, <3>2, <3>3
        <3> HIDE DEF c, q, n, o, t
        <3>5. Stands(t, node, n, Digit(node, n, a.index), a.index)
            BY <1>5, <2>1, <3>4, StandsDown
        <3> QED BY <3>3, <3>5
    <2>4. \A i \in Indices \ {a.index} : Kept(i, Tags)
        <3>1. Refilled(t, node, heap, t, node', n, o)
            <4>1. \A m \in Nodes, q \in Slots : m # n \/ q # o =>
                    \A x \in Tags : q \in node'[m].tags[x] <=> q \in node[m].tags[x]
                <5> HIDE DEF n, o
                <5> TAKE m \in Nodes, q \in Slots
                <5> HAVE m # n \/ q # o
                <5> TAKE x \in Tags
                <5>1. node'[m].tags[x] =
                        IF m = n /\ x = a.tag THEN node[m].tags[x] \cup {o} ELSE node[m].tags[x]
                    BY <1>3, <1>7
                <5>2. CASE m = n /\ x = a.tag
                    BY <5>1, <5>2
                <5>3. CASE ~(m = n /\ x = a.tag)
                    BY <5>1, <5>3
                <5> QED BY <5>2, <5>3
            <4>2. n # NULL
                BY <1>1
            <4> HIDE DEF n, o, t
            <4> QED BY <1>3, <1>4, <4>1, <4>2 DEF Refilled, InTree
        <3> DEFINE y == Spot(t, node, n, o)
                   e == Spot(t, node', n, o)
        <3>2. /\ n \in Nodes \cup {NULL} /\ o \in Slots
              /\ Refilled(root.rnode, node, heap, root'.rnode, node', n, o)
              /\ Stands(root.rnode, node, n, o, a.index)
              /\ y = Spot(root.rnode, node, n, o) /\ e = Spot(root'.rnode, node', n, o)
            BY <1>1, <2>3, <3>1
        <3> HIDE DEF n, o, t, y, e
        <3> QED BY <1>1, <1>5, <2>1, <3>2, ChangeKeeps
    <2>5. /\ \A i \in Indices : Value(i)' = Value(i)
          /\ \A i \in Indices, x \in Tags : i # a.index \/ x # a.tag => (Bit(i, x)' <=> Bit(i, x))
        <3>1. \A i \in Indices : Value(i)' = Value(i) /\ \A x \in X : Bit(i, x)' <=> Bit(i, x)
            BY <2>2, KeptIs
        <3>2. \A i \in Indices \ {a.index} : \A x \in Tags : Bit(i, x)' <=> Bit(i, x)
            BY <2>4, KeptIs
        <3> QED BY <3>1, <3>2
    <2>6. BeforeType /\ ValuesHold(a) /\ BitsHold(a)
        BY <1>2 DEF MapInv
    <2>7. ValuesHold(a)'
        BY <1>1, <2>5, <2>6 DEF ValuesHold, Changed, Pruning
    <2>8. BitsHold(a)'
        BY <1>1, <1>7, <2>5, <2>6 DEF BitsHold, Changed, Pruning
    <2>9. AheadSet(a)'
        <3>1. o \in node'[n].tags[a.tag]
            BY <1>1, <1>3, <1>7, <2>1
        <3> QED BY <1>1, <3>1 DEF AheadSet
    <2>10. ResultHolds(a)' /\ InsertHolds(a)'
        BY <1>1 DEF ResultHolds, InsertHolds, Pruning
    <2> QED BY <1>1, <1>2, <2>6, <2>7, <2>8, <2>9, <2>10, OneCall DEF BeforeType
<1> QED BY <1>6, <1>7

-----------------------------------------------------------------------------
(* The one store of a call.                                                *)

\* The slot the writer stands at: no node there, and no tag if it is empty.
LEMMA SlotClean ==
    ASSUME StructInv, TagsInv, Ahead = NULL, AtSlot = NULL, w.cur # NULL => heap[w.cur] = "live",
           NEW x \in Tags
    PROVE  ~SlotTagged(root.tags, node, w.cur, w.off, x)
<1>1. Marked(root.tags, root.rnode, node, heap, NULL, 0, 0)
    BY NowMarked
<1>2. w.cur \in Nodes \cup {NULL} /\ w.off \in Slots /\ NULL \notin Nodes
    BY WriterFields, EntryAssumption DEF StructInv
<1> DEFINE c == w.cur
           o == w.off
<1>3. IF c = NULL THEN root.rnode = NULL ELSE node[c].slots[o] = NULL
    BY DEF AtSlot
<1>4. c \in Nodes \cup {NULL} /\ o \in Slots /\ (c # NULL => heap[c] = "live")
    BY <1>2
<1> HIDE DEF c, o
<1>5. ~SlotTagged(root.tags, node, c, o, x)
    <2>1. CASE c = NULL
        <3>1. root.tags = {}
            BY <1>1, <1>3, <2>1 DEF Marked, RootMarked
        <3> QED BY <2>1, <3>1 DEF SlotTagged
    <2>2. CASE c # NULL
        <3>1. o \notin node[c].tags[x]
            BY <1>1, <1>2, <1>3, <1>4, <2>2 DEF Marked, SlotsMarked
        <3> QED BY <2>2, <3>1 DEF SlotTagged
    <2> QED BY <2>1, <2>2
<1> QED BY <1>5 DEF c, o

\* Storing changes no tag of a base that has the node's own.
LEMMA OwnTags == \A c, o : TagsBut(node, c, o)
BY DEF TagsBut

\* insert_entries: the item is there, without tags.
LEMMA InsertEffect ==
    ASSUME StructInv, StructInv', TagsInv, MapInv, InsertEntry, AtSlot = NULL,
           NEW a \in Calls, w.op = a
    PROVE  /\ a.kind = "insert" /\ a.index \in Indices /\ a.item \in Items
           /\ \A i \in Indices \ {a.index} : Kept(i, Tags)
           /\ Value(a.index) = NULL /\ Value(a.index)' = a.item
           /\ \A x \in Tags : ~Bit(a.index, x) /\ ~Bit(a.index, x)'
<1> DEFINE e == a.item
           dx == IsExceptional(e)
<1>1. /\ w.pc = "create" /\ heap' = heap /\ w'.pc = "idle" /\ NULL \notin Items /\ NULL \notin Nodes
      /\ node' = Stored(node, w.cur, w.off, e, 1, dx) /\ root' = RootStored(w.cur, e)
    BY EntryAssumption DEF InsertEntry, Return, Idle
<1>2. /\ a \in Inserts /\ a.kind = "insert" /\ a.index \in Indices /\ e \in Items
      /\ dx \in Int /\ node \in Memory /\ SameShape(node, node)
    BY <1>1, InsertCall, IsExceptionalType, SameMemory DEF StructInv, Inserts
<1>3. root'.rnode = (IF w.cur = NULL THEN e ELSE root.rnode) /\ root'.tags = root.tags
    BY <1>1 DEF RootStored, StructInv, TypeInv, TypeOK
<1>4. Stands(root.rnode, node, w.cur, w.off, a.index)
    <2>1. InsertHolds(a)
        BY DEF MapInv
    <2>2. CASE w.cur = NULL /\ root.rnode = NULL
        <3>1. w.shift = 0
            BY <1>1, EntryAssumption DEF InsertEntry
        <3>2. a.index = 0 /\ TopMax(root.rnode, node) = 0
            BY <1>1, <2>1, <2>2, <3>1 DEF InsertHolds, TopMax
        <3> QED BY <2>2, <3>2 DEF Stands
    <2>3. CASE ~(w.cur = NULL /\ root.rnode = NULL)
        BY <1>1, <2>1, <2>3 DEF InsertHolds
    <2> QED BY <2>2, <2>3
<1>5. TagsBut(node, w.cur, w.off)
    BY OwnTags
<1>6. /\ \A i \in Indices \ {a.index} : Kept(i, Tags)
      /\ Value(a.index) = AtSlot /\ Value(a.index)' = e
      /\ \A x \in Tags : /\ Bit(a.index, x) <=>
                              AtSlot \in Items /\ SlotTagged(root.tags, node, w.cur, w.off, x)
                         /\ Bit(a.index, x)' <=>
                              e \in Items /\ SlotTagged(root'.tags, node, w.cur, w.off, x)
    <2>1. w.pc \in {"create", "find"} /\ w'.pc # "retire" /\ AtSlot \notin Nodes /\ 1 \in Int
          /\ e \in Items \cup {NULL}
        BY <1>1, <1>2
    <2> HIDE DEF e, dx
    <2> QED BY <1>1, <1>2, <1>3, <1>4, <1>5, <2>1, StoreKeeps
<1>7. \A x \in Tags : ~SlotTagged(root.tags, node, w.cur, w.off, x)
    <2>1. Ahead = NULL /\ (w.cur # NULL => heap[w.cur] = "live")
        BY <1>1, NothingAhead DEF StructInv, CursorInv
    <2> QED BY <2>1, SlotClean
<1> QED BY <1>1, <1>2, <1>3, <1>6, <1>7

\* __radix_tree_delete: the entry is gone with its tags.
LEMMA DeleteEffect ==
    ASSUME StructInv, StructInv', PlaceInv, Delete, NEW a \in Calls, w.op = a,
           ~(AtSlot = NULL \/ a.item \notin {NULL, AtSlot})
    PROVE  /\ a.kind = "delete" /\ a.index \in Indices /\ AtSlot \in Items /\ w.pc = "find"
           /\ PruneFrom(AtSlot)
           /\ \A i \in Indices \ {a.index} : Kept(i, Tags)
           /\ Value(a.index) = AtSlot /\ Value(a.index)' = NULL
           /\ \A x \in Tags : ~Bit(a.index, x)'
<1> DEFINE base == TagsCleared(w.cur, w.off, Tags)
           dx == -IsExceptional(AtSlot)
<1>1. /\ w.pc = "find" /\ a.kind = "delete" /\ AtSlot \notin Nodes /\ heap' = heap
      /\ node' = Stored(base, w.cur, w.off, NULL, -1, dx) /\ PruneFrom(AtSlot)
      /\ root' = [RootStored(w.cur, NULL) EXCEPT !.tags = RootTagsCleared(w.cur, w.off, Tags)]
      /\ NULL \notin Items
    BY EntryAssumption DEF Delete, Found
<1>2. /\ base \in Memory /\ SameShape(base, node) /\ dx \in Int /\ -1 \in Int
      /\ TagsBut(base, w.cur, w.off)
    <2>1. Tags \in SUBSET Tags /\ TypeOK
        BY DEF StructInv, TypeInv
    <2> QED BY <1>1, <2>1, TagsClearedType, TagsClearedShape, ClearKeeps, IsExceptionalType
<1>3. root'.rnode = IF w.cur = NULL THEN NULL ELSE root.rnode
    BY <1>1 DEF RootStored, StructInv, TypeInv, TypeOK
<1>4. Stands(root.rnode, node, w.cur, w.off, a.index) /\ a.index \in Indices
    BY <1>1, FindStands, CallIndex
<1>5. AtSlot \in Items
    BY <1>1, AtSlotEntry
<1>6. w'.pc # "retire"
    BY <1>1, PruneFromStruct
<1>7. /\ \A i \in Indices \ {a.index} : Kept(i, Tags)
      /\ Value(a.index) = AtSlot /\ Value(a.index)' = NULL
      /\ \A x \in Tags : /\ Bit(a.index, x) <=>
                              AtSlot \in Items /\ SlotTagged(root.tags, node, w.cur, w.off, x)
                         /\ Bit(a.index, x)' <=>
                              NULL \in Items /\ SlotTagged(root'.tags, base, w.cur, w.off, x)
    <2>1. w.pc \in {"create", "find"} /\ NULL \in Items \cup {NULL}
        BY <1>1
    <2> HIDE DEF base, dx
    <2> QED BY <1>1, <1>2, <1>3, <1>4, <1>6, <2>1, StoreKeeps
<1> QED BY <1>1, <1>4, <1>5, <1>7

\* __radix_tree_replace: the new entry takes the tags of the old one, if any.
LEMMA ReplaceEffect ==
    ASSUME StructInv, StructInv', PlaceInv, TagsInv, Replace, NEW a \in Calls, w.op = a, AtSlot # NULL
    PROVE  /\ a.kind = "replace" /\ a.index \in Indices /\ AtSlot \in Items /\ w.pc = "find"
           /\ a.item \in Items \cup {NULL}
           /\ PruneFrom("ok")
           /\ \A i \in Indices \ {a.index} : Kept(i, Tags)
           /\ Value(a.index) = AtSlot /\ Value(a.index)' = a.item
           /\ \A x \in Tags : Bit(a.index, x)' <=> Bit(a.index, x)
<1> DEFINE e == a.item
           dc == IsEntry(e) - IsEntry(AtSlot)
           dx == IsExceptional(e) - IsExceptional(AtSlot)
<1>1. /\ w.pc = "find" /\ a.kind = "replace" /\ AtSlot \notin Nodes /\ heap' = heap
      /\ node' = Stored(node, w.cur, w.off, e, dc, dx) /\ PruneFrom("ok")
      /\ root' = RootStored(w.cur, e) /\ NULL \notin Items
    BY EntryAssumption DEF Replace, Found
<1>2. /\ e \in Items \cup {NULL} /\ dc \in Int /\ dx \in Int
      /\ node \in Memory /\ SameShape(node, node) /\ TagsBut(node, w.cur, w.off)
    BY <1>1, FindCall, IsExceptionalType, SameMemory, OwnTags DEF StructInv
<1>3. root'.rnode = (IF w.cur = NULL THEN e ELSE root.rnode) /\ root'.tags = root.tags
    BY <1>1 DEF RootStored, StructInv, TypeInv, TypeOK
<1>4. Stands(root.rnode, node, w.cur, w.off, a.index) /\ a.index \in Indices /\ Callable(a)
    BY <1>1, FindStands, CallIndex
<1>5. AtSlot \in Items
    BY <1>1, AtSlotEntry
<1>6. w'.pc # "retire"
    BY <1>1, PruneFromStruct
<1>7. /\ \A i \in Indices \ {a.index} : Kept(i, Tags)
      /\ Value(a.index) = AtSlot /\ Value(a.index)' = e
      /\ \A x \in Tags : /\ Bit(a.index, x) <=>
                              AtSlot \in Items /\ SlotTagged(root.tags, node, w.cur, w.off, x)
                         /\ Bit(a.index, x)' <=>
                              e \in Items /\ SlotTagged(root'.tags, node, w.cur, w.off, x)
    <2>1. w.pc \in {"create", "find"}
        BY <1>1
    <2> HIDE DEF e, dc, dx
    <2> QED BY <1>1, <1>2, <1>3, <1>4, <1>6, <2>1, StoreKeeps
<1>8. e = NULL => \A x \in Tags : ~Bit(a.index, x)
    <2> SUFFICES ASSUME e = NULL, NEW x \in Tags PROVE ~Bit(a.index, x)
        OBVIOUS
    <2>1. ~Tagged(a.index, x)
        BY <1>1, <1>4 DEF Callable
    <2>2. Tree(root.rnode, node, heap, NULL)
        BY <1>1, TreeNow DEF Retiring
    <2>3. Marked(root.tags, root.rnode, node, heap, NULL, 0, 0)
        BY <1>1, NowMarked, NothingAhead
    <2>4. HasTag(root.tags, root.rnode, node, a.index, x) <=> Carries(root.tags, root.rnode, node, a.index, x)
        BY <1>4, <2>2, <2>3, TagCarried
    <2> QED BY <2>1, <2>4, Finding
<1>9. \A x \in Tags : Bit(a.index, x)' <=> Bit(a.index, x)
    BY <1>1, <1>2, <1>3, <1>5, <1>7, <1>8
<1> QED BY <1>1, <1>2, <1>4, <1>5, <1>7, <1>9

\* radix_tree_tag_set ends at the item, whose tag it has set on the way.
LEMMA TagSetEffect ==
    ASSUME StructInv, StructInv', PlaceInv, MapInv, TagSet, NEW a \in Calls, w.op = a
    PROVE  /\ a.kind = "tag_set" /\ a.index \in Indices /\ a.tag \in Tags /\ w.pc = "find"
           /\ AtSlot \in Items
           /\ \A i \in Indices \ {a.index} : Kept(i, Tags)
           /\ Value(a.index) = AtSlot /\ Value(a.index)' = AtSlot
           /\ \A x \in Tags \ {a.tag} : Bit(a.index, x)' <=> Bit(a.index, x)
           /\ Bit(a.index, a.tag)'
<1> DEFINE c == w.cur
           o == w.off
           t == root.rnode
           e == AtSlot
<1>1. /\ w.pc = "find" /\ a.kind = "tag_set" /\ AtSlot \notin Nodes /\ node' = node /\ heap' = heap
      /\ root' = [root EXCEPT !.tags = @ \cup {a.tag}] /\ w'.pc = "idle"
      /\ Nodes \cap Items = {}
    BY EntryAssumption DEF TagSet, Found, Return, Idle
<1>2. root'.rnode = t /\ root'.tags = root.tags \cup {a.tag}
    BY <1>1 DEF StructInv, TypeInv, TypeOK
<1>3. a.index \in Indices /\ a.tag \in Tags
    BY <1>1, FindCall DEF StructInv
<1>4. AtSlot \in Items
    BY <1>1, PresentSlot
<1>5. /\ Stands(t, node, c, o, a.index) /\ Retiring = NULL /\ Retiring' = NULL
      /\ c \in Nodes \cup {NULL} /\ o \in Slots
      /\ e = Spot(t, node, c, o) /\ t = Spot(t, node, NULL, o)
    BY <1>1, FindStands, WriterFields DEF StructInv, Retiring, AtSlot, Spot
<1>6. c # NULL => o \in node[c].tags[a.tag]
    <2>1. AheadSet(a)
        BY DEF MapInv
    <2> QED BY <1>1, <2>1 DEF AheadSet
<1> HIDE DEF c, o, t, e
<1>7. Refilled(t, node, heap, t, node', c, o)
    <2>1. c = NULL => t \notin Nodes
        BY <1>1, <1>5 DEF Spot, e
    <2> QED BY <1>1, <2>1 DEF Refilled
<1>8. /\ \A i \in Indices \ {a.index} : Kept(i, Tags)
      /\ Value(a.index) = e /\ Value(a.index)' = e
      /\ \A x \in Tags : /\ Bit(a.index, x) <=> e \in Items /\ SlotTagged(root.tags, node, c, o, x)
                         /\ Bit(a.index, x)' <=> e \in Items /\ SlotTagged(root'.tags, node', c, o, x)
    <2>1. /\ Refilled(root.rnode, node, heap, root'.rnode, node', c, o)
          /\ Stands(root.rnode, node, c, o, a.index)
          /\ e = Spot(root.rnode, node, c, o) /\ e = Spot(root'.rnode, node', c, o) /\ e \notin Nodes
        BY <1>1, <1>2, <1>5, <1>7 DEF t, e
    <2> QED BY <1>1, <1>3, <1>5, <2>1, ChangeKeeps
<1>9. \A x \in Tags : SlotTagged(root'.tags, node', c, o, x) <=>
        IF x = a.tag THEN TRUE ELSE SlotTagged(root.tags, node, c, o, x)
    BY <1>1, <1>2, <1>6 DEF SlotTagged
<1> QED BY <1>1, <1>3, <1>4, <1>8, <1>9 DEF e

\* node_tag_clear: the tag is gone from the index, and from no other.
LEMMA TagClearEffect ==
    ASSUME StructInv, StructInv', PlaceInv, TagsInv, TagClear, AtSlot # NULL, NEW a \in Calls, w.op = a
    PROVE  /\ a.kind = "tag_clear" /\ a.index \in Indices /\ a.tag \in Tags /\ w.pc = "find"
           /\ \A i \in Indices \ {a.index} : Kept(i, Tags)
           /\ Value(a.index) = AtSlot /\ Value(a.index)' = AtSlot
           /\ \A x \in Tags \ {a.tag} : Bit(a.index, x)' <=> Bit(a.index, x)
           /\ ~Bit(a.index, a.tag)'
<1> DEFINE c == w.cur
           o == w.off
           t == root.rnode
           e == AtSlot
           ts == {a.tag}
<1>1. /\ w.pc = "find" /\ a.kind = "tag_clear" /\ AtSlot \notin Nodes /\ heap' = heap
      /\ node' = TagsCleared(c, o, ts) /\ w'.pc = "idle"
      /\ root' = [root EXCEPT !.tags = RootTagsCleared(c, o, ts)]
      /\ Ahead = NULL
    <2>1. /\ w.pc = "find" /\ a.kind = "tag_clear" /\ AtSlot \notin Nodes /\ heap' = heap
          /\ node' = TagsCleared(c, o, ts) /\ w'.pc = "idle"
          /\ root' = [root EXCEPT !.tags = RootTagsCleared(c, o, ts)]
        BY DEF TagClear, Found, Return, Idle
    <2> QED BY <2>1, NothingAhead
<1>2. root'.rnode = t /\ root'.tags = RootTagsCleared(c, o, ts)
    BY <1>1 DEF StructInv, TypeInv, TypeOK
<1>3. a.index \in Indices /\ a.tag \in Tags /\ ts \in SUBSET Tags
    <2>1. a.tag \in Tags
        BY <1>1 DEF Calls, Inserts, Deletes, Replaces, TagSets, TagClears
    <2> QED BY <2>1, CallIndex
<1>5. /\ Stands(t, node, c, o, a.index) /\ Retiring = NULL /\ Retiring' = NULL
      /\ c \in Nodes \cup {NULL} /\ o \in Slots /\ (c # NULL => heap[c] = "live")
      /\ e = Spot(t, node, c, o) /\ TypeOK /\ Shape(t, node, heap, NULL)
    BY <1>1, FindStands, WriterFields
       DEF StructInv, TypeInv, CursorInv, ShapeInv, Retiring, AtSlot, Spot
<1>6. SameShape(node', node) /\ TagsBut(node', c, o)
    BY <1>1, <1>3, <1>5, TagsClearedShape, ClearKeeps
<1>7. Marked(root.tags, t, node, heap, NULL, 0, 0)
    BY <1>1, NowMarked
<1> HIDE DEF c, o, t, e, ts
<1>8. /\ c = NULL => RootTagsCleared(c, o, ts) \cap ts = {}
      /\ c # NULL => \A x \in ts : o \notin TagsCleared(c, o, ts)[c].tags[x]
    <2>1. (IF c = NULL THEN root.rnode ELSE node[c].slots[o]) \notin Nodes
        BY <1>1, <1>5 DEF Spot, e, t
    <2>2. Marked(root.tags, root.rnode, node, heap, NULL, 0, 0) /\ Shape(root.rnode, node, heap, NULL)
        BY <1>5, <1>7 DEF t
    <2> QED BY <1>3, <1>5, <2>1, <2>2, MarkedCleared
<1>9. Refilled(t, node, heap, t, node', c, o)
    <2>1. c = NULL => t \notin Nodes
        BY <1>1, <1>5 DEF Spot, e
    <2> QED BY <1>6, <2>1 DEF Refilled, SameShape, TagsBut, InTree
<1>10. e = Spot(t, node', c, o)
    BY <1>5, <1>6 DEF Spot, SameShape
<1>11. /\ \A i \in Indices \ {a.index} : Kept(i, Tags)
       /\ Value(a.index) = e /\ Value(a.index)' = e
       /\ \A x \in Tags : /\ Bit(a.index, x) <=> e \in Items /\ SlotTagged(root.tags, node, c, o, x)
                          /\ Bit(a.index, x)' <=> e \in Items /\ SlotTagged(root'.tags, node', c, o, x)
    <2>1. /\ Refilled(root.rnode, node, heap, root'.rnode, node', c, o)
          /\ Stands(root.rnode, node, c, o, a.index)
          /\ e = Spot(root.rnode, node, c, o) /\ e = Spot(root'.rnode, node', c, o) /\ e \notin Nodes
        BY <1>1, <1>2, <1>5, <1>9, <1>10 DEF t, e
    <2> QED BY <1>1, <1>3, <1>5, <2>1, ChangeKeeps
<1>12. ~SlotTagged(root'.tags, node', c, o, a.tag)
    BY <1>1, <1>2, <1>8 DEF SlotTagged, ts
<1>13. ASSUME NEW x \in Tags \ {a.tag}
       PROVE  SlotTagged(root'.tags, node', c, o, x) <=> SlotTagged(root.tags, node, c, o, x)
    <2>1. x \in RootTagsCleared(c, o, ts) <=> x \in root.tags
        BY DEF RootTagsCleared, ts
    <2>2. c # NULL => (o \in node'[c].tags[x] <=> o \in node[c].tags[x])
        <3> SUFFICES ASSUME c # NULL PROVE o \in node'[c].tags[x] <=> o \in node[c].tags[x]
            OBVIOUS
        <3>1. c \in Nodes /\ x \in Tags /\ x \notin ts
            BY <1>5 DEF ts
        <3>2. o \in TagsCleared(c, o, ts)[c].tags[x] <=> o \in node[c].tags[x]
            BY <1>5, <3>1, ClearedFields
        <3> QED BY <1>1, <3>2
    <2> QED BY <1>2, <2>1, <2>2 DEF SlotTagged
<1> QED BY <1>1, <1>3, <1>11, <1>12, <1>13 DEF e

\* The writer's call, once a lookup is under way.
LEMMA FoundCall ==
    ASSUME StructInv, MapInv, w.pc = "find", NEW a \in Calls, w.op = a
    PROVE  /\ BeforeType /\ a.index \in Indices
           /\ \A i \in Indices : Value(i) = before.map[i]
           /\ \A i \in Indices \ {a.index}, x \in Tags : Bit(i, x) <=> i \in before.tagged[x]
           /\ a.kind # "tag_set" => \A x \in Tags : Bit(a.index, x) <=> a.index \in before.tagged[x]
<1>1. BeforeType /\ ValuesHold(a) /\ BitsHold(a) /\ a.index \in Indices
    BY CallIndex DEF MapInv
<1>2. \A i : ~Changed(a, i)
    BY DEF Changed, Pruning
<1>3. \A i \in Indices : Value(i) = before.map[i]
    BY <1>1, <1>2 DEF ValuesHold
<1>4. \A i \in Indices \ {a.index}, x \in Tags : Bit(i, x) <=> i \in before.tagged[x]
    BY <1>1, <1>2 DEF BitsHold
<1>5. a.kind # "tag_set" => \A x \in Tags : Bit(a.index, x) <=> a.index \in before.tagged[x]
    BY <1>1, <1>2 DEF BitsHold
<1> QED BY <1>1, <1>3, <1>4, <1>5

\* After the store the tree is pruned from the node stored to.
LEMMA PruneFromGoes ==
    ASSUME StructInv, NEW r, PruneFrom(r), w'.pc # "idle"
    PROVE  w'.pc = "prune" /\ w'.op = w.op /\ w'.res = r
<1>1. w.cur # NULL
    BY DEF PruneFrom, Return, Idle
<1>2. w' = [w EXCEPT !.pc = "prune", !.res = r] /\ w \in WriterType
    BY <1>1 DEF PruneFrom, Goto, StructInv, TypeInv, TypeOK
<1> QED BY <1>2 DEF WriterType

LEMMA DeleteMap ==
    ASSUME StructInv, StructInv', PlaceInv, MapInv, Delete, before' = before, w'.pc # "idle"
    PROVE  MapInv' /\ w'.op = w.op
<1>1. w.pc = "find" /\ w.op \in Calls
    BY FindCall DEF Delete, Found, StructInv
<1>2. PICK a \in Calls : w.op = a
    BY <1>1
<1>3. ~(AtSlot = NULL \/ a.item \notin {NULL, AtSlot})
    BY <1>2 DEF Delete, Return, Idle
<1>4. /\ a.kind = "delete" /\ a.index \in Indices /\ AtSlot \in Items /\ PruneFrom(AtSlot)
      /\ \A i \in Indices \ {a.index} : Kept(i, Tags)
      /\ Value(a.index) = AtSlot /\ Value(a.index)' = NULL
      /\ \A x \in Tags : ~Bit(a.index, x)'
    BY <1>2, <1>3, DeleteEffect
<1>5. w'.pc = "prune" /\ w'.op = a /\ w'.res = AtSlot
    BY <1>2, <1>4, PruneFromGoes
<1>6. /\ BeforeType /\ \A i \in Indices : Value(i) = before.map[i]
      /\ \A i \in Indices \ {a.index}, x \in Tags : Bit(i, x) <=> i \in before.tagged[x]
    BY <1>1, <1>2, FoundCall
<1>7. \A i \in Indices \ {a.index} : Value(i)' = Value(i) /\ \A x \in Tags : Bit(i, x)' <=> Bit(i, x)
    BY <1>4, KeptIs
<1>8. \A i : Changed(a, i)' <=> i = a.index
    BY <1>5 DEF Changed, Pruning
<1>9. ValuesHold(a)'
    BY <1>4, <1>6, <1>7, <1>8 DEF ValuesHold, Left
<1>10. BitsHold(a)'
    BY <1>4, <1>6, <1>7, <1>8 DEF BitsHold
<1>11. ResultHolds(a)'
    <2>1. before.map[a.index] = AtSlot /\ AtSlot # NULL /\ a.item \in {NULL, AtSlot}
        BY <1>3, <1>4, <1>6
    <2> QED BY <1>4, <1>5, <2>1 DEF ResultHolds
<1>12. InsertHolds(a)' /\ AheadSet(a)'
    BY <1>5 DEF InsertHolds, AheadSet
<1>13. BeforeType'
    BY <1>6 DEF BeforeType
<1> QED BY <1>2, <1>5, <1>9, <1>10, <1>11, <1>12, <1>13, OneCall

LEMMA ReplaceMap ==
    ASSUME StructInv, StructInv', PlaceInv, TagsInv, MapInv, Replace, before' = before, w'.pc # "idle"
    PROVE  MapInv' /\ w'.op = w.op
<1>1. w.pc = "find" /\ w.op \in Calls /\ NULL \notin Items
    BY FindCall, EntryAssumption DEF Replace, Found, StructInv
<1>2. PICK a \in Calls : w.op = a
    BY <1>1
<1>3. AtSlot # NULL
    BY <1>2 DEF Replace, Return, Idle
<1>4. /\ a.kind = "replace" /\ a.index \in Indices /\ AtSlot \in Items /\ PruneFrom("ok")
      /\ \A i \in Indices \ {a.index} : Kept(i, Tags)
      /\ Value(a.index) = AtSlot /\ Value(a.index)' = a.item
      /\ \A x \in Tags : Bit(a.index, x)' <=> Bit(a.index, x)
    BY <1>2, <1>3, ReplaceEffect
<1>5. w'.pc = "prune" /\ w'.op = a /\ w'.res = "ok"
    BY <1>2, <1>4, PruneFromGoes
<1>6. /\ BeforeType /\ \A i \in Indices : Value(i) = before.map[i]
      /\ \A i \in Indices, x \in Tags : Bit(i, x) <=> i \in before.tagged[x]
    BY <1>1, <1>2, <1>4, FoundCall
<1>7. \A i \in Indices \ {a.index} : Value(i)' = Value(i) /\ \A x \in Tags : Bit(i, x)' <=> Bit(i, x)
    BY <1>4, KeptIs
<1>8. \A i : Changed(a, i)' <=> i = a.index
    BY <1>5 DEF Changed, Pruning
<1>9. ValuesHold(a)'
    BY <1>4, <1>6, <1>7, <1>8 DEF ValuesHold, Left
<1>10. BitsHold(a)'
    <2>1. \A i \in Indices, x \in Tags : Bit(i, x)' <=> i \in before.tagged[x]
        BY <1>4, <1>6, <1>7
    <2> QED BY <1>4, <2>1 DEF BitsHold
<1>11. ResultHolds(a)'
    <2>1. before.map[a.index] = AtSlot /\ AtSlot # NULL
        BY <1>3, <1>4, <1>6
    <2> QED BY <1>4, <1>5, <2>1 DEF ResultHolds
<1>12. InsertHolds(a)' /\ AheadSet(a)'
    BY <1>5 DEF InsertHolds, AheadSet
<1>13. BeforeType'
    BY <1>6 DEF BeforeType
<1> QED BY <1>2, <1>5, <1>9, <1>10, <1>11, <1>12, <1>13, OneCall

\* A call begins with the map and the tags of the moment.
LEMMA SnapshotIs ==
    ASSUME StructInv, TagsInv, w.pc = "idle"
    PROVE  /\ Snapshot \in [map : [Indices -> Items \cup {NULL}], tagged : [Tags -> SUBSET Indices]]
           /\ \A i \in Indices : Snapshot.map[i] = Value(i)
           /\ \A i \in Indices, x \in Tags : i \in Snapshot.tagged[x] <=> Bit(i, x)
<1>1. \A i \in Indices : Value(i) \in Items \cup {NULL}
    BY BitItem
<1>2. Snapshot.map = [i \in Indices |-> Value(i)]
      /\ Snapshot.tagged = [t \in Tags |-> {i \in Indices : Tagged(i, t)}]
    BY DEF Snapshot
<1>3. \A i \in Indices, x \in Tags : Tagged(i, x) <=> Bit(i, x)
    BY TagsNow
<1>4. Snapshot = [map |-> [i \in Indices |-> Value(i)],
                  tagged |-> [t \in Tags |-> {i \in Indices : Tagged(i, t)}]]
    BY DEF Snapshot
<1>5. /\ [i \in Indices |-> Value(i)] \in [Indices -> Items \cup {NULL}]
      /\ [t \in Tags |-> {i \in Indices : Tagged(i, t)}] \in [Tags -> SUBSET Indices]
    BY <1>1
<1> QED BY <1>2, <1>3, <1>4, <1>5

LEMMA InvokeMap ==
    ASSUME StructInv, StructInv', TagsInv, NEW a \in Calls, Invoke(a) PROVE MapInv'
<1>1. /\ w.pc = "idle" /\ UNCHANGED <<root, node>> /\ before' = Snapshot
      /\ w'.op = a /\ w'.pc = a.kind
      /\ w'.pc \in {"insert", "delete", "replace", "tag_set", "tag_clear"}
    BY DEF Invoke, StructInv, TypeInv, TypeOK, WriterType, CallInv,
           Calls, Inserts, Deletes, Replaces, TagSets, TagClears
<1>2. /\ BeforeType'
      /\ \A i \in Indices : before'.map[i] = Value(i)
      /\ \A i \in Indices, x \in Tags : i \in before'.tagged[x] <=> Bit(i, x)
    BY <1>1, SnapshotIs DEF BeforeType
<1>3. \A i \in Indices : Value(i)' = Value(i) /\ \A x \in Tags : Bit(i, x)' <=> Bit(i, x)
    BY <1>1, StillKept, KeptIs
<1>4. \A i : ~Changed(a, i)'
    BY <1>1 DEF Changed, Pruning
<1>5. ValuesHold(a)'
    BY <1>2, <1>3, <1>4 DEF ValuesHold
<1>6. BitsHold(a)'
    BY <1>2, <1>3, <1>4 DEF BitsHold
<1>7. ResultHolds(a)' /\ InsertHolds(a)' /\ AheadSet(a)'
    BY <1>1 DEF ResultHolds, InsertHolds, AheadSet, Pruning
<1> QED BY <1>1, <1>2, <1>5, <1>6, <1>7, OneCall

\* While others run, the call stays where it is.
LEMMA StillMap ==
    ASSUME StructInv, StructInv', MapInv, UNCHANGED <<w, before>>, UNCHANGED root,
           \A i \in Indices : Kept(i, Tags), 
           \A m \in Nodes : heap[m] = "live" => node'[m] = node[m],
           \A i \in Indices, n \in Nodes :
             n \in Passed(root.rnode, node, i) => n \in Passed(root'.rnode, node', i)
    PROVE  MapInv'
<1>1. CASE w.pc = "idle"
    BY <1>1, NoCall DEF MapInv, StructInv, BeforeType
<1>2. CASE w.pc # "idle"
    <2>1. w.op \in Calls
        BY <1>2, WriterFields DEF StructInv, TypeInv, CallInv
    <2>2. PICK a \in Calls : w.op = a
        BY <2>1
    <2>3. BeforeType' /\ ValuesHold(a)' /\ BitsHold(a)'
        BY <2>2, AllKept
    <2>4. ResultHolds(a) /\ InsertHolds(a) /\ AheadSet(a) /\ a.index \in Indices
        BY <2>2, CallIndex DEF MapInv
    <2>5. ResultHolds(a)'
        BY <2>4 DEF ResultHolds
    <2>6. /\ w.pc \in {"create", "find"} /\ w.cur # NULL => heap[w.cur] = "live"
          /\ root.rnode \in Nodes => heap[root.rnode] = "live"
          /\ w.cur \in Nodes \cup {NULL}
        BY WriterFields DEF StructInv, CursorInv, ShapeInv, Shape, Rooted
    <2>7. AheadSet(a)'
        BY <2>4, <2>6 DEF AheadSet
    <2>8. InsertHolds(a)'
        <3>1. TopMax(root'.rnode, node') = TopMax(root.rnode, node)
            BY <2>6 DEF TopMax
        <3>2. w.pc = "create" /\ Stands(root.rnode, node, w.cur, w.off, a.index)
              => Stands(root'.rnode, node', w.cur, w.off, a.index)
            BY <2>4, <2>6, <3>1 DEF Stands, Digit
        <3>3. \A s : ShiftMaxIndex(s)' = ShiftMaxIndex(s)
            BY DEF ShiftMaxIndex
        <3> QED BY <2>4, <3>2, <3>3 DEF InsertHolds
    <2> QED BY <2>2, <2>3, <2>5, <2>7, <2>8, OneCall
<1> QED BY <1>1, <1>2

LEMMA InitMap == Init => MapInv
<1> SUFFICES ASSUME Init PROVE MapInv
    OBVIOUS
<1>1. root.rnode = NULL /\ w.op = NULL /\ before = Snapshot
    BY DEF Init, Idle
<1>2. StructInv /\ TagsInv /\ w.pc = "idle"
    BY InitStruct, InitTags DEF Init, Idle
<1>3. BeforeType
    BY <1>1, <1>2, SnapshotIs DEF BeforeType
<1> QED BY <1>1, <1>3, CallAssumption DEF MapInv

\* The other steps of a call end it.
LEMMA EndsIdle ==
    ASSUME StructInv, AllocFails \/ InsertEntry \/ TagSet \/ TagClear PROVE w'.pc = "idle"
BY DEF AllocFails, ExtendFails, CreateFails, InsertEntry, TagSet, TagClear, Return, Idle

\* A step of a call that goes on.
LEMMA WriterMap ==
    ASSUME Leftovers = {NULL}, StructInv, StructInv', PlaceInv, TagsInv, MapInv, WriterStep,
           w'.pc # "idle"
    PROVE  MapInv' /\ w'.op = w.op
<1>1. before' = before
    BY DEF WriterStep
<1>2. CASE InsertStart \/ Extend \/ Descend \/ CreateChild
    BY <1>1, <1>2, InsertStartMap, ExtendMap, DescendMap, CreateChildMap
<1>3. CASE FindStart \/ FindStep
    BY <1>1, <1>3, FindStartMap, FindStepMap
<1>4. CASE Delete \/ Replace
    BY <1>1, <1>4, DeleteMap, ReplaceMap
<1>5. CASE Prune
    BY <1>1, <1>5, PruningMap
<1>6. CASE AllocFails \/ InsertEntry \/ TagSet \/ TagClear
    BY <1>6, EndsIdle
<1> QED BY <1>2, <1>3, <1>4, <1>5, <1>6 DEF WriterStep, Create

LEMMA StepMap ==
    ASSUME Leftovers = {NULL}, StructInv, PlaceInv, TagsInv, MapInv, [Next]_vars
    PROVE  MapInv'
<1>1. StructInv' /\ TypeInv'
    BY StepStruct DEF StructInv
<1>2. ASSUME UNCHANGED <<root, node, heap, w, before>> PROVE MapInv'
    <2>1. \A i \in Indices : Kept(i, Tags)
        BY <1>2, StillKept
    <2>2. \A i \in Indices, n \in Nodes :
             n \in Passed(root.rnode, node, i) => n \in Passed(root'.rnode, node', i)
        BY <1>2
    <2> QED BY <1>1, <1>2, <2>1, <2>2, StillMap
<1>3. CASE UNCHANGED vars
    BY <1>2, <1>3 DEF vars
<1>4. ASSUME NEW o \in Calls, Invoke(o) PROVE MapInv'
    BY <1>1, <1>4, InvokeMap
<1>5. ASSUME WriterStep PROVE MapInv'
    <2>1. CASE w'.pc = "idle"
        <3>1. BeforeType'
            BY <1>5 DEF WriterStep, MapInv, BeforeType
        <3> QED BY <1>1, <2>1, <3>1, NoCall
    <2>2. CASE w'.pc # "idle"
        BY <1>1, <1>5, <2>2, WriterMap
    <2> QED BY <2>1, <2>2
<1>6. ASSUME NEW r \in Readers, Reader(r) PROVE MapInv'
    <2>1. UNCHANGED <<root, node, heap, w, before>>
        BY <1>6 DEF Reader, ReadLock, ReadRoot, ReadBound, ReadSlot, ReadRetry, ReadUnlock,
                    WriterSame, tree
    <2> QED BY <1>2, <2>1
<1>7. ASSUME NEW n \in Nodes, RcuFree(n) PROVE MapInv'
    <2>1. UNCHANGED <<w, before>> /\ UNCHANGED root
        BY <1>7 DEF RcuFree, WriterSame
    <2>2. \A i \in Indices :
             /\ Kept(i, Tags)
             /\ \A m \in Nodes : m \in Passed(root.rnode, node, i) => m \in Passed(root'.rnode, node', i)
        BY <1>1, <1>7, RcuFreeKept
    <2>3. \A m \in Nodes : heap[m] = "live" => node'[m] = node[m]
        BY <1>7 DEF RcuFree, StructInv, TypeInv, TypeOK
    <2> QED BY <1>1, <2>1, <2>2, <2>3, StillMap
<1> QED BY <1>3, <1>4, <1>5, <1>6, <1>7 DEF Next

\* In the middle of a call every store on its way leaves all the other indices alone,
\* and its own has its old or its new entry: lockless readers see no other change when
\* radix_tree_extend, delete_node and radix_tree_shrink (radix-tree.c:724-756) relink.
THEOREM CallsDisturbNoOther ==
    ASSUME Leftovers = {NULL} PROVE Spec => []OthersUndisturbed
<1>1. Leftovers = {NULL}
    OBVIOUS
<1>2. StructInv /\ MapInv => OthersUndisturbed
    <2> SUFFICES ASSUME StructInv, MapInv, w.op # NULL, NEW i \in Indices
                 PROVE  \/ Value(i) = before.map[i]
                        \/ /\ i = w.op.index
                           /\ Value(i) = IF w.op.kind = "delete" THEN NULL ELSE w.op.item
        BY DEF OthersUndisturbed
    <2>1. w.op \in Calls
        BY WriterFields DEF StructInv
    <2>2. PICK a \in Calls : w.op = a
        BY <2>1
    <2> QED BY <2>2 DEF MapInv, ValuesHold, Changed, Left
<1>3. StructInv /\ PlaceInv /\ TagsInv /\ MapInv /\ [Next]_vars
      => StructInv' /\ PlaceInv' /\ TagsInv' /\ MapInv'
    BY <1>1, StepStruct, StepTags, StepMap
<1> QED BY <1>2, <1>3, InitStruct, InitTags, InitMap, PTL DEF Spec

-----------------------------------------------------------------------------
(* The refinement: what the map and its tags are said to be.               *)

TheMap == IF AtRest THEN Snapshot.map ELSE before.map
TheTags == IF AtRest THEN Snapshot.tagged ELSE before.tagged
MapStep == Map!Next \/ UNCHANGED <<TheMap, TheTags, w.op, ret>>

LEMMA TheMapIs ==
    /\ w.op # NULL => TheMap = before.map /\ TheTags = before.tagged
    /\ w'.op # NULL => TheMap' = before'.map /\ TheTags' = before'.tagged
    /\ w.op = NULL => TheMap = Snapshot.map /\ TheTags = Snapshot.tagged
    /\ w'.op = NULL => TheMap' = Snapshot'.map /\ TheTags' = Snapshot'.tagged
BY DEF TheMap, TheTags, AtRest

\* At rest the map is told from what the indices find.
LEMMA SnapshotTo ==
    ASSUME StructInv', TagsInv', w'.pc = "idle",
           NEW m \in [Indices -> Items \cup {NULL}], NEW g \in [Tags -> SUBSET Indices],
           \A i \in Indices : Value(i)' = m[i],
           \A i \in Indices, x \in Tags : Bit(i, x)' <=> i \in g[x]
    PROVE  w'.op = NULL /\ TheMap' = m /\ TheTags' = g
<1>1. w'.op = NULL
    BY DEF StructInv, TypeInv, CallInv
<1>2. \A i \in Indices, x \in Tags : Tagged(i, x)' <=> i \in g[x]
    BY TagsNow
<1>3. Snapshot'.map = [i \in Indices |-> Value(i)'] 
      /\ Snapshot'.tagged = [t \in Tags |-> {i \in Indices : Tagged(i, t)'}]
    BY DEF Snapshot
<1>4. Snapshot'.map = m
    BY <1>3
<1>5. Snapshot'.tagged = g
    <2>1. \A t \in Tags : {i \in Indices : Tagged(i, t)'} = g[t]
        BY <1>2
    <2> QED BY <1>3, <2>1
<1> QED BY <1>1, <1>4, <1>5, TheMapIs

\* A call ends: what its own index finds then, and the tags there.
LEMMA CallEnds ==
    ASSUME StructInv, StructInv', TagsInv', MapInv, NEW a \in Calls, w.op = a,
           w.pc \notin Pruning, w'.pc = "idle",
           \A i \in Indices \ {a.index} : Kept(i, Tags),
           NEW v \in Items \cup {NULL}, Value(a.index)' = v,
           NEW g \in [Tags -> SUBSET Indices],
           \A x \in Tags, i \in Indices \ {a.index} : i \in g[x] <=> i \in before.tagged[x],
           \A x \in Tags : Bit(a.index, x)' <=> a.index \in g[x]
    PROVE  w'.op = NULL /\ TheMap' = [before.map EXCEPT ![a.index] = v] /\ TheTags' = g
<1>1. BeforeType /\ ValuesHold(a) /\ BitsHold(a)
    BY DEF MapInv
<1>2. \A i : ~Changed(a, i)
    BY DEF Changed
<1>3. \A i \in Indices \ {a.index} : Value(i)' = Value(i) /\ \A x \in Tags : Bit(i, x)' <=> Bit(i, x)
    BY KeptIs
<1>4. \A i \in Indices \ {a.index} :
        Value(i)' = before.map[i] /\ \A x \in Tags : Bit(i, x)' <=> i \in before.tagged[x]
    BY <1>1, <1>2, <1>3 DEF ValuesHold, BitsHold
<1> DEFINE m == [before.map EXCEPT ![a.index] = v]
<1>5. m \in [Indices -> Items \cup {NULL}] /\ \A i \in Indices : Value(i)' = m[i]
    BY <1>1, <1>4, CallIndex DEF BeforeType
<1>6. \A i \in Indices, x \in Tags : Bit(i, x)' <=> i \in g[x]
    BY <1>4
<1> HIDE DEF m
<1>7. w'.op = NULL /\ TheMap' = m /\ TheTags' = g
    BY <1>5, <1>6, SnapshotTo
<1> QED BY <1>7 DEF m

\* A call ends without an effect.
LEMMA CallUndone ==
    ASSUME StructInv, StructInv', TagsInv', MapInv, NEW a \in Calls, w.op = a,
           w.pc \notin Pruning, w.pc = "find" => a.kind # "tag_set", w'.pc = "idle",
           \A i \in Indices : Kept(i, Tags)
    PROVE  /\ w'.op = NULL /\ TheMap' = before.map /\ TheTags' = before.tagged
           /\ Value(a.index) = before.map[a.index]
<1>1. BeforeType /\ ValuesHold(a) /\ BitsHold(a)
    BY DEF MapInv
<1>2. \A i : ~Changed(a, i)
    BY DEF Changed
<1>3. \A i \in Indices : Value(i)' = Value(i) /\ \A x \in Tags : Bit(i, x)' <=> Bit(i, x)
    BY KeptIs
<1>4. /\ \A i \in Indices : Value(i) = before.map[i]
      /\ \A i \in Indices, x \in Tags : Bit(i, x) <=> i \in before.tagged[x]
    BY <1>1, <1>2 DEF ValuesHold, BitsHold
<1>5. before.map \in [Indices -> Items \cup {NULL}] /\ before.tagged \in [Tags -> SUBSET Indices]
    BY <1>1 DEF BeforeType
<1>6. /\ \A i \in Indices : Value(i)' = before.map[i]
      /\ \A i \in Indices, x \in Tags : Bit(i, x)' <=> i \in before.tagged[x]
    BY <1>3, <1>4
<1>7. w'.op = NULL /\ TheMap' = before.map /\ TheTags' = before.tagged
    BY <1>5, <1>6, SnapshotTo
<1> QED BY <1>4, <1>7, CallIndex

\* A call that pruned ends: its store was made before.
LEMMA PrunedEnds ==
    ASSUME StructInv, StructInv', TagsInv', MapInv, NEW a \in Calls, w.op = a,
           w.pc \in Pruning, w'.pc = "idle", \A i \in Indices : Kept(i, Tags)
    PROVE  /\ w'.op = NULL /\ TheMap' = [before.map EXCEPT ![a.index] = Left(a)]
           /\ a.kind = "delete" => TheTags' = [x \in Tags |-> before.tagged[x] \ {a.index}]
           /\ a.kind # "delete" => TheTags' = before.tagged
<1>1. BeforeType /\ ValuesHold(a) /\ BitsHold(a) /\ a.index \in Indices
    BY CallIndex DEF MapInv
<1>2. \A i : Changed(a, i) <=> i = a.index
    BY DEF Changed
<1>3. \A i \in Indices : Value(i)' = Value(i) /\ \A x \in Tags : Bit(i, x)' <=> Bit(i, x)
    BY KeptIs
<1>4. \A i \in Indices : Value(i)' = IF i = a.index THEN Left(a) ELSE before.map[i]
    BY <1>1, <1>2, <1>3 DEF ValuesHold
<1>5. \A i \in Indices, x \in Tags :
        IF i = a.index /\ a.kind = "delete" THEN ~Bit(i, x)' ELSE Bit(i, x)' <=> i \in before.tagged[x]
    BY <1>1, <1>2, <1>3 DEF BitsHold, Pruning
<1> DEFINE m == [before.map EXCEPT ![a.index] = Left(a)]
           g == [x \in Tags |-> before.tagged[x] \ {a.index}]
<1>6. m \in [Indices -> Items \cup {NULL}]
    <2>1. StructInv' /\ Value(a.index)' = Left(a)
        BY <1>1, <1>4
    <2>2. Left(a) \in Items \cup {NULL}
        BY <1>1, <2>1, BitItem
    <2> QED BY <1>1, <2>2 DEF BeforeType
<1>7. \A i \in Indices : Value(i)' = m[i]
    BY <1>1, <1>4 DEF BeforeType
<1>8. g \in [Tags -> SUBSET Indices] /\ before.tagged \in [Tags -> SUBSET Indices]
      /\ \A i \in Indices, x \in Tags : i \in g[x] <=> i \in before.tagged[x] /\ i # a.index
    BY <1>1 DEF BeforeType
<1> HIDE DEF m, g
<1>9. CASE a.kind = "delete"
    <2>1. \A i \in Indices, x \in Tags : Bit(i, x)' <=> i \in g[x]
        BY <1>5, <1>8, <1>9
    <2>2. w'.op = NULL /\ TheMap' = m /\ TheTags' = g
        BY <1>6, <1>7, <1>8, <2>1, SnapshotTo
    <2> QED BY <1>9, <2>2 DEF m, g
<1>10. CASE a.kind # "delete"
    <2>1. \A i \in Indices, x \in Tags : Bit(i, x)' <=> i \in before.tagged[x]
        BY <1>5, <1>10
    <2>2. w'.op = NULL /\ TheMap' = m /\ TheTags' = before.tagged
        BY <1>6, <1>7, <1>8, <2>1, SnapshotTo
    <2> QED BY <1>10, <2>2 DEF m
<1> QED BY <1>9, <1>10

-----------------------------------------------------------------------------
(* The steps that return.                                                  *)

\* What a call of the abstract map does is told from the map of the moment it began.
LEMMA Responds ==
    ASSUME NEW a \in Calls, w.op = a, w'.op = NULL, NEW r, ret' = r
    PROVE  /\ TheMap = before.map /\ TheTags = before.tagged
           /\ w.op # NULL /\ Map!Respond(a.kind, r)
<1>1. w.op # NULL
    BY CallAssumption
<1> QED BY <1>1, TheMapIs DEF Map!Respond

\* Where the call stands is what its index finds.
LEMMA PlaceValue ==
    ASSUME StructInv, w.pc \in {"create", "find"}, NEW i \in Indices, AtSlot \notin Nodes,
           Stands(root.rnode, node, w.cur, w.off, i)
    PROVE  Value(i) = AtSlot /\ AtSlot \in Items \cup {NULL}
<1> DEFINE c == w.cur
           o == w.off
           e == AtSlot
           t == root.rnode
<1>1. /\ Tree(t, node, heap, NULL) /\ c \in Nodes \cup {NULL}
      /\ Stands(t, node, c, o, i) /\ e = Spot(t, node, c, o) /\ e \notin Nodes
    BY TreeNow, WriterFields DEF Retiring, StructInv, AtSlot, Spot
<1>2. Value(i) = Finds(t, node, i)
    BY Finding
<1> HIDE DEF c, o, e, t
<1>3. e \in Items \cup {NULL} /\ Finds(t, node, i) = e
    BY <1>1, PlaceOwn
<1> QED BY <1>2, <1>3 DEF e

LEMMA CreateValue ==
    ASSUME StructInv, MapInv, w.pc = "create", AtSlot \notin Nodes, NEW a \in Calls, w.op = a
    PROVE  Value(a.index) = AtSlot
<1>1. a.index \in Indices /\ InsertHolds(a) /\ NULL \notin Nodes
    BY CallIndex, EntryAssumption DEF MapInv
<1>2. CASE w.cur = NULL /\ root.rnode = NULL
    <2>1. AtSlot = NULL
        BY <1>2 DEF AtSlot
    <2>2. CASE a.index > RootMaxIndex
        BY <2>1, <2>2 DEF Value
    <2>3. CASE ~(a.index > RootMaxIndex)
        <3>1. RootMaxIndex = 0 /\ TopMax(root.rnode, node) = 0
            BY <1>1, <1>2 DEF RootMaxIndex, TopMax
        <3>2. \A i \in Indices : i \in Int
            BY IndexAssumption
        <3>3. a.index <= TopMax(root.rnode, node)
            BY <1>1, <2>3, <3>1, <3>2
        <3>4. Stands(root.rnode, node, w.cur, w.off, a.index)
            BY <1>2, <3>3 DEF Stands
        <3> QED BY <1>1, <3>4, PlaceValue
    <2> QED BY <2>2, <2>3
<1>3. CASE ~(w.cur = NULL /\ root.rnode = NULL)
    <2>1. Stands(root.rnode, node, w.cur, w.off, a.index)
        BY <1>1, <1>3 DEF InsertHolds
    <2> QED BY <1>1, <2>1, PlaceValue
<1> QED BY <1>2, <1>3

\* The loop of create stops at an entry or at the lowest level.
LEMMA EntryReached ==
    ASSUME StructInv, w.pc = "create", w.shift = 0 \/ AtSlot \in Items
    PROVE  AtSlot \notin Nodes
<1>1. Nodes \cap Items = {} /\ NULL \notin Nodes
    BY EntryAssumption
<1> SUFFICES ASSUME AtSlot \in Nodes PROVE FALSE
    OBVIOUS
<1>2. w.shift = 0 /\ node[AtSlot].shift \in Nat
    <2>1. w.shift = 0 /\ node \in Memory
        BY <1>1 DEF StructInv, TypeInv, TypeOK, Memory
    <2> QED BY <2>1, MemoryFields, SizeAssumption DEF Shifts
<1>3. CASE w.cur # NULL
    <2>1. node[AtSlot].shift + 1 = node[w.cur].shift /\ w.shift = node[w.cur].shift
        BY <1>3, AtSlotEntry DEF StructInv, CursorInv
    <2> QED BY <1>2, <2>1
<1>4. CASE w.cur = NULL
    <2>1. node[AtSlot].shift + 1 = RootShift /\ root.rnode = AtSlot
        BY <1>4, AtSlotEntry DEF AtSlot
    <2>2. w.shift = RootShift
        BY <1>1, <1>4, <2>1 DEF StructInv, CursorInv
    <2> QED BY <1>2, <2>1, <2>2
<1> QED BY <1>3, <1>4

LEMMA InsertEnds ==
    ASSUME StructInv, StructInv', TagsInv, TagsInv', MapInv,
           InsertEntry \/ ExtendFails \/ CreateFails
    PROVE  Map!Insert
<1>1. /\ w.pc \in {"create", "extend"} /\ w.op \in Calls /\ w.op \in Inserts /\ w.pc \notin Pruning
      /\ w'.pc = "idle" /\ NULL \notin Nodes /\ NULL \notin Items
    BY InsertCall, EntryAssumption
       DEF InsertEntry, ExtendFails, CreateFails, StructInv, Return, Idle, Pruning
<1>2. PICK a \in Calls : w.op = a
    BY <1>1
<1>3. a.kind = "insert" /\ a.index \in Indices /\ a.item \in Items
    BY <1>1, <1>2 DEF Inserts
<1>4. /\ BeforeType /\ Value(a.index) = before.map[a.index]
      /\ \A x \in Tags : Bit(a.index, x) <=> a.index \in before.tagged[x]
    BY <1>1, <1>2, <1>3 DEF MapInv, ValuesHold, BitsHold, Changed
<1>5. ASSUME UNCHANGED <<root, node>>
      PROVE  w'.op = NULL /\ TheMap' = before.map /\ TheTags' = before.tagged
    <2>1. \A i \in Indices : Kept(i, Tags)
        BY <1>5, StillKept
    <2>2. w.pc # "find"
        BY <1>1
    <2> QED BY <1>1, <1>2, <2>1, <2>2, CallUndone
<1>6. CASE InsertEntry /\ AtSlot # NULL
    <2>1. ret' = "EEXIST" /\ UNCHANGED <<root, node>> /\ w.pc = "create" /\ AtSlot \notin Nodes
        BY <1>6, EntryReached DEF InsertEntry, Return, tree
    <2>2. before.map[a.index] # NULL
        BY <1>2, <1>4, <1>6, <2>1, CreateValue
    <2>3. w'.op = NULL /\ TheMap' = before.map /\ TheTags' = before.tagged
        BY <1>5, <2>1
    <2>4. /\ TheMap = before.map /\ TheTags = before.tagged
          /\ w.op # NULL /\ Map!Respond(a.kind, "EEXIST")
        BY <1>2, <2>1, <2>3, Responds
    <2> QED BY <1>2, <1>3, <2>2, <2>3, <2>4 DEF Map!Insert, TheMap, TheTags
<1>7. CASE ExtendFails \/ CreateFails
    <2>1. ret' = "ENOMEM" /\ UNCHANGED <<root, node>>
        BY <1>7 DEF ExtendFails, CreateFails, Return, tree
    <2>2. before.map[a.index] = NULL
        <3>1. CASE ExtendFails
            BY <1>2, <3>1 DEF ExtendFails, MapInv, InsertHolds
        <3>2. CASE CreateFails
            <4>1. w.pc = "create" /\ AtSlot = NULL /\ AtSlot \notin Nodes
                BY <1>1, <3>2 DEF CreateFails
            <4> QED BY <1>2, <1>4, <4>1, CreateValue
        <3> QED BY <1>7, <3>1, <3>2
    <2>3. w'.op = NULL /\ TheMap' = before.map /\ TheTags' = before.tagged
        BY <1>5, <2>1
    <2>4. /\ TheMap = before.map /\ TheTags = before.tagged
          /\ w.op # NULL /\ Map!Respond(a.kind, "ENOMEM")
        BY <1>2, <2>1, <2>3, Responds
    <2> QED BY <1>2, <1>3, <2>2, <2>3, <2>4 DEF Map!Insert, TheMap, TheTags
<1>8. CASE InsertEntry /\ AtSlot = NULL
    <2>1. /\ \A i \in Indices \ {a.index} : Kept(i, Tags)
          /\ Value(a.index) = NULL /\ Value(a.index)' = a.item
          /\ \A x \in Tags : ~Bit(a.index, x) /\ ~Bit(a.index, x)'
        BY <1>2, <1>8, InsertEffect
    <2>2. ret' = "ok"
        BY <1>8 DEF InsertEntry, Return
    <2>3. /\ before.tagged \in [Tags -> SUBSET Indices] /\ a.item \in Items \cup {NULL}
          /\ \A x \in Tags : Bit(a.index, x)' <=> a.index \in before.tagged[x]
        BY <1>3, <1>4, <2>1 DEF BeforeType
    <2>4. /\ w'.op = NULL /\ TheMap' = [before.map EXCEPT ![a.index] = a.item]
          /\ TheTags' = before.tagged
        BY <1>1, <1>2, <2>1, <2>3, CallEnds
    <2>5. /\ TheMap = before.map /\ TheTags = before.tagged
          /\ w.op # NULL /\ Map!Respond(a.kind, "ok")
        BY <1>2, <2>2, <2>4, Responds
    <2> QED BY <1>2, <1>3, <1>4, <2>1, <2>4, <2>5 DEF Map!Insert, TheMap, TheTags
<1> QED BY <1>6, <1>7, <1>8

\* A call that found nothing at its index.
LEMMA AbsentEnds ==
    ASSUME BeforeType, NEW a \in Calls, w.op = a, a.kind \in Asking, a.kind # "tag_set",
           w'.op = NULL, ret' = NULL, TheMap' = before.map, TheTags' = before.tagged,
           before.map[a.index] = NULL, \A x \in Tags : a.index \notin before.tagged[x]
    PROVE  Map!Delete \/ Map!Replace \/ Map!TagClear
<1>1. /\ TheMap = before.map /\ TheTags = before.tagged
      /\ w.op # NULL /\ Map!Respond(a.kind, NULL)
    BY Responds
<1>2. /\ before.map \in [Indices -> Items \cup {NULL}]
      /\ before.tagged \in [Tags -> SUBSET Indices] /\ a.index \in Indices
    BY CallIndex DEF BeforeType
<1>3. CASE a.kind = "delete"
    <2>1. [before.map EXCEPT ![a.index] = NULL] = before.map
        BY <1>2
    <2>2. [x \in Tags |-> before.tagged[x] \ {a.index}] = before.tagged
        BY <1>2
    <2>3. [x \in Map!Tags |-> before.tagged[x] \ {a.index}] = before.tagged
        BY <2>2 DEF Map!Tags, Tags
    <2>4. CASE a.item = NULL
        BY <1>1, <1>3, <2>1, <2>3, <2>4 DEF Map!Delete, TheMap, TheTags
    <2>5. CASE a.item # NULL
        BY <1>1, <1>3, <2>5 DEF Map!Delete, TheMap, TheTags
    <2> QED BY <2>4, <2>5
<1>4. CASE a.kind = "replace"
    BY <1>1, <1>4 DEF Map!Replace, TheMap, TheTags
<1>5. CASE a.kind = "tag_clear"
    <2>1. [before.tagged EXCEPT ![a.tag] = @ \ {a.index}] = before.tagged
        <3>1. a.tag \in Tags
            BY <1>5 DEF Calls, Inserts, Deletes, Replaces, TagSets, TagClears
        <3>2. before.tagged[a.tag] \ {a.index} = before.tagged[a.tag]
            BY <3>1
        <3> QED BY <1>2, <3>1, <3>2
    <2> QED BY <1>1, <1>5, <2>1 DEF Map!TagClear, TheMap, TheTags
<1> QED BY <1>3, <1>4, <1>5 DEF Asking

\* A lookup that returns NULL, at the top already or at an empty slot.
LEMMA NothingFound ==
    ASSUME StructInv, StructInv', TagsInv, TagsInv', MapInv, NEW a \in Calls, w.op = a,
           w.pc \in Asking \cup {"find"}, a.kind \in Asking, a.kind # "tag_set", w'.pc = "idle",
           UNCHANGED <<root, node>>, ret' = NULL, Value(a.index) = NULL
    PROVE  MapStep
<1>1. \A i \in Indices : Kept(i, Tags)
    BY StillKept
<1>2. w.pc \notin Pruning
    BY DEF Pruning, Asking
<1>3. w'.op = NULL /\ TheMap' = before.map /\ TheTags' = before.tagged
      /\ before.map[a.index] = NULL
    BY <1>1, <1>2, CallUndone
<1>4. BeforeType /\ BitsHold(a) /\ a.index \in Indices
    BY CallIndex DEF MapInv
<1>5. \A x \in Tags : ~Bit(a.index, x)
    BY <1>4, BitItem, EntryAssumption
<1>6. \A x \in Tags : a.index \notin before.tagged[x]
    BY <1>2, <1>4, <1>5 DEF BitsHold, Changed
<1>7. Map!Delete \/ Map!Replace \/ Map!TagClear
    BY <1>3, <1>4, <1>6, AbsentEnds
<1> QED BY <1>7 DEF MapStep, Map!Next

LEMMA FindStartEnds ==
    ASSUME StructInv, StructInv', PlaceInv, TagsInv, TagsInv', MapInv, FindStart, w'.pc = "idle"
    PROVE  MapStep
<1>1. /\ w.pc \in Asking /\ w \in WriterType /\ UNCHANGED <<root, node>> /\ w.op \in Calls
    BY FindCall DEF FindStart, StructInv, TypeInv, TypeOK, tree, Asking
<1>2. PICK a \in Calls : w.op = a
    BY <1>1
<1>3. a.index > RootMaxIndex /\ ret' = NULL
    <2>1. w' # [w EXCEPT !.pc = "find"]
        BY <1>1 DEF WriterType
    <2> QED BY <1>2, <2>1 DEF FindStart, Goto, Return
<1>4. Value(a.index) = NULL
    BY <1>3 DEF Value
<1>5. a.kind \in Asking /\ a.kind # "tag_set"
    BY <1>1, <1>2, <1>4 DEF PlaceInv, Callable
<1> QED BY <1>1, <1>2, <1>3, <1>4, <1>5, NothingFound

\* What the slot found holds is what the call began with.
LEMMA FoundValue ==
    ASSUME StructInv, PlaceInv, MapInv, NEW a \in Calls, w.op = a, w.pc = "find", AtSlot \notin Nodes
    PROVE  /\ Value(a.index) = AtSlot /\ before.map[a.index] = AtSlot
           /\ AtSlot \in Items \cup {NULL} /\ a.index \in Indices /\ a.kind \in Asking
           /\ w.pc \notin Pruning
<1>1. a.index \in Indices /\ Stands(root.rnode, node, w.cur, w.off, a.index) /\ a.kind \in Asking
    BY FindStands, CallIndex
<1>2. Value(a.index) = AtSlot /\ AtSlot \in Items \cup {NULL}
    BY <1>1, PlaceValue
<1> QED BY <1>1, <1>2, FoundCall DEF Pruning

LEMMA DeleteEnds ==
    ASSUME StructInv, StructInv', PlaceInv, TagsInv, TagsInv', MapInv, Delete, w'.pc = "idle"
    PROVE  MapStep
<1>1. w.pc = "find" /\ w.op \in Calls /\ AtSlot \notin Nodes /\ w.op.kind = "delete"
    BY FindCall DEF Delete, Found, StructInv
<1>2. PICK a \in Calls : w.op = a
    BY <1>1
<1>3. /\ Value(a.index) = AtSlot /\ before.map[a.index] = AtSlot
      /\ AtSlot \in Items \cup {NULL} /\ a.index \in Indices /\ w.pc \notin Pruning
      /\ a.kind = "delete" /\ a.kind \in Asking /\ NULL \notin Items
    BY <1>1, <1>2, FoundValue, EntryAssumption
<1>4. CASE AtSlot = NULL
    <2>1. ret' = NULL /\ UNCHANGED <<root, node>>
        BY <1>4 DEF Delete, Return, tree
    <2>2. w.pc \in Asking \cup {"find"} /\ a.kind # "tag_set"
        BY <1>1, <1>3
    <2> QED BY <1>2, <1>3, <1>4, <2>1, <2>2, NothingFound
<1>5. CASE AtSlot # NULL /\ a.item \notin {NULL, AtSlot}
    <2>1. ret' = NULL /\ UNCHANGED <<root, node>>
        BY <1>2, <1>5 DEF Delete, Return, tree
    <2>2. \A i \in Indices : Kept(i, Tags)
        BY <2>1, StillKept
    <2>3. a.kind # "tag_set"
        BY <1>3
    <2>4. w'.op = NULL /\ TheMap' = before.map /\ TheTags' = before.tagged
        BY <1>2, <1>3, <2>2, <2>3, CallUndone
    <2>5. /\ TheMap = before.map /\ TheTags = before.tagged
          /\ w.op # NULL /\ Map!Respond(a.kind, NULL)
        BY <1>2, <2>1, <2>4, Responds
    <2>6. Map!Delete
        BY <1>2, <1>3, <1>5, <2>4, <2>5 DEF Map!Delete, TheMap, TheTags
    <2> QED BY <2>6 DEF MapStep, Map!Next
<1>6. CASE ~(AtSlot = NULL \/ a.item \notin {NULL, AtSlot})
    <2>1. /\ PruneFrom(AtSlot)
          /\ \A i \in Indices \ {a.index} : Kept(i, Tags)
          /\ Value(a.index)' = NULL
          /\ \A x \in Tags : ~Bit(a.index, x)'
        BY <1>2, <1>6, DeleteEffect
    <2>2. ret' = AtSlot
        <3>1. w' # [w EXCEPT !.pc = "prune", !.res = AtSlot]
            BY DEF StructInv, TypeInv, TypeOK, WriterType
        <3> QED BY <2>1, <3>1 DEF PruneFrom, Return, Goto
    <2> DEFINE g == [x \in Tags |-> before.tagged[x] \ {a.index}]
    <2>3. /\ g \in [Tags -> SUBSET Indices]
          /\ \A x \in Tags, i \in Indices \ {a.index} : i \in g[x] <=> i \in before.tagged[x]
          /\ \A x \in Tags : a.index \notin g[x]
        BY DEF MapInv, BeforeType
    <2>4. \A x \in Tags : Bit(a.index, x)' <=> a.index \in g[x]
        BY <2>1, <2>3
    <2> HIDE DEF g
    <2>5. w'.op = NULL /\ TheMap' = [before.map EXCEPT ![a.index] = NULL] /\ TheTags' = g
        BY <1>2, <1>3, <2>1, <2>3, <2>4, CallEnds
    <2>6. /\ TheMap = before.map /\ TheTags = before.tagged
          /\ w.op # NULL /\ Map!Respond(a.kind, AtSlot)
        BY <1>2, <2>2, <2>5, Responds
    <2>7. TheTags' = [x \in Map!Tags |-> before.tagged[x] \ {a.index}]
        BY <2>5 DEF g, Map!Tags, Tags
    <2>8. Map!Delete
        BY <1>2, <1>3, <1>6, <2>5, <2>6, <2>7 DEF Map!Delete, TheMap, TheTags
    <2> QED BY <2>8 DEF MapStep, Map!Next
<1> QED BY <1>4, <1>5, <1>6

LEMMA ReplaceEnds ==
    ASSUME StructInv, StructInv', PlaceInv, TagsInv, TagsInv', MapInv, Replace, w'.pc = "idle"
    PROVE  MapStep
<1>1. w.pc = "find" /\ w.op \in Calls /\ AtSlot \notin Nodes /\ w.op.kind = "replace"
    BY FindCall DEF Replace, Found, StructInv
<1>2. PICK a \in Calls : w.op = a
    BY <1>1
<1>3. /\ Value(a.index) = AtSlot /\ before.map[a.index] = AtSlot
      /\ AtSlot \in Items \cup {NULL} /\ a.index \in Indices /\ w.pc \notin Pruning
      /\ a.kind = "replace" /\ a.kind \in Asking /\ NULL \notin Items
    BY <1>1, <1>2, FoundValue, EntryAssumption
<1>4. CASE AtSlot = NULL
    <2>1. ret' = NULL /\ UNCHANGED <<root, node>>
        BY <1>4 DEF Replace, Return, tree
    <2>2. w.pc \in Asking \cup {"find"} /\ a.kind # "tag_set"
        BY <1>1, <1>3
    <2> QED BY <1>2, <1>3, <1>4, <2>1, <2>2, NothingFound
<1>5. CASE AtSlot # NULL
    <2>1. /\ PruneFrom("ok") /\ a.item \in Items \cup {NULL}
          /\ \A i \in Indices \ {a.index} : Kept(i, Tags)
          /\ Value(a.index)' = a.item
          /\ \A x \in Tags : Bit(a.index, x)' <=> Bit(a.index, x)
        BY <1>2, <1>5, ReplaceEffect
    <2>2. ret' = "ok"
        <3>1. w' # [w EXCEPT !.pc = "prune", !.res = "ok"]
            BY DEF StructInv, TypeInv, TypeOK, WriterType
        <3> QED BY <2>1, <3>1 DEF PruneFrom, Return, Goto
    <2>3. /\ before.tagged \in [Tags -> SUBSET Indices]
          /\ \A x \in Tags : Bit(a.index, x) <=> a.index \in before.tagged[x]
        BY <1>1, <1>2, <1>3, FoundCall DEF BeforeType
    <2>4. \A x \in Tags : Bit(a.index, x)' <=> a.index \in before.tagged[x]
        BY <2>1, <2>3
    <2>5. /\ w'.op = NULL /\ TheMap' = [before.map EXCEPT ![a.index] = a.item]
          /\ TheTags' = before.tagged
        BY <1>2, <1>3, <2>1, <2>3, <2>4, CallEnds
    <2>6. /\ TheMap = before.map /\ TheTags = before.tagged
          /\ w.op # NULL /\ Map!Respond(a.kind, "ok")
        BY <1>2, <2>2, <2>5, Responds
    <2>7. Map!Replace
        BY <1>2, <1>3, <1>5, <2>5, <2>6 DEF Map!Replace, TheMap, TheTags
    <2> QED BY <2>7 DEF MapStep, Map!Next
<1> QED BY <1>4, <1>5

LEMMA TagSetEnds ==
    ASSUME StructInv, StructInv', PlaceInv, TagsInv, TagsInv', MapInv, TagSet PROVE MapStep
<1>1. w.pc = "find" /\ w.op \in Calls /\ AtSlot \notin Nodes /\ ret' = AtSlot /\ w'.pc = "idle"
    BY FindCall DEF TagSet, Found, Return, Idle, StructInv
<1>2. PICK a \in Calls : w.op = a
    BY <1>1
<1>3. /\ Value(a.index) = AtSlot /\ before.map[a.index] = AtSlot
      /\ AtSlot \in Items \cup {NULL} /\ a.index \in Indices /\ w.pc \notin Pruning
    BY <1>1, <1>2, FoundValue
<1>4. /\ a.kind = "tag_set" /\ a.tag \in Tags
      /\ \A i \in Indices \ {a.index} : Kept(i, Tags)
      /\ Value(a.index)' = AtSlot
      /\ \A x \in Tags \ {a.tag} : Bit(a.index, x)' <=> Bit(a.index, x)
      /\ Bit(a.index, a.tag)'
    BY <1>2, TagSetEffect
<1>5. BeforeType /\ \A x \in Tags \ {a.tag} : Bit(a.index, x) <=> a.index \in before.tagged[x]
    BY <1>2, <1>3 DEF MapInv, BitsHold, Changed
<1> DEFINE g == [before.tagged EXCEPT ![a.tag] = @ \cup {a.index}]
<1>6. /\ g \in [Tags -> SUBSET Indices]
      /\ \A x \in Tags : g[x] = IF x = a.tag THEN before.tagged[x] \cup {a.index} ELSE before.tagged[x]
    BY <1>3, <1>4, <1>5 DEF BeforeType
<1> HIDE DEF g
<1>7. /\ \A x \in Tags, i \in Indices \ {a.index} : i \in g[x] <=> i \in before.tagged[x]
      /\ \A x \in Tags : Bit(a.index, x)' <=> a.index \in g[x]
    BY <1>4, <1>5, <1>6
<1>8. w'.op = NULL /\ TheMap' = [before.map EXCEPT ![a.index] = AtSlot] /\ TheTags' = g
    BY <1>1, <1>2, <1>3, <1>4, <1>6, <1>7, CallEnds
<1>9. TheMap' = before.map
    BY <1>3, <1>5, <1>8 DEF BeforeType
<1>10. /\ TheMap = before.map /\ TheTags = before.tagged
       /\ w.op # NULL /\ Map!Respond(a.kind, AtSlot)
    BY <1>1, <1>2, <1>8, Responds
<1>11. Map!TagSet
    BY <1>2, <1>3, <1>4, <1>8, <1>9, <1>10 DEF Map!TagSet, TheMap, TheTags, g
<1> QED BY <1>11 DEF MapStep, Map!Next

LEMMA TagClearEnds ==
    ASSUME StructInv, StructInv', PlaceInv, TagsInv, TagsInv', MapInv, TagClear PROVE MapStep
<1>1. /\ w.pc = "find" /\ w.op \in Calls /\ AtSlot \notin Nodes /\ ret' = AtSlot /\ w'.pc = "idle"
      /\ w.op.kind = "tag_clear"
    BY FindCall DEF TagClear, Found, Return, Idle, StructInv
<1>2. PICK a \in Calls : w.op = a
    BY <1>1
<1>3. /\ Value(a.index) = AtSlot /\ before.map[a.index] = AtSlot /\ a.kind \in Asking
      /\ AtSlot \in Items \cup {NULL} /\ a.index \in Indices /\ w.pc \notin Pruning
    BY <1>1, <1>2, FoundValue
<1>4. CASE AtSlot = NULL
    <2>1. UNCHANGED <<root, node>>
        BY <1>4 DEF TagClear, tree
    <2>2. a.kind # "tag_set" /\ w.pc \in Asking \cup {"find"}
        BY <1>1, <1>2
    <2> QED BY <1>1, <1>2, <1>3, <1>4, <2>1, <2>2, NothingFound
<1>5. CASE AtSlot # NULL
    <2>1. /\ a.kind = "tag_clear" /\ a.tag \in Tags
          /\ \A i \in Indices \ {a.index} : Kept(i, Tags)
          /\ Value(a.index)' = AtSlot
          /\ \A x \in Tags \ {a.tag} : Bit(a.index, x)' <=> Bit(a.index, x)
          /\ ~Bit(a.index, a.tag)'
        BY <1>2, <1>5, TagClearEffect
    <2>2. BeforeType /\ \A x \in Tags \ {a.tag} : Bit(a.index, x) <=> a.index \in before.tagged[x]
        BY <1>2, <1>3 DEF MapInv, BitsHold, Changed
    <2> DEFINE g == [before.tagged EXCEPT ![a.tag] = @ \ {a.index}]
    <2>3. /\ g \in [Tags -> SUBSET Indices]
          /\ \A x \in Tags : g[x] = IF x = a.tag THEN before.tagged[x] \ {a.index} ELSE before.tagged[x]
        BY <1>3, <2>1, <2>2 DEF BeforeType
    <2> HIDE DEF g
    <2>4. /\ \A x \in Tags, i \in Indices \ {a.index} : i \in g[x] <=> i \in before.tagged[x]
          /\ \A x \in Tags : Bit(a.index, x)' <=> a.index \in g[x]
        BY <2>1, <2>2, <2>3
    <2>5. w'.op = NULL /\ TheMap' = [before.map EXCEPT ![a.index] = AtSlot] /\ TheTags' = g
        BY <1>1, <1>2, <1>3, <2>1, <2>3, <2>4, CallEnds
    <2>6. TheMap' = before.map
        BY <1>3, <2>2, <2>5 DEF BeforeType
    <2>7. /\ TheMap = before.map /\ TheTags = before.tagged
          /\ w.op # NULL /\ Map!Respond(a.kind, AtSlot)
        BY <1>1, <1>2, <2>5, Responds
    <2>8. Map!TagClear
        BY <1>2, <1>3, <2>1, <2>5, <2>6, <2>7 DEF Map!TagClear, TheMap, TheTags, g
    <2> QED BY <2>8 DEF MapStep, Map!Next
<1> QED BY <1>4, <1>5

\* delete_node is done.
LEMMA PruneEnds ==
    ASSUME StructInv, StructInv', TagsInv, TagsInv', MapInv, Prune, w'.pc = "idle"
    PROVE  MapStep
<1>1. w.pc \in Pruning /\ w \in WriterType /\ w.op \in Calls
    <2>1. w.pc \in Pruning
        BY DEF Prune, PruneEnd, PruneNode, ShrinkEnd, ShrinkRoot, ShrinkRetire, Pruning
    <2> QED BY <2>1, FindCall DEF StructInv, TypeInv, TypeOK, Pruning
<1>2. PICK a \in Calls : w.op = a
    BY <1>1
<1>3. ret' = w.res /\ \A i \in Indices : Kept(i, Tags)
    <2>1. CASE PruneEnd
        <3>1. w' # [w EXCEPT !.pc = "shrink"] /\ UNCHANGED <<root, node>>
            BY <1>1, <2>1 DEF PruneEnd, tree, WriterType
        <3> QED BY <2>1, <3>1, StillKept DEF PruneEnd, Return, Goto
    <2>2. CASE PruneNode
        <3>1. w' # [w EXCEPT !.cur = node[w.cur].parent]
            BY <1>1, <2>2 DEF PruneNode, WriterType
        <3>2. ret' = w.res
            BY <2>2, <3>1 DEF PruneNode, Return, Goto
        <3> QED BY <2>2, <3>2, PruneNodeKept
    <2>3. CASE ShrinkEnd
        BY <2>3, StillKept DEF ShrinkEnd, Return, tree
    <2>4. CASE ShrinkRoot \/ ShrinkRetire
        <3>1. w'.pc # "idle"
            BY <1>1, <2>4 DEF ShrinkRoot, ShrinkRetire, Goto, WriterType
        <3> QED BY <3>1
    <2> QED BY <2>1, <2>2, <2>3, <2>4 DEF Prune
<1>4. /\ w'.op = NULL /\ TheMap' = [before.map EXCEPT ![a.index] = Left(a)]
      /\ a.kind = "delete" => TheTags' = [x \in Tags |-> before.tagged[x] \ {a.index}]
      /\ a.kind # "delete" => TheTags' = before.tagged
    BY <1>1, <1>2, <1>3, PrunedEnds
<1>5. ResultHolds(a)
    BY <1>2 DEF MapInv
<1>6. /\ TheMap = before.map /\ TheTags = before.tagged
      /\ w.op # NULL /\ Map!Respond(a.kind, w.res)
    BY <1>2, <1>3, <1>4, Responds
<1>7. CASE a.kind = "delete"
    <2>1. TheTags' = [x \in Map!Tags |-> before.tagged[x] \ {a.index}]
        BY <1>4, <1>7 DEF Map!Tags, Tags
    <2>2. w.res = before.map[a.index] /\ a.item \in {NULL, before.map[a.index]}
        BY <1>1, <1>5, <1>7 DEF ResultHolds
    <2>3. TheMap' = [before.map EXCEPT ![a.index] = NULL]
        BY <1>4, <1>7 DEF Left
    <2>4. Map!Delete
        BY <1>2, <1>6, <1>7, <2>1, <2>2, <2>3 DEF Map!Delete, TheMap, TheTags
    <2> QED BY <2>4 DEF MapStep, Map!Next
<1>8. CASE a.kind # "delete"
    <2>1. a.kind = "replace" /\ w.res = "ok" /\ before.map[a.index] # NULL
        BY <1>1, <1>5, <1>8 DEF ResultHolds
    <2>2. TheMap' = [before.map EXCEPT ![a.index] = a.item] /\ TheTags' = before.tagged
        BY <1>4, <1>8 DEF Left
    <2>3. Map!Replace
        BY <1>2, <1>6, <2>1, <2>2 DEF Map!Replace, TheMap, TheTags
    <2> QED BY <2>3 DEF MapStep, Map!Next
<1> QED BY <1>7, <1>8

-----------------------------------------------------------------------------
(* The other steps: a call begins, goes on, or is left alone.              *)

LEMMA InvokeBegins ==
    ASSUME StructInv, TagsInv, NEW a \in Calls, Invoke(a) PROVE Map!Next
<1>1. /\ w.op = NULL /\ w.pc = "idle" /\ Callable(a) /\ before' = Snapshot /\ ret' = NULL
      /\ w'.op = a /\ a # NULL
    BY CallAssumption DEF Invoke, StructInv, TypeInv, TypeOK, WriterType, CallInv
<1>2. TheMap = Snapshot.map /\ TheTags = Snapshot.tagged
      /\ TheMap' = Snapshot.map /\ TheTags' = Snapshot.tagged
    BY <1>1, TheMapIs
<1>3. a.index \in Indices /\ Snapshot.map[a.index] = Value(a.index)
      /\ \A x \in Tags : a.index \in Snapshot.tagged[x] <=> Tagged(a.index, x)
    BY CallIndex DEF Snapshot
<1>4. Map!Callable(a)
    BY <1>1, <1>2, <1>3 DEF Callable, Map!Callable, Map!Tags, Tags, TheMap, TheTags
<1>5. Map!Invoke(a)
    BY <1>1, <1>2, <1>4 DEF Map!Invoke, TheMap, TheTags
<1>6. a \in Map!Calls
    BY DEF Calls, Inserts, Deletes, Replaces, TagSets, TagClears, Tags,
           Map!Calls, Map!Inserts, Map!Deletes, Map!Replaces, Map!TagSets, Map!TagClears, Map!Tags
<1> QED BY <1>5, <1>6 DEF Map!Next

\* A call that goes on has not answered.
LEMMA NoAnswer ==
    ASSUME StructInv, WriterStep, w'.pc # "idle" PROVE ret' = ret /\ w.op # NULL /\ before' = before
<1>1. w.pc # "idle" /\ before' = before
    BY DEF WriterStep, AllocFails, ExtendFails, CreateFails, Create, InsertStart, Extend, Descend,
           CreateChild, InsertEntry, FindStart, FindStep, TagSet, TagClear, Delete, Replace, Found,
           Prune, PruneEnd, PruneNode, ShrinkEnd, ShrinkRoot, ShrinkRetire
<1>2. \A r : ~Return(r)
    BY DEF Return, Idle
<1>3. ret' = ret
    <2>1. CASE Prune
        BY <1>2, <2>1 DEF Prune, PruneEnd, PruneNode, ShrinkEnd, ShrinkRoot, ShrinkRetire, Goto
    <2>2. CASE Create
        BY <1>2, <2>2 DEF Create, InsertStart, Extend, Descend, CreateChild, InsertEntry, Goto
    <2>3. CASE AllocFails \/ FindStart \/ FindStep \/ TagSet \/ TagClear
        BY <1>2, <2>3 DEF AllocFails, ExtendFails, CreateFails, FindStart, FindStep, TagSet, TagClear, Goto
    <2>4. CASE Delete \/ Replace
        BY <1>2, <2>4 DEF Delete, Replace, PruneFrom, Goto
    <2> QED BY <2>1, <2>2, <2>3, <2>4 DEF WriterStep
<1> QED BY <1>1, <1>3 DEF StructInv, TypeInv, CallInv

\* The tree is left as it is, or loses memory that was out of it already.
LEMMA OthersStutter ==
    ASSUME StructInv, StructInv', TagsInv, TagsInv', UNCHANGED <<w, ret, before>>,
           \A i \in Indices : Kept(i, Tags)
    PROVE  MapStep
<1>1. CASE w.op # NULL
    BY <1>1, TheMapIs DEF MapStep, TheMap, TheTags
<1>2. CASE w.op = NULL
    <2>1. w.pc = "idle" /\ w'.pc = "idle"
        BY <1>2 DEF StructInv, TypeInv, CallInv
    <2>2. \A i \in Indices : Value(i)' = Value(i) /\ \A x \in Tags : Bit(i, x)' <=> Bit(i, x)
        BY KeptIs
    <2>3. /\ Snapshot \in [map : [Indices -> Items \cup {NULL}], tagged : [Tags -> SUBSET Indices]]
          /\ \A i \in Indices : Snapshot.map[i] = Value(i)
          /\ \A i \in Indices, x \in Tags : i \in Snapshot.tagged[x] <=> Bit(i, x)
        BY <2>1, SnapshotIs
    <2>4. /\ Snapshot.map \in [Indices -> Items \cup {NULL}] /\ Snapshot.tagged \in [Tags -> SUBSET Indices]
          /\ \A i \in Indices : Value(i)' = Snapshot.map[i]
          /\ \A i \in Indices, x \in Tags : Bit(i, x)' <=> i \in Snapshot.tagged[x]
        BY <2>2, <2>3
    <2> DEFINE m == Snapshot.map
               g == Snapshot.tagged
    <2>5. /\ m \in [Indices -> Items \cup {NULL}] /\ g \in [Tags -> SUBSET Indices]
          /\ \A i \in Indices : Value(i)' = m[i]
          /\ \A i \in Indices, x \in Tags : Bit(i, x)' <=> i \in g[x]
        BY <2>4
    <2> HIDE DEF m, g
    <2>6. TheMap' = m /\ TheTags' = g
        BY <2>1, <2>5, SnapshotTo
    <2>7. TheMap = m /\ TheTags = g
        BY <1>2, TheMapIs DEF m, g
    <2> QED BY <2>6, <2>7 DEF MapStep
<1> QED BY <1>1, <1>2

LEMMA StepRefines ==
    ASSUME Leftovers = {NULL}, StructInv, PlaceInv, TagsInv, MapInv, [Next]_vars
    PROVE  MapStep
<1>1. StructInv' /\ TagsInv'
    BY StepStruct, StepTags
<1>2. ASSUME UNCHANGED <<root, node, w, ret, before>> PROVE MapStep
    <2>1. \A i \in Indices : Kept(i, Tags)
        BY <1>2, StillKept
    <2> QED BY <1>1, <1>2, <2>1, OthersStutter
<1>3. CASE UNCHANGED vars
    BY <1>2, <1>3 DEF vars
<1>4. ASSUME NEW o \in Calls, Invoke(o) PROVE MapStep
    BY <1>4, InvokeBegins DEF MapStep
<1>5. ASSUME WriterStep PROVE MapStep
    <2>1. CASE w'.pc # "idle"
        <3>1. ret' = ret /\ w.op # NULL /\ before' = before /\ w'.op = w.op
            BY <1>1, <1>5, <2>1, NoAnswer, WriterMap
        <3> QED BY <3>1, TheMapIs DEF MapStep
    <2>2. CASE w'.pc = "idle"
        <3>1. CASE InsertEntry \/ AllocFails
            <4>1. Map!Insert
                BY <1>1, <3>1, InsertEnds DEF AllocFails
            <4> QED BY <4>1 DEF MapStep, Map!Next
        <3>2. CASE FindStart \/ TagSet \/ TagClear
            BY <1>1, <2>2, <3>2, FindStartEnds, TagSetEnds, TagClearEnds
        <3>3. CASE Delete \/ Replace
            BY <1>1, <2>2, <3>3, DeleteEnds, ReplaceEnds
        <3>4. CASE Prune
            BY <1>1, <2>2, <3>4, PruneEnds
        <3>5. CASE InsertStart \/ Extend \/ Descend \/ CreateChild \/ FindStep
            <4>1. w \in WriterType
                BY DEF StructInv, TypeInv, TypeOK
            <4>2. w'.pc # "idle"
                BY <3>5, <4>1 DEF InsertStart, Extend, Descend, CreateChild, FindStep, Goto, WriterType
            <4> QED BY <2>2, <4>2
        <3> QED BY <1>5, <3>1, <3>2, <3>3, <3>4, <3>5 DEF WriterStep, Create
    <2> QED BY <2>1, <2>2
<1>6. ASSUME NEW r \in Readers, Reader(r) PROVE MapStep
    <2>1. UNCHANGED <<root, node, w, ret, before>>
        BY <1>6 DEF Reader, ReadLock, ReadRoot, ReadBound, ReadSlot, ReadRetry, ReadUnlock,
                    WriterSame, tree
    <2> QED BY <1>2, <2>1
<1>7. ASSUME NEW n \in Nodes, RcuFree(n) PROVE MapStep
    <2>1. UNCHANGED <<w, ret, before>>
        BY <1>7 DEF RcuFree, WriterSame
    <2>2. \A i \in Indices : Kept(i, Tags)
        BY <1>1, <1>7, RcuFreeKept
    <2> QED BY <1>1, <2>1, <2>2, OthersStutter
<1> QED BY <1>3, <1>4, <1>5, <1>6, <1>7 DEF Next

LEMMA InitRefines == Init => Map!Init
<1> SUFFICES ASSUME Init PROVE Map!Init
    OBVIOUS
<1>1. root.rnode = NULL /\ root.tags = {} /\ w.op = NULL /\ ret = NULL /\ w.pc = "idle"
    BY DEF Init, Idle
<1>2. \A i \in Indices : Value(i) = NULL
    <2>1. NULL \notin Nodes
        BY EntryAssumption
    <2>2. Tree(root.rnode, node, heap, NULL)
        BY <1>1, InitStruct, TreeNow DEF Retiring
    <2> SUFFICES ASSUME NEW i \in Indices PROVE Value(i) = NULL
        OBVIOUS
    <2>3. StructInv
        BY InitStruct
    <2>4. CASE i > RootMaxIndex
        BY <2>4 DEF Value
    <2>5. CASE ~(i > RootMaxIndex)
        <3>1. IsWalk(Walk(i), root.rnode, node, i) /\ 0 \in 0 .. Height /\ Height \in 0 .. Height
            BY <2>2, WayIs, Finding, SizeAssumption
        <3>2. Walk(i)[0] = NULL
            BY <1>1, <3>1 DEF IsWalk
        <3>3. Finds(root.rnode, node, i) \in Items \cup {NULL}
              /\ \A e \in Items : Finds(root.rnode, node, i) = e <=> Holds(root.rnode, node, i, e)
            BY <2>2, FindsHeld
        <3>4. \A e \in Items : ~Holds(root.rnode, node, i, e)
            <4>1. Passed(root.rnode, node, i) = {}
                BY <1>1, <2>1, <2>2, PassedLive
            <4> QED BY <1>1, <4>1, EntryAssumption DEF Holds
        <3> QED BY <3>3, <3>4, Finding
    <2> QED BY <2>4, <2>5
<1>3. \A i, x : ~Tagged(i, x)
    BY <1>1 DEF Tagged
<1>4. /\ Snapshot.map = [i \in Indices |-> NULL]
      /\ Snapshot.tagged = [t \in Tags |-> {}]
    BY <1>2, <1>3 DEF Snapshot
<1>5. TheMap = [i \in Indices |-> NULL] /\ TheTags = [t \in Map!Tags |-> {}]
    BY <1>1, <1>4, TheMapIs DEF Map!Tags, Tags
<1> QED BY <1>1, <1>5 DEF Map!Init, TheMap, TheTags

\* The radix tree of radix-tree.c implements the map with tags: a call that returns has
\* had its whole effect, or none, and the result that goes with it.
THEOREM TreeIsMap ==
    ASSUME Leftovers = {NULL} PROVE Spec => ImplementsMap
<1>1. Leftovers = {NULL}
    OBVIOUS
<1>2. StructInv /\ PlaceInv /\ TagsInv /\ MapInv /\ [Next]_vars
      => StructInv' /\ PlaceInv' /\ TagsInv' /\ MapInv'
    BY <1>1, StepStruct, StepTags, StepMap
<1>3. StructInv /\ PlaceInv /\ TagsInv /\ MapInv /\ [Next]_vars
      => [Map!Next]_<<IF AtRest THEN Snapshot.map ELSE before.map,
                      IF AtRest THEN Snapshot.tagged ELSE before.tagged, w.op, ret>>
    BY <1>1, StepRefines DEF MapStep, TheMap, TheTags
<1> QED BY <1>2, <1>3, InitStruct, InitTags, InitMap, InitRefines, PTL
        DEF Spec, ImplementsMap, Map!Spec
=============================================================================
