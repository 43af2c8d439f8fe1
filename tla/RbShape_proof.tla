--------------------------- MODULE RbShape_proof ----------------------------
(***************************************************************************)
(* Red-black trees apart from the program: elements linked both ways, what *)
(* a rotation, a new leaf, taking an element out and putting another in its*)
(* place do to them and to the number of black elements on their paths, and*)
(* what has to be repainted.  Two places may be out of balance: a red x    *)
(* below a red parent, and a side t below y where one black is missing.    *)
(* The first element, the augmented values and the climb that mends them.  *)
(* Then the writer's invariant, and that the turns of its loops keep it.   *)
(***************************************************************************)
EXTENDS RbTree, TLAPS, FiniteSetTheorems, WellFoundedInduction

-----------------------------------------------------------------------------
(* Trees.  T is the elements, c their child pointers, c[NULL]["left"] the  *)
(* root, and up their parents.                                             *)

Memory == [Links -> [Sides -> Links]]
Ups == [Nodes -> Links]

Linked(T, c, up) ==
    /\ c[NULL]["right"] = NULL
    /\ \A p \in T \cup {NULL}, s \in Sides :
         c[p][s] # NULL => c[p][s] \in T /\ up[c[p][s]] = p
    /\ \A p \in T : c[p]["left"] = c[p]["right"] => c[p]["left"] = NULL
    /\ \A n \in T : up[n] \in T \cup {NULL} /\ up[n] # n /\ \E s \in Sides : c[up[n]][s] = n

LEMMA SidesAre ==
    \A s \in Sides : Other(s) \in Sides /\ Other(s) # s /\ Other(Other(s)) = s
                     /\ \A t \in Sides : t = s \/ t = Other(s)
BY DEF Sides, Other

\* A child is on one side only.
Once(T, c) ==
    \A p, q \in T \cup {NULL}, s, e \in Sides :
      c[p][s] = c[q][e] /\ c[p][s] # NULL => p = q /\ s = e

LEMMA OneSide ==
    ASSUME NEW T \in SUBSET Nodes, NEW c, NEW up, Linked(T, c, up)
    PROVE  Once(T, c)
<1> SUFFICES ASSUME NEW p \in T \cup {NULL}, NEW q \in T \cup {NULL}, NEW s \in Sides,
                    NEW e \in Sides, c[p][s] = c[q][e], c[p][s] # NULL
             PROVE  p = q /\ s = e
    BY DEF Once
<1>1. p = q
    BY DEF Linked
<1>2. CASE p = NULL
    BY <1>1, <1>2 DEF Linked, Sides
<1>3. CASE p # NULL
    BY <1>1, <1>3 DEF Linked, Sides
<1> QED BY <1>2, <1>3

\* d is c with q = c[p][s] rotated above p, on side k of p's parent g.
Rotated(T, c, d, p, s, g, k) ==
    LET q == c[p][s] IN
    \A m \in T \cup {NULL}, e \in Sides :
      d[m][e] = IF m = p /\ e = s THEN c[q][Other(s)]
                ELSE IF m = q /\ e = Other(s) THEN p
                ELSE IF m = g /\ e = k THEN q ELSE c[m][e]

\* What a rotation needs of the elements around it.
Around(T, c, up, p, s, k) ==
    /\ Linked(T, c, up) /\ p \in T /\ s \in Sides /\ k \in Sides
    /\ c[p][s] \in T /\ c[up[p]][k] = p /\ c[p][s] # up[p]

\* vp is up after it.
Turned(T, c, up, vp, p, s) ==
    LET q == c[p][s] IN
    \A n \in T : vp[n] = IF n = q THEN up[p] ELSE IF n = p THEN q
                         ELSE IF n = c[q][Other(s)] THEN p ELSE up[n]

\* A rotation leaves links that agree.
LEMMA RotationLinked ==
    ASSUME NEW T \in SUBSET Nodes, NEW c \in Memory, NEW up \in Ups, NEW p, NEW s, NEW k,
           NEW d \in Memory, NEW vp \in Ups,
           Around(T, c, up, p, s, k), Rotated(T, c, d, p, s, up[p], k), Turned(T, c, up, vp, p, s)
    PROVE  Linked(T, d, vp)
<1> DEFINE q == c[p][s]
           o == Other(s)
           b == c[q][o]
           g == up[p]
<1>a. /\ Linked(T, c, up) /\ p \in T /\ s \in Sides /\ k \in Sides /\ q \in T /\ c[g][k] = p
      /\ q # g
    BY DEF Around
<1> USE <1>a
<1>0. \A m, n \in T \cup {NULL}, i, j \in Sides :
        c[m][i] = c[n][j] /\ c[m][i] # NULL => m = n /\ i = j
    <2>1. Once(T, c)
        BY OneSide
    <2> QED BY <2>1 DEF Once
<1>1. o \in Sides /\ o # s /\ \A e \in Sides : e = s \/ e = o
    BY SidesAre
<1>2. NULL \notin Nodes /\ NULL \notin T
    BY NodeAssumption
<1>3. /\ up[q] = p /\ g \in T \cup {NULL} /\ g # p /\ q # p /\ b # p /\ b # q
      /\ b # NULL => b \in T /\ up[b] = q
    BY <1>1, <1>2 DEF Linked
<1>4. b # NULL => b # c[q][s]
    BY <1>1, <1>0
<1>b. c[p][s] = q /\ c[q][o] = b /\ up[p] = g /\ Other(s) = o
    OBVIOUS
<1>5. \A m \in T \cup {NULL}, e \in Sides :
        d[m][e] = IF m = p /\ e = s THEN b ELSE IF m = q /\ e = o THEN p
                  ELSE IF m = g /\ e = k THEN q ELSE c[m][e]
    BY DEF Rotated
<1>6. \A n \in T : vp[n] = IF n = q THEN g ELSE IF n = p THEN q
                           ELSE IF n = b THEN p ELSE up[n]
    BY DEF Turned
<1> HIDE DEF q, o, b, g
<1> USE <1>b
<1>7. d[NULL]["right"] = NULL
    <2>1. c[NULL]["right"] = NULL /\ "right" \in Sides
        BY DEF Linked, Sides
    <2>2. ~(NULL = g /\ "right" = k)
        BY <1>2, <2>1 DEF g
    <2> QED BY <1>2, <1>5, <2>1, <2>2
<1>8. ASSUME NEW m \in T \cup {NULL}, NEW e \in Sides, d[m][e] # NULL
      PROVE  d[m][e] \in T /\ vp[d[m][e]] = m
    <2>1. CASE m = p /\ e = s
        BY <1>3, <1>5, <1>6, <1>8, <2>1
    <2>2. CASE m = q /\ e = o
        BY <1>3, <1>5, <1>6, <2>2
    <2>3. CASE m = g /\ e = k
        BY <1>3, <1>5, <1>6, <2>3
    <2>4. CASE ~(m = p /\ e = s) /\ ~(m = q /\ e = o) /\ ~(m = g /\ e = k)
        <3>1. d[m][e] = c[m][e]
            BY <1>5, <2>4
        <3>2. c[m][e] \in T /\ up[c[m][e]] = m
            BY <1>8, <3>1 DEF Linked
        <3>3. c[m][e] # q
            BY <1>2, <2>4, <1>0
        <3>4. c[m][e] # p
            BY <1>2, <1>3, <2>4, <1>0 DEF g
        <3>5. c[m][e] # b
            BY <1>1, <1>2, <1>3, <2>4, <3>2, <1>0 DEF b
        <3> QED BY <1>6, <3>1, <3>2, <3>3, <3>4, <3>5
    <2> QED BY <2>1, <2>2, <2>3, <2>4
<1>9. ASSUME NEW m \in T, NEW e \in Sides, NEW f \in Sides, e # f, d[m][e] = d[m][f],
             d[m][e] # NULL
      PROVE  FALSE
    <2>1. ASSUME NEW i \in Sides, NEW j \in Sides, i # j, d[m][i] = d[m][j], d[m][i] # NULL
          PROVE  ~(m = p /\ i = s)
        <3> SUFFICES ASSUME m = p, i = s PROVE FALSE
            OBVIOUS
        <3>1. d[m][i] = b /\ d[m][j] = c[p][j] /\ up[c[p][j]] = p /\ b # NULL
            BY <1>3, <1>5, <2>1 DEF Linked
        <3>2. c[p][j] = b
            BY <2>1, <3>1
        <3> QED BY <1>3, <3>1, <3>2
    <2>2. ASSUME NEW i \in Sides, NEW j \in Sides, i # j, d[m][i] = d[m][j], d[m][i] # NULL
          PROVE  ~(m = q /\ i = o)
        <3> SUFFICES ASSUME m = q, i = o PROVE FALSE
            OBVIOUS
        <3>1. d[m][i] = p /\ (d[m][j] = q \/ (d[m][j] = c[q][j]))
            BY <1>3, <1>5, <2>2
        <3>2. up[p] = q
            BY <1>3, <2>2, <3>1 DEF Linked
        <3> QED BY <3>2
    <2>3. ASSUME NEW i \in Sides, NEW j \in Sides, i # j, d[m][i] = d[m][j], d[m][i] # NULL
          PROVE  ~(m = g /\ i = k)
        <3> SUFFICES ASSUME m = g, i = k PROVE FALSE
            OBVIOUS
        <3>1. d[m][i] = q /\ d[m][j] = c[g][j] /\ up[c[g][j]] = g
            BY <1>3, <1>5, <2>3 DEF Linked, g
        <3> QED BY <1>3, <2>3, <3>1
    <2>4. d[m][e] = c[m][e] /\ d[m][f] = c[m][f]
        BY <1>5, <1>9, <2>1, <2>2, <2>3
    <2>5. m \in T \cup {NULL} /\ c[m][e] = c[m][f] /\ c[m][e] # NULL
        BY <1>9, <2>4
    <2> QED BY <1>0, <1>9, <2>5
<1>10. ASSUME NEW n \in T
       PROVE  vp[n] \in T \cup {NULL} /\ vp[n] # n /\ \E e \in Sides : d[vp[n]][e] = n
    <2>1. CASE n = q
        BY <1>3, <1>5, <1>6, <2>1
    <2>2. CASE n = p
        BY <1>1, <1>3, <1>5, <1>6, <2>2
    <2>3. CASE n = b
        BY <1>3, <1>5, <1>6, <2>3
    <2>4. CASE n \notin {q, p, b}
        <3>1. vp[n] = up[n]
            BY <1>6, <2>4
        <3>2. PICK e \in Sides : c[up[n]][e] = n
            BY DEF Linked
        <3>3. up[n] \in T \cup {NULL} /\ up[n] # n
            BY DEF Linked
        <3>4. d[up[n]][e] = n
            BY <1>5, <2>4, <3>2, <3>3 DEF b, g
        <3> QED BY <3>1, <3>3, <3>4
    <2> QED BY <2>1, <2>2, <2>3, <2>4
<1>11. \A m \in T : d[m]["left"] = d[m]["right"] => d[m]["left"] = NULL
    BY <1>9 DEF Sides
<1> QED BY <1>7, <1>8, <1>10, <1>11 DEF Linked

\* d is c with the new element n on side s of p, where there was none.
Hung(T, c, d, p, s, n) ==
    /\ c[p][s] = NULL /\ n \notin T
    /\ \A m \in T \cup {n, NULL}, e \in Sides :
         d[m][e] = IF m = n THEN NULL ELSE IF m = p /\ e = s THEN n ELSE c[m][e]

\* A new element becomes the child of p, where there was none.
LEMMA LeafLinked ==
    ASSUME NEW T \in SUBSET Nodes, NEW c \in Memory, NEW up \in Ups, Linked(T, c, up),
           NEW p \in T \cup {NULL}, NEW s \in Sides, p = NULL => s = "left",
           NEW n \in Nodes, NEW d \in Memory, NEW vp \in Ups, Hung(T, c, d, p, s, n),
           \A m \in T \cup {n} : vp[m] = IF m = n THEN p ELSE up[m]
    PROVE  Linked(T \cup {n}, d, vp)
<1>0. /\ c[p][s] = NULL /\ n \notin T
      /\ \A m \in T \cup {n, NULL}, e \in Sides :
           d[m][e] = IF m = n THEN NULL ELSE IF m = p /\ e = s THEN n ELSE c[m][e]
    BY DEF Hung
<1> USE <1>0
<1> DEFINE U == T \cup {n}
<1>1. NULL \notin Nodes /\ NULL \notin T /\ n # p /\ "right" \in Sides /\ "left" # "right"
    BY NodeAssumption DEF Sides
<1>2. d[NULL]["right"] = NULL
    BY <1>1 DEF Linked
<1>3. ASSUME NEW m \in U \cup {NULL}, NEW e \in Sides, d[m][e] # NULL
      PROVE  d[m][e] \in U /\ vp[d[m][e]] = m
    <2>1. CASE m = p /\ e = s
        BY <1>1, <2>1
    <2>2. CASE ~(m = p /\ e = s)
        <3>1. m \in T \cup {NULL} /\ d[m][e] = c[m][e]
            BY <1>1, <1>3, <2>2
        <3>2. c[m][e] \in T /\ up[c[m][e]] = m
            BY <1>3, <3>1 DEF Linked
        <3> QED BY <3>1, <3>2
    <2> QED BY <2>1, <2>2
<1>4. ASSUME NEW m \in U, d[m]["left"] = d[m]["right"] PROVE d[m]["left"] = NULL
    <2>1. \A e \in Sides : c[p][e] # n
        BY <1>1 DEF Linked
    <2>2. CASE m = p
        BY <1>1, <1>4, <2>1, <2>2 DEF Sides
    <2>3. CASE m # p /\ m # n
        BY <1>1, <1>4, <2>3 DEF Linked, Sides
    <2>4. CASE m = n
        BY <1>1, <2>4 DEF Sides
    <2> QED BY <2>2, <2>3, <2>4
<1>5. ASSUME NEW m \in U
      PROVE  vp[m] \in U \cup {NULL} /\ vp[m] # m /\ \E e \in Sides : d[vp[m]][e] = m
    <2>1. CASE m = n
        BY <1>1, <2>1
    <2>2. CASE m # n
        <3>1. /\ up[m] \in T \cup {NULL} /\ up[m] # m /\ vp[m] = up[m] /\ up[m] # n /\ m # NULL
            BY <1>1, <2>2 DEF Linked
        <3>2. PICK e \in Sides : c[up[m]][e] = m
            BY <2>2 DEF Linked
        <3>3. d[up[m]][e] = m
            BY <3>1, <3>2
        <3> QED BY <3>1, <3>3
    <2> QED BY <2>1, <2>2
<1>6. \A m \in U \cup {NULL}, e \in Sides : d[m][e] # NULL => d[m][e] \in U /\ vp[d[m][e]] = m
    BY <1>3
<1> QED BY <1>2, <1>4, <1>5, <1>6 DEF Linked

\* No element is its own grandparent.
NoTwoCycle(T, c, up) == \A p \in T, s \in Sides : c[p][s] # NULL => c[p][s] # up[p]

\* d is c without z, which has a child on side s at most: the child, or nothing,
\* takes its place on side k of its parent.
Unlinked(T, c, up, d, z, s, k) ==
    /\ c[z][Other(s)] = NULL /\ c[up[z]][k] = z
    /\ \A m \in (T \ {z}) \cup {NULL}, e \in Sides :
         d[m][e] = IF m = up[z] /\ e = k THEN c[z][s] ELSE c[m][e]
\* vp is up after it.
Adopted(T, c, up, vp, z, s) ==
    \A m \in T \ {z} : vp[m] = IF m = c[z][s] THEN up[z] ELSE up[m]

\* Taking an element with one child at most out leaves links that agree.
LEMMA UnlinkLinked ==
    ASSUME NEW T \in SUBSET Nodes, NEW c \in Memory, NEW up \in Ups, Linked(T, c, up),
           NEW z \in T, NEW s \in Sides, NEW k \in Sides, NEW d \in Memory, NEW vp \in Ups,
           Unlinked(T, c, up, d, z, s, k), Adopted(T, c, up, vp, z, s), NoTwoCycle(T, c, up)
    PROVE  Linked(T \ {z}, d, vp)
<1>z. /\ c[z][Other(s)] = NULL /\ c[up[z]][k] = z
      /\ \A m \in (T \ {z}) \cup {NULL}, e \in Sides :
           d[m][e] = IF m = up[z] /\ e = k THEN c[z][s] ELSE c[m][e]
      /\ \A m \in T \ {z} : vp[m] = IF m = c[z][s] THEN up[z] ELSE up[m]
      /\ c[z][s] # up[z] \/ c[z][s] = NULL
    BY DEF Unlinked, Adopted, NoTwoCycle
<1> USE <1>z
<1> DEFINE U == T \ {z}
           b == c[z][s]
           g == up[z]
<1>0. \A m, n \in T \cup {NULL}, i, j \in Sides :
        c[m][i] = c[n][j] /\ c[m][i] # NULL => m = n /\ i = j
    <2>1. Once(T, c)
        BY OneSide
    <2> QED BY <2>1 DEF Once
<1>1. /\ NULL \notin Nodes /\ NULL \notin T /\ g \in U \cup {NULL}
      /\ b # NULL => b \in U /\ up[b] = z
    BY NodeAssumption DEF Linked
<1> HIDE DEF b, g
<1>2. d[NULL]["right"] = NULL
    <2>1. c[NULL]["right"] = NULL /\ "right" \in Sides
        BY DEF Linked, Sides
    <2>2. ~(NULL = g /\ "right" = k)
        BY <1>1, <2>1 DEF g
    <2> QED BY <2>1, <2>2 DEF g
<1>3. ASSUME NEW m \in U \cup {NULL}, NEW e \in Sides, d[m][e] # NULL
      PROVE  d[m][e] \in U /\ vp[d[m][e]] = m
    <2>1. CASE m = g /\ e = k
        BY <1>1, <1>3, <2>1 DEF b, g
    <2>2. CASE ~(m = g /\ e = k)
        <3>1. m \in T \cup {NULL} /\ d[m][e] = c[m][e]
            BY <1>1, <2>2 DEF g
        <3>2. c[m][e] \in T /\ up[c[m][e]] = m
            BY <1>3, <3>1 DEF Linked
        <3>3. c[m][e] # z
            BY <1>0, <1>1, <2>2, <3>1, <3>2 DEF g
        <3>4. c[m][e] # b
            BY <1>1, <1>3, <3>1, <3>2
        <3> QED BY <3>1, <3>2, <3>3, <3>4 DEF b
    <2> QED BY <2>1, <2>2
<1>4. ASSUME NEW m \in U, d[m]["left"] = d[m]["right"], d[m]["left"] # NULL PROVE FALSE
    <2>1. CASE m = g
        <3>1. ASSUME NEW e \in Sides, e # k PROVE d[m][e] # b \/ b = NULL
            BY <1>1, <2>1, <3>1 DEF g, Linked
        <3>2. d[m][k] = b
            BY <2>1 DEF b, g
        <3> QED BY <1>4, <3>1, <3>2 DEF Sides
    <2>2. CASE m # g
        <3>1. d[m]["left"] = c[m]["left"] /\ d[m]["right"] = c[m]["right"]
            BY <2>2 DEF Sides, g
        <3> QED BY <1>4, <3>1 DEF Linked
    <2> QED BY <2>1, <2>2
<1>5. ASSUME NEW m \in U
      PROVE  vp[m] \in U \cup {NULL} /\ vp[m] # m /\ \E e \in Sides : d[vp[m]][e] = m
    <2>1. CASE m = b
        <3>1. vp[m] = g /\ d[g][k] = b
            BY <1>1, <2>1 DEF b, g
        <3> QED BY <1>1, <2>1, <3>1 DEF b, g
    <2>2. CASE m # b
        <3>1. up[m] \in T \cup {NULL} /\ up[m] # m /\ vp[m] = up[m]
            BY <2>2 DEF Linked, b
        <3>2. PICK e \in Sides : c[up[m]][e] = m
            <4>1. m \in T
                OBVIOUS
            <4> QED BY <4>1 DEF Linked
        <3>3. up[m] # z
            <4>1. e = s \/ e = Other(s)
                BY SidesAre
            <4> QED BY <1>1, <2>2, <3>2, <4>1 DEF b
        <3>4. ~(up[m] = g /\ e = k)
            BY <3>2 DEF g
        <3>5. d[up[m]][e] = m
            BY <3>1, <3>2, <3>3, <3>4 DEF g
        <3> QED BY <3>1, <3>3, <3>5
    <2> QED BY <2>1, <2>2
<1>6. \A m \in U \cup {NULL}, e \in Sides : d[m][e] # NULL => d[m][e] \in U /\ vp[d[m][e]] = m
    BY <1>3
<1>7. \A m \in U : d[m]["left"] = d[m]["right"] => d[m]["left"] = NULL
    BY <1>4
<1> QED BY <1>2, <1>5, <1>6, <1>7 DEF Linked

\* d is c with n, which is new, in the place of v.
Substituted(T, c, up, d, v, n, k) ==
    /\ c[up[v]][k] = v
    /\ \A m \in (T \ {v}) \cup {n, NULL}, e \in Sides :
         d[m][e] = IF m = n THEN c[v][e] ELSE IF m = up[v] /\ e = k THEN n ELSE c[m][e]
\* vp is up after it.
Inherited(T, up, vp, v, n) ==
    \A m \in (T \ {v}) \cup {n} :
      vp[m] = IF m = n THEN up[v] ELSE IF up[m] = v THEN n ELSE up[m]

\* n, which is new, takes the place of v.
LEMMA SubstituteLinked ==
    ASSUME NEW T \in SUBSET Nodes, NEW c \in Memory, NEW up \in Ups, Linked(T, c, up),
           NEW v \in T, NEW n \in Nodes, n \notin T, NEW k \in Sides,
           NEW d \in Memory, NEW vp \in Ups,
           Substituted(T, c, up, d, v, n, k), Inherited(T, up, vp, v, n)
    PROVE  Linked((T \ {v}) \cup {n}, d, vp)
<1>z. /\ c[up[v]][k] = v
      /\ \A m \in (T \ {v}) \cup {n, NULL}, e \in Sides :
           d[m][e] = IF m = n THEN c[v][e] ELSE IF m = up[v] /\ e = k THEN n ELSE c[m][e]
      /\ \A m \in (T \ {v}) \cup {n} :
           vp[m] = IF m = n THEN up[v] ELSE IF up[m] = v THEN n ELSE up[m]
    BY DEF Substituted, Inherited
<1> USE <1>z
<1> DEFINE U == (T \ {v}) \cup {n}
           g == up[v]
<1>0. \A m, l \in T \cup {NULL}, i, j \in Sides :
        c[m][i] = c[l][j] /\ c[m][i] # NULL => m = l /\ i = j
    <2>1. Once(T, c)
        BY OneSide
    <2> QED BY <2>1 DEF Once
<1>1. /\ NULL \notin Nodes /\ NULL \notin T /\ g \in (T \ {v}) \cup {NULL} /\ n # NULL /\ g # n
      /\ \A e \in Sides : c[v][e] # NULL => c[v][e] \in T \ {v} /\ up[c[v][e]] = v
    BY NodeAssumption DEF Linked
<1> HIDE DEF g
<1>2. d[NULL]["right"] = NULL
    <2>1. c[NULL]["right"] = NULL /\ "right" \in Sides
        BY DEF Linked, Sides
    <2>2. ~(NULL = g /\ "right" = k)
        BY <1>1, <2>1 DEF g
    <2> QED BY <1>1, <2>1, <2>2 DEF g
<1>3. ASSUME NEW m \in U \cup {NULL}, NEW e \in Sides, d[m][e] # NULL
      PROVE  d[m][e] \in U /\ vp[d[m][e]] = m
    <2>1. CASE m = n
        BY <1>1, <1>3, <2>1
    <2>2. CASE m = g /\ e = k
        BY <1>1, <2>2 DEF g
    <2>3. CASE m # n /\ ~(m = g /\ e = k)
        <3>1. m \in (T \ {v}) \cup {NULL} /\ d[m][e] = c[m][e]
            BY <1>1, <2>3 DEF g
        <3>2. c[m][e] \in T /\ up[c[m][e]] = m
            BY <1>3, <3>1 DEF Linked
        <3>3. c[m][e] # v
            BY <1>0, <1>1, <2>3, <3>1, <3>2 DEF g
        <3>4. m # v
            BY <1>1, <3>1
        <3> QED BY <3>1, <3>2, <3>3, <3>4
    <2> QED BY <2>1, <2>2, <2>3
<1>4. ASSUME NEW m \in U, d[m]["left"] = d[m]["right"], d[m]["left"] # NULL PROVE FALSE
    <2>1. CASE m = g
        <3>1. ASSUME NEW e \in Sides, e # k PROVE d[m][e] # n
            BY <1>1, <2>1, <3>1 DEF g, Linked
        <3>2. d[m][k] = n
            BY <1>1, <2>1 DEF g
        <3> QED BY <1>4, <3>1, <3>2 DEF Sides
    <2>2. CASE m # g /\ m # n
        <3>1. d[m]["left"] = c[m]["left"] /\ d[m]["right"] = c[m]["right"]
            BY <2>2 DEF Sides, g
        <3> QED BY <1>4, <2>2, <3>1 DEF Linked
    <2>3. CASE m = n
        <3>1. d[m]["left"] = c[v]["left"] /\ d[m]["right"] = c[v]["right"]
            BY <2>3 DEF Sides
        <3> QED BY <1>4, <3>1 DEF Linked
    <2> QED BY <2>1, <2>2, <2>3
<1>5. ASSUME NEW m \in U
      PROVE  vp[m] \in U \cup {NULL} /\ vp[m] # m /\ \E e \in Sides : d[vp[m]][e] = m
    <2>1. CASE m = n
        <3>1. vp[m] = g /\ d[g][k] = n
            BY <1>1, <2>1 DEF g
        <3> QED BY <1>1, <2>1, <3>1
    <2>2. CASE m # n
        <3>1. m \in T /\ up[m] \in T \cup {NULL} /\ up[m] # m /\ m # v
            BY <2>2 DEF Linked
        <3>2. PICK e \in Sides : c[up[m]][e] = m
            BY <3>1 DEF Linked
        <3>3. CASE up[m] = v
            BY <1>1, <2>2, <3>1, <3>2, <3>3
        <3>4. CASE up[m] # v
            <4>1. d[up[m]][e] = m /\ vp[m] = up[m]
                BY <1>1, <2>2, <3>1, <3>2, <3>4 DEF g
            <4> QED BY <3>1, <3>4, <4>1
        <3> QED BY <3>3, <3>4
    <2> QED BY <2>1, <2>2
<1>6. \A m \in U \cup {NULL}, e \in Sides : d[m][e] # NULL => d[m][e] \in U /\ vp[d[m][e]] = m
    BY <1>3
<1>7. \A m \in U : d[m]["left"] = d[m]["right"] => d[m]["left"] = NULL
    BY <1>4
<1> QED BY <1>2, <1>5, <1>6, <1>7 DEF Linked

-----------------------------------------------------------------------------
(* Red-black trees.  h is the number of black elements on every path from  *)
(* an element down, itself included.  Only x may be red below a red parent *)
(* or be a red root, and below y on side t one black element is missing.   *)

Weight(red, n) == IF n \in red THEN 0 ELSE 1
Lack(n, s, y, t) == IF n = y /\ s = t THEN 1 ELSE 0

Balanced(T, c, red, h, x, y, t) ==
    /\ h[NULL] = 0
    /\ \A n \in T, s \in Sides : h[n] = h[c[n][s]] + Weight(red, n) + Lack(n, s, y, t)
    /\ \A n \in T \cup {NULL}, s \in Sides :
         c[n][s] \in red /\ (n \in red \/ n = NULL) => c[n][s] = x

Heights == [Links -> Nat]

LEMMA NotAbove ==
    ASSUME NEW T \in SUBSET Nodes, NEW c \in Memory, NEW up \in Ups, Linked(T, c, up),
           NEW red \in SUBSET Nodes, NEW h \in Heights, NEW x, NEW y, NEW t,
           Balanced(T, c, red, h, x, y, t)
    PROVE  NoTwoCycle(T, c, up)
<1> SUFFICES ASSUME NEW p \in T, NEW s \in Sides, c[p][s] # NULL
             PROVE  c[p][s] # up[p]
    BY DEF NoTwoCycle
<1> DEFINE q == c[p][s]
<1>1. q \in T /\ up[q] = p /\ up[p] # p /\ p \in Links /\ q \in Links
    BY DEF Linked, Links
<1>2. PICK e \in Sides : c[up[p]][e] = p
    BY DEF Linked
<1>3. h[p] \in Nat /\ h[q] \in Nat
    BY <1>1 DEF Heights
<1> HIDE DEF q
<1>4. ASSUME q = up[p] PROVE FALSE
    <2>1. h[p] = h[q] + Weight(red, p) + Lack(p, s, y, t)
        BY DEF Balanced, q
    <2>2. h[q] = h[p] + Weight(red, q) + Lack(q, e, y, t)
        BY <1>1, <1>2, <1>4 DEF Balanced
    <2>3. p \in red /\ q \in red
        BY <1>3, <2>1, <2>2 DEF Weight, Lack
    <2>4. q = x /\ p = x
        BY <1>1, <1>2, <1>4, <2>3 DEF Balanced, q
    <2> QED BY <1>1, <2>4
<1> QED BY <1>1, <1>4 DEF q

Apart(T, c, p, q, b, g, s, o, k) ==
    /\ p \in T /\ q \in T /\ g \in T \cup {NULL} /\ g # p /\ q # p /\ q # g
    /\ b # p /\ b # q /\ (b = NULL \/ b \in T)
    /\ s \in Sides /\ k \in Sides /\ o \in Sides /\ o # s
    /\ p # NULL /\ q # NULL /\ c[g][k] = p /\ c[p][s] = q /\ c[q][o] = b
    /\ \A m \in T \cup {NULL}, e \in Sides :
         /\ c[m][e] = q => m = p /\ e = s
         /\ c[m][e] = p => m = g /\ e = k
         /\ c[m][e] = b /\ b # NULL => m = q /\ e = o

LEMMA AroundIs ==
    ASSUME NEW T \in SUBSET Nodes, NEW c \in Memory, NEW up \in Ups, NEW p, NEW s, NEW k,
           Around(T, c, up, p, s, k)
    PROVE  Apart(T, c, p, c[p][s], c[c[p][s]][Other(s)], up[p], s, Other(s), k)
<1> DEFINE q == c[p][s]
           b == c[q][Other(s)]
           g == up[p]
<1>1. Other(s) \in Sides /\ Other(s) # s
    BY SidesAre DEF Around
<1>2. /\ p \in T /\ q \in T /\ g \in T \cup {NULL} /\ g # p /\ q # p /\ q # g
      /\ b # p /\ b # q /\ (b = NULL \/ b \in T)
      /\ p # NULL /\ q # NULL /\ c[g][k] = p
    BY <1>1, NodeAssumption DEF Around, Linked
<1>3. Once(T, c)
    BY OneSide DEF Around
<1> QED BY <1>1, <1>2, <1>3 DEF Once, Around, Apart

\* Case 2 of an insertion: the lower of two red elements is lifted.
LEMMA InnerBalanced ==
    ASSUME NEW T \in SUBSET Nodes, NEW c \in Memory, NEW up \in Ups, NEW d \in Memory,
           NEW red \in SUBSET Nodes, NEW h \in Heights, NEW p, NEW s, NEW k, NEW t,
           Around(T, c, up, p, s, k), Rotated(T, c, d, p, s, up[p], k),
           Balanced(T, c, red, h, c[p][s], NULL, t), p \in red, c[p][s] \in red
    PROVE  Balanced(T, d, red, h, p, NULL, t)
<1> DEFINE q == c[p][s]
           o == Other(s)
           b == c[q][o]
           g == up[p]
<1>1. Apart(T, c, p, q, b, g, s, o, k)
    BY AroundIs
<1>2. \A m \in T \cup {NULL}, e \in Sides :
        d[m][e] = IF m = p /\ e = s THEN b ELSE IF m = q /\ e = o THEN p
                  ELSE IF m = g /\ e = k THEN q ELSE c[m][e]
    BY DEF Rotated
<1>3. NULL \notin T
    BY NodeAssumption
<1>4. h[NULL] = 0
    BY DEF Balanced
<1>5. \A n \in T, e \in Sides : h[n] = h[c[n][e]] + Weight(red, n) + Lack(n, e, NULL, t)
    BY DEF Balanced
<1>6. \A n \in T \cup {NULL}, e \in Sides :
        c[n][e] \in red /\ (n \in red \/ n = NULL) => c[n][e] = q
    BY DEF Balanced
<1>7. \A n \in Links : h[n] \in Nat
    BY DEF Heights
<1>8. \A n \in T, e \in Sides : n \in Links /\ c[n][e] \in Links
    BY DEF Memory, Links
<1> HIDE DEF q, o, b, g
<1>9. h[p] = h[q] /\ h[q] = h[b]
    BY <1>1, <1>3, <1>5, <1>7, <1>8 DEF Apart, Weight, Lack
<1>10. ASSUME NEW n \in T, NEW e \in Sides
       PROVE  h[n] = h[d[n][e]] + Weight(red, n) + Lack(n, e, NULL, t)
    <2>1. h[n] = h[c[n][e]] + Weight(red, n) + Lack(n, e, NULL, t)
        BY <1>5
    <2>2. h[d[n][e]] = h[c[n][e]]
        BY <1>1, <1>2, <1>3, <1>9 DEF Apart
    <2> QED BY <2>1, <2>2
<1>11. ASSUME NEW n \in T \cup {NULL}, NEW e \in Sides, d[n][e] \in red, n \in red \/ n = NULL
       PROVE  d[n][e] = p
    <2>1. CASE n = p /\ e = s
        BY <1>1, <1>2, <1>6, <1>11, <2>1 DEF Apart
    <2>2. CASE n = g /\ e = k
        BY <1>1, <1>3, <1>6, <1>11, <2>2 DEF Apart
    <2>3. CASE ~(n = p /\ e = s) /\ ~(n = g /\ e = k)
        BY <1>1, <1>2, <1>6, <1>11, <2>3 DEF Apart
    <2> QED BY <2>1, <2>2, <2>3
<1> QED BY <1>4, <1>10, <1>11 DEF Balanced

\* Colours r and heights h2 after a red c[p][s], that nothing is wrong with, and its
\* black parent p exchanged colours.
Exchanged(c, red, h, r, h2, p, s, x, y, t) ==
    LET q == c[p][s] IN
    /\ x \in {NULL, c[q][s]} /\ y # q /\ (y = p => t = Other(s))
    /\ p \notin red /\ q \in red /\ c[p][Other(s)] \notin red
    /\ r = (red \ {q}) \cup {p}
    /\ h2 = [h EXCEPT ![p] = h[q], ![q] = h[p]]

\* A red element is lifted above its black parent, and they exchange colours: case 3
\* of an insertion, cases 1 and 3 of an erasure.
LEMMA LiftBalanced ==
    ASSUME NEW T \in SUBSET Nodes, NEW c \in Memory, NEW up \in Ups, NEW d \in Memory,
           NEW red \in SUBSET Nodes, NEW h \in Heights, NEW p, NEW s, NEW k,
           Around(T, c, up, p, s, k), Rotated(T, c, d, p, s, up[p], k),
           NEW x, NEW y, NEW t, Balanced(T, c, red, h, x, y, t),
           NEW r \in SUBSET Nodes, NEW h2 \in Heights, Exchanged(c, red, h, r, h2, p, s, x, y, t)
    PROVE  Balanced(T, d, r, h2, NULL, y, t)
<1>0. /\ x \in {NULL, c[c[p][s]][s]} /\ y # c[p][s] /\ (y = p => t = Other(s))
      /\ p \notin red /\ c[p][s] \in red /\ c[p][Other(s)] \notin red
      /\ r = (red \ {c[p][s]}) \cup {p}
      /\ h2 = [h EXCEPT ![p] = h[c[p][s]], ![c[p][s]] = h[p]]
    BY DEF Exchanged
<1> USE <1>0
<1> DEFINE q == c[p][s]
           o == Other(s)
           b == c[q][o]
           g == up[p]
<1>1. Apart(T, c, p, q, b, g, s, o, k)
    BY AroundIs
<1>2. \A m \in T \cup {NULL}, e \in Sides :
        d[m][e] = IF m = p /\ e = s THEN b ELSE IF m = q /\ e = o THEN p
                  ELSE IF m = g /\ e = k THEN q ELSE c[m][e]
    BY DEF Rotated
<1>3. NULL \notin T /\ NULL \notin Nodes /\ p \notin red /\ q \in red /\ c[p][o] \notin red
    BY NodeAssumption
<1>4. h[NULL] = 0
    BY DEF Balanced
<1>5. \A n \in T, e \in Sides : h[n] = h[c[n][e]] + Weight(red, n) + Lack(n, e, y, t)
    BY DEF Balanced
<1>6. \A n \in T \cup {NULL}, e \in Sides :
        c[n][e] \in red /\ (n \in red \/ n = NULL) => c[n][e] = x
    BY DEF Balanced
<1>7. \A n \in Links : h[n] \in Nat
    BY DEF Heights
<1>8. \A n \in T, e \in Sides : n \in Links /\ c[n][e] \in Links
    BY DEF Memory, Links
<1>a. \A e \in Sides : e = s \/ e = o
    BY <1>1, SidesAre DEF Apart
<1>b. /\ x \in {NULL, c[q][s]} /\ y # q /\ (y = p => t = o) /\ r = (red \ {q}) \cup {p}
    OBVIOUS
<1>c. \A n \in Links : h2[n] = IF n = q THEN h[p] ELSE IF n = p THEN h[q] ELSE h[n]
    BY <1>1, <1>7, <1>8 DEF Heights, Apart
<1>d. \A m, n \in T \cup {NULL}, i, j \in Sides :
        c[m][i] = c[n][j] /\ c[m][i] # NULL => m = n /\ i = j
    <2>1. Once(T, c)
        BY OneSide DEF Around
    <2> QED BY <2>1 DEF Once
<1> HIDE DEF q, o, b, g
<1>9. h[p] = h[q] + 1 /\ h[q] = h[b]
    <2>1. h[p] = h[q] + Weight(red, p) + Lack(p, s, y, t)
        BY <1>1, <1>5 DEF Apart
    <2>2. h[q] = h[b] + Weight(red, q) + Lack(q, o, y, t)
        BY <1>1, <1>5 DEF Apart
    <2>3. b \in Links /\ p \in Links /\ q \in Links
        BY <1>1, <1>8 DEF Apart
    <2>4. Weight(red, p) = 1 /\ Weight(red, q) = 0 /\ Lack(p, s, y, t) = 0 /\ Lack(q, o, y, t) = 0
        BY <1>1, <1>3, <1>b DEF Weight, Lack, Apart
    <2>5. h[p] \in Nat /\ h[q] \in Nat /\ h[b] \in Nat
        BY <1>7, <2>3
    <2> QED BY <2>1, <2>2, <2>4, <2>5
<1>10. ASSUME NEW n \in T, NEW e \in Sides
       PROVE  h2[n] = h2[d[n][e]] + Weight(r, n) + Lack(n, e, y, t)
    <2>1. h[n] = h[c[n][e]] + Weight(red, n) + Lack(n, e, y, t)
        BY <1>5
    <2>2. h[n] \in Nat /\ h[c[n][e]] \in Nat /\ Lack(n, e, y, t) \in {0, 1}
          /\ h[p] \in Nat /\ h[q] \in Nat /\ p \in Links /\ q \in Links /\ n \in Links
          /\ c[n][e] \in Links
        BY <1>1, <1>7, <1>8 DEF Lack, Apart
    <2>3. CASE n = p
        <3>1. h2[n] = h[q] /\ Weight(r, n) = 0 /\ Weight(red, n) = 1
            BY <1>1, <1>3, <1>b, <1>c, <2>2, <2>3 DEF Apart, Weight
        <3>2. CASE e = s
            <4>1. d[n][e] = b /\ b \in Links /\ b # p /\ b # q
                BY <1>1, <1>2, <2>3, <3>2 DEF Apart, Links
            <4>2. h2[d[n][e]] = h[b] /\ Lack(n, e, y, t) = 0
                BY <1>1, <1>b, <1>c, <2>3, <3>2, <4>1 DEF Apart, Lack
            <4> QED BY <1>9, <2>2, <3>1, <4>2
        <3>3. CASE e = o
            <4>1. d[n][e] = c[n][e] /\ c[n][e] # p /\ c[n][e] # q
                BY <1>1, <1>2, <2>3, <3>3 DEF Apart
            <4>2. h2[d[n][e]] = h[c[n][e]]
                BY <1>c, <2>2, <4>1
            <4> QED BY <1>9, <2>1, <2>2, <2>3, <3>1, <4>2
        <3> QED BY <1>a, <3>2, <3>3
    <2>4. CASE n = q
        <3>1. h2[n] = h[p] /\ Weight(r, n) = 1 /\ Weight(red, n) = 0 /\ Lack(n, e, y, t) = 0
            BY <1>1, <1>3, <1>b, <1>c, <2>2, <2>4 DEF Apart, Weight, Lack
        <3>2. CASE e = o
            <4>1. d[n][e] = p /\ h2[p] = h[q]
                BY <1>1, <1>2, <1>c, <2>2, <2>4, <3>2 DEF Apart
            <4> QED BY <1>9, <2>2, <3>1, <4>1
        <3>3. CASE e = s
            <4>1. d[n][e] = c[n][e] /\ c[n][e] # p /\ c[n][e] # q
                BY <1>1, <1>2, <2>4, <3>3 DEF Apart
            <4>2. h2[d[n][e]] = h[c[n][e]]
                BY <1>c, <2>2, <4>1
            <4> QED BY <1>9, <2>1, <2>2, <2>4, <3>1, <4>2
        <3> QED BY <1>a, <3>2, <3>3
    <2>5. CASE n # p /\ n # q
        <3>1. h2[n] = h[n] /\ Weight(r, n) = Weight(red, n)
            BY <1>b, <1>c, <2>2, <2>5 DEF Weight
        <3>2. h2[d[n][e]] = h[c[n][e]]
            <4>1. CASE n = g /\ e = k
                <5>1. d[n][e] = q /\ c[n][e] = p
                    BY <1>1, <1>2, <2>5, <4>1 DEF Apart
                <5>2. h2[q] = h[p]
                    BY <1>c, <2>2
                <5> QED BY <5>1, <5>2
            <4>2. CASE ~(n = g /\ e = k)
                <5>1. d[n][e] = c[n][e] /\ c[n][e] # p /\ c[n][e] # q
                    BY <1>1, <1>2, <2>5, <4>2 DEF Apart
                <5> QED BY <1>c, <2>2, <5>1
            <4> QED BY <4>1, <4>2
        <3> QED BY <2>1, <3>1, <3>2
    <2> QED BY <2>3, <2>4, <2>5
<1>11. ASSUME NEW n \in T \cup {NULL}, NEW e \in Sides, d[n][e] \in r, n \in r \/ n = NULL
       PROVE  FALSE
    <2>1. n # q /\ (n = p \/ n \in red \/ n = NULL)
        BY <1>1, <1>11, <1>b DEF Apart
    <2>2. CASE n = p
        <3>1. b \notin red
            <4>1. b \in red => b = x
                BY <1>1, <1>3, <1>6 DEF Apart
            <4> QED BY <1>1, <1>3, <1>b, <4>1 DEF Apart
        <3>2. d[n][e] \in {b, c[p][o]} /\ d[n][e] # p
            BY <1>1, <1>2, <1>a, <2>2 DEF Apart
        <3> QED BY <1>3, <1>11, <1>b, <3>1, <3>2
    <2>3. CASE n # p
        <3>1. d[n][e] # q /\ d[n][e] # p /\ ~(n = g /\ e = k)
            BY <1>1, <1>2, <1>11, <1>b, <2>1, <2>3 DEF Apart
        <3>2. d[n][e] = c[n][e] /\ c[n][e] \in red
            BY <1>1, <1>2, <1>11, <1>b, <2>1, <2>3, <3>1 DEF Apart
        <3>3. c[n][e] = x
            BY <1>6, <2>1, <2>3, <3>2
        <3>4. c[n][e] = c[q][s] /\ c[n][e] # NULL
            BY <1>3, <1>b, <3>2, <3>3
        <3> QED BY <1>1, <1>d, <2>1, <3>4 DEF Apart
    <2> QED BY <2>2, <2>3
<1>12. h2[NULL] = 0
    BY <1>1, <1>4, <1>c DEF Apart, Links
<1> QED BY <1>10, <1>11, <1>12 DEF Balanced

\* Colours r and heights h2 after c[p][s] is lifted above p, takes its colour, and
\* its red child f becomes black, as p does.
FarPaid(c, red, h, r, h2, p, s, f) ==
    LET q == c[p][s] IN
    /\ f = c[q][s] /\ f \in red /\ q \notin red
    /\ r = (red \ {f, p}) \cup (IF p \in red THEN {q} ELSE {})
    /\ h2 = [h EXCEPT ![p] = h[q], ![q] = h[p], ![f] = h[q]]

\* Case 4 of an erasure: the black sibling is lifted above p, takes its colour, and its
\* far child pays for the missing one.
LEMMA FarBalanced ==
    ASSUME NEW T \in SUBSET Nodes, NEW c \in Memory, NEW up \in Ups, NEW d \in Memory,
           NEW red \in SUBSET Nodes, NEW h \in Heights, NEW p, NEW s, NEW k,
           Around(T, c, up, p, s, k), Rotated(T, c, d, p, s, up[p], k),
           NEW t0, t0 = Other(s), Balanced(T, c, red, h, NULL, p, t0),
           NEW r \in SUBSET Nodes, NEW h2 \in Heights, NEW f, FarPaid(c, red, h, r, h2, p, s, f),
           NEW t
    PROVE  Balanced(T, d, r, h2, NULL, NULL, t)
<1>0. /\ f = c[c[p][s]][s] /\ f \in red /\ c[p][s] \notin red
      /\ r = (red \ {f, p}) \cup (IF p \in red THEN {c[p][s]} ELSE {})
      /\ h2 = [h EXCEPT ![p] = h[c[p][s]], ![c[p][s]] = h[p], ![f] = h[c[p][s]]]
    BY DEF FarPaid
<1> USE <1>0
<1> DEFINE q == c[p][s]
           o == Other(s)
           b == c[q][o]
           g == up[p]
<1>1. Apart(T, c, p, q, b, g, s, o, k)
    BY AroundIs
<1>2. \A m \in T \cup {NULL}, e \in Sides :
        d[m][e] = IF m = p /\ e = s THEN b ELSE IF m = q /\ e = o THEN p
                  ELSE IF m = g /\ e = k THEN q ELSE c[m][e]
    BY DEF Rotated
<1>3. /\ NULL \notin T /\ NULL \notin Nodes /\ q \notin red /\ f \in red
      /\ f = c[q][s] /\ f \in T /\ f # p /\ f # q /\ f # NULL /\ (f = b => b = NULL)
    <2>1. NULL \notin T /\ NULL \notin Nodes
        BY NodeAssumption
    <2>2. f = c[q][s] /\ f # NULL /\ f \in T /\ up[f] = q /\ up[q] = p
        BY <1>1, <2>1 DEF Apart, Around, Linked
    <2>3. f # p /\ f # q
        BY <1>1, <2>2 DEF Apart, Linked
    <2> QED BY <1>1, <2>1, <2>2, <2>3 DEF Apart
<1>4. h[NULL] = 0
    BY DEF Balanced
<1>5. \A n \in T, e \in Sides : h[n] = h[c[n][e]] + Weight(red, n) + Lack(n, e, p, o)
    BY DEF Balanced
<1>6. \A n \in T \cup {NULL}, e \in Sides :
        ~(c[n][e] \in red /\ (n \in red \/ n = NULL))
    BY <1>3 DEF Balanced
<1>7. \A n \in Links : h[n] \in Nat
    BY DEF Heights
<1>8. \A n \in T, e \in Sides : n \in Links /\ c[n][e] \in Links
    BY DEF Memory, Links
<1>a. \A e \in Sides : e = s \/ e = o
    BY <1>1, SidesAre DEF Apart
<1>b. r = (red \ {f, p}) \cup (IF p \in red THEN {q} ELSE {})
    OBVIOUS
<1>c. \A n \in Links : h2[n] = IF n = f THEN h[q] ELSE IF n = q THEN h[p]
                               ELSE IF n = p THEN h[q] ELSE h[n]
    BY <1>1, <1>3, <1>7, <1>8 DEF Heights, Apart
<1>d. \A m, n \in T \cup {NULL}, i, j \in Sides :
        c[m][i] = c[n][j] /\ c[m][i] # NULL => m = n /\ i = j
    <2>1. Once(T, c)
        BY OneSide DEF Around
    <2> QED BY <2>1 DEF Once
<1> HIDE DEF q, o, b, g
<1>9. /\ h[p] = h[q] + Weight(red, p) /\ h[p] = h[c[p][o]] + Weight(red, p) + 1
      /\ h[q] = h[b] + 1 /\ h[q] = h[f] + 1 /\ \A e \in Sides : h[f] = h[c[f][e]]
    <2>1. h[p] = h[q] + Weight(red, p) + Lack(p, s, p, o)
        BY <1>1, <1>5 DEF Apart
    <2>2. h[q] = h[b] + Weight(red, q) + Lack(q, o, p, o)
        BY <1>1, <1>5 DEF Apart
    <2>3. h[q] = h[f] + Weight(red, q) + Lack(q, s, p, o)
        BY <1>1, <1>3, <1>5 DEF Apart
    <2>4. h[p] = h[c[p][o]] + Weight(red, p) + Lack(p, o, p, o)
        BY <1>1, <1>5 DEF Apart
    <2>5. \A e \in Sides : h[f] = h[c[f][e]] + Weight(red, f) + Lack(f, e, p, o)
        BY <1>3, <1>5
    <2>6. /\ b \in Links /\ p \in Links /\ q \in Links /\ f \in Links /\ c[p][o] \in Links
          /\ \A e \in Sides : c[f][e] \in Links
        BY <1>1, <1>3, <1>8 DEF Apart
    <2>7. /\ Weight(red, q) = 1 /\ Weight(red, f) = 0 /\ Weight(red, p) \in {0, 1}
          /\ Lack(p, s, p, o) = 0 /\ Lack(p, o, p, o) = 1
          /\ \A e \in Sides : Lack(q, e, p, o) = 0 /\ Lack(f, e, p, o) = 0
        BY <1>1, <1>3 DEF Weight, Lack, Apart
    <2>8. /\ h[p] \in Nat /\ h[q] \in Nat /\ h[b] \in Nat /\ h[f] \in Nat /\ h[c[p][o]] \in Nat
          /\ \A e \in Sides : h[c[f][e]] \in Nat
        BY <1>7, <2>6, Zenon
    <2> QED BY <1>1, <2>1, <2>2, <2>3, <2>4, <2>5, <2>7, <2>8 DEF Apart
<1>e. h[q] = h[b] + 1 /\ h[q] = h[f] + 1
    BY <1>9, Zenon
<1>f. h[p] = h[q] + Weight(red, p) /\ h[p] = h[c[p][o]] + Weight(red, p) + 1
    BY <1>9, Zenon
<1>10. ASSUME NEW n \in T, NEW e \in Sides
       PROVE  h2[n] = h2[d[n][e]] + Weight(r, n) + Lack(n, e, NULL, t)
    <2>1. h[n] = h[c[n][e]] + Weight(red, n) + Lack(n, e, p, o)
        BY <1>5
    <2>2. h[n] \in Nat /\ h[c[n][e]] \in Nat /\ Lack(n, e, NULL, t) = 0
          /\ h[p] \in Nat /\ h[q] \in Nat /\ h[b] \in Nat /\ h[f] \in Nat /\ h[c[p][o]] \in Nat
          /\ p \in Links /\ q \in Links /\ n \in Links /\ f \in Links /\ b \in Links
          /\ c[n][e] \in Links /\ c[p][o] \in Links
        BY <1>1, <1>3, <1>7, <1>8 DEF Lack, Apart
    <2>3. CASE n = p
        <3>1. h2[n] = h[q] /\ Weight(r, n) = 1 /\ Weight(red, n) \in {0, 1}
            BY <1>1, <1>3, <1>b, <1>c, <2>2, <2>3 DEF Apart, Weight
        <3>2. CASE e = s
            <4>1. d[n][e] = b /\ b # p /\ b # q /\ b # f
                BY <1>1, <1>2, <1>3, <2>3, <3>2 DEF Apart
            <4>2. h2[d[n][e]] = h[b]
                BY <1>c, <2>2, <4>1
            <4>3. h2[n] = h2[d[n][e]] + 1
                BY <1>e, <3>1, <4>2
            <4> QED BY <2>2, <3>1, <4>2, <4>3
        <3>3. CASE e = o
            <4>1. d[n][e] = c[p][o] /\ c[p][o] # p /\ c[p][o] # q /\ c[p][o] # f
                BY <1>1, <1>2, <1>3, <1>d, <2>3, <3>3 DEF Apart
            <4>2. h2[d[n][e]] = h[c[p][o]]
                BY <1>c, <2>2, <4>1
            <4>3. h[q] = h[c[p][o]] + 1
                <5>1. Weight(red, p) \in {0, 1} /\ h[q] \in Nat /\ h[c[p][o]] \in Nat
                    BY <2>2 DEF Weight
                <5> QED BY <1>f, <5>1
            <4> QED BY <2>2, <3>1, <4>2, <4>3
        <3> QED BY <1>a, <3>2, <3>3
    <2>4. CASE n = q
        <3>1. h2[n] = h[p] /\ Weight(r, n) = Weight(red, p) /\ Weight(red, p) \in {0, 1}
            BY <1>1, <1>3, <1>b, <1>c, <2>2, <2>4 DEF Apart, Weight
        <3>2. d[n][e] = p \/ d[n][e] = f
            BY <1>1, <1>2, <1>3, <1>a, <2>4 DEF Apart
        <3>3. h2[d[n][e]] = h[q]
            BY <1>1, <1>3, <1>c, <2>2, <3>2, Zenon DEF Apart
        <3> QED BY <1>f, <2>2, <3>1, <3>3
    <2>5. CASE n = f
        <3>1. d[n][e] = c[f][e] \/ (d[n][e] = q /\ c[f][e] = p)
            BY <1>1, <1>2, <1>3, <2>5 DEF Apart
        <3>2. c[f][e] = p => FALSE
            BY <1>1, <1>3, <1>9, <2>2, <2>5 DEF Apart, Weight
        <3>3. c[f][e] # q /\ c[f][e] # f
            BY <1>1, <1>3, <1>d, <2>5 DEF Apart
        <3>4. h2[d[n][e]] = h[c[f][e]]
            BY <1>c, <2>2, <2>5, <3>1, <3>2, <3>3, Zenon
        <3>5. h2[n] = h[q] /\ Weight(r, n) = 1
            BY <1>3, <1>b, <1>c, <2>2, <2>5, Zenon DEF Weight
        <3>6. h[q] = h[c[f][e]] + 1
            BY <1>9, Zenon
        <3>7. h2[n] = h2[d[n][e]] + 1
            BY <3>4, <3>5, <3>6, Zenon
        <3>8. h2[d[n][e]] \in Nat
            BY <2>2, <2>5, <3>4, Zenon
        <3>9. Weight(r, n) = 1 /\ Lack(n, e, NULL, t) = 0
            BY <2>2, <3>5
        <3> QED BY <3>7, <3>8, <3>9
    <2>6. CASE n # p /\ n # q /\ n # f
        <3>1. h2[n] = h[n] /\ Weight(r, n) = Weight(red, n)
            BY <1>b, <1>c, <2>2, <2>6 DEF Weight
        <3>2. h2[d[n][e]] = h[c[n][e]]
            <4>1. CASE n = g /\ e = k
                <5>1. d[n][e] = q /\ c[n][e] = p
                    BY <1>1, <1>2, <2>6, <4>1 DEF Apart
                <5>2. h2[q] = h[p]
                    BY <1>3, <1>c, <2>2
                <5> QED BY <5>1, <5>2
            <4>2. CASE ~(n = g /\ e = k)
                <5>1. d[n][e] = c[n][e] /\ c[n][e] # p /\ c[n][e] # q
                    BY <1>1, <1>2, <2>6, <4>2 DEF Apart
                <5>2. c[n][e] # f
                    BY <1>1, <1>3, <1>d, <2>6 DEF Apart
                <5> QED BY <1>c, <2>2, <5>1, <5>2
            <4> QED BY <4>1, <4>2
        <3>3. Lack(n, e, p, o) = 0
            BY <2>6 DEF Lack
        <3> QED BY <2>1, <2>2, <3>1, <3>2, <3>3
    <2> QED BY <2>3, <2>4, <2>5, <2>6
<1>11. ASSUME NEW n \in T \cup {NULL}, NEW e \in Sides, d[n][e] \in r, n \in r \/ n = NULL
       PROVE  FALSE
    <2>1. n # p /\ n # f
        BY <1>1, <1>3, <1>11, <1>b DEF Apart
    <2>2. CASE n = q
        <3>1. d[n][e] \in {p, f}
            BY <1>1, <1>2, <1>3, <1>a, <2>2 DEF Apart
        <3> QED BY <1>1, <1>3, <1>11, <1>b, <3>1 DEF Apart
    <2>3. CASE n # q /\ n = g /\ e = k
        <3>1. p \in red /\ c[n][e] = p /\ (n \in red \/ n = NULL)
            BY <1>1, <1>2, <1>3, <1>11, <1>b, <2>1, <2>3 DEF Apart
        <3> QED BY <1>6, <3>1
    <2>4. CASE n # q /\ ~(n = g /\ e = k)
        <3>1. d[n][e] = c[n][e] /\ c[n][e] # q
            BY <1>1, <1>2, <2>1, <2>4 DEF Apart
        <3>2. c[n][e] \in red /\ (n \in red \/ n = NULL)
            BY <1>11, <1>b, <2>4, <3>1
        <3> QED BY <1>6, <3>2
    <2> QED BY <2>2, <2>3, <2>4
<1>12. h2[NULL] = 0
    BY <1>1, <1>3, <1>4, <1>c DEF Apart, Links
<1> QED BY <1>10, <1>11, <1>12 DEF Balanced

\* Colours r and heights h2 with a new red leaf n.
Reddened(T, red, h, r, h2, n) ==
    /\ \A m \in T \cup {n} : m \in r <=> m = n \/ m \in red
    /\ h2 = [h EXCEPT ![n] = 0]

\* A new red element without children hangs below p.
LEMMA LeafBalanced ==
    ASSUME NEW T \in SUBSET Nodes, NEW c \in Memory, NEW up \in Ups, Linked(T, c, up),
           NEW red \in SUBSET Nodes, NEW h \in Heights, NEW t,
           Balanced(T, c, red, h, NULL, NULL, t),
           NEW p \in T \cup {NULL}, NEW s \in Sides,
           NEW n \in Nodes, NEW d \in Memory, Hung(T, c, d, p, s, n),
           NEW r \in SUBSET Nodes, NEW h2 \in Heights, Reddened(T, red, h, r, h2, n)
    PROVE  Balanced(T \cup {n}, d, r, h2, n, NULL, t)
<1>z. /\ c[p][s] = NULL /\ n \notin T
      /\ \A m \in T \cup {n, NULL}, e \in Sides :
           d[m][e] = IF m = n THEN NULL ELSE IF m = p /\ e = s THEN n ELSE c[m][e]
      /\ \A m \in T \cup {n} : m \in r <=> m = n \/ m \in red
      /\ h2 = [h EXCEPT ![n] = 0]
    BY DEF Hung, Reddened
<1> USE <1>z
<1>1. NULL \notin Nodes /\ NULL \notin T /\ NULL \notin red /\ NULL \notin r /\ n # NULL
    BY NodeAssumption
<1>2. \A m \in Links : h2[m] = IF m = n THEN 0 ELSE h[m]
    BY DEF Heights, Links
<1>3. \A m \in T \cup {NULL}, e \in Sides : c[m][e] = NULL \/ c[m][e] \in T
    BY DEF Linked
<1>4. \A m \in T, e \in Sides : h[m] = h[c[m][e]] + Weight(red, m)
    BY <1>1 DEF Balanced, Lack, Heights, Links, Memory, Weight
<1>5. h[NULL] = 0 /\ h2[NULL] = 0 /\ h2[n] = 0
    BY <1>1, <1>2 DEF Balanced, Links
<1>6. ASSUME NEW m \in T \cup {n}, NEW e \in Sides
      PROVE  h2[m] = h2[d[m][e]] + Weight(r, m) + Lack(m, e, NULL, t)
    <2>1. Lack(m, e, NULL, t) = 0
        BY <1>1 DEF Lack
    <2>2. CASE m = n
        BY <1>5, <2>1, <2>2 DEF Weight
    <2>3. CASE m # n
        <3>1. m \in T /\ h2[m] = h[m] /\ Weight(r, m) = Weight(red, m) /\ m \in Links
            BY <1>2, <2>3 DEF Links, Weight
        <3>2. h2[d[m][e]] = h[c[m][e]]
            <4>1. CASE m = p /\ e = s
                BY <1>5, <2>3, <4>1
            <4>2. CASE ~(m = p /\ e = s)
                <5>1. d[m][e] = c[m][e] /\ c[m][e] # n /\ c[m][e] \in Links
                    BY <1>1, <1>3, <2>3, <3>1, <4>2 DEF Links
                <5> QED BY <1>2, <5>1
            <4> QED BY <4>1, <4>2
        <3>3. h[m] \in Nat
            BY <3>1 DEF Heights
        <3> QED BY <1>4, <2>1, <3>1, <3>2, <3>3
    <2> QED BY <2>2, <2>3
<1>7. ASSUME NEW m \in T \cup {n, NULL}, NEW e \in Sides, d[m][e] \in r, m \in r \/ m = NULL,
             d[m][e] # n
      PROVE  FALSE
    <2>1. m # n /\ d[m][e] = c[m][e] /\ c[m][e] \in T
        BY <1>1, <1>3, <1>7
    <2>2. c[m][e] \in red /\ (m \in red \/ m = NULL)
        BY <1>7, <2>1
    <2> QED BY <1>1, <2>1, <2>2 DEF Balanced
<1> QED BY <1>5, <1>6, <1>7 DEF Balanced

\* Colours r and heights h2 after g and its red children p and u exchanged colours.
Flipped(T, c, up, red, h, r, h2, x, p, g, u, k) ==
    /\ p = up[x] /\ g = up[p] /\ p \in red /\ g # NULL /\ k \in Sides
    /\ c[g][k] = p /\ u = c[g][Other(k)] /\ u \in red
    /\ \A m \in T : m \in r <=> m = g \/ (m \in red /\ m \notin {p, u})
    /\ h2 = [h EXCEPT ![p] = h[p] + 1, ![u] = h[u] + 1]

\* Case 1 of an insertion: the grandparent g of the red element x and its children
\* exchange colours.
LEMMA FlipBalanced ==
    ASSUME NEW T \in SUBSET Nodes, NEW c \in Memory, NEW up \in Ups, Linked(T, c, up),
           NEW red \in SUBSET Nodes, NEW h \in Heights, NEW t, NEW x \in T,
           Balanced(T, c, red, h, x, NULL, t), x \in red,
           NEW r \in SUBSET Nodes, NEW h2 \in Heights, NEW p, NEW g, NEW u, NEW k,
           Flipped(T, c, up, red, h, r, h2, x, p, g, u, k)
    PROVE  Balanced(T, c, r, h2, g, NULL, t) /\ g \in T
<1>a. /\ p = up[x] /\ g = up[p] /\ p \in red /\ g # NULL /\ k \in Sides
      /\ c[g][k] = p /\ u = c[g][Other(k)] /\ u \in red
      /\ \A m \in T : m \in r <=> m = g \/ (m \in red /\ m \notin {p, u})
      /\ h2 = [h EXCEPT ![p] = h[p] + 1, ![u] = h[u] + 1]
    BY DEF Flipped
<1> USE <1>a
<1> DEFINE o == Other(k)
<1>0. o \in Sides /\ o # k /\ \A e \in Sides : e = k \/ e = o
    BY SidesAre
<1>1. NULL \notin Nodes /\ NULL \notin T /\ NULL \notin red /\ NULL \notin r
    BY NodeAssumption
<1>2. /\ p \in T /\ g \in T /\ u \in T /\ p # x /\ g # p /\ up[u] = g /\ u # p /\ u # g
      /\ u # NULL /\ p # NULL
    BY <1>0, <1>1 DEF Linked, Sides
<1>3. u # x
    BY <1>2
<1>4. \A m, n \in T \cup {NULL}, i, j \in Sides :
        c[m][i] = c[n][j] /\ c[m][i] # NULL => m = n /\ i = j
    <2>1. Once(T, c)
        BY OneSide
    <2> QED BY <2>1 DEF Once
<1>5. g \notin red
    BY <1>2 DEF Balanced
<1>6. \A m \in Links : h2[m] = IF m = p THEN h[p] + 1 ELSE IF m = u THEN h[u] + 1 ELSE h[m]
    BY <1>2 DEF Heights, Links
<1>7. \A n \in T, e \in Sides : h[n] = h[c[n][e]] + Weight(red, n)
    BY <1>1 DEF Balanced, Lack, Heights, Links, Memory, Weight
<1>8. h2[NULL] = 0
    BY <1>1, <1>2, <1>6 DEF Balanced, Links
<1>9. ASSUME NEW n \in T, NEW e \in Sides
      PROVE  h2[n] = h2[c[n][e]] + Weight(r, n) + Lack(n, e, NULL, t)
    <2>1. Lack(n, e, NULL, t) = 0
        BY <1>1 DEF Lack
    <2>2. n \in Links /\ c[n][e] \in Links /\ h[n] \in Nat /\ h[c[n][e]] \in Nat
          /\ h[n] = h[c[n][e]] + Weight(red, n)
        BY <1>7 DEF Memory, Links, Heights
    <2>3. CASE n \in {p, u}
        <3>1. h2[n] = h[n] + 1 /\ Weight(red, n) = 0 /\ Weight(r, n) = 1
            BY <1>2, <1>6, <2>2, <2>3, Zenon DEF Weight
        <3>2. c[n][e] # p /\ c[n][e] # u
            BY <1>0, <1>2, <1>4, <2>3
        <3>3. h2[c[n][e]] = h[c[n][e]]
            BY <1>6, <2>2, <3>2
        <3> QED BY <2>1, <2>2, <3>1, <3>3
    <2>4. CASE n = g
        <3>1. h2[n] = h[n] /\ Weight(red, n) = 1 /\ Weight(r, n) = 0
            BY <1>2, <1>5, <1>6, <2>2, <2>4, Zenon DEF Weight
        <3>2. c[n][e] \in {p, u}
            BY <1>0, <2>4
        <3>3. h2[c[n][e]] = h[c[n][e]] + 1
            BY <1>2, <1>6, <2>2, <3>2, Zenon
        <3> QED BY <2>1, <2>2, <3>1, <3>3
    <2>5. CASE n \notin {p, u, g}
        <3>1. h2[n] = h[n] /\ Weight(red, n) = Weight(r, n)
            BY <1>6, <2>2, <2>5 DEF Weight
        <3>2. c[n][e] # p /\ c[n][e] # u
            BY <1>0, <1>2, <1>4, <2>5
        <3>3. h2[c[n][e]] = h[c[n][e]]
            BY <1>6, <2>2, <3>2
        <3> QED BY <2>1, <2>2, <3>1, <3>3 DEF Weight
    <2> QED BY <2>3, <2>4, <2>5
<1>10. ASSUME NEW n \in T \cup {NULL}, NEW e \in Sides, c[n][e] \in r, n \in r \/ n = NULL,
              c[n][e] # g
       PROVE  FALSE
    <2>1. c[n][e] \in red /\ c[n][e] \notin {p, u}
        BY <1>1, <1>10 DEF Linked
    <2>2. n # g
        BY <1>0, <2>1
    <2>3. (n \in red \/ n = NULL) /\ n # p
        BY <1>2, <1>10, <2>2
    <2>4. c[n][e] = x
        BY <2>1, <2>3 DEF Balanced
    <2> QED BY <1>1, <2>3, <2>4 DEF Linked
<1> QED BY <1>2, <1>8, <1>9, <1>10, Zenon DEF Balanced

\* The end of an insertion: the red element x is the root and becomes black.
LEMMA RootBalanced ==
    ASSUME NEW T \in SUBSET Nodes, NEW c \in Memory, NEW up \in Ups, Linked(T, c, up),
           NEW red \in SUBSET Nodes, NEW h \in Heights, NEW t, NEW x \in T,
           Balanced(T, c, red, h, x, NULL, t), x \in red, up[x] = NULL,
           NEW r \in SUBSET Nodes, \A m \in T : m \in r <=> m \in red /\ m # x,
           NEW h2 \in Heights, h2 = [h EXCEPT ![x] = h[x] + 1]
    PROVE  Balanced(T, c, r, h2, NULL, NULL, t)
<1>1. NULL \notin Nodes /\ NULL \notin T /\ NULL \notin red /\ NULL \notin r /\ x # NULL
    BY NodeAssumption
<1>2. \A m \in Links : h2[m] = IF m = x THEN h[x] + 1 ELSE h[m]
    BY DEF Heights, Links
<1>3. \A n \in T, e \in Sides : c[n][e] # x
    BY <1>1 DEF Linked
<1>4. h2[NULL] = 0
    BY <1>1, <1>2 DEF Balanced, Links
<1>5. ASSUME NEW n \in T, NEW e \in Sides
      PROVE  h2[n] = h2[c[n][e]] + Weight(r, n) + Lack(n, e, NULL, t)
    <2>1. Lack(n, e, NULL, t) = 0
        BY <1>1 DEF Lack
    <2>2. n \in Links /\ c[n][e] \in Links /\ h[n] \in Nat /\ h[c[n][e]] \in Nat
          /\ h[n] = h[c[n][e]] + Weight(red, n) + Lack(n, e, NULL, t)
        BY DEF Memory, Links, Heights, Balanced
    <2>3. h2[c[n][e]] = h[c[n][e]]
        BY <1>2, <1>3, <2>2
    <2> QED BY <1>2, <2>1, <2>2, <2>3 DEF Weight
<1>6. ASSUME NEW n \in T \cup {NULL}, NEW e \in Sides, c[n][e] \in r, n \in r \/ n = NULL
      PROVE  FALSE
    <2>1. c[n][e] \in red /\ c[n][e] # x /\ (n \in red \/ n = NULL)
        BY <1>1, <1>6 DEF Linked
    <2> QED BY <2>1 DEF Balanced
<1> QED BY <1>4, <1>5, <1>6 DEF Balanced

\* The end of an insertion: the parent of x is black.
LEMMA BlackParentBalanced ==
    ASSUME NEW T \in SUBSET Nodes, NEW c \in Memory, NEW up \in Ups, Linked(T, c, up),
           NEW red \in SUBSET Nodes, NEW h \in Heights, NEW t, NEW x \in T,
           Balanced(T, c, red, h, x, NULL, t), up[x] # NULL, up[x] \notin red
    PROVE  Balanced(T, c, red, h, NULL, NULL, t)
<1>1. NULL \notin Nodes /\ NULL \notin T /\ NULL \notin red /\ x # NULL
    BY NodeAssumption
<1>2. \A n \in T \cup {NULL}, e \in Sides : c[n][e] = x => n = up[x]
    BY <1>1 DEF Linked
<1> QED BY <1>1, <1>2 DEF Balanced

\* Colours r and heights h2 after q = c[p][s] became red and p black.
Paled(T, c, red, h, r, h2, p, s, q) ==
    /\ q = c[p][s] /\ q \notin red /\ c[p][Other(s)] \notin red
    /\ \A e \in Sides : c[q][e] \notin red
    /\ \A m \in T : m \in r <=> m = q \/ (m \in red /\ m # p)
    /\ h2 = [h EXCEPT ![q] = h[q] - 1, ![p] = IF p \in red THEN h[p] ELSE h[p] - 1]

\* What is left to pay for then: nothing, or below the parent of p, on side k.
PassedOn(T, c, up, red, r, h2, p, k) ==
    /\ p \in red \/ up[p] = NULL => \A t : Balanced(T, c, r, h2, NULL, NULL, t)
    /\ p \notin red => Balanced(T, c, r, h2, NULL, up[p], k)

\* Case 2 of an erasure: the black sibling q of the short side becomes red; a red
\* parent p pays for it, a black one passes it on.
LEMMA PaleBalanced ==
    ASSUME NEW T \in SUBSET Nodes, NEW c \in Memory, NEW up \in Ups, Linked(T, c, up),
           NEW red \in SUBSET Nodes, NEW h \in Heights, NEW p \in T, NEW s \in Sides,
           NEW t0, t0 = Other(s), Balanced(T, c, red, h, NULL, p, t0),
           NEW r \in SUBSET Nodes, NEW h2 \in Heights, NEW q,
           Paled(T, c, red, h, r, h2, p, s, q),
           NEW k \in Sides, c[up[p]][k] = p
    PROVE  PassedOn(T, c, up, red, r, h2, p, k)
<1>a. /\ q = c[p][s] /\ q \notin red /\ c[p][Other(s)] \notin red
      /\ \A e \in Sides : c[q][e] \notin red
      /\ \A m \in T : m \in r <=> m = q \/ (m \in red /\ m # p)
      /\ h2 = [h EXCEPT ![q] = h[q] - 1, ![p] = IF p \in red THEN h[p] ELSE h[p] - 1]
    BY DEF Paled
<1> USE <1>a
<1> DEFINE o == Other(s)
           g == up[p]
<1>0. o \in Sides /\ o # s /\ \A e \in Sides : e = s \/ e = o
    BY SidesAre
<1>1. NULL \notin Nodes /\ NULL \notin T /\ NULL \notin red /\ NULL \notin r
    BY NodeAssumption
<1>2. /\ h[p] = h[q] + Weight(red, p)
      /\ h[p] = h[c[p][o]] + Weight(red, p) + 1
      /\ \A n \in T \ {p}, e \in Sides : h[n] = h[c[n][e]] + Weight(red, n)
    <2>1. Lack(p, s, p, o) = 0 /\ Lack(p, o, p, o) = 1
          /\ \A n \in T \ {p}, e \in Sides : Lack(n, e, p, o) = 0
        BY <1>0 DEF Lack
    <2>2. \A n \in T, e \in Sides : h[n] = h[c[n][e]] + Weight(red, n) + Lack(n, e, p, o)
        BY DEF Balanced
    <2>3. \A n \in T, e \in Sides : h[c[n][e]] \in Nat /\ Weight(red, n) \in {0, 1}
        BY DEF Memory, Links, Heights, Weight
    <2> QED BY <1>0, <2>1, <2>2, <2>3
<1>3. h[p] \in Nat /\ h[q] \in Nat /\ h[c[p][o]] \in Nat /\ p \in Links /\ q \in Links
      /\ c[p][o] \in Links
    BY <1>0 DEF Memory, Links, Heights
<1>4. h[q] = h[c[p][o]] + 1
    BY <1>2, <1>3 DEF Weight
<1>5. q \in T /\ q # NULL /\ up[q] = p /\ q # p /\ g # p
    <2>1. h[NULL] = 0
        BY DEF Balanced
    <2>2. q # NULL
        BY <1>3, <1>4, <2>1
    <2> QED BY <1>1, <2>2 DEF Linked
<1>6. \A m, n \in T \cup {NULL}, i, j \in Sides :
        c[m][i] = c[n][j] /\ c[m][i] # NULL => m = n /\ i = j
    <2>1. Once(T, c)
        BY OneSide
    <2> QED BY <2>1 DEF Once
<1>7. \A m \in Links : h2[m] = IF m = p THEN (IF p \in red THEN h[p] ELSE h[p] - 1)
                               ELSE IF m = q THEN h[q] - 1 ELSE h[m]
    BY <1>3, <1>5 DEF Heights, Links
<1>8. h2[NULL] = 0
    BY <1>1, <1>5, <1>7 DEF Balanced, Links
<1>9. ASSUME NEW n \in T, NEW e \in Sides
      PROVE  h2[n] + (IF p \in red THEN 0 ELSE IF n = g /\ e = k THEN -1 ELSE 0)
             = h2[c[n][e]] + Weight(r, n)
    <2>1. n \in Links /\ c[n][e] \in Links /\ h[n] \in Nat /\ h[c[n][e]] \in Nat
        BY DEF Memory, Links, Heights
    <2>2. CASE n = p
        <3>1. Weight(r, n) = 1 /\ ~(n = g /\ e = k)
            BY <1>5, <2>2 DEF Weight
        <3>2. h2[c[n][e]] = h[c[p][o]]
            <4>1. CASE e = s
                <5>1. c[n][e] = q /\ h2[q] = h[q] - 1
                    BY <1>3, <1>5, <1>7, <2>2, <4>1
                <5> QED BY <1>3, <1>4, <5>1
            <4>2. CASE e = o
                <5>1. c[n][e] # q /\ c[n][e] # p
                    BY <1>0, <1>1, <1>5, <2>2, <4>2 DEF Linked, Sides
                <5> QED BY <1>7, <2>1, <2>2, <4>2, <5>1
            <4> QED BY <1>0, <4>1, <4>2
        <3>3. h2[p] = h[c[p][o]] + 1
            <4>1. h2[p] = IF p \in red THEN h[p] ELSE h[p] - 1
                BY <1>3, <1>7
            <4>2. h[p] = h[c[p][o]] + (IF p \in red THEN 0 ELSE 1) + 1
                BY <1>2 DEF Weight
            <4> QED BY <1>3, <4>1, <4>2
        <3> QED BY <1>3, <2>2, <3>1, <3>2, <3>3
    <2>3. CASE n = q
        <3>1. Weight(r, n) = 0 /\ Weight(red, n) = 1 /\ h2[n] = h[n] - 1
            BY <1>5, <1>7, <2>1, <2>3 DEF Weight
        <3>2. h[n] = h[c[n][e]] + 1
            BY <1>2, <1>5, <2>3, <3>1
        <3>3. c[n][e] # q
            BY <1>1, <1>5, <2>3 DEF Linked
        <3>4. CASE c[n][e] # p
            <4>1. ~(n = g /\ e = k)
                BY <1>1, <3>4
            <4>2. h2[c[n][e]] = h[c[n][e]]
                BY <1>7, <2>1, <3>3, <3>4
            <4> QED BY <2>1, <3>1, <3>2, <4>1, <4>2
        <3>5. CASE c[n][e] = p
            BY <1>2, <1>3, <2>3, <3>2, <3>5 DEF Weight
        <3> QED BY <3>4, <3>5
    <2>4. CASE n # p /\ n # q
        <3>1. Weight(r, n) = Weight(red, n) /\ h2[n] = h[n]
            BY <1>7, <2>1, <2>4 DEF Weight
        <3>2. h[n] = h[c[n][e]] + Weight(red, n)
            BY <1>2, <2>4
        <3>3. c[n][e] # q
            BY <1>1, <1>5, <2>4 DEF Linked
        <3>4. CASE c[n][e] # p
            <4>1. ~(n = g /\ e = k)
                BY <1>1, <3>4
            <4>2. h2[c[n][e]] = h[c[n][e]]
                BY <1>7, <2>1, <3>3, <3>4
            <4> QED BY <2>1, <3>1, <3>2, <4>1, <4>2
        <3>5. CASE c[n][e] = p
            <4>1. n = g /\ e = k
                <5>1. up[p] = n /\ p # NULL
                    BY <1>1, <3>5 DEF Linked
                <5> QED BY <1>1, <1>6, <3>5, <5>1
            <4>2. h2[c[n][e]] = IF p \in red THEN h[p] ELSE h[p] - 1
                BY <1>3, <1>7, <3>5
            <4>3. h[n] = h[p] + Weight(red, n) /\ Weight(red, n) \in {0, 1}
                BY <3>2, <3>5 DEF Weight
            <4> QED BY <1>3, <2>1, <3>1, <4>1, <4>2, <4>3
        <3> QED BY <3>4, <3>5
    <2> QED BY <2>2, <2>3, <2>4
<1>10. ASSUME NEW n \in T \cup {NULL}, NEW e \in Sides, c[n][e] \in r, n \in r \/ n = NULL
       PROVE  FALSE
    <2>1. n # p
        BY <1>1, <1>5, <1>10
    <2>2. c[n][e] # q
        <3>1. c[n][e] = q => n = p
            BY <1>5 DEF Linked
        <3> QED BY <2>1, <3>1
    <2>3. c[n][e] \in red /\ c[n][e] \in T
        BY <1>1, <1>10, <2>2 DEF Linked
    <2>4. n # q
        BY <2>3
    <2> QED BY <1>1, <1>10, <2>3, <2>4 DEF Balanced
<1>11. \A n \in T \cup {NULL}, e \in Sides :
         c[n][e] \in r /\ (n \in r \/ n = NULL) => c[n][e] = NULL
    BY <1>10
<1>12. \A n \in T, e \in Sides : h2[n] \in Nat /\ h2[c[n][e]] \in Nat /\ Weight(r, n) \in {0, 1}
    BY DEF Memory, Links, Heights, Weight
<1>13. ASSUME p \in red \/ g = NULL, NEW t PROVE Balanced(T, c, r, h2, NULL, NULL, t)
    <2>1. \A n \in T, e \in Sides : Lack(n, e, NULL, t) = 0
        BY <1>1 DEF Lack
    <2>2. ASSUME NEW n \in T, NEW e \in Sides
          PROVE  h2[n] = h2[c[n][e]] + Weight(r, n) + Lack(n, e, NULL, t)
        <3>1. h2[n] + 0 = h2[c[n][e]] + Weight(r, n)
            BY <1>1, <1>9, <1>13
        <3>2. h2[n] \in Nat /\ h2[c[n][e]] \in Nat /\ Weight(r, n) \in {0, 1}
              /\ Lack(n, e, NULL, t) = 0
            BY <1>12, <2>1
        <3> QED BY <3>1, <3>2
    <2> QED BY <1>8, <1>11, <2>2 DEF Balanced
<1>14. ASSUME p \notin red PROVE Balanced(T, c, r, h2, NULL, g, k)
    <2>2. ASSUME NEW n \in T, NEW e \in Sides
          PROVE  h2[n] = h2[c[n][e]] + Weight(r, n) + Lack(n, e, g, k)
        <3>1. h2[n] + (IF n = g /\ e = k THEN -1 ELSE 0) = h2[c[n][e]] + Weight(r, n)
            BY <1>9, <1>14
        <3>2. h2[n] \in Nat /\ h2[c[n][e]] \in Nat /\ Weight(r, n) \in {0, 1}
            BY <1>12
        <3> QED BY <3>1, <3>2 DEF Lack
    <2> QED BY <1>8, <1>11, <2>2 DEF Balanced
<1> QED BY <1>5, <1>13, <1>14 DEF PassedOn

\* Colours r and heights h2 after z is taken out.
Blackened(T, c, red, h, r, h2, z, s) ==
    /\ \A m \in T \ {z} : m \in r <=> m \in red /\ m # c[z][s]
    /\ h2 = [h EXCEPT ![c[z][s]] = IF c[z][s] = NULL THEN 0 ELSE 1]
\* What is left to pay for then.
Settles(T, c, up, d, red, r, h2, z, s, k) ==
    /\ c[z][s] # NULL => z \notin red
    /\ c[z][s] # NULL \/ z \in red \/ up[z] = NULL =>
         \A t : Balanced(T \ {z}, d, r, h2, NULL, NULL, t)
    /\ c[z][s] = NULL /\ z \notin red => Balanced(T \ {z}, d, r, h2, NULL, up[z], k)

\* An element z with one child at most is taken out.  Its child is black then, and if
\* there is none and z was black, a black one is missing where z was.
LEMMA UnlinkBalanced ==
    ASSUME NEW T \in SUBSET Nodes, NEW c \in Memory, NEW up \in Ups, Linked(T, c, up),
           NEW red \in SUBSET Nodes, NEW h \in Heights, NEW t0,
           Balanced(T, c, red, h, NULL, NULL, t0),
           NEW z \in T, NEW s \in Sides, NEW k \in Sides, NEW d \in Memory,
           Unlinked(T, c, up, d, z, s, k),
           NEW r \in SUBSET Nodes, NEW h2 \in Heights, Blackened(T, c, red, h, r, h2, z, s)
    PROVE  Settles(T, c, up, d, red, r, h2, z, s, k)
<1>z. /\ c[z][Other(s)] = NULL /\ c[up[z]][k] = z
      /\ \A m \in (T \ {z}) \cup {NULL}, e \in Sides :
           d[m][e] = IF m = up[z] /\ e = k THEN c[z][s] ELSE c[m][e]
      /\ \A m \in T \ {z} : m \in r <=> m \in red /\ m # c[z][s]
      /\ h2 = [h EXCEPT ![c[z][s]] = IF c[z][s] = NULL THEN 0 ELSE 1]
    BY DEF Unlinked, Blackened
<1> USE <1>z
<1> DEFINE U == T \ {z}
           b == c[z][s]
           g == up[z]
<1>1. NULL \notin Nodes /\ NULL \notin T /\ NULL \notin red /\ NULL \notin r /\ g # z
      /\ g \in U \cup {NULL} /\ b # z /\ (b # NULL => b \in U)
    BY NodeAssumption DEF Linked
<1>2. \A n \in T, e \in Sides : h[n] = h[c[n][e]] + Weight(red, n)
    BY <1>1 DEF Balanced, Lack, Memory, Links, Heights, Weight
<1>3. \A m, n \in T \cup {NULL}, i, j \in Sides :
        c[m][i] = c[n][j] /\ c[m][i] # NULL => m = n /\ i = j
    <2>1. Once(T, c)
        BY OneSide
    <2> QED BY <2>1 DEF Once
<1>4. h[NULL] = 0
    BY DEF Balanced
<1>5. h[z] = Weight(red, z) /\ h[z] = h[b] + Weight(red, z) /\ h[b] \in Nat /\ h[z] \in Nat
      /\ b \in Links /\ z \in Links
    <2>1. Other(s) \in Sides
        BY SidesAre
    <2> QED BY <1>2, <1>4, <2>1 DEF Memory, Links, Heights, Weight
<1>6. ASSUME b # NULL PROVE b \in red /\ z \notin red /\ \A e \in Sides : h[c[b][e]] = 0
    <2>1. h[b] = 0
        BY <1>5 DEF Weight
    <2>2. \A e \in Sides : h[c[b][e]] \in Nat /\ h[b] = h[c[b][e]] + Weight(red, b)
        BY <1>1, <1>2, <1>6 DEF Memory, Links, Heights
    <2>3. b \in red
        BY <2>1, <2>2, SidesAre DEF Weight
    <2>4. z \notin red
        BY <1>1, <1>6, <2>3 DEF Balanced
    <2> QED BY <2>1, <2>2, <2>3, <2>4 DEF Weight
<1>7. \A m \in Links : h2[m] = IF m = b THEN IF b = NULL THEN 0 ELSE 1 ELSE h[m]
    BY <1>5 DEF Heights
<1>8. h2[NULL] = 0
    BY <1>4, <1>7 DEF Links
<1> HIDE DEF b, g
<1>9. ASSUME NEW n \in U, NEW e \in Sides
      PROVE  h2[n] = h2[d[n][e]] + Weight(r, n)
                     + (IF b = NULL /\ z \notin red /\ n = g /\ e = k THEN 1 ELSE 0)
    <2>1. n \in Links /\ c[n][e] \in Links /\ h[n] \in Nat /\ h[c[n][e]] \in Nat /\ n # NULL
        BY <1>1 DEF Memory, Links, Heights
    <2>2. h[n] = h[c[n][e]] + Weight(red, n)
        BY <1>2
    <2>3. CASE n = g /\ e = k
        <3>1. d[n][e] = b /\ n # b /\ c[n][e] = z
            <4>1. d[n][e] = b /\ c[n][e] = z
                BY <2>3 DEF b, g
            <4>2. b # NULL => up[b] = z
                BY DEF b, Linked
            <4>3. up[z] # b \/ b = NULL
                <5>1. ASSUME c[z][s] # NULL PROVE c[z][s] # up[z]
                    BY <5>1, NotAbove DEF NoTwoCycle
                <5> QED BY <5>1 DEF b
            <4> QED BY <2>1, <2>3, <4>1, <4>3 DEF g
        <3>2. h2[n] = h[n] /\ Weight(r, n) = Weight(red, n)
            BY <1>7, <2>1, <3>1 DEF Weight, b
        <3>3. h2[b] = IF b = NULL THEN 0 ELSE 1
            BY <1>5, <1>7
        <3>4. h[z] = IF z \in red THEN 0 ELSE 1
            BY <1>5 DEF Weight
        <3>5. Weight(r, n) \in {0, 1}
            BY DEF Weight
        <3>6. CASE b = NULL /\ z \notin red
            BY <2>2, <2>3, <3>1, <3>2, <3>3, <3>4, <3>5, <3>6
        <3>7. CASE b = NULL /\ z \in red
            BY <2>2, <2>3, <3>1, <3>2, <3>3, <3>4, <3>5, <3>7
        <3>8. CASE b # NULL
            BY <1>6, <2>2, <2>3, <3>1, <3>2, <3>3, <3>4, <3>5, <3>8
        <3> QED BY <3>6, <3>7, <3>8
    <2>4. CASE ~(n = g /\ e = k)
        <3>1. d[n][e] = c[n][e]
            BY <2>4 DEF g
        <3>2. c[n][e] # b \/ b = NULL
            BY <1>1, <1>3, <2>1 DEF b
        <3>3. h2[c[n][e]] = h[c[n][e]]
            BY <1>4, <1>7, <2>1, <3>2
        <3>4. CASE n = b
            <4>1. h2[n] = 1 /\ Weight(r, n) = 1
                BY <1>1, <1>7, <2>1, <3>4 DEF Weight, b
            <4>2. h[c[n][e]] = 0
                BY <1>6, <2>1, <3>4
            <4> QED BY <2>4, <3>1, <3>3, <4>1, <4>2
        <3>5. CASE n # b
            <4>1. h2[n] = h[n] /\ Weight(r, n) = Weight(red, n) /\ Weight(r, n) \in {0, 1}
                BY <1>7, <2>1, <3>5 DEF Weight, b
            <4> QED BY <2>1, <2>2, <2>4, <3>1, <3>3, <4>1
        <3> QED BY <3>4, <3>5
    <2> QED BY <2>3, <2>4
<1>10. ASSUME NEW n \in U \cup {NULL}, NEW e \in Sides, d[n][e] \in r, n \in r \/ n = NULL
       PROVE  FALSE
    <2>1. n \in T \cup {NULL} /\ n # z
        BY <1>1
    <2>2. d[n][e] # b
        <3>1. CASE b = NULL
            BY <1>1, <1>10, <3>1
        <3>2. CASE b # NULL
            BY <1>1, <1>10, <3>2 DEF b
        <3> QED BY <3>1, <3>2
    <2>3. d[n][e] = c[n][e] /\ ~(n = g /\ e = k)
        BY <2>2 DEF b, g
    <2>4. c[n][e] # z
        <3>1. c[n][e] = z => n = g /\ e = k
            BY <1>1, <1>3, <2>1 DEF g
        <3> QED BY <2>3, <3>1
    <2>5. c[n][e] \in U
        BY <1>1, <1>10, <2>1, <2>3, <2>4 DEF Linked
    <2>6. c[n][e] \in red /\ (n \in red \/ n = NULL)
        BY <1>10, <2>1, <2>3, <2>5
    <2> QED BY <1>1, <2>1, <2>6 DEF Balanced
<1>11. \A n \in U \cup {NULL}, e \in Sides :
         d[n][e] \in r /\ (n \in r \/ n = NULL) => d[n][e] = NULL
    BY <1>10
<1>12. \A n \in U, e \in Sides : h2[n] \in Nat /\ h2[d[n][e]] \in Nat /\ Weight(r, n) \in {0, 1}
    BY DEF Memory, Links, Heights, Weight
<1>13. ASSUME b # NULL \/ z \in red \/ g = NULL, NEW t PROVE Balanced(U, d, r, h2, NULL, NULL, t)
    <2>1. ASSUME NEW n \in U, NEW e \in Sides
          PROVE  h2[n] = h2[d[n][e]] + Weight(r, n) + Lack(n, e, NULL, t)
        <3>1. Lack(n, e, NULL, t) = 0
            BY <1>1 DEF Lack
        <3>2. h2[n] = h2[d[n][e]] + Weight(r, n) + 0
            BY <1>1, <1>9, <1>13
        <3> QED BY <3>1, <3>2
    <2> QED BY <1>8, <1>11, <2>1 DEF Balanced
<1>14. ASSUME b = NULL, z \notin red PROVE Balanced(U, d, r, h2, NULL, g, k)
    <2>1. ASSUME NEW n \in U, NEW e \in Sides
          PROVE  h2[n] = h2[d[n][e]] + Weight(r, n) + Lack(n, e, g, k)
        BY <1>9, <1>14 DEF Lack
    <2> QED BY <1>8, <1>11, <2>1 DEF Balanced
<1>15. /\ b # NULL => z \notin red
       /\ b # NULL \/ z \in red \/ g = NULL => \A t : Balanced(U, d, r, h2, NULL, NULL, t)
       /\ b = NULL /\ z \notin red => Balanced(U, d, r, h2, NULL, g, k)
    BY <1>6, <1>13, <1>14
<1> QED BY <1>15 DEF b, g, Settles

\* Colours r and heights h2 after it.
Repainted(T, red, h, r, h2, v, n) ==
    /\ \A m \in (T \ {v}) \cup {n} : m \in r <=> IF m = n THEN v \in red ELSE m \in red
    /\ h2 = [h EXCEPT ![n] = h[v]]

\* n takes the place of v, its colour and its height.
LEMMA SubstituteBalanced ==
    ASSUME NEW T \in SUBSET Nodes, NEW c \in Memory, NEW up \in Ups, Linked(T, c, up),
           NEW red \in SUBSET Nodes, NEW h \in Heights, NEW y, NEW t,
           Balanced(T, c, red, h, NULL, y, t), y # NULL => y \in T,
           NEW v \in T, NEW n \in Nodes, n \notin T, NEW k \in Sides,
           NEW d \in Memory, Substituted(T, c, up, d, v, n, k),
           NEW r \in SUBSET Nodes, NEW h2 \in Heights, Repainted(T, red, h, r, h2, v, n),
           NEW y2, y2 = IF y = v THEN n ELSE y
    PROVE  Balanced((T \ {v}) \cup {n}, d, r, h2, NULL, y2, t)
<1>z. /\ c[up[v]][k] = v
      /\ \A m \in (T \ {v}) \cup {n, NULL}, e \in Sides :
           d[m][e] = IF m = n THEN c[v][e] ELSE IF m = up[v] /\ e = k THEN n ELSE c[m][e]
      /\ \A m \in (T \ {v}) \cup {n} : m \in r <=> IF m = n THEN v \in red ELSE m \in red
      /\ h2 = [h EXCEPT ![n] = h[v]] /\ y2 = IF y = v THEN n ELSE y
    BY DEF Substituted, Repainted
<1> USE <1>z
<1> DEFINE U == (T \ {v}) \cup {n}
           g == up[v]
<1>1. /\ NULL \notin Nodes /\ NULL \notin T /\ NULL \notin red /\ NULL \notin r
      /\ g \in (T \ {v}) \cup {NULL} /\ n # NULL /\ g # n /\ v # n
      /\ \A m \in T \cup {NULL}, e \in Sides : c[m][e] = NULL \/ c[m][e] \in T
      /\ \A e \in Sides : c[v][e] # v
    BY NodeAssumption DEF Linked
<1>2. \A m, l \in T \cup {NULL}, i, j \in Sides :
        c[m][i] = c[l][j] /\ c[m][i] # NULL => m = l /\ i = j
    <2>1. Once(T, c)
        BY OneSide
    <2> QED BY <2>1 DEF Once
<1>3. \A m \in Links : h2[m] = IF m = n THEN h[v] ELSE h[m]
    BY <1>1 DEF Heights, Links
<1>4. h2[NULL] = 0
    BY <1>1, <1>3 DEF Balanced, Links
<1>5. ASSUME NEW m \in (T \ {v}) \cup {NULL}, NEW e \in Sides
      PROVE  d[m][e] = IF m = g /\ e = k THEN n ELSE c[m][e]
    BY <1>1
<1>6. ASSUME NEW m \in T \cup {NULL}, NEW e \in Sides, c[m][e] = v
      PROVE  m = g /\ e = k
    BY <1>1, <1>2, <1>6
<1>7. ASSUME NEW m \in U, NEW e \in Sides
      PROVE  h2[m] = h2[d[m][e]] + Weight(r, m) + Lack(m, e, y2, t)
    <2>1. CASE m = n
        <3>1. d[m][e] = c[v][e] /\ c[v][e] # n /\ c[v][e] \in Links
            BY <1>1, <2>1 DEF Links
        <3>2. h2[m] = h[v] /\ h2[d[m][e]] = h[c[v][e]] /\ Weight(r, m) = Weight(red, v)
            BY <1>3, <2>1, <3>1 DEF Links, Weight
        <3>3. Lack(m, e, y2, t) = Lack(v, e, y, t)
            BY <1>1, <2>1 DEF Lack
        <3> QED BY <3>2, <3>3 DEF Balanced
    <2>2. CASE m # n
        <3>1. m \in T /\ m # v /\ m \in Links
            BY <2>2 DEF Links
        <3>2. h2[m] = h[m] /\ Weight(r, m) = Weight(red, m) /\ Lack(m, e, y2, t) = Lack(m, e, y, t)
            BY <1>1, <1>3, <2>2, <3>1 DEF Weight, Lack
        <3>3. h2[d[m][e]] = h[c[m][e]]
            <4>1. CASE m = g /\ e = k
                BY <1>1, <1>3, <1>5, <3>1, <4>1 DEF Links
            <4>2. CASE ~(m = g /\ e = k)
                <5>1. d[m][e] = c[m][e] /\ c[m][e] # n /\ c[m][e] \in Links
                    BY <1>1, <1>5, <3>1, <4>2 DEF Links
                <5> QED BY <1>3, <5>1
            <4> QED BY <4>1, <4>2
        <3> QED BY <3>1, <3>2, <3>3 DEF Balanced
    <2> QED BY <2>1, <2>2
<1>8. ASSUME NEW m \in U \cup {NULL}, NEW e \in Sides, d[m][e] \in r, m \in r \/ m = NULL
      PROVE  FALSE
    <2>1. CASE m = n
        <3>1. d[m][e] = c[v][e] /\ v \in red /\ c[v][e] \in T
            BY <1>1, <1>8, <2>1
        <3>2. c[v][e] \in red
            BY <1>1, <1>8, <3>1
        <3> QED BY <1>1, <3>1, <3>2 DEF Balanced
    <2>2. CASE m # n /\ m = g /\ e = k
        <3>1. v \in red /\ c[m][e] = v /\ (m \in red \/ m = NULL)
            BY <1>1, <1>5, <1>8, <2>2
        <3> QED BY <1>1, <2>2, <3>1 DEF Balanced
    <2>3. CASE m # n /\ ~(m = g /\ e = k)
        <3>1. m \in T \cup {NULL} /\ m # v /\ d[m][e] = c[m][e]
            BY <1>1, <1>5, <2>3
        <3>2. c[m][e] \in T /\ c[m][e] # v
            BY <1>1, <1>6, <1>8, <2>3, <3>1
        <3>3. c[m][e] \in red /\ (m \in red \/ m = NULL)
            BY <1>8, <2>3, <3>1, <3>2
        <3> QED BY <1>1, <3>1, <3>3 DEF Balanced
    <2> QED BY <2>1, <2>2, <2>3
<1> QED BY <1>4, <1>7, <1>8 DEF Balanced

-----------------------------------------------------------------------------
(* Counting up, and loops that end.                                        *)

LEMMA CountingUp ==
    ASSUME NEW h \in Nat, NEW S, 0 \in S, \A k \in 0 .. (h - 1) : k \in S => k + 1 \in S
    PROVE  \A k \in 0 .. h : k \in S
<1> DEFINE T == {k \in Nat : k <= h /\ k \notin S}
<1>1. SUFFICES ASSUME T # {} PROVE FALSE
    OBVIOUS
<1>2. \E k \in T : \A y \in T : <<y, k>> \notin OpToRel(<, Nat)
    BY <1>1, NatLessThanWellFounded, WFMin, Zenon
<1>3. PICK k \in T : \A y \in T : <<y, k>> \notin OpToRel(<, Nat)
    BY <1>2, Zenon
<1>a. \A y \in T : ~(y < k)
    BY <1>3 DEF OpToRel
<1>4. k # 0 /\ k - 1 \in Nat /\ k - 1 \in 0 .. (h - 1) /\ k - 1 < k
    OBVIOUS
<1>5. k - 1 \notin T
    BY <1>4, <1>a
<1>6. k - 1 \in S
    BY <1>4, <1>5
<1> QED BY <1>4, <1>6

\* What is defined by its first value and a step from each to the next exists.
LEMMA LoopExists ==
    \A h \in Nat : \A X : \A a \in X : \A next \in [X -> X] :
      \E f : /\ f \in [0 .. h -> X]
             /\ f = [k \in 0 .. h |-> IF k = 0 THEN a ELSE next[f[k - 1]]]
<1> SUFFICES ASSUME NEW h \in Nat, NEW X, NEW a \in X, NEW next \in [X -> X]
             PROVE  \E f : /\ f \in [0 .. h -> X]
                           /\ f = [k \in 0 .. h |-> IF k = 0 THEN a ELSE next[f[k - 1]]]
    OBVIOUS
<1> DEFINE Good(f, n) == f[0] = a /\ \A k \in 1 .. n : f[k] = next[f[k - 1]]
           S == {n \in 0 .. h : \E f \in [0 .. h -> X] : Good(f, n)}
<1>1. 0 \in S
    <2> DEFINE f == [k \in 0 .. h |-> a]
    <2>1. f \in [0 .. h -> X] /\ Good(f, 0)
        OBVIOUS
    <2> HIDE DEF f, Good
    <2> QED BY <2>1
<1>2. ASSUME NEW n \in 0 .. (h - 1), n \in S PROVE n + 1 \in S
    <2>1. PICK f \in [0 .. h -> X] : Good(f, n)
        BY <1>2
    <2> DEFINE g == [k \in 0 .. h |-> IF k = n + 1 THEN next[f[n]] ELSE f[k]]
    <2>2. g \in [0 .. h -> X] /\ n + 1 \in 0 .. h
        OBVIOUS
    <2>3. Good(g, n + 1)
        BY <2>1
    <2> HIDE DEF g, Good
    <2> QED BY <2>2, <2>3
<1>3. h \in S
    <2> HIDE DEF S
    <2>1. \A k \in 0 .. h : k \in S
        BY <1>1, <1>2, CountingUp
    <2> QED BY <2>1
<1>4. PICK f : f \in [0 .. h -> X] /\ Good(f, h)
    BY <1>3
<1>5. \A k \in 0 .. h : f[k] = IF k = 0 THEN a ELSE next[f[k - 1]]
    BY <1>4
<1>6. f = [k \in 0 .. h |-> f[k]]
    BY <1>4
<1>7. f = [k \in 0 .. h |-> IF k = 0 THEN a ELSE next[f[k - 1]]]
    BY <1>5, <1>6
<1> QED BY <1>4, <1>7

\* Children rank lower than their parents.
Ranked(T, c, rank) ==
    /\ rank \in [Links -> Nat]
    /\ \A n \in T, s \in Sides :
         c[n][s] # NULL => c[n][s] \in T /\ rank[c[n][s]] < rank[n]
\* The elements that rank no higher than n.
NoHigher(T, rank, n) == {m \in T : rank[m] <= rank[n]}

LEMMA LowerFewer ==
    ASSUME NEW T \in SUBSET Nodes, NEW rank \in [Links -> Nat], NEW n \in T, NEW m \in T,
           rank[m] < rank[n]
    PROVE  /\ Cardinality(NoHigher(T, rank, n)) \in 1 .. Cardinality(Nodes)
           /\ Cardinality(NoHigher(T, rank, m)) < Cardinality(NoHigher(T, rank, n))
<1> DEFINE A == NoHigher(T, rank, n)
           B == NoHigher(T, rank, m)
<1>1. A \in SUBSET Nodes /\ B \in SUBSET (A \ {n}) /\ n \in A
    <2>1. \A l \in T : rank[l] \in Nat
        BY DEF Links
    <2> QED BY <2>1 DEF NoHigher
<1> HIDE DEF A, B
<1>2. IsFiniteSet(A) /\ Cardinality(A) <= Cardinality(Nodes)
    BY <1>1, NodeAssumption, FS_Subset
<1>3. IsFiniteSet(A \ {n}) /\ Cardinality(A \ {n}) = Cardinality(A) - 1
    BY <1>1, <1>2, FS_RemoveElement
<1>4. Cardinality(B) <= Cardinality(A \ {n}) /\ IsFiniteSet(B)
    BY <1>1, <1>3, FS_Subset
<1>5. Cardinality(A) \in Nat /\ Cardinality(B) \in Nat /\ Cardinality(Nodes) \in Nat
    BY <1>2, <1>4, NodeAssumption, FS_CardinalityType
<1> QED BY <1>2, <1>3, <1>4, <1>5 DEF A, B

LEMMA SomeNoHigher ==
    ASSUME NEW T \in SUBSET Nodes, NEW rank \in [Links -> Nat], NEW n \in T
    PROVE  Cardinality(NoHigher(T, rank, n)) \in 1 .. Cardinality(Nodes)
<1> DEFINE A == NoHigher(T, rank, n)
<1>1. A \in SUBSET Nodes /\ n \in A
    BY DEF NoHigher, Links
<1> HIDE DEF A
<1>2. IsFiniteSet(A) /\ Cardinality(A) <= Cardinality(Nodes)
    BY <1>1, NodeAssumption, FS_Subset
<1>3. Cardinality(A) \in Nat /\ Cardinality(Nodes) \in Nat
    BY <1>2, NodeAssumption, FS_CardinalityType
<1>4. Cardinality(A) # 0
    BY <1>1, <1>2, FS_EmptySet
<1> QED BY <1>2, <1>3, <1>4 DEF A

\* What descends as many times as there are elements has reached the end.
Descends(T, rank, a) ==
    /\ a \in [0 .. Cardinality(Nodes) -> T \cup {NULL}]
    /\ \A k \in 1 .. Cardinality(Nodes) :
         a[k] # NULL => a[k - 1] # NULL /\ rank[a[k]] < rank[a[k - 1]]

LEMMA Lands ==
    ASSUME NEW T \in SUBSET Nodes, NEW rank \in [Links -> Nat], NEW a, Descends(T, rank, a)
    PROVE  a[Cardinality(Nodes)] = NULL
<1> PICK N : N = Cardinality(Nodes)
    OBVIOUS
<1>1. N \in Nat
    BY NodeAssumption, FS_CardinalityType
<1>2. /\ a \in [0 .. N -> T \cup {NULL}]
      /\ \A k \in 1 .. N : a[k] # NULL => a[k - 1] # NULL /\ rank[a[k]] < rank[a[k - 1]]
    BY DEF Descends
<1> DEFINE S == {k \in 0 .. N : a[k] # NULL => Cardinality(NoHigher(T, rank, a[k])) <= N - k}
<1>3. 0 \in S
    <2>1. a[0] # NULL => a[0] \in T
        BY <1>1, <1>2
    <2>2. a[0] # NULL => Cardinality(NoHigher(T, rank, a[0])) \in 1 .. N
        BY <2>1, SomeNoHigher
    <2> QED BY <1>1, <2>2
<1>4. ASSUME NEW k \in 0 .. (N - 1), k \in S PROVE k + 1 \in S
    <2>1. k + 1 \in 1 .. N /\ (k + 1) - 1 = k /\ k \in 0 .. N /\ k + 1 \in 0 .. N
        BY <1>1
    <2>2. CASE a[k + 1] = NULL
        BY <2>1, <2>2
    <2>3. CASE a[k + 1] # NULL
        <3>1. a[k] # NULL /\ rank[a[k + 1]] < rank[a[k]]
            BY <1>2, <2>1, <2>3
        <3>2. a[k] \in T /\ a[k + 1] \in T
            BY <1>2, <2>1, <2>3, <3>1
        <3>3. Cardinality(NoHigher(T, rank, a[k + 1])) < Cardinality(NoHigher(T, rank, a[k]))
              /\ Cardinality(NoHigher(T, rank, a[k])) \in 1 .. N
            BY <3>1, <3>2, LowerFewer
        <3>4. Cardinality(NoHigher(T, rank, a[k + 1])) \in 1 .. N
            BY <3>2, SomeNoHigher
        <3>5. Cardinality(NoHigher(T, rank, a[k])) <= N - k
            BY <1>4, <3>1
        <3>6. Cardinality(NoHigher(T, rank, a[k + 1])) <= N - (k + 1)
            BY <1>1, <2>1, <3>3, <3>4, <3>5
        <3> QED BY <2>1, <3>6
    <2> QED BY <2>2, <2>3
<1>5. N \in S
    <2> HIDE DEF S
    <2> QED BY <1>1, <1>3, <1>4, CountingUp
<1>6. ASSUME a[N] # NULL PROVE FALSE
    <2>1. a[N] \in T
        BY <1>1, <1>2, <1>6
    <2>2. Cardinality(NoHigher(T, rank, a[N])) \in 1 .. N
        BY <2>1, SomeNoHigher
    <2> QED BY <1>1, <1>5, <1>6, <2>2
<1> QED BY <1>6

\* Heights and colours make a rank: every child is lower or of the lighter colour.
LEMMA RankExists ==
    ASSUME NEW T \in SUBSET Nodes, NEW c \in Memory, NEW up \in Ups, Linked(T, c, up),
           NEW red \in SUBSET Nodes, NEW h \in Heights, NEW x, NEW y, NEW t,
           Balanced(T, c, red, h, x, y, t)
    PROVE  \E rank : Ranked(T, c, rank)
<1> DEFINE rank == [m \in Links |-> 4 * h[m] + (IF m \notin red THEN 0 ELSE IF m = x THEN 1 ELSE 2)]
<1>1. rank \in [Links -> Nat]
    BY DEF Heights
<1>2. ASSUME NEW n \in T, NEW s \in Sides, c[n][s] # NULL
      PROVE  c[n][s] \in T /\ rank[c[n][s]] < rank[n]
    <2> PICK m : m = c[n][s]
        OBVIOUS
    <2>1. m \in T /\ up[m] = n /\ m # n
        <3>1. m \in T /\ up[m] = n
            BY <1>2 DEF Linked
        <3> QED BY <3>1 DEF Linked
    <2>2. m \in Links /\ n \in Links /\ h[m] \in Nat /\ h[n] \in Nat
        BY <2>1 DEF Heights, Links
    <2>3. h[n] = h[m] + Weight(red, n) + Lack(n, s, y, t)
        BY DEF Balanced
    <2>4. m \in red /\ n \in red => m = x
        BY <2>1 DEF Balanced
    <2>5. rank[m] = 4 * h[m] + (IF m \notin red THEN 0 ELSE IF m = x THEN 1 ELSE 2)
          /\ rank[n] = 4 * h[n] + (IF n \notin red THEN 0 ELSE IF n = x THEN 1 ELSE 2)
        BY <2>2
    <2> HIDE DEF rank
    <2>6. CASE n \in red
        <3>1. h[n] >= h[m]
            BY <2>2, <2>3, <2>6 DEF Weight, Lack
        <3> QED BY <2>1, <2>2, <2>4, <2>5, <2>6, <3>1
    <2>7. CASE n \notin red
        <3>1. h[n] >= h[m] + 1
            BY <2>2, <2>3, <2>7 DEF Weight, Lack
        <3> QED BY <2>1, <2>2, <2>5, <2>7, <3>1
    <2> QED BY <2>6, <2>7
<1> HIDE DEF rank
<1> QED BY <1>1, <1>2 DEF Ranked

-----------------------------------------------------------------------------
(* The first element.                                                      *)

\* S is NULL, the root and all that is reached from it by left pointers, down to f.
Spine(c, f, S) ==
    /\ NULL \in S /\ f \in S /\ c[f]["left"] = NULL
    /\ \A n \in S \ {f} : c[n]["left"] \in S \ {NULL}
    /\ \A n \in S \ {NULL} : \E m \in S : c[m]["left"] = n

\* f is the first element, or NULL when there is none.
Foremost(T, c, f) == \E S \in SUBSET (T \cup {NULL}) : Spine(c, f, S)

\* A rotation leaves the first element the first.
LEMMA RotationForemost ==
    ASSUME NEW T \in SUBSET Nodes, NEW c, NEW up, NEW d, NEW p, NEW s, NEW k, NEW f,
           Around(T, c, up, p, s, k), Rotated(T, c, d, p, s, up[p], k), Foremost(T, c, f)
    PROVE  Foremost(T, d, f)
<1> PICK q : q = c[p][s]
    OBVIOUS
<1> PICK b : b = c[q][Other(s)]
    OBVIOUS
<1> PICK g : g = up[p]
    OBVIOUS
<1>1. /\ p \in T /\ q \in T /\ p # q /\ g \in T \cup {NULL} /\ g # p /\ q # g /\ NULL \notin T
      /\ s \in Sides /\ k \in Sides /\ c[g][k] = p /\ c[p][s] = q /\ p # NULL /\ q # NULL
    <2>1. p \in T /\ s \in Sides /\ k \in Sides /\ q \in T /\ c[g][k] = p /\ q # g /\ Linked(T, c, up)
        BY DEF Around
    <2>2. NULL \notin T
        BY NodeAssumption
    <2>3. up[p] \in T \cup {NULL} /\ up[p] # p /\ up[q] = p /\ up[q] # q
        BY <2>1, <2>2 DEF Linked
    <2> QED BY <2>1, <2>2, <2>3
<1>2. \A m \in T \cup {NULL}, e \in Sides :
        d[m][e] = IF m = p /\ e = s THEN b ELSE IF m = q /\ e = Other(s) THEN p
                  ELSE IF m = g /\ e = k THEN q ELSE c[m][e]
    BY DEF Rotated
<1>o. Once(T, c)
    BY OneSide DEF Around
<1>3. PICK S \in SUBSET (T \cup {NULL}) : Spine(c, f, S)
    BY DEF Foremost
<1>4. /\ NULL \in S /\ f \in S /\ c[f]["left"] = NULL /\ f \in T \cup {NULL}
      /\ \A n \in S : n # f => c[n]["left"] \in S /\ c[n]["left"] # NULL
      /\ \A n \in S : n # NULL => \E m \in S : c[m]["left"] = n
    BY <1>3 DEF Spine
<1>5. "left" \in Sides /\ "right" \in Sides /\ Other("left") = "right" /\ Other("right") = "left"
    BY DEF Sides, Other
\* Only g has p below it, and only p has q.
<1>6. \A m \in T \cup {NULL}, e \in Sides : /\ c[m][e] = p => m = g /\ e = k
                                            /\ c[m][e] = q => m = p /\ e = s
    BY <1>1, <1>o DEF Once
<1>7. CASE s = "left"
    <2> PICK R : R = S \ {p}
        OBVIOUS
    <2>1. \A m \in T \cup {NULL} : d[m]["left"] = IF m = p THEN b
                                   ELSE IF m = g /\ k = "left" THEN q ELSE c[m]["left"]
        BY <1>1, <1>2, <1>5, <1>7
    <2>2. f # p
        BY <1>1, <1>4, <1>7
    <2>3. p \in S => q \in S
        BY <1>1, <1>4, <1>7, <2>2
    <2>4. q \in S => p \in S
        BY <1>1, <1>4, <1>5, <1>6
    <2>5. d[f]["left"] = NULL
        BY <1>1, <1>4, <2>1, <2>2
    <2>6. ASSUME NEW n \in R, n # f PROVE d[n]["left"] \in R /\ d[n]["left"] # NULL
        <3>1. n \in T \cup {NULL} /\ n \in S /\ n # p /\ c[n]["left"] \in S /\ c[n]["left"] # NULL
            BY <1>4, <2>6
        <3>2. CASE n = g /\ k = "left"
            BY <1>1, <2>1, <2>3, <3>1, <3>2
        <3>3. CASE ~(n = g /\ k = "left")
            BY <1>5, <1>6, <2>1, <3>1, <3>3
        <3> QED BY <3>2, <3>3
    <2>7. ASSUME NEW n \in R, n # NULL PROVE \E m \in R : d[m]["left"] = n
        <3>1. PICK m \in S : c[m]["left"] = n
            BY <1>4, <2>7
        <3>2. n \in S /\ n # p /\ m \in T \cup {NULL}
            BY <2>7
        <3>3. CASE n = q
            <4>1. p \in S
                BY <2>4, <3>2, <3>3
            <4>2. PICK j \in S : c[j]["left"] = p
                BY <1>1, <1>4, <4>1
            <4>3. j = g /\ k = "left"
                BY <1>5, <1>6, <4>2
            <4> QED BY <1>1, <2>1, <3>3, <4>2, <4>3
        <3>4. CASE n # q
            <4>1. m # p
                BY <1>1, <1>7, <3>1, <3>4
            <4>2. ~(m = g /\ k = "left")
                BY <1>1, <3>1, <3>2
            <4> QED BY <2>1, <3>1, <3>2, <4>1, <4>2
        <3> QED BY <3>3, <3>4
    <2>8. R \in SUBSET (T \cup {NULL}) /\ NULL \in R /\ f \in R
        BY <1>1, <1>4, <2>2
    <2>9. Spine(d, f, R)
        BY <2>5, <2>6, <2>7, <2>8 DEF Spine
    <2> QED BY <2>8, <2>9 DEF Foremost
<1>8. CASE s = "right"
    <2> PICK R : R = IF p \in S THEN S \cup {q} ELSE S
        OBVIOUS
    <2>1. \A m \in T \cup {NULL} : d[m]["left"] = IF m = q THEN p
                                   ELSE IF m = g /\ k = "left" THEN q ELSE c[m]["left"]
        BY <1>1, <1>2, <1>5, <1>8
    <2>2. q \notin S /\ f # q
        BY <1>1, <1>4, <1>5, <1>6, <1>8
    <2>3. d[f]["left"] = NULL
        BY <1>1, <1>4, <2>1, <2>2
    <2>4. ASSUME NEW n \in R, n # f PROVE d[n]["left"] \in R /\ d[n]["left"] # NULL
        <3>1. CASE n = q
            <4>1. p \in S
                BY <2>2, <2>4, <3>1
            <4> QED BY <1>1, <2>1, <3>1, <4>1
        <3>2. CASE n # q
            <4>1. n \in S /\ n \in T \cup {NULL} /\ c[n]["left"] \in S /\ c[n]["left"] # NULL
                BY <1>4, <2>4, <3>2
            <4>2. CASE n = g /\ k = "left"
                BY <1>1, <2>1, <3>2, <4>1, <4>2
            <4>3. CASE ~(n = g /\ k = "left")
                BY <2>1, <3>2, <4>1, <4>3
            <4> QED BY <4>2, <4>3
        <3> QED BY <3>1, <3>2
    <2>5. ASSUME NEW n \in R, n # NULL PROVE \E m \in R : d[m]["left"] = n
        <3>1. CASE n = q \/ n = p
            <4>1. p \in S
                BY <2>2, <2>5, <3>1
            <4>2. PICK j \in S : c[j]["left"] = p
                BY <1>1, <1>4, <4>1
            <4>3. j = g /\ k = "left"
                BY <1>5, <1>6, <4>2
            <4>4. q \in R /\ g \in R /\ d[q]["left"] = p /\ d[g]["left"] = q
                BY <1>1, <2>1, <4>1, <4>2, <4>3
            <4> QED BY <3>1, <4>4
        <3>2. CASE n # q /\ n # p
            <4>1. n \in S
                BY <2>5, <3>2
            <4>2. PICK m \in S : c[m]["left"] = n
                BY <1>4, <2>5, <4>1
            <4>3. m # q /\ ~(m = g /\ k = "left") /\ m \in T \cup {NULL} /\ m \in R
                BY <1>1, <2>2, <3>2, <4>2
            <4> QED BY <2>1, <4>2, <4>3
        <3> QED BY <3>1, <3>2
    <2>6. R \in SUBSET (T \cup {NULL}) /\ NULL \in R /\ f \in R
        BY <1>1, <1>4
    <2>7. Spine(d, f, R)
        BY <2>3, <2>4, <2>5, <2>6 DEF Spine
    <2> QED BY <2>6, <2>7 DEF Foremost
<1> QED BY <1>1, <1>7, <1>8 DEF Sides

\* A new leaf to the left of the first element is the first, another is not.
LEMMA LeafForemost ==
    ASSUME NEW T \in SUBSET Nodes, NEW c, NEW d, NEW p \in T \cup {NULL}, NEW s \in Sides,
           NEW n \in Nodes, Hung(T, c, d, p, s, n), NEW f, Foremost(T, c, f),
           NEW e, e = IF p = f /\ s = "left" THEN n ELSE f
    PROVE  Foremost(T \cup {n}, d, e)
<1>1. /\ c[p][s] = NULL /\ n \notin T /\ n # NULL /\ "left" \in Sides /\ NULL \notin T
      /\ d[n]["left"] = NULL
      /\ \A m \in T \cup {NULL} :
           d[m]["left"] = IF m = p /\ s = "left" THEN n ELSE c[m]["left"]
    BY NodeAssumption DEF Hung, Sides
<1>2. PICK S \in SUBSET (T \cup {NULL}) : Spine(c, f, S)
    BY DEF Foremost
<1>3. /\ NULL \in S /\ f \in S /\ c[f]["left"] = NULL /\ f \in T \cup {NULL}
      /\ \A m \in S : m # f => c[m]["left"] \in S /\ c[m]["left"] # NULL
      /\ \A m \in S : m # NULL => \E j \in S : c[j]["left"] = m
    BY <1>2 DEF Spine
<1>4. CASE p = f /\ s = "left"
    <2> PICK R : R = S \cup {n}
        OBVIOUS
    <2>1. \A m \in R : m # n => d[m]["left"] \in R /\ d[m]["left"] # NULL
        BY <1>1, <1>3, <1>4
    <2>2. ASSUME NEW m \in R, m # NULL PROVE \E j \in R : d[j]["left"] = m
        <3>1. CASE m = n
            BY <1>1, <1>3, <1>4, <3>1
        <3>2. CASE m # n
            <4>1. PICK j \in S : c[j]["left"] = m
                BY <1>3, <2>2, <3>2
            <4>2. j # f
                BY <1>3, <2>2, <4>1
            <4>3. d[j]["left"] = m
                BY <1>1, <1>4, <4>1, <4>2
            <4> QED BY <4>3
        <3> QED BY <3>1, <3>2
    <2>3. R \in SUBSET ((T \cup {n}) \cup {NULL}) /\ NULL \in R /\ e \in R /\ e = n
        BY <1>3, <1>4
    <2>4. Spine(d, e, R)
        BY <1>1, <2>1, <2>2, <2>3 DEF Spine
    <2> QED BY <2>3, <2>4 DEF Foremost
<1>5. CASE ~(p = f /\ s = "left")
    <2>1. \A m \in S : d[m]["left"] = c[m]["left"]
        BY <1>1, <1>3, <1>5
    <2>2. Spine(d, e, S)
        BY <1>3, <1>5, <2>1 DEF Spine
    <2> QED BY <2>2 DEF Foremost
<1> QED BY <1>4, <1>5

\* What becomes the first element when z, which has no child on one side, leaves.
FirstWithout(c, up, f, z) ==
    IF z # f THEN f ELSE IF c[z]["right"] = NULL THEN up[z] ELSE c[z]["right"]

LEMMA UnlinkForemost ==
    ASSUME NEW T \in SUBSET Nodes, NEW c, NEW up, Linked(T, c, up),
           NEW z \in T, NEW s \in Sides, NEW k \in Sides, NEW d, Unlinked(T, c, up, d, z, s, k),
           NEW f, Foremost(T, c, f), NEW e, e = FirstWithout(c, up, f, z),
           z = f /\ c[z]["right"] # NULL => c[c[z]["right"]]["left"] = NULL
    PROVE  Foremost(T \ {z}, d, e)
<1> PICK g : g = up[z]
    OBVIOUS
<1> PICK b : b = c[z][s]
    OBVIOUS
<1>1. /\ c[z][Other(s)] = NULL /\ c[g][k] = z /\ g \in T \cup {NULL} /\ g # z /\ z # NULL
      /\ NULL \notin T /\ "left" \in Sides /\ "right" \in Sides
      /\ Other("left") = "right" /\ Other("right") = "left" /\ s \in {"left", "right"}
      /\ b \in T \cup {NULL} /\ b # z
    <2>1. up[z] \in T \cup {NULL} /\ up[z] # z
        BY DEF Linked
    <2>2. b # NULL => b \in T /\ up[b] = z
        BY DEF Linked
    <2>3. b # z
        BY <2>1, <2>2, NodeAssumption
    <2> QED BY <2>1, <2>2, <2>3, NodeAssumption DEF Unlinked, Sides, Other
<1>2. \A m \in (T \ {z}) \cup {NULL} : d[m]["left"] = IF m = g /\ k = "left" THEN b ELSE c[m]["left"]
    BY <1>1 DEF Unlinked
<1>3. PICK S \in SUBSET (T \cup {NULL}) : Spine(c, f, S)
    BY DEF Foremost
<1>4. /\ NULL \in S /\ f \in S /\ c[f]["left"] = NULL /\ f \in T \cup {NULL}
      /\ \A m \in S : m # f => c[m]["left"] \in S /\ c[m]["left"] # NULL
      /\ \A m \in S : m # NULL => \E j \in S : c[j]["left"] = m
    BY <1>3 DEF Spine
\* Only g has z below it.
<1>5. \A m \in T \cup {NULL} : c[m]["left"] = z => m = g /\ k = "left"
    <2>1. Once(T, c)
        BY OneSide
    <2> QED BY <1>1, <2>1 DEF Once
<1>6. z \in S => k = "left" /\ g \in S
    <2>1. z \in S => \E j \in S : c[j]["left"] = z
        BY <1>1, <1>4
    <2> QED BY <1>5, <2>1
<1>7. CASE z \notin S
    <2>1. \A m \in S : d[m]["left"] = c[m]["left"]
        BY <1>1, <1>2, <1>4, <1>7
    <2>2. e = f /\ S \in SUBSET ((T \ {z}) \cup {NULL})
        BY <1>4, <1>7 DEF FirstWithout
    <2>3. Spine(d, e, S)
        BY <1>4, <2>1, <2>2 DEF Spine
    <2> QED BY <2>2, <2>3 DEF Foremost
<1>8. CASE z \in S /\ z # f
    <2> PICK R : R = S \ {z}
        OBVIOUS
    <2>1. b = c[z]["left"] /\ b \in R /\ b # NULL /\ g \in R /\ k = "left"
        BY <1>1, <1>4, <1>6, <1>8
    <2>2. \A m \in R : m # f => d[m]["left"] \in R /\ d[m]["left"] # NULL
        BY <1>2, <1>4, <1>5, <2>1
    <2>3. d[f]["left"] = NULL
        BY <1>1, <1>2, <1>4, <1>8
    <2>4. ASSUME NEW m \in R, m # NULL PROVE \E j \in R : d[j]["left"] = m
        <3>1. CASE m = b
            BY <1>2, <2>1, <3>1
        <3>2. CASE m # b
            <4>1. PICK j \in S : c[j]["left"] = m
                BY <1>4, <2>4
            <4>2. j # z /\ j # g
                BY <1>1, <2>1, <2>4, <3>2, <4>1
            <4> QED BY <1>2, <4>1, <4>2
        <3> QED BY <3>1, <3>2
    <2>5. e = f /\ f \in R /\ NULL \in R /\ R \in SUBSET ((T \ {z}) \cup {NULL})
        BY <1>1, <1>4, <1>8 DEF FirstWithout
    <2>6. Spine(d, e, R)
        BY <2>2, <2>3, <2>4, <2>5 DEF Spine
    <2> QED BY <2>5, <2>6 DEF Foremost
<1>9. CASE z \in S /\ z = f
    <2>1. k = "left" /\ g \in S /\ g # z /\ b = c[z]["right"]
        BY <1>1, <1>4, <1>6, <1>9
    <2>2. \A m \in S : m # z /\ m # g => /\ d[m]["left"] = c[m]["left"] /\ c[m]["left"] \in S \ {z}
                                        /\ c[m]["left"] # NULL
        BY <1>2, <1>4, <1>5, <1>9
    <2>3. \A m \in S : m # z /\ m # NULL => \E j \in S \ {z} : j # g /\ d[j]["left"] = m
        <3> SUFFICES ASSUME NEW m \in S, m # z, m # NULL
                     PROVE  \E j \in S \ {z} : j # g /\ d[j]["left"] = m
            OBVIOUS
        <3>1. PICK j \in S : c[j]["left"] = m
            BY <1>4
        <3>2. j # z /\ j # g
            BY <1>1, <1>4, <1>9, <2>1, <3>1
        <3> QED BY <1>2, <3>1, <3>2
    <2>4. CASE b = NULL
        <3> PICK R : R = S \ {z}
            OBVIOUS
        <3>1. e = g /\ g \in R /\ NULL \in R /\ R \in SUBSET ((T \ {z}) \cup {NULL})
            BY <1>1, <1>4, <1>9, <2>1, <2>4 DEF FirstWithout
        <3>2. d[g]["left"] = NULL
            BY <1>2, <2>1, <2>4
        <3>3. \A m \in R : m # g => d[m]["left"] \in R /\ d[m]["left"] # NULL
            BY <2>2
        <3>4. \A m \in R : m # NULL => \E j \in R : d[j]["left"] = m
            BY <2>3
        <3>5. Spine(d, e, R)
            BY <3>1, <3>2, <3>3, <3>4 DEF Spine
        <3> QED BY <3>1, <3>5 DEF Foremost
    <2>5. CASE b # NULL
        <3> PICK R : R = (S \ {z}) \cup {b}
            OBVIOUS
        <3>1. e = b /\ b \in R /\ NULL \in R /\ R \in SUBSET ((T \ {z}) \cup {NULL}) /\ g \in R
            BY <1>1, <1>4, <1>9, <2>1, <2>5 DEF FirstWithout
        <3>2. d[b]["left"] = NULL
            <4>1. c[b]["left"] = NULL
                BY <1>9, <2>1, <2>5
            <4>2. b # g
                <5>1. up[b] = z /\ up[z] = g
                    BY <1>1, <2>5 DEF Linked
                <5> QED BY <1>1, <2>1, <4>1
            <4> QED BY <1>1, <1>2, <4>1, <4>2
        <3>3. \A m \in R : m # b => d[m]["left"] \in R /\ d[m]["left"] # NULL
            BY <1>2, <2>1, <2>2, <2>5, <3>1
        <3>4. \A m \in R : m # NULL => \E j \in R : d[j]["left"] = m
            BY <1>2, <2>1, <2>3, <3>1
        <3>5. Spine(d, e, R)
            BY <3>1, <3>2, <3>3, <3>4 DEF Spine
        <3> QED BY <3>1, <3>5 DEF Foremost
    <2> QED BY <2>4, <2>5
<1> QED BY <1>7, <1>8, <1>9

\* What takes the place of the first element is the first.
LEMMA SubstituteForemost ==
    ASSUME NEW T \in SUBSET Nodes, NEW c, NEW up, Linked(T, c, up),
           NEW v \in T, NEW n \in Nodes, n \notin T, NEW k \in Sides, NEW d,
           Substituted(T, c, up, d, v, n, k), NEW f, Foremost(T, c, f),
           NEW e, e = IF f = v THEN n ELSE f
    PROVE  Foremost((T \ {v}) \cup {n}, d, e)
<1> PICK g : g = up[v]
    OBVIOUS
<1>1. /\ c[g][k] = v /\ g \in T \cup {NULL} /\ g # v /\ v # NULL /\ n # NULL /\ g # n
      /\ NULL \notin T /\ "left" \in Sides
    BY NodeAssumption DEF Linked, Substituted, Sides
<1>2. \A m \in (T \ {v}) \cup {n, NULL} :
        d[m]["left"] = IF m = n THEN c[v]["left"] ELSE IF m = g /\ k = "left" THEN n
                       ELSE c[m]["left"]
    BY <1>1 DEF Substituted
<1>3. PICK S \in SUBSET (T \cup {NULL}) : Spine(c, f, S)
    BY DEF Foremost
<1>4. /\ NULL \in S /\ f \in S /\ c[f]["left"] = NULL /\ f \in T \cup {NULL}
      /\ \A m \in S : m # f => c[m]["left"] \in S /\ c[m]["left"] # NULL
      /\ \A m \in S : m # NULL => \E j \in S : c[j]["left"] = m
    BY <1>3 DEF Spine
<1>5. \A m \in T \cup {NULL} : c[m]["left"] = v => m = g /\ k = "left"
    <2>1. Once(T, c)
        BY OneSide
    <2> QED BY <1>1, <2>1 DEF Once
<1>6. v \in S => k = "left" /\ g \in S
    <2>1. v \in S => \E j \in S : c[j]["left"] = v
        BY <1>1, <1>4
    <2> QED BY <1>5, <2>1
<1>7. CASE v \notin S
    <2>1. \A m \in S : d[m]["left"] = c[m]["left"]
        BY <1>1, <1>2, <1>4, <1>7
    <2>2. e = f /\ S \in SUBSET ((T \ {v}) \cup {n} \cup {NULL})
        BY <1>4, <1>7
    <2>3. Spine(d, e, S)
        BY <1>4, <2>1, <2>2 DEF Spine
    <2> QED BY <2>2, <2>3 DEF Foremost
<1>8. CASE v \in S
    <2> PICK R : R = (S \ {v}) \cup {n}
        OBVIOUS
    <2>1. e \in R /\ NULL \in R /\ R \in SUBSET ((T \ {v}) \cup {n} \cup {NULL}) /\ g \in R
          /\ n \notin S /\ k = "left"
        BY <1>1, <1>4, <1>6, <1>8
    <2>2. d[e]["left"] = NULL
        BY <1>1, <1>2, <1>4, <2>1
    <2>3. ASSUME NEW m \in R, m # e PROVE d[m]["left"] \in R /\ d[m]["left"] # NULL
        <3>1. CASE m = n
            <4>1. v # f /\ d[m]["left"] = c[v]["left"]
                BY <1>2, <2>3, <3>1
            <4>2. c[v]["left"] \in S /\ c[v]["left"] # NULL /\ c[v]["left"] # v
                BY <1>1, <1>4, <1>5, <1>8, <4>1
            <4> QED BY <4>1, <4>2
        <3>2. CASE m # n
            <4>1. m \in S /\ m # v /\ m # f
                BY <2>3, <3>2
            <4>2. c[m]["left"] \in S /\ c[m]["left"] # NULL
                BY <1>4, <4>1
            <4> QED BY <1>1, <1>2, <1>5, <2>1, <3>2, <4>1, <4>2
        <3> QED BY <3>1, <3>2
    <2>4. ASSUME NEW m \in R, m # NULL PROVE \E j \in R : d[j]["left"] = m
        <3>1. CASE m = n
            BY <1>1, <1>2, <2>1, <3>1
        <3>2. CASE m # n
            <4>1. m \in S /\ m # v
                BY <2>4, <3>2
            <4>2. PICK j \in S : c[j]["left"] = m
                BY <1>4, <2>4, <4>1
            <4>3. CASE j = v
                BY <1>2, <4>2, <4>3
            <4>4. CASE j # v
                BY <1>1, <1>2, <2>1, <4>1, <4>2, <4>4
            <4> QED BY <4>3, <4>4
        <3> QED BY <3>1, <3>2
    <2>5. Spine(d, e, R)
        BY <2>1, <2>2, <2>3, <2>4 DEF Spine
    <2> QED BY <2>1, <2>5 DEF Foremost
<1> QED BY <1>7, <1>8

-----------------------------------------------------------------------------
(* Augmented values.                                                       *)

Values == [Nodes -> SUBSET Nodes]

\* Every value of the elements in T is that of its subtree.
Exact(T, c, a) == \A n \in T : a[n] = Compute(c, a, n)

LEMMA ComputeSame ==
    ASSUME NEW c, NEW d, NEW a, NEW b, NEW n,
           \A s \in Sides : d[n][s] = c[n][s] /\ (c[n][s] # NULL => b[c[n][s]] = a[c[n][s]])
    PROVE  Compute(d, b, n) = Compute(c, a, n)
BY DEF Compute, Below, Sides

LEMMA ComputeTyped ==
    ASSUME NEW c, NEW a \in Values, NEW n \in Nodes, \A s \in Sides : c[n][s] \in Links
    PROVE  Compute(c, a, n) \in SUBSET Nodes
<1>1. \A m \in Links : Below(a, m) \in SUBSET Nodes
    BY DEF Below, Values, Links
<1>2. c[n]["left"] \in Links /\ c[n]["right"] \in Links
    BY DEF Sides
<1> QED BY <1>1, <1>2 DEF Compute

\* What the rotation's callback leaves the values.
RotatedValues(d, a, b, p, q) ==
    \A m \in Nodes : b[m] = IF m = q THEN a[p] ELSE IF m = p THEN Compute(d, a, p) ELSE a[m]

LEMMA AugRotateIs ==
    ASSUME NEW a \in Values, NEW p \in Nodes, NEW q \in Nodes, p # q, NEW mem, NEW d,
           \A e \in Sides : mem[p][e] = d[p][e] /\ d[p][e] \in Links /\ d[p][e] # q
    PROVE  /\ RotatedValues(d, a, AugRotate(mem, a, p, q), p, q)
           /\ AugRotate(mem, a, p, q) \in Values
<1> PICK lifted : lifted = [a EXCEPT ![q] = a[p]]
    OBVIOUS
<1>1. lifted \in Values /\ \A m \in Nodes : lifted[m] = IF m = q THEN a[p] ELSE a[m]
    BY DEF Values
<1>2. Compute(mem, lifted, p) = Compute(d, a, p)
    <2>1. \A s \in Sides : mem[p][s] = d[p][s] /\ (d[p][s] # NULL => lifted[d[p][s]] = a[d[p][s]])
        BY <1>1 DEF Links
    <2> QED BY <2>1 DEF Compute, Below, Sides
<1>3. Compute(d, a, p) \in SUBSET Nodes
    BY ComputeTyped
<1>4. AugRotate(mem, a, p, q) = [lifted EXCEPT ![p] = Compute(d, a, p)]
    BY <1>2 DEF AugRotate
<1> HIDE DEF RotatedValues
<1>5. AugRotate(mem, a, p, q) \in Values
    BY <1>1, <1>3, <1>4 DEF Values
<1>6. RotatedValues(d, a, AugRotate(mem, a, p, q), p, q)
    BY <1>1, <1>4 DEF RotatedValues, Values
<1> QED BY <1>5, <1>6

\* A rotation's callback makes the values right again.
LEMMA RotationExact ==
    ASSUME NEW T \in SUBSET Nodes, NEW c, NEW up, NEW d, NEW p, NEW s, NEW k,
           Around(T, c, up, p, s, k), Rotated(T, c, d, p, s, up[p], k),
           NEW a \in Values, Exact(T, c, a),
           NEW b, RotatedValues(d, a, b, p, c[p][s])
    PROVE  Exact(T, d, b)
<1> PICK o : o = Other(s)
    OBVIOUS
<1> PICK q : q = c[p][s]
    OBVIOUS
<1> PICK l : l = c[q][o]
    OBVIOUS
<1> PICK g : g = up[p]
    OBVIOUS
<1>1. /\ p \in T /\ q \in T /\ p # q /\ g \in T \cup {NULL} /\ g # p /\ q # g /\ NULL \notin T
      /\ s \in Sides /\ o \in Sides /\ o # s /\ k \in Sides /\ c[g][k] = p /\ c[p][s] = q
      /\ l \in T \cup {NULL} /\ l # p /\ l # q /\ c[p][o] # q
    <2>1. p \in T /\ s \in Sides /\ k \in Sides /\ q \in T /\ c[g][k] = p /\ q # g /\ Linked(T, c, up)
        BY DEF Around
    <2>2. NULL \notin T /\ o \in Sides /\ o # s
        BY <2>1, SidesAre, NodeAssumption
    <2>3. up[p] \in T \cup {NULL} /\ up[p] # p /\ up[q] = p /\ up[q] # q
        BY <2>1, <2>2 DEF Linked
    <2>4. l # NULL => l \in T /\ up[l] = q /\ up[l] # l
        BY <2>1, <2>2 DEF Linked
    <2>5. Once(T, c)
        BY <2>1, OneSide
    <2>6. c[p][o] # q
        BY <2>1, <2>2, <2>5 DEF Once
    <2> QED BY <2>1, <2>2, <2>3, <2>4, <2>6
<1>2. \A m \in T \cup {NULL}, e \in Sides :
        d[m][e] = IF m = p /\ e = s THEN l ELSE IF m = q /\ e = o THEN p
                  ELSE IF m = g /\ e = k THEN q ELSE c[m][e]
    BY DEF Rotated
<1>3. \A m \in T \cup {NULL}, e \in Sides : /\ c[m][e] = p => m = g /\ e = k
                                            /\ c[m][e] = q => m = p /\ e = s
    <2>1. Once(T, c)
        BY OneSide DEF Around
    <2>2. p \in T \cup {NULL} /\ q # NULL /\ p # NULL
        BY <1>1
    <2> QED BY <1>1, <2>1, <2>2 DEF Once
<1>4. b[q] = a[p] /\ b[p] = Compute(d, a, p) /\ \A m \in T : m # p /\ m # q => b[m] = a[m]
    <2>1. RotatedValues(d, a, b, p, q)
        OBVIOUS
    <2> QED BY <1>1, <2>1 DEF RotatedValues
<1>5. \A m \in T \cup {NULL} : m # p /\ m # q => Below(b, m) = Below(a, m)
    BY <1>4 DEF Below
<1>6. \A m \in T, e \in Sides : c[m][e] \in T \cup {NULL}
    BY DEF Around, Linked
<1> PICK far : far = c[q][s]
    OBVIOUS
<1> PICK near : near = c[p][o]
    OBVIOUS
<1>7. /\ far \in T \cup {NULL} /\ near \in T \cup {NULL} /\ far # p /\ far # q /\ near # p /\ near # q
    <2>1. far \in T \cup {NULL} /\ near \in T \cup {NULL}
        BY <1>1, <1>6
    <2>2. near # q /\ far # p
        BY <1>1, <1>3
    <2>3. far # q /\ near # p
        BY <1>1, <1>3
    <2> QED BY <2>1, <2>2, <2>3
<1>8. /\ a[p] = {p} \cup Below(a, q) \cup Below(a, near)
      /\ a[q] = {q} \cup Below(a, far) \cup Below(a, l)
      /\ Below(a, q) = a[q]
    <2>1. Below(a, q) = a[q]
        BY <1>1 DEF Below
    <2>2. a[p] = Compute(c, a, p) /\ a[q] = Compute(c, a, q)
        BY <1>1 DEF Exact
    <2>3. Compute(c, a, p) = {p} \cup Below(a, q) \cup Below(a, near)
        BY <1>1 DEF Compute, Sides, Other
    <2>4. Compute(c, a, q) = {q} \cup Below(a, far) \cup Below(a, l)
        BY <1>1 DEF Compute, Sides, Other
    <2> QED BY <2>1, <2>2, <2>3, <2>4
<1>9. /\ d[p][s] = l /\ d[p][o] = near /\ d[q][o] = p /\ d[q][s] = far
    BY <1>1, <1>2
<1>10. Compute(d, b, p) = Compute(d, a, p) /\ b[p] = {p} \cup Below(a, l) \cup Below(a, near)
    <2>1. /\ Compute(d, b, p) = {p} \cup Below(b, l) \cup Below(b, near)
          /\ Compute(d, a, p) = {p} \cup Below(a, l) \cup Below(a, near)
        BY <1>1, <1>9 DEF Compute, Sides, Other
    <2>2. Below(b, l) = Below(a, l) /\ Below(b, near) = Below(a, near)
        BY <1>1, <1>5, <1>7
    <2> QED BY <1>4, <2>1, <2>2
<1>11. b[q] = Compute(d, b, q)
    <2>1. Compute(d, b, q) = {q} \cup Below(b, far) \cup Below(b, p)
        BY <1>1, <1>9 DEF Compute, Sides, Other
    <2>2. Below(b, far) = Below(a, far) /\ Below(b, p) = b[p]
        BY <1>1, <1>5, <1>7 DEF Below
    <2>3. b[q] = {p} \cup ({q} \cup Below(a, far) \cup Below(a, l)) \cup Below(a, near)
        BY <1>4, <1>8
    <2>4. Compute(d, b, q) = {q} \cup Below(a, far) \cup ({p} \cup Below(a, l) \cup Below(a, near))
        BY <1>10, <2>1, <2>2
    <2> HIDE <1>4
    <2> QED BY <2>3, <2>4
<1>12. ASSUME NEW m \in T, m # p, m # q PROVE b[m] = Compute(d, b, m)
    <2>1. b[m] = a[m] /\ a[m] = Compute(c, a, m)
        BY <1>4, <1>12 DEF Exact
    <2>2. \A e \in Sides : Below(b, d[m][e]) = Below(a, c[m][e])
        <3> SUFFICES ASSUME NEW e \in Sides PROVE Below(b, d[m][e]) = Below(a, c[m][e])
            OBVIOUS
        <3>1. CASE m = g /\ e = k
            <4>1. d[m][e] = q /\ c[m][e] = p
                BY <1>1, <1>2, <1>12, <3>1
            <4>2. Below(b, q) = a[p] /\ Below(a, p) = a[p]
                BY <1>1, <1>4 DEF Below
            <4> QED BY <4>1, <4>2
        <3>2. CASE ~(m = g /\ e = k)
            <4>1. d[m][e] = c[m][e]
                BY <1>2, <1>12, <3>2
            <4>2. c[m][e] \in T \cup {NULL} /\ c[m][e] # p /\ c[m][e] # q
                BY <1>3, <1>6, <1>12, <3>2
            <4> QED BY <1>5, <4>1, <4>2
        <3> QED BY <3>1, <3>2
    <2>3. Compute(d, b, m) = Compute(c, a, m)
        BY <2>2 DEF Compute, Sides
    <2> QED BY <2>1, <2>3
<1> QED BY <1>4, <1>10, <1>11, <1>12 DEF Exact

Children == [Nodes -> [Sides -> Links]]

\* A turn of AugPropagate's loop.
Climb(mem, words, stop, s) ==
    IF s.at = stop \/ s.at = NULL THEN s
    ELSE IF s.values[s.at] = Compute(mem, s.values, s.at) THEN [s EXCEPT !.at = stop]
    ELSE [values |-> [s.values EXCEPT ![s.at] = Compute(mem, s.values, s.at)],
          at |-> words[s.at].up]
\* The loop, as an equation.
Climbed(f, mem, words, a, n, stop) ==
    [k \in 0 .. Cardinality(Nodes) |->
       IF k = 0 THEN [values |-> a, at |-> n]
       ELSE LET s == f[k - 1]
            IN  IF s.at = stop \/ s.at = NULL THEN s
                ELSE IF s.values[s.at] = Compute(mem, s.values, s.at) THEN [s EXCEPT !.at = stop]
                ELSE [values |-> [s.values EXCEPT ![s.at] = Compute(mem, s.values, s.at)],
                      at |-> words[s.at].up]]

Climbs(T) == [values : Values, at : T \cup {NULL}]

\* The values are right but at the element the climb has come to and the one it is to
\* stop at; at its parent they may be wrong if the climb is sure to go on to it.
Climbing(T, d, vp, stop, s) ==
    \A m \in T : m # s.at /\ m # stop =>
      \/ s.values[m] = Compute(d, s.values, m)
      \/ /\ s.at # NULL /\ s.at # stop /\ m = vp[s.at]
         /\ s.values[s.at] # Compute(d, s.values, s.at)

Ways(T, mem, words) == mem \in Children /\ \A m \in T : words[m].up \in T \cup {NULL}
\* What it relies on: memory is d, parents are vp from rank b on.
Ladder(T, d, vp, rank, b, mem, words) ==
    /\ Ways(T, mem, words)
    /\ \A m \in T, s \in Sides : mem[m][s] = d[m][s]
    /\ \A m \in T : rank[m] >= b => words[m].up = vp[m]

SameOff(T, a, b) == \A m \in Nodes \ T : b[m] = a[m]

LEMMA ClimbIs ==
    ASSUME NEW T \in SUBSET Nodes, NEW mem, NEW words, Ways(T, mem, words), NEW stop \in T \cup {NULL},
           NEW s \in Climbs(T), NEW z, z = Climb(mem, words, stop, s)
    PROVE  z \in Climbs(T) /\ SameOff(T, s.values, z.values)
<1>0. /\ s.values \in Values /\ s.at \in T \cup {NULL} /\ NULL \notin Nodes
      /\ mem \in Children /\ \A m \in T : words[m].up \in T \cup {NULL}
    BY NodeAssumption DEF Climbs, Ways
<1>1. CASE s.at = stop \/ s.at = NULL
    BY <1>1 DEF Climb, SameOff
<1>2. CASE ~(s.at = stop \/ s.at = NULL)
    <2> PICK i : i = Compute(mem, s.values, s.at)
        OBVIOUS
    <2>1. s.at \in Nodes /\ s.at \in T
        BY <1>0, <1>2
    <2>2. i \in SUBSET Nodes
        <3>1. \A e \in Sides : mem[s.at][e] \in Links
            BY <1>0, <2>1 DEF Children
        <3> QED BY <1>0, <2>1, <3>1, ComputeTyped
    <2>3. CASE s.values[s.at] = i
        <3>1. z = [s EXCEPT !.at = stop]
            BY <1>2, <2>3 DEF Climb
        <3> QED BY <3>1 DEF Climbs, SameOff
    <2>4. CASE s.values[s.at] # i
        <3> PICK v : v = [s.values EXCEPT ![s.at] = i]
            OBVIOUS
        <3>1. v \in Values /\ \A m \in Nodes : m # s.at => v[m] = s.values[m]
            BY <1>0, <2>1, <2>2 DEF Values
        <3>2. z = [values |-> v, at |-> words[s.at].up]
            BY <1>2, <2>4 DEF Climb
        <3> QED BY <1>0, <2>1, <3>1, <3>2 DEF Climbs, SameOff
    <2> QED BY <2>3, <2>4
<1> QED BY <1>1, <1>2

\* One turn keeps the loop's invariant, and ends the climb or goes higher.
LEMMA ClimbKeeps ==
    ASSUME NEW T \in SUBSET Nodes, NEW d, NEW vp, Linked(T, d, vp),
           NEW rank, Ranked(T, d, rank), NEW b \in Nat, NEW mem, NEW words,
           Ladder(T, d, vp, rank, b, mem, words), NEW stop \in T \cup {NULL},
           NEW s \in Climbs(T), Climbing(T, d, vp, stop, s), s.at # stop, s.at # NULL,
           rank[s.at] >= b, NEW z, z = Climb(mem, words, stop, s)
    PROVE  /\ Climbing(T, d, vp, stop, z)
           /\ z.at = stop \/ z.at = NULL
              \/ (z.at \in T /\ rank[z.at] > rank[s.at] /\ rank[z.at] >= b)
<1> PICK x : x = s.at
    OBVIOUS
<1> PICK v : v = s.values
    OBVIOUS
<1>1. /\ x \in T /\ x \in Nodes /\ v \in Values /\ x # stop /\ x # NULL /\ rank[x] >= b
      /\ rank[x] \in Nat /\ NULL \notin T /\ stop \in T \cup {NULL}
    <2>1. x \in T /\ v \in Values
        BY DEF Climbs
    <2>2. rank[x] \in Nat
        BY <2>1 DEF Ranked, Links
    <2> QED BY <2>1, <2>2, NodeAssumption
<1>2. Compute(mem, v, x) = Compute(d, v, x)
    BY <1>1 DEF Ladder, Compute, Sides
<1>3. /\ z = IF v[x] = Compute(d, v, x) THEN [s EXCEPT !.at = stop]
             ELSE [values |-> [v EXCEPT ![x] = Compute(d, v, x)], at |-> words[x].up]
    BY <1>1, <1>2 DEF Climb
<1>4. words[x].up = vp[x] /\ vp[x] \in T \cup {NULL} /\ vp[x] # x
    BY <1>1 DEF Ladder, Linked
<1>5. CASE v[x] = Compute(d, v, x)
    <2>1. z.at = stop /\ z.values = v
        BY <1>3, <1>5 DEF Climbs
    <2>2. \A m \in T : m # x /\ m # stop => v[m] = Compute(d, v, m)
        BY <1>5 DEF Climbing
    <2>3. Climbing(T, d, vp, stop, z)
        BY <1>5, <2>1, <2>2 DEF Climbing
    <2> QED BY <2>1, <2>3
<1>6. CASE v[x] # Compute(d, v, x)
    <2> PICK i : i = Compute(d, v, x)
        OBVIOUS
    <2> PICK u : u = [v EXCEPT ![x] = i]
        OBVIOUS
    <2>1. z.at = vp[x] /\ z.values = u
        BY <1>3, <1>4, <1>6
    <2>2. \A m \in Nodes : u[m] = IF m = x THEN i ELSE v[m]
        BY <1>1 DEF Values
    <2>3. \A m \in T, e \in Sides : d[m][e] \in T \cup {NULL} /\ (d[m][e] = x => m = vp[x])
        BY <1>1 DEF Linked
    <2>4. \A m \in T : m # vp[x] => Compute(d, u, m) = Compute(d, v, m)
        <3> SUFFICES ASSUME NEW m \in T, m # vp[x] PROVE Compute(d, u, m) = Compute(d, v, m)
            OBVIOUS
        <3>1. \A e \in Sides : Below(u, d[m][e]) = Below(v, d[m][e])
            BY <2>2, <2>3 DEF Below
        <3> QED BY <3>1 DEF Compute, Sides
    <2>5. u[x] = Compute(d, u, x)
        BY <1>1, <1>4, <2>2, <2>4
    <2>6. \A m \in T : m # x /\ m # stop /\ m # vp[x] => u[m] = Compute(d, u, m)
        <3> SUFFICES ASSUME NEW m \in T, m # x, m # stop, m # vp[x] PROVE u[m] = Compute(d, u, m)
            OBVIOUS
        <3>1. v[m] = Compute(d, v, m)
            BY DEF Climbing
        <3> QED BY <2>2, <2>4, <3>1
    <2>7. Climbing(T, d, vp, stop, z)
        BY <2>1, <2>5, <2>6 DEF Climbing
    <2>8. vp[x] # NULL => rank[vp[x]] > rank[x] /\ rank[vp[x]] >= b
        <3> SUFFICES ASSUME vp[x] # NULL PROVE rank[vp[x]] > rank[x] /\ rank[vp[x]] >= b
            OBVIOUS
        <3>1. vp[x] \in T /\ \E e \in Sides : d[vp[x]][e] = x
            BY <1>1, <1>4 DEF Linked
        <3>2. rank[x] < rank[vp[x]] /\ rank[vp[x]] \in Nat
            BY <1>1, <3>1 DEF Ranked, Links
        <3> QED BY <1>1, <3>2
    <2> QED BY <1>4, <2>1, <2>7, <2>8
<1> QED BY <1>5, <1>6

LEMMA ClimbedExists ==
    ASSUME NEW T \in SUBSET Nodes, NEW mem, NEW words, Ways(T, mem, words), NEW stop \in T \cup {NULL},
           NEW a \in Values, NEW n \in T \cup {NULL}
    PROVE  \E f : f = Climbed(f, mem, words, a, n, stop)
<1> PICK N : N = Cardinality(Nodes)
    OBVIOUS
<1> PICK X : X = Climbs(T)
    OBVIOUS
<1> PICK i : i = [values |-> a, at |-> n]
    OBVIOUS
<1> DEFINE next == [s \in X |-> Climb(mem, words, stop, s)]
<1>1. N \in Nat /\ next \in [X -> X] /\ i \in X
    <2>1. \A s \in X : Climb(mem, words, stop, s) \in X
        BY ClimbIs
    <2>2. i \in X
        BY DEF Climbs
    <2> QED BY <2>1, <2>2, NodeAssumption, FS_CardinalityType
<1>2. \A s \in X : next[s] = Climb(mem, words, stop, s)
    OBVIOUS
<1> HIDE DEF next
<1>3. \A Y : \A e \in Y : \A g \in [Y -> Y] :
        \E f : /\ f \in [0 .. N -> Y]
               /\ f = [k \in 0 .. N |-> IF k = 0 THEN e ELSE g[f[k - 1]]]
    BY <1>1, LoopExists, Zenon
<1>a. i \in X /\ next \in [X -> X]
    BY <1>1
<1>b. \E f : /\ f \in [0 .. N -> X]
             /\ f = [k \in 0 .. N |-> IF k = 0 THEN i ELSE next[f[k - 1]]]
    <2> HIDE <1>1
    <2> QED BY <1>a, <1>3
<1>4. PICK f : /\ f \in [0 .. N -> X]
               /\ f = [k \in 0 .. N |-> IF k = 0 THEN i ELSE next[f[k - 1]]]
    BY <1>b
<1>5. ASSUME NEW k \in 0 .. N
      PROVE  (IF k = 0 THEN i ELSE next[f[k - 1]]) =
             (IF k = 0 THEN i ELSE Climb(mem, words, stop, f[k - 1]))
    <2>1. CASE k = 0
        BY <2>1
    <2>2. CASE k # 0
        <3>a. k - 1 \in 0 .. N
            BY <1>1, <2>2
        <3>b. f \in [0 .. N -> X]
            BY <1>4
        <3>1. f[k - 1] \in X
            BY <3>a, <3>b
        <3> QED BY <1>2, <2>2, <3>1
    <2> QED BY <2>1, <2>2
<1>6. f = [k \in 0 .. N |-> IF k = 0 THEN i ELSE Climb(mem, words, stop, f[k - 1])]
    BY <1>4, <1>5, Zenon
<1>7. f = Climbed(f, mem, words, a, n, stop)
    BY <1>6, Zenon DEF Climbed, Climb
<1> QED BY <1>7

ExactBut(T, d, a, l) == \A m \in T : m # l => a[m] = Compute(d, a, m)

\* The climb ends with every value right but, it may be, that at stop.
LEMMA PropagateIs ==
    ASSUME NEW T \in SUBSET Nodes, NEW d, NEW vp, Linked(T, d, vp),
           NEW rank, Ranked(T, d, rank), NEW b \in Nat, NEW mem, NEW words,
           Ladder(T, d, vp, rank, b, mem, words), NEW stop \in T \cup {NULL},
           NEW a \in Values, NEW n \in T \cup {NULL}, n # NULL => rank[n] >= b,
           NEW i, i = [values |-> a, at |-> n], Climbing(T, d, vp, stop, i),
           NEW r, r = AugPropagate(mem, words, a, n, stop)
    PROVE  r \in Values /\ SameOff(T, a, r) /\ ExactBut(T, d, r, stop)
<1> PICK N : N = Cardinality(Nodes)
    OBVIOUS
<1>0. N \in Nat /\ NULL \notin T
    BY NodeAssumption, FS_CardinalityType
<1>1. /\ rank \in [Links -> Nat] /\ \A m \in T : rank[m] \in Nat
    BY DEF Ranked, Links
<1>2. Ways(T, mem, words)
    BY DEF Ladder
<1> DEFINE f == CHOOSE f : f = Climbed(f, mem, words, a, n, stop)
<1>3. r = f[N].values
    BY DEF AugPropagate, Climbed
<1>4. f = Climbed(f, mem, words, a, n, stop)
    BY <1>2, ClimbedExists
<1> HIDE DEF f
<1>5. \A k \in 0 .. N : f[k] = IF k = 0 THEN i ELSE Climb(mem, words, stop, f[k - 1])
    BY <1>4, Zenon DEF Climbed, Climb
<1>6. f[0] = i /\ \A k \in 0 .. (N - 1) : f[k + 1] = Climb(mem, words, stop, f[k])
    BY <1>0, <1>5
<1> DEFINE Over(s) == s.at = stop \/ s.at = NULL
           Fair(s) == /\ s \in Climbs(T) /\ Climbing(T, d, vp, stop, s)
                      /\ \A m \in Nodes \ T : s.values[m] = a[m]
                      /\ Over(s) \/ rank[s.at] >= b
           S == {k \in 0 .. N : Fair(f[k])}
<1>7. 0 \in S
    <2>1. i \in Climbs(T) /\ i.at = n /\ i.values = a
        BY DEF Climbs
    <2>2. Fair(i)
        BY <2>1
    <2> HIDE DEF Fair
    <2> QED BY <1>0, <1>6, <2>2
<1>8. ASSUME NEW s, Fair(s), NEW z, z = Climb(mem, words, stop, s)
      PROVE  /\ Fair(z)
             /\ ~Over(z) => ~Over(s) /\ s.at \in T /\ z.at \in T /\ rank[z.at] > rank[s.at]
    <2>1. CASE Over(s)
        <3>1. z = s
            BY <1>8, <2>1 DEF Climb
        <3> HIDE DEF Fair, Over
        <3> QED BY <1>8, <2>1, <3>1
    <2>2. CASE ~Over(s)
        <3>1. s \in Climbs(T) /\ Climbing(T, d, vp, stop, s) /\ s.at # stop /\ s.at # NULL
              /\ rank[s.at] >= b /\ \A m \in Nodes \ T : s.values[m] = a[m]
            BY <1>8, <2>2
        <3>2. s.at \in T
            BY <3>1 DEF Climbs
        <3>3. /\ Climbing(T, d, vp, stop, z)
              /\ Over(z) \/ (z.at \in T /\ rank[z.at] > rank[s.at] /\ rank[z.at] >= b)
            BY <1>8, <3>1, ClimbKeeps
        <3>4. z \in Climbs(T) /\ \A m \in Nodes \ T : z.values[m] = s.values[m]
            <4>1. z \in Climbs(T) /\ SameOff(T, s.values, z.values)
                BY <1>2, <1>8, <3>1, ClimbIs
            <4> QED BY <4>1 DEF SameOff
        <3>5. \A m \in Nodes \ T : z.values[m] = a[m]
            BY <3>1, <3>4
        <3>6. Fair(z)
            <4> HIDE DEF Over
            <4> QED BY <3>3, <3>4, <3>5
        <3> HIDE DEF Over, Fair
        <3> QED BY <2>2, <3>2, <3>3, <3>6
    <2> QED BY <2>1, <2>2
<1> HIDE DEF Fair, Over
<1>9. \A k \in 0 .. N : Fair(f[k])
    <2>1. ASSUME NEW k \in 0 .. (N - 1), k \in S PROVE k + 1 \in S
        <3>1. k + 1 \in 0 .. N /\ Fair(f[k]) /\ f[k + 1] = Climb(mem, words, stop, f[k])
            BY <1>0, <1>6, <2>1
        <3> QED BY <1>8, <3>1
    <2> HIDE DEF S
    <2>2. \A k \in 0 .. N : k \in S
        BY <1>0, <1>7, <2>1, CountingUp
    <2> QED BY <2>2 DEF S
\* Counted from the top, ranks fall on the way up.
<1> DEFINE depth == [m \in Links |-> IF m \in T THEN N - Cardinality(NoHigher(T, rank, m)) ELSE 0]
<1>10. depth \in [Links -> Nat]
    <2>1. \A m \in T : Cardinality(NoHigher(T, rank, m)) \in 1 .. N
        BY <1>1, SomeNoHigher
    <2> QED BY <1>0, <2>1
<1>11. \A l, m \in T : rank[m] < rank[l] => depth[l] < depth[m]
    <2> SUFFICES ASSUME NEW l \in T, NEW m \in T, rank[m] < rank[l] PROVE depth[l] < depth[m]
        OBVIOUS
    <2>1. Cardinality(NoHigher(T, rank, m)) < Cardinality(NoHigher(T, rank, l))
          /\ Cardinality(NoHigher(T, rank, l)) \in 1 .. N
        BY <1>1, LowerFewer
    <2>2. Cardinality(NoHigher(T, rank, m)) \in 1 .. N
        BY <1>1, SomeNoHigher
    <2>3. m \in Links /\ l \in Links
        BY DEF Links
    <2> QED BY <1>0, <2>1, <2>2, <2>3
<1> HIDE DEF depth
<1> DEFINE g == [k \in 0 .. N |-> IF Over(f[k]) THEN NULL ELSE f[k].at]
<1>12. Descends(T, depth, g)
    <2>1. g \in [0 .. N -> T \cup {NULL}]
        BY <1>9 DEF Fair, Climbs
    <2>2. ASSUME NEW k \in 1 .. N, g[k] # NULL
          PROVE  g[k - 1] # NULL /\ depth[g[k]] < depth[g[k - 1]]
        <3>1. k - 1 \in 0 .. (N - 1) /\ k - 1 \in 0 .. N /\ k \in 0 .. N /\ (k - 1) + 1 = k
            BY <1>0
        <3>2. f[k] = Climb(mem, words, stop, f[k - 1]) /\ Fair(f[k - 1])
            BY <1>6, <1>9, <3>1
        <3>3. ~Over(f[k]) /\ g[k] = f[k].at
            BY <2>2, <3>1
        <3>4. ~Over(f[k - 1]) /\ f[k - 1].at \in T /\ f[k].at \in T /\ rank[f[k].at] > rank[f[k - 1].at]
            BY <1>8, <3>2, <3>3
        <3>5. g[k - 1] = f[k - 1].at
            BY <3>1, <3>4
        <3>6. rank[f[k].at] \in Nat /\ rank[f[k - 1].at] \in Nat
            BY <1>1, <3>4
        <3> QED BY <1>0, <1>11, <3>3, <3>4, <3>5, <3>6
    <2> HIDE DEF g
    <2> QED BY <2>1, <2>2 DEF Descends
<1>13. g[N] = NULL
    <2> HIDE DEF g
    <2> QED BY <1>10, <1>12, Lands
<1>14. N \in 0 .. N /\ Fair(f[N])
    BY <1>0, <1>9
<1>15. Over(f[N])
    <2>1. ~Over(f[N]) => f[N].at # NULL
        BY DEF Over
    <2> QED BY <1>13, <1>14, <2>1
<1>16. ExactBut(T, d, r, stop)
    BY <1>0, <1>3, <1>14, <1>15 DEF Fair, Over, Climbing, ExactBut
<1> QED BY <1>3, <1>14, <1>16 DEF Fair, Climbs, SameOff

-----------------------------------------------------------------------------
(* The writer.  The tree it works on is the one its pending stores make.   *)

Members == IF w.pc = "idle" THEN present ELSE (present \cup In(w.op)) \ Out(w.op)
Stores == {todo[i] : i \in 1 .. Len(todo)}
Lifting(kind) == w.pc = "outer" /\ w.op.kind = kind

\* The root has no right pointer, and pointers are to elements of the tree.
Aimed(T) == \A st \in Stores : (st.at = NULL => st.side = "left") /\ st.to \in T \cup {NULL}

\* What memory holds, the root in the place of NULL's left child.
Real(m, s) == IF m # NULL THEN child[m][s] ELSE IF s = "left" THEN root ELSE NULL

\* c is memory after the pending stores.  Between cases 2 and 3 of an insertion the
\* grandparent's pointer is old, and case 3 does not read it.
Shown(T, c) ==
    \A m \in T \cup {NULL}, s \in Sides :
      \/ Lifting("insert") /\ m = w.gparent /\ s = w.side
      \/ /\ \A st \in Stores : st.at = m /\ st.side = s => c[m][s] = st.to
         /\ (\A st \in Stores : ~(st.at = m /\ st.side = s)) => c[m][s] = Real(m, s)

\* up is the parents and red the red ones, but for what case 2 of an insertion and
\* case 3 of an erasure leave for the next case to set.
Worded(T, c, up, red, t) ==
    CASE Lifting("insert") ->
           \A n \in T : /\ up[n] = IF n = w.parent THEN w.gparent ELSE word[n].up
                        /\ n \in red <=> IsRed(n)
      [] Lifting("erase") ->
           LET b == c[w.parent][Other(t)]
               q == c[b][Other(t)]
           IN  \A n \in T : /\ up[n] = IF n = b THEN w.parent ELSE IF n = q THEN b ELSE word[n].up
                            /\ n \in red <=> n = q \/ (IsRed(n) /\ n # b)
      [] OTHER -> \A n \in T : up[n] = word[n].up /\ (n \in red <=> IsRed(n))

\* Where the writer is, and what is out of balance there.
Standing(T, c, up, red, x, y, t) ==
    /\ w.pc \in {"idle", "done"} => x = NULL /\ y = NULL
    /\ w.pc = "insert" => /\ x = w.node /\ y = NULL
                          /\ x \in T /\ x \in red /\ w.parent = up[x]
    /\ w.pc = "erase" => /\ x = NULL /\ y = w.parent
                         /\ y \in T /\ c[y][t] = w.node /\ w.node \notin red
    /\ Lifting("insert") => /\ x = c[w.parent][w.side] /\ y = NULL
                            /\ x \in T /\ x \in red
                            /\ w.parent \in T /\ w.parent \in red /\ w.parent = c[w.gparent][w.side]
                            /\ w.gparent \in T /\ w.gparent \notin red
                            /\ c[w.gparent][Other(w.side)] \notin red
    /\ Lifting("erase") => /\ x = NULL /\ y = w.parent
                           /\ y \in T /\ c[y][t] = w.node /\ w.node \notin red
                           /\ c[y][Other(t)] \in T \ red
                           /\ c[c[y][Other(t)]][Other(t)] \in T \cap red

Fits(T, c, up, red, h, x, y, t) ==
    /\ T = Members
    /\ Shown(T, c) /\ Worded(T, c, up, red, t) /\ Standing(T, c, up, red, x, y, t)
    /\ Linked(T, c, up) /\ Balanced(T, c, red, h, x, y, t)

Puts == [at : Links, side : Sides, to : Links]
Words == [Nodes -> [up : Links, color : Colors]]
Writers == [pc : Places, op : Calls \cup {NULL}, node : Links, parent : Links,
            gparent : Links, side : Sides]

Typed ==
    /\ root \in Links
    /\ child \in [Nodes -> [Sides -> Links]]
    /\ word \in Words
    /\ todo \in Seq(Puts)
    /\ w \in Writers
    /\ present \subseteq Nodes
    /\ waits \in [Nodes -> SUBSET Readers]

\* An idle writer has nothing to store, an element of the tree none to wait for.
Settled ==
    /\ Aimed(Members)
    /\ w.pc # "idle" => w.op \in Calls
    /\ w.pc = "idle" => todo = <<>>
    /\ w.pc = "outer" => w.op.kind \in {"insert", "erase"}
    /\ w.pc = "insert" => w.op.kind = "insert"
    /\ w.pc = "erase" => w.op.kind = "erase"
    /\ \A n \in Members : waits[n] = {}

TreeInv ==
    /\ Typed /\ Settled
    /\ \E T \in SUBSET Nodes, c \in Memory, up \in Ups, red \in SUBSET Nodes, h \in Heights,
          x \in Links, y \in Links, t \in Sides : Fits(T, c, up, red, h, x, y, t)

LEMMA CallsAre ==
    /\ \A o \in Inserts : o \in Calls /\ o.kind = "insert" /\ o.node \in Nodes
                          /\ In(o) = {o.node} /\ Out(o) = {}
    /\ \A o \in Erases : o \in Calls /\ o.kind = "erase" /\ o.node \in Nodes
                         /\ In(o) = {} /\ Out(o) = {o.node}
    /\ \A o \in Replaces : o \in Calls /\ o.kind = "replace" /\ o.node \in Nodes
                           /\ o.victim \in Nodes /\ In(o) = {o.node} /\ Out(o) = {o.victim}
BY DEF Inserts, Erases, Replaces, Calls, In, Out

LEMMA InOutNodes == \A o \in Calls : In(o) \in SUBSET Nodes /\ Out(o) \in SUBSET Nodes
BY DEF Inserts, Erases, Replaces, Calls, In, Out

LEMMA HeadAndTail ==
    ASSUME NEW S, NEW q \in Seq(S), q # <<>>
    PROVE  Head(q) \in S /\ Tail(q) \in Seq(S)
OBVIOUS

\* The writer's state is the only thing a turn or a call has to account for.
LEMMA InitTree == Init => TreeInv
<1> SUFFICES ASSUME Init PROVE TreeInv
    OBVIOUS
<1>1. Typed
    BY DEF Init, Typed, Writers, Words, Puts, Idle, Places, Leaf, Clear, Colors, Links, Sides
<1>2. Stores = {} /\ Members = {} /\ w.pc = "idle"
    BY DEF Init, Stores, Members, Idle
<1>3. Settled
    BY <1>2 DEF Settled, Init, Aimed
<1> DEFINE c == [m \in Links |-> [s \in Sides |-> NULL]]
           up == [n \in Nodes |-> NULL]
           h == [m \in Links |-> 0]
<1>4. c \in Memory /\ up \in Ups /\ h \in Heights /\ "left" \in Sides /\ NULL \in Links
    BY DEF Memory, Ups, Heights, Links, Sides
<1>5. Shown({}, c)
    BY <1>2 DEF Shown, Real, Init, Links
<1>6. Worded({}, c, up, {}, "left") /\ Standing({}, c, up, {}, NULL, NULL, "left")
    BY <1>2 DEF Worded, Standing, Lifting
<1>7. Linked({}, c, up) /\ Balanced({}, c, {}, h, NULL, NULL, "left")
    BY DEF Linked, Balanced, Links, Sides
<1>8. Fits({}, c, up, {}, h, NULL, NULL, "left")
    BY <1>2, <1>5, <1>6, <1>7 DEF Fits
<1> HIDE DEF c, up, h
<1> QED BY <1>1, <1>3, <1>4, <1>8 DEF TreeInv

\* A store takes memory a step nearer to the tree.
LEMMA StoreShows ==
    ASSUME Typed, Settled, Store, NEW T \in SUBSET Nodes, NEW c, Shown(T, c)
    PROVE  Typed' /\ Settled' /\ Members' = Members /\ Shown(T, c)'
<1>0. PICK st : st = Head(todo)
    OBVIOUS
<1>1. Typed /\ Settled
    OBVIOUS
<1>2. st \in Puts /\ Tail(todo) \in Seq(Puts)
    <2>1. todo \in Seq(Puts) /\ todo # <<>>
        BY <1>1 DEF Store, Typed
    <2> QED BY <1>0, <2>1, HeadAndTail
<1>3. Stores = {st} \cup Stores'
    <2>1. todo' = Tail(todo) /\ todo # <<>> /\ todo \in Seq(Puts)
        BY <1>1 DEF Store, Typed
    <2>2. Len(todo) \in Nat /\ Len(todo) >= 1 /\ Len(todo') = Len(todo) - 1 /\ st = todo[1]
          /\ \A i \in 1 .. Len(todo') : todo'[i] = todo[i + 1]
        BY <1>0, <2>1
    <2>3. \A i \in 1 .. Len(todo) : i = 1 \/ (i - 1 \in 1 .. Len(todo') /\ todo[i] = todo'[i - 1])
        BY <2>2
    <2>4. \A i \in 1 .. Len(todo') : i + 1 \in 1 .. Len(todo)
        BY <2>2
    <2> QED BY <2>2, <2>3, <2>4 DEF Stores
<1>4. /\ w' = w /\ present' = present /\ word' = word /\ waits' = waits
      /\ todo' = Tail(todo) /\ todo # <<>>
      /\ st.at = NULL => root' = st.to /\ child' = child
      /\ st.at # NULL => child' = [child EXCEPT ![st.at][st.side] = st.to] /\ root' = root
    BY <1>0 DEF Store
<1>a. st.at \in Links /\ st.side \in Sides /\ st.to \in Links
      /\ child \in [Nodes -> [Sides -> Links]] /\ NULL \notin Nodes
    BY <1>1, <1>2, NodeAssumption DEF Typed, Puts
<1>b. /\ child' \in [Nodes -> [Sides -> Links]] /\ root' \in Links
      /\ st.at = NULL => child' = child /\ root' = st.to
      /\ st.at # NULL => /\ root' = root
                         /\ \A m \in Nodes, s \in Sides : child'[m][s] =
                              IF m = st.at /\ s = st.side THEN st.to ELSE child[m][s]
    <2>1. CASE st.at = NULL
        BY <1>1, <1>4, <1>a, <2>1 DEF Typed
    <2>2. CASE st.at # NULL
        <3>1. st.at \in Nodes
            BY <1>a, <2>2 DEF Links
        <3>2. child' = [child EXCEPT ![st.at][st.side] = st.to] /\ root' = root
            BY <1>4, <2>2
        <3>3. child' \in [Nodes -> [Sides -> Links]]
            BY <1>a, <3>1, <3>2
        <3>4. \A m \in Nodes, s \in Sides : child'[m][s] =
                 IF m = st.at /\ s = st.side THEN st.to ELSE child[m][s]
            BY <1>a, <3>1, <3>2
        <3> QED BY <1>1, <2>2, <3>2, <3>3, <3>4 DEF Typed
    <2> QED BY <2>1, <2>2
<1>5. Typed'
    BY <1>1, <1>2, <1>4, <1>b DEF Typed
<1>6. Members' = Members
    BY <1>4 DEF Members
<1>7. Settled'
    BY <1>1, <1>3, <1>4, <1>6 DEF Settled, Aimed
<1>9. ASSUME NEW m \in T \cup {NULL}, NEW s \in Sides, ~(m = st.at /\ s = st.side)
      PROVE  Real(m, s)' = Real(m, s)
    <2>1. CASE st.at = NULL
        <3>1. st.side = "left"
            BY <1>1, <1>3, <2>1 DEF Settled, Aimed
        <3> QED BY <1>4, <1>9, <2>1, <3>1 DEF Real
    <2>2. CASE st.at # NULL
        <3>1. m # NULL => m \in Nodes
            OBVIOUS
        <3> QED BY <1>b, <1>9, <2>2, <3>1 DEF Real
    <2> QED BY <2>1, <2>2
<1>10. Real(st.at, st.side)' = st.to
    <2>1. CASE st.at = NULL
        <3>1. st.side = "left"
            BY <1>1, <1>3, <2>1 DEF Settled, Aimed
        <3> QED BY <1>b, <2>1, <3>1 DEF Real
    <2>2. CASE st.at # NULL
        <3>1. st.at \in Nodes
            BY <1>a, <2>2 DEF Links
        <3> QED BY <1>a, <1>b, <2>2, <3>1 DEF Real
    <2> QED BY <2>1, <2>2
<1>11. Shown(T, c)'
    <2> SUFFICES ASSUME NEW m \in T \cup {NULL}, NEW s \in Sides,
                        ~(Lifting("insert") /\ m = w.gparent /\ s = w.side)
                 PROVE  /\ \A o \in Stores' : o.at = m /\ o.side = s => c[m][s] = o.to
                        /\ (\A o \in Stores' : ~(o.at = m /\ o.side = s)) => c[m][s] = Real(m, s)'
        BY <1>4 DEF Shown, Lifting
    <2>1. /\ \A o \in Stores : o.at = m /\ o.side = s => c[m][s] = o.to
          /\ (\A o \in Stores : ~(o.at = m /\ o.side = s)) => c[m][s] = Real(m, s)
        BY DEF Shown
    <2>2. CASE m = st.at /\ s = st.side
        <3>1. c[m][s] = st.to
            BY <1>3, <2>1, <2>2
        <3>2. Real(m, s)' = st.to
            BY <1>10, <2>2
        <3> QED BY <1>3, <2>1, <3>1, <3>2
    <2>3. CASE ~(m = st.at /\ s = st.side)
        BY <1>3, <1>9, <2>1, <2>3
    <2> QED BY <2>2, <2>3
<1> QED BY <1>5, <1>6, <1>7, <1>11

LEMMA StoreKeeps == TreeInv /\ Store => TreeInv'
<1> SUFFICES ASSUME TreeInv, Store PROVE TreeInv'
    OBVIOUS
<1>1. PICK T \in SUBSET Nodes, c \in Memory, up \in Ups, red \in SUBSET Nodes, h \in Heights,
           x \in Links, y \in Links, t \in Sides : Fits(T, c, up, red, h, x, y, t)
    BY DEF TreeInv
<1>2. Typed' /\ Settled' /\ Members' = Members /\ Shown(T, c)'
    <2>1. Typed /\ Settled /\ Shown(T, c)
        BY <1>1 DEF TreeInv, Fits
    <2> QED BY <2>1, StoreShows
<1>3. Fits(T, c, up, red, h, x, y, t)'
    BY <1>1, <1>2 DEF Fits, Worded, Standing, Lifting, IsRed, Store
<1> QED BY <1>2, <1>3 DEF TreeInv

LEMMA ApartShows ==
    ASSUME NEW T \in SUBSET Nodes, T = Members, NEW c, Shown(T, c),
           w' = w \/ (w.pc = "done" /\ w'.pc = "idle"), todo' = todo, root' = root,
           \A n \in Members : child'[n] = child[n]
    PROVE  Shown(T, c)'
<1>1. Stores' = Stores
    BY DEF Stores
<1>2. \A m \in T \cup {NULL}, s \in Sides : Real(m, s)' = Real(m, s)
    BY DEF Real
<1>3. /\ Lifting("insert")' = Lifting("insert")
      /\ Lifting("insert") => w' = w
    BY DEF Lifting
<1> QED BY <1>1, <1>2, <1>3 DEF Shown

\* A step that leaves the writer and the tree alone.
LEMMA ApartKeeps ==
    ASSUME TreeInv, Members' = Members, w' = w \/ (w.pc = "done" /\ w'.pc = "idle"),
           todo' = todo, root' = root, Typed', w'.pc = "idle" => todo = <<>>,
           \A n \in Members : child'[n] = child[n] /\ word'[n] = word[n] /\ waits'[n] = {}
    PROVE  TreeInv'
<1>1. PICK T \in SUBSET Nodes, c \in Memory, up \in Ups, red \in SUBSET Nodes, h \in Heights,
           x \in Links, y \in Links, t \in Sides : Fits(T, c, up, red, h, x, y, t)
    BY DEF TreeInv
<1>2. Stores' = Stores
    BY DEF Stores
<1>3. T = Members /\ NULL \notin T
    BY <1>1, NodeAssumption DEF Fits
<1>5. /\ Lifting("insert")' = Lifting("insert") /\ Lifting("erase")' = Lifting("erase")
      /\ Lifting("insert") \/ Lifting("erase") => w' = w
    BY DEF Lifting
<1>6. Shown(T, c)'
    <2>1. Shown(T, c)
        BY <1>1 DEF Fits
    <2> QED BY <1>3, <2>1, ApartShows
<1>7. Worded(T, c, up, red, t)'
    BY <1>1, <1>3, <1>5 DEF Worded, Fits, IsRed
<1>8. Standing(T, c, up, red, x, y, t)'
    BY <1>1, <1>5 DEF Standing, Fits
<1>9. Fits(T, c, up, red, h, x, y, t)'
    BY <1>1, <1>6, <1>7, <1>8 DEF Fits
<1>10. Settled'
    BY <1>2 DEF Settled, TreeInv, Aimed
<1> QED BY <1>9, <1>10 DEF TreeInv

\* The elements forgotten are not in the tree.
LEMMA ForgetApart ==
    ASSUME NEW gone, Forget(gone), Typed, gone \cap Members = {}, Members \in SUBSET Nodes
    PROVE  /\ \A n \in Members : child'[n] = child[n] /\ word'[n] = word[n]
           /\ child' \in [Nodes -> [Sides -> Links]]
           /\ word' \in Words
BY DEF Forget, Typed, Words, Leaf, Clear, Links, Colors

LEMMA MembersNodes == Typed /\ Settled => Members \in SUBSET Nodes
BY InOutNodes DEF Typed, Settled, Members

LEMMA ReaderKeeps == TreeInv /\ (\E r \in Readers : Reader(r)) => TreeInv'
<1> SUFFICES ASSUME TreeInv, NEW r \in Readers, Reader(r) PROVE TreeInv'
    OBVIOUS
<1>1. Typed /\ Settled /\ Members \in SUBSET Nodes
    BY MembersNodes DEF TreeInv
<1>2. w' = w /\ todo' = todo /\ root' = root /\ present' = present /\ Members' = Members
    BY DEF Reader, ReadStart, ReadStep, ReadEnd, WriterSame, Members
<1>3. CASE child' = child /\ word' = word /\ waits' = waits
    <2>1. Typed'
        BY <1>1, <1>2, <1>3 DEF Typed
    <2>2. \A n \in Members : waits'[n] = {}
        BY <1>1, <1>3 DEF Settled
    <2>3. w'.pc = "idle" => todo = <<>>
        BY <1>1, <1>2 DEF Settled
    <2> QED BY <1>2, <1>3, <2>1, <2>2, <2>3, ApartKeeps
<1>4. CASE ReadEnd(r)
    <2>1. Forget({n \in Nodes : waits[n] = {r}}) /\ waits' = [n \in Nodes |-> waits[n] \ {r}]
        BY <1>4 DEF ReadEnd
    <2>2. {n \in Nodes : waits[n] = {r}} \cap Members = {}
        BY <1>1 DEF Settled
    <2>3. /\ \A n \in Members : child'[n] = child[n] /\ word'[n] = word[n]
          /\ child' \in [Nodes -> [Sides -> Links]]
          /\ word' \in Words
        BY <1>1, <2>1, <2>2, ForgetApart
    <2>4. Typed'
        BY <1>1, <1>2, <2>1, <2>3 DEF Typed
    <2>5. \A n \in Members : waits'[n] = {}
        BY <1>1, <2>1 DEF Settled
    <2>6. w'.pc = "idle" => todo = <<>>
        BY <1>1, <1>2 DEF Settled
    <2> QED BY <1>2, <2>3, <2>4, <2>5, <2>6, ApartKeeps
<1> QED BY <1>3, <1>4 DEF Reader, ReadStart, ReadStep

LEMMA ReturnKeeps == TreeInv /\ Return => TreeInv'
<1> SUFFICES ASSUME TreeInv, Return PROVE TreeInv'
    OBVIOUS
<1>1. Typed /\ Settled /\ Members \in SUBSET Nodes
    BY MembersNodes DEF TreeInv
<1> DEFINE gone == IF Walking = {} THEN Out(w.op) ELSE {}
<1>2. /\ w.pc = "done" /\ todo = <<>> /\ w' = Idle /\ present' = (present \cup In(w.op)) \ Out(w.op)
      /\ waits' = [n \in Nodes |-> IF n \in Out(w.op) THEN Walking ELSE waits[n]]
      /\ Forget(gone) /\ root' = root /\ todo' = todo
    BY DEF Return, At
<1>3. Members = present' /\ Members' = present' /\ w'.pc = "idle" /\ w'.op = NULL
    BY <1>2 DEF Members, Idle
<1>4. gone \cap Members = {} /\ Out(w.op) \cap Members = {}
    BY <1>2, <1>3
<1> HIDE DEF gone
<1>5. /\ \A n \in Members : child'[n] = child[n] /\ word'[n] = word[n]
      /\ child' \in [Nodes -> [Sides -> Links]]
      /\ word' \in Words
    BY <1>1, <1>2, <1>4, ForgetApart
<1>6. \A n \in Members : waits'[n] = {}
    BY <1>1, <1>2, <1>4 DEF Settled
<1>7. Walking \in SUBSET Readers
    BY DEF Walking
<1>8. waits' \in [Nodes -> SUBSET Readers]
    BY <1>1, <1>2, <1>7 DEF Typed
<1>9. Idle \in Writers
    BY DEF Idle, Writers, Places, Links, Sides
<1>10. Typed'
    BY <1>1, <1>2, <1>3, <1>5, <1>8, <1>9 DEF Typed
<1> QED BY <1>2, <1>3, <1>5, <1>6, <1>10, ApartKeeps

-----------------------------------------------------------------------------
(* Turns of the writer.                                                    *)

\* With no store pending memory is what the writer sees.
Held(T, c) == \A m \in T \cup {NULL}, s \in Sides : c[m][s] = Real(m, s)

LEMMA TurnSees ==
    ASSUME NEW T \in SUBSET Nodes, NEW c, Shown(T, c), todo = <<>>, ~Lifting("insert")
    PROVE  Held(T, c)
<1>1. Stores = {}
    BY DEF Stores
<1> QED BY <1>1 DEF Shown, Held

LEMMA HeldAre ==
    ASSUME NEW T \in SUBSET Nodes, NEW c, Held(T, c)
    PROVE  /\ \A m \in T, s \in Sides : child[m][s] = c[m][s]
           /\ root = c[NULL]["left"] /\ NULL \notin T
BY NodeAssumption DEF Held, Real, Sides

LEMMA RedLinks ==
    ASSUME NEW T \in SUBSET Nodes, NEW red \in SUBSET Nodes, \A n \in T : n \in red <=> IsRed(n)
    PROVE  \A n \in T \cup {NULL} : RedLink(n) <=> n \in red
BY NodeAssumption DEF RedLink

LEMMA PutsAre ==
    \A n \in Links, s \in Sides, m \in Links :
      Put(n, s, m) \in Puts /\ Put(n, s, m).at = n /\ Put(n, s, m).side = s /\ Put(n, s, m).to = m
BY DEF Put, Puts

LEMMA ThreeStores ==
    ASSUME NEW a \in Puts, NEW b \in Puts, NEW e \in Puts
    PROVE  /\ <<a, b>> \o <<e>> \in Seq(Puts)
           /\ {(<<a, b>> \o <<e>>)[i] : i \in 1 .. Len(<<a, b>> \o <<e>>)} = {a, b, e}
OBVIOUS

LEMMA TwoStores ==
    ASSUME NEW a \in Puts, NEW b \in Puts
    PROVE  <<a, b>> \in Seq(Puts) /\ {<<a, b>>[i] : i \in 1 .. Len(<<a, b>>)} = {a, b}
OBVIOUS

LEMMA OneStore ==
    ASSUME NEW a \in Puts
    PROVE  <<a>> \in Seq(Puts) /\ {<<a>>[i] : i \in 1 .. Len(<<a>>)} = {a}
OBVIOUS

\* __rb_change_child finds the pointer to an element.
LEMMA ChangeChildIs ==
    ASSUME NEW T \in SUBSET Nodes, NEW c, NEW up, Linked(T, c, up), NEW old \in T, NEW new \in Links,
           NEW g, g = up[old], g # NULL => \A e \in Sides : child[g][e] = c[g][e]
    PROVE  \E k \in Sides : /\ c[g][k] = old /\ ChangeChild(old, new, g) = Put(g, k, new)
                            /\ g = NULL => k = "left"
<1>1. PICK e \in Sides : c[g][e] = old
    BY DEF Linked
<1>2. NULL \notin T /\ old # NULL /\ "left" \in Sides /\ "right" \in Sides
    BY NodeAssumption DEF Sides
<1>3. CASE g = NULL
    <2>1. e = "left"
        BY <1>1, <1>2, <1>3 DEF Linked, Sides
    <2>2. ChangeChild(old, new, g) = Put(g, "left", new)
        BY <1>3 DEF ChangeChild
    <2> QED BY <1>1, <1>2, <1>3, <2>1, <2>2
<1>4. CASE g # NULL
    <2>1. CASE child[g]["left"] = old
        <3>1. ChangeChild(old, new, g) = Put(g, "left", new)
            BY <1>4, <2>1 DEF ChangeChild
        <3> QED BY <1>2, <1>4, <2>1, <3>1
    <2>2. CASE child[g]["left"] # old
        <3>1. ChangeChild(old, new, g) = Put(g, "right", new)
            BY <1>4, <2>2 DEF ChangeChild
        <3>2. e = "right"
            BY <1>1, <1>4, <2>2 DEF Sides
        <3> QED BY <1>1, <1>2, <1>4, <3>1, <3>2
    <2> QED BY <2>1, <2>2
<1> QED BY <1>3, <1>4

\* The writer does not see the pointer of p on side s.
HeldBut(T, c, p, s) ==
    \A m \in T \cup {NULL}, e \in Sides : ~(m = p /\ e = s) => c[m][e] = Real(m, e)

\* After the three stores of a rotation memory is the rotated tree.
LEMMA RotationShown ==
    ASSUME NEW T \in SUBSET Nodes, NEW c \in Memory, NEW d \in Memory, NEW p, NEW q, NEW b, NEW g,
           NEW s, NEW o, NEW k, Apart(T, c, p, q, b, g, s, o, k), o = Other(s),
           Rotated(T, c, d, p, s, g, k),
           HeldBut(T, c, p, s),
           child' = child, root' = root, g = NULL => k = "left",
           todo' = <<Put(p, s, b), Put(q, o, p)>> \o <<Put(g, k, q)>>
    PROVE  /\ Shown(T, d)' /\ todo' \in Seq(Puts)
           /\ Aimed(T)'
<1> DEFINE i == Put(p, s, b)
           j == Put(q, o, p)
           l == Put(g, k, q)
<1>1. /\ p \in Links /\ q \in Links /\ b \in Links /\ g \in Links /\ s \in Sides /\ o \in Sides
      /\ k \in Sides
    BY DEF Apart, Links
<1>2. i \in Puts /\ j \in Puts /\ l \in Puts
    BY <1>1, PutsAre
<1>3. /\ i.at = p /\ i.side = s /\ i.to = b /\ j.at = q /\ j.side = o /\ j.to = p
      /\ l.at = g /\ l.side = k /\ l.to = q
    BY <1>1, PutsAre
<1> HIDE DEF i, j, l
<1>4. todo' = <<i, j>> \o <<l>>
    BY DEF i, j, l
<1>5. todo' \in Seq(Puts) /\ Stores' = {i, j, l}
    BY <1>2, <1>4, ThreeStores DEF Stores
<1>6. \A m \in T \cup {NULL}, e \in Sides : Real(m, e)' = Real(m, e)
    BY DEF Real
<1>7. \A m \in T \cup {NULL}, e \in Sides :
        d[m][e] = IF m = p /\ e = s THEN b ELSE IF m = q /\ e = o THEN p
                  ELSE IF m = g /\ e = k THEN q ELSE c[m][e]
    BY DEF Rotated, Apart
<1>b. \A m \in T \cup {NULL}, e \in Sides : ~(m = p /\ e = s) => c[m][e] = Real(m, e)
    BY DEF HeldBut
<1>8. ASSUME NEW m \in T \cup {NULL}, NEW e \in Sides
      PROVE  /\ \A st \in {i, j, l} : st.at = m /\ st.side = e => d[m][e] = st.to
             /\ (\A st \in {i, j, l} : ~(st.at = m /\ st.side = e)) => d[m][e] = Real(m, e)
    <2>1. /\ i.at = m /\ i.side = e => d[m][e] = i.to
          /\ j.at = m /\ j.side = e => d[m][e] = j.to
          /\ l.at = m /\ l.side = e => d[m][e] = l.to
        BY <1>3, <1>7 DEF Apart
    <2>2. ASSUME ~(i.at = m /\ i.side = e), ~(j.at = m /\ j.side = e), ~(l.at = m /\ l.side = e)
          PROVE  d[m][e] = Real(m, e)
        BY <1>3, <1>7, <1>b, <2>2
    <2> QED BY <2>1, <2>2
<1>9. Shown(T, d)'
    BY <1>5, <1>6, <1>8 DEF Shown
<1>10. Aimed(T)'
    <2>1. p # NULL /\ q # NULL /\ b \in T \cup {NULL} /\ p \in T /\ q \in T
        BY DEF Apart
    <2> QED BY <1>3, <1>5, <2>1 DEF Aimed
<1> QED BY <1>5, <1>9, <1>10

\* What every turn leaves alone.
LEMMA TurnKeeps ==
    ASSUME Typed, Settled, Turn, w.pc # "idle", w'.pc # "idle", w'.op = w.op, w' \in Writers,
           word' \in Words, todo' \in Seq(Puts), NEW T, T = Members, Aimed(T)',
           w'.pc = "outer" => w.op.kind \in {"insert", "erase"},
           w'.pc = "insert" => w.op.kind = "insert",
           w'.pc = "erase" => w.op.kind = "erase"
    PROVE  Typed' /\ Settled' /\ Members' = Members
<1>1. Members' = Members
    BY DEF Members, Turn
<1>2. Typed'
    BY DEF Typed, Turn
<1>3. Aimed(Members)'
    BY <1>1 DEF Aimed
<1>4. Settled'
    BY <1>1, <1>3 DEF Settled, Turn
<1> QED BY <1>1, <1>2, <1>4

LEMMA DoneIs ==
    ASSUME Typed, Settled, w.pc # "idle", Done
    PROVE  w'.pc = "done" /\ w'.op = w.op /\ w' \in Writers
BY DEF Typed, Settled, Done, Idle, Writers, Places, Links, Sides

LEMMA RotatedExists ==
    ASSUME NEW T \in SUBSET Nodes, NEW c \in Memory, NEW p \in T, NEW s \in Sides,
           NEW g \in T \cup {NULL}, NEW k \in Sides, c[p][s] \in T
    PROVE  \E d \in Memory : Rotated(T, c, d, p, s, g, k)
<1> DEFINE q == c[p][s]
           o == Other(s)
           d == [m \in Links |-> [e \in Sides |->
                   IF m = p /\ e = s THEN c[q][o] ELSE IF m = q /\ e = o THEN p
                   ELSE IF m = g /\ e = k THEN q ELSE c[m][e]]]
<1>1. p \in Links /\ q \in Links /\ o \in Sides /\ T \cup {NULL} \subseteq Links
    BY SidesAre DEF Links
<1>2. d \in Memory
    BY <1>1 DEF Memory
<1>3. Rotated(T, c, d, p, s, g, k)
    BY <1>1 DEF Rotated
<1> QED BY <1>2, <1>3

-----------------------------------------------------------------------------
(* What the helpers of the turns write.                                    *)

LEMMA SetParentColorIs ==
    ASSUME NEW words \in Words, NEW n \in Links, NEW p \in Links, NEW color \in Colors
    PROVE  /\ SetParentColor(words, n, p, color) \in Words
           /\ \A m \in Nodes : SetParentColor(words, n, p, color)[m] =
                IF m = n THEN [up |-> p, color |-> color] ELSE words[m]
BY NodeAssumption DEF SetParentColor, Words, Links

LEMMA RotateSetParentsIs ==
    ASSUME NEW words \in Words, NEW old \in Nodes, NEW new \in Nodes, old # new, NEW color \in Colors
    PROVE  /\ RotateSetParents(words, old, new, color) \in Words
           /\ \A m \in Nodes : RotateSetParents(words, old, new, color)[m] =
                IF m = old THEN [up |-> new, color |-> color]
                ELSE IF m = new THEN words[old] ELSE words[m]
BY DEF RotateSetParents, Words, Links

\* What case 3 of an insertion finds: two red elements in a row on side s of g.
TwoRed(T, c, up, red, h, x, t, g, p, s) ==
    /\ T = Members /\ Linked(T, c, up) /\ Balanced(T, c, red, h, x, NULL, t)
    /\ g \in T /\ p \in T /\ s \in Sides /\ p = c[g][s] /\ p \in red /\ g \notin red
    /\ x = c[p][s] /\ c[g][Other(s)] \notin red
    /\ \A n \in T : (n # p => up[n] = word[n].up) /\ (n \in red <=> IsRed(n))
    /\ HeldBut(T, c, g, s)

\* The stores of a lift turn c into d.
Raised(T, c, up, d, g, p, s, k) ==
    /\ Around(T, c, up, g, s, k) /\ Rotated(T, c, d, g, s, up[g], k) /\ c[g][s] = p
    /\ Shown(T, d)' /\ todo' \in Seq(Puts)
    /\ Aimed(T)'

LEMMA InsertLiftDoes ==
    ASSUME Turn,
           NEW T \in SUBSET Nodes, NEW c \in Memory, NEW up \in Ups, NEW red \in SUBSET Nodes,
           NEW h \in Heights, NEW x, NEW t \in Sides, NEW g, NEW p, NEW s,
           TwoRed(T, c, up, red, h, x, t, g, p, s), InsertLift(g, p, s)
    PROVE  \E k \in Sides, d \in Memory : Raised(T, c, up, d, g, p, s, k)
<1>0. /\ T = Members /\ Linked(T, c, up) /\ Balanced(T, c, red, h, x, NULL, t)
      /\ g \in T /\ p \in T /\ s \in Sides /\ p = c[g][s] /\ p \in red /\ g \notin red
      /\ x = c[p][s] /\ c[g][Other(s)] \notin red
      /\ \A n \in T : (n # p => up[n] = word[n].up) /\ (n \in red <=> IsRed(n))
      /\ HeldBut(T, c, g, s)
    BY DEF TwoRed
<1> USE <1>0
<1> PICK o : o = Other(s)
    OBVIOUS
<1> PICK b : b = c[p][o]
    OBVIOUS
<1> PICK a : a = up[g]
    OBVIOUS
<1>2. NULL \notin T /\ NULL \notin Nodes /\ g # p /\ a # g /\ a \in T \cup {NULL}
    BY NodeAssumption DEF Linked
<1>3. o \in Sides /\ o # s
    BY SidesAre
<1>4. a = word[g].up /\ child[p][o] = b
    BY <1>2, <1>3 DEF Real, HeldBut
<1>5. a # NULL => \A e \in Sides : child[a][e] = c[a][e]
    BY <1>2 DEF Real, HeldBut
<1>6. PICK k \in Sides : c[a][k] = g /\ ChangeChild(g, p, a) = Put(a, k, p)
                         /\ (a = NULL => k = "left")
    BY <1>5, ChangeChildIs DEF Links
<1>7. p # a
    <2>1. c[g][s] # NULL
        BY <1>2
    <2>2. c[g][s] # up[g]
        BY <2>1, NotAbove DEF NoTwoCycle
    <2> QED BY <2>2
<1>8. Around(T, c, up, g, s, k)
    BY <1>6, <1>7 DEF Around
<1>9. PICK d \in Memory : Rotated(T, c, d, g, s, a, k)
    BY <1>2, RotatedExists
<1>10. Apart(T, c, g, p, b, a, s, o, k)
    BY <1>8, AroundIs
<1>11. todo' = <<Put(g, s, b), Put(p, o, g)>> \o <<Put(a, k, p)>>
    <2>1. Rotation(g, p, s) = <<Put(g, s, b), Put(p, o, g)>>
        BY <1>4 DEF Rotation
    <2>2. todo' = Rotation(g, p, s) \o <<Put(a, k, p)>>
        BY <1>4, <1>6 DEF InsertLift
    <2> QED BY <2>1, <2>2
<1>12. child' = child /\ root' = root /\ present' = present
    BY DEF Turn
<1>13. /\ Shown(T, d)' /\ todo' \in Seq(Puts)
       /\ Aimed(T)'
    <2>1. HeldBut(T, c, g, s)
        OBVIOUS
    <2>2. child' = child /\ root' = root /\ (a = NULL => k = "left")
        BY <1>6, <1>12
    <2> HIDE <1>0
    <2> QED BY <1>9, <1>10, <1>11, <2>1, <2>2, RotationShown
<1> QED BY <1>8, <1>9, <1>13 DEF Raised

LEMMA InsertLiftKeeps ==
    ASSUME TreeInv, Turn, todo = <<>>, w.pc \in {"insert", "outer"},
           NEW T \in SUBSET Nodes, NEW c \in Memory, NEW up \in Ups, NEW red \in SUBSET Nodes,
           NEW h \in Heights, NEW x, NEW t \in Sides, NEW g, NEW p, NEW s,
           TwoRed(T, c, up, red, h, x, t, g, p, s), InsertLift(g, p, s)
    PROVE  TreeInv'
<1> PICK k \in Sides, d \in Memory : Raised(T, c, up, d, g, p, s, k)
    BY InsertLiftDoes
<1>0. /\ T = Members /\ Linked(T, c, up) /\ Balanced(T, c, red, h, x, NULL, t)
      /\ g \in T /\ p \in T /\ s \in Sides /\ p = c[g][s] /\ p \in red /\ g \notin red
      /\ x = c[p][s] /\ c[g][Other(s)] \notin red
      /\ \A n \in T : (n # p => up[n] = word[n].up) /\ (n \in red <=> IsRed(n))
      /\ HeldBut(T, c, g, s)
    BY DEF TwoRed
<1> USE <1>0
<1> PICK o : o = Other(s)
    OBVIOUS
<1> PICK b : b = c[p][o]
    OBVIOUS
<1> PICK a : a = up[g]
    OBVIOUS
<1>1. Typed /\ Settled
    BY DEF TreeInv
<1>2. NULL \notin T /\ NULL \notin Nodes /\ g # p /\ a # g /\ a \in T \cup {NULL}
    BY NodeAssumption DEF Linked
<1>3. o \in Sides /\ o # s
    BY SidesAre
<1>4. a = word[g].up /\ child[p][o] = b
    BY <1>2, <1>3 DEF Real, HeldBut
<1>8. Around(T, c, up, g, s, k) /\ Rotated(T, c, d, g, s, a, k)
    BY DEF Raised
<1>10. Apart(T, c, g, p, b, a, s, o, k)
    BY <1>8, AroundIs
<1>13. /\ Shown(T, d)' /\ todo' \in Seq(Puts)
       /\ Aimed(T)'
    BY DEF Raised
<1> PICK r : r = (red \ {p}) \cup {g}
    OBVIOUS
<1> PICK vp : vp = [n \in Nodes |-> IF n = p THEN a ELSE IF n = g THEN p
                                   ELSE IF n = b THEN g ELSE up[n]]
    OBVIOUS
<1> PICK h2 : h2 = [h EXCEPT ![g] = h[p], ![p] = h[g]]
    OBVIOUS
<1>14. r \in SUBSET Nodes /\ vp \in Ups /\ h2 \in Heights
    BY <1>2 DEF Ups, Heights, Links
<1>15. \A n \in T : vp[n] = IF n = p THEN a ELSE IF n = g THEN p ELSE IF n = b THEN g ELSE up[n]
    OBVIOUS
<1>17. Linked(T, d, vp)
    <2>1. Turned(T, c, up, vp, g, s)
        BY <1>15 DEF Turned
    <2> QED BY <1>8, <1>14, <2>1, RotationLinked
<1>18. Balanced(T, d, r, h2, NULL, NULL, t)
    <2>1. Exchanged(c, red, h, r, h2, g, s, x, NULL, t)
        BY <1>2 DEF Exchanged
    <2> QED BY <1>8, <1>14, <2>1, LiftBalanced
<1>19. /\ word' \in Words
       /\ \A n \in T : /\ word'[n].up = vp[n]
                       /\ word'[n].color = "red" <=> n \in r
    <2> PICK words : words = SetParentColor(word, b, g, "black")
        OBVIOUS
    <2>1. word \in Words /\ b \in Links /\ g \in Links /\ g \in Nodes /\ p \in Nodes
          /\ "black" \in Colors /\ "red" \in Colors
        BY <1>1, <1>10 DEF Typed, Apart, Links, Colors
    <2>2. /\ words \in Words
          /\ \A m \in Nodes : words[m] = IF m = b THEN [up |-> g, color |-> "black"] ELSE word[m]
        BY <2>1, SetParentColorIs
    <2>3. word' = RotateSetParents(words, g, p, "red")
        BY <1>4 DEF InsertLift
    <2>4. /\ word' \in Words
          /\ \A m \in Nodes : word'[m] = IF m = g THEN [up |-> p, color |-> "red"]
                                         ELSE IF m = p THEN words[g] ELSE words[m]
        BY <1>2, <2>1, <2>2, <2>3, RotateSetParentsIs
    <2>5. b \notin red
        <3>1. b \in red => b = x
            BY <1>3 DEF Balanced
        <3>2. b \in red => b # c[p][s]
            BY <1>2, <1>3, <1>10 DEF Apart
        <3> QED BY <3>1, <3>2
    <2>6. ASSUME NEW n \in T
          PROVE  word'[n].up = vp[n] /\ (word'[n].color = "red" <=> n \in r)
        <3>1. n \in Nodes /\ (n \in red <=> word[n].color = "red")
            BY DEF IsRed
        <3>2. CASE n = g
            BY <1>2, <1>10, <2>4, <3>2 DEF Apart
        <3>3. CASE n = p
            <4>1. word'[n] = word[g]
                BY <1>2, <1>10, <2>1, <2>2, <2>4, <3>3 DEF Apart
            <4> QED BY <1>2, <1>4, <3>3, <4>1 DEF IsRed
        <3>4. CASE n = b /\ n # g /\ n # p
            <4>1. word'[n] = [up |-> g, color |-> "black"]
                BY <2>2, <2>4, <3>1, <3>4
            <4> QED BY <2>5, <3>4, <4>1
        <3>5. CASE n # b /\ n # g /\ n # p
            <4>1. word'[n] = word[n]
                BY <2>2, <2>4, <3>1, <3>5
            <4> QED BY <3>1, <3>5, <4>1
        <3> QED BY <3>2, <3>3, <3>4, <3>5
    <2> QED BY <2>4, <2>6
<1>20. w'.pc = "done" /\ w'.op = w.op /\ w' \in Writers
    BY <1>1, DoneIs DEF InsertLift
<1>21. Typed' /\ Settled' /\ Members' = Members
    BY <1>1, <1>13, <1>19, <1>20, TurnKeeps
<1>22. Worded(T, d, vp, r, t)'
    BY <1>19, <1>20 DEF Worded, Lifting, IsRed
<1>23. Standing(T, d, vp, r, NULL, NULL, t)'
    BY <1>20 DEF Standing, Lifting
<1>24. Fits(T, d, vp, r, h2, NULL, NULL, t)'
    BY <1>13, <1>17, <1>18, <1>21, <1>22, <1>23 DEF Fits
<1>25. NULL \in Links
    BY DEF Links
<1> QED BY <1>14, <1>21, <1>24, <1>25 DEF TreeInv

-----------------------------------------------------------------------------
(* The turns of __rb_insert.                                               *)

\* What __rb_insert knows at the head of its loop.
Inserting(T, c, up, red, h, x, t) ==
    /\ T = Members /\ Linked(T, c, up) /\ Balanced(T, c, red, h, x, NULL, t)
    /\ Held(T, c) /\ \A n \in T : up[n] = word[n].up /\ (n \in red <=> IsRed(n))
    /\ x = w.node /\ x \in T /\ x \in red /\ w.parent = up[x]

LEMMA InsertSees ==
    ASSUME TreeInv, At("insert")
    PROVE  /\ w.op.kind = "insert" /\ todo = <<>> /\ Typed /\ Settled
           /\ \E T \in SUBSET Nodes, c \in Memory, up \in Ups, red \in SUBSET Nodes, h \in Heights,
                 x \in Links, t \in Sides : Inserting(T, c, up, red, h, x, t)
<1>1. PICK T \in SUBSET Nodes, c \in Memory, up \in Ups, red \in SUBSET Nodes, h \in Heights,
           x \in Links, y \in Links, t \in Sides : Fits(T, c, up, red, h, x, y, t)
    BY DEF TreeInv
<1>2. w.pc = "insert" /\ todo = <<>> /\ Typed /\ Settled /\ ~Lifting("insert") /\ ~Lifting("erase")
    BY DEF At, TreeInv, Lifting
<1>3. Held(T, c)
    BY <1>1, <1>2, TurnSees DEF Fits
<1>4. Inserting(T, c, up, red, h, x, t)
    BY <1>1, <1>2, <1>3 DEF Inserting, Fits, Worded, Standing
<1> QED BY <1>2, <1>4 DEF Settled

\* What it knows when the parent is red.
RedParent(T, c, up, red, x) ==
    /\ w.parent \in T /\ w.parent \in red
    /\ Gparent = up[w.parent] /\ Gparent \in T /\ Gparent \notin red
    /\ ParentSide \in Sides /\ c[Gparent][ParentSide] = w.parent
    /\ Uncle = c[Gparent][Other(ParentSide)] /\ Uncle \in T \cup {NULL}
    /\ RedLink(Uncle) <=> Uncle \in red
    /\ \E e \in Sides : c[w.parent][e] = x

LEMMA RedParentSees ==
    ASSUME NEW T \in SUBSET Nodes, NEW c \in Memory, NEW up \in Ups, NEW red \in SUBSET Nodes,
           NEW h \in Heights, NEW x \in Links, NEW t \in Sides, Inserting(T, c, up, red, h, x, t),
           RedLink(w.parent)
    PROVE  RedParent(T, c, up, red, x)
<1> PICK p : p = w.parent
    OBVIOUS
<1>1. NULL \notin Nodes /\ NULL \notin T /\ NULL \notin red /\ p # NULL /\ p = up[x] /\ Linked(T, c, up)
      /\ Balanced(T, c, red, h, x, NULL, t) /\ x \in T /\ \A n \in T : n \in red <=> IsRed(n)
    BY NodeAssumption DEF Inserting, RedLink
<1>2. /\ p \in T /\ p \in red /\ p # x /\ \E e \in Sides : c[p][e] = x
    BY <1>1 DEF Linked, RedLink
<1> PICK g : g = Gparent
    OBVIOUS
<1>3. g = up[p]
    BY <1>2 DEF Inserting, Gparent
<1>4. PICK e \in Sides : c[g][e] = p
    BY <1>2, <1>1, <1>3 DEF Linked
<1>5. g \in T /\ g \notin red
    <2>1. g \in T \cup {NULL}
        BY <1>1, <1>2, <1>3 DEF Linked
    <2>2. ~(g \in red \/ g = NULL)
        BY <1>1, <1>2, <1>4, <2>1 DEF Balanced
    <2> QED BY <2>1, <2>2
<1>6. \A i \in Sides : child[g][i] = c[g][i]
    BY <1>5, HeldAre DEF Inserting
<1>7. ParentSide \in Sides /\ c[g][ParentSide] = p
    BY <1>4, <1>6 DEF ParentSide, Sides
<1>8. Uncle = c[g][Other(ParentSide)]
    BY <1>6, <1>7, SidesAre DEF Uncle
<1>9. Uncle \in T \cup {NULL}
    BY <1>1, <1>5, <1>7, <1>8, SidesAre DEF Linked
<1>10. RedLink(Uncle) <=> Uncle \in red
    BY <1>1, <1>9, RedLinks
<1> QED BY <1>2, <1>3, <1>5, <1>7, <1>8, <1>9, <1>10 DEF RedParent

LEMMA HeldShown ==
    ASSUME NEW T \in SUBSET Nodes, NEW c, Held(T, c), child' = child, root' = root, todo' = <<>>
    PROVE  /\ Shown(T, c)' /\ todo' \in Seq(Puts)
           /\ Aimed(T)'
<1>1. Stores' = {}
    BY DEF Stores
<1>2. \A m \in T \cup {NULL}, s \in Sides : Real(m, s)' = Real(m, s)
    BY DEF Real
<1> QED BY <1>1, <1>2 DEF Shown, Held, Aimed

LEMMA InsertEndKeeps == TreeInv /\ InsertEnd => TreeInv'
<1> SUFFICES ASSUME TreeInv, InsertEnd PROVE TreeInv'
    OBVIOUS
<1>1. /\ w.op.kind = "insert" /\ todo = <<>> /\ Typed /\ Settled /\ w.pc = "insert"
      /\ \E T \in SUBSET Nodes, c \in Memory, up \in Ups, red \in SUBSET Nodes, h \in Heights,
            x \in Links, t \in Sides : Inserting(T, c, up, red, h, x, t)
    BY InsertSees DEF InsertEnd, At
<1>2. PICK T \in SUBSET Nodes, c \in Memory, up \in Ups, red \in SUBSET Nodes, h \in Heights,
           x \in Links, t \in Sides : Inserting(T, c, up, red, h, x, t)
    BY <1>1
<1>3. /\ T = Members /\ Linked(T, c, up) /\ Balanced(T, c, red, h, x, NULL, t)
      /\ Held(T, c) /\ \A n \in T : up[n] = word[n].up /\ (n \in red <=> IsRed(n))
      /\ x = w.node /\ x \in T /\ x \in red /\ w.parent = up[x]
    BY <1>2 DEF Inserting
<1>4. Turn /\ Done /\ todo' = <<>> /\ child' = child /\ root' = root /\ ~RedLink(w.parent)
      /\ word' = IF w.parent = NULL THEN SetParentColor(word, w.node, NULL, "black") ELSE word
    BY <1>1 DEF InsertEnd, Turn
<1>5. w'.pc = "done" /\ w'.op = w.op /\ w' \in Writers
    BY <1>1, <1>4, DoneIs
<1>6. /\ Shown(T, c)' /\ todo' \in Seq(Puts)
      /\ Aimed(T)'
    BY <1>3, <1>4, HeldShown
<1>7. NULL \in Links /\ NULL \notin Nodes
    BY NodeAssumption DEF Links
<1>8. ASSUME NEW r \in SUBSET Nodes, NEW h2 \in Heights, Balanced(T, c, r, h2, NULL, NULL, t),
             word' \in Words, \A n \in T : up[n] = word'[n].up /\ (n \in r <=> word'[n].color = "red")
      PROVE  TreeInv'
    <2>1. Typed' /\ Settled' /\ Members' = Members
        BY <1>1, <1>3, <1>4, <1>5, <1>6, <1>8, TurnKeeps
    <2>2. Worded(T, c, up, r, t)' /\ Standing(T, c, up, r, NULL, NULL, t)'
        BY <1>5, <1>8 DEF Worded, Standing, Lifting, IsRed
    <2>3. Fits(T, c, up, r, h2, NULL, NULL, t)'
        BY <1>3, <1>6, <1>8, <2>1, <2>2 DEF Fits
    <2> QED BY <1>7, <2>1, <2>3 DEF TreeInv
<1>9. CASE w.parent = NULL
    <2> PICK r : r = red \ {x}
        OBVIOUS
    <2> PICK h2 : h2 = [h EXCEPT ![x] = h[x] + 1]
        OBVIOUS
    <2>1. r \in SUBSET Nodes /\ h2 \in Heights
        BY DEF Heights
    <2>2. Balanced(T, c, r, h2, NULL, NULL, t)
        BY <1>3, <1>9, <2>1, RootBalanced
    <2>3. /\ word' \in Words
          /\ \A m \in Nodes : word'[m] = IF m = x THEN [up |-> NULL, color |-> "black"] ELSE word[m]
        <3>1. word' = SetParentColor(word, x, NULL, "black") /\ word \in Words /\ "black" \in Colors
            BY <1>1, <1>3, <1>4, <1>9 DEF Typed, Colors
        <3> QED BY <1>7, <3>1, SetParentColorIs
    <2>4. ASSUME NEW n \in T
          PROVE  up[n] = word'[n].up /\ (n \in r <=> word'[n].color = "red")
        <3>1. CASE n = x
            <4>1. word'[n] = [up |-> NULL, color |-> "black"] /\ up[n] = NULL /\ n \notin r
                BY <1>3, <1>9, <2>3, <3>1
            <4> QED BY <4>1
        <3>2. CASE n # x
            <4>1. word'[n] = word[n] /\ (n \in r <=> n \in red)
                BY <2>3, <3>2
            <4> QED BY <1>3, <4>1 DEF IsRed
        <3> QED BY <3>1, <3>2
    <2> QED BY <1>8, <2>1, <2>2, <2>3, <2>4
<1>10. CASE w.parent # NULL
    <2>1. up[x] # NULL /\ up[x] \notin red
        BY <1>3, <1>4, <1>10 DEF RedLink, Linked
    <2>2. Balanced(T, c, red, h, NULL, NULL, t)
        BY <1>3, <2>1, BlackParentBalanced
    <2>3. word' = word /\ word \in Words
        BY <1>1, <1>4, <1>10 DEF Typed
    <2> QED BY <1>3, <1>8, <2>2, <2>3 DEF IsRed
<1> QED BY <1>9, <1>10

LEMMA InsertFlipKeeps == TreeInv /\ InsertFlip => TreeInv'
<1> SUFFICES ASSUME TreeInv, InsertFlip PROVE TreeInv'
    OBVIOUS
<1>1. /\ w.op.kind = "insert" /\ todo = <<>> /\ Typed /\ Settled /\ w.pc = "insert"
      /\ \E T \in SUBSET Nodes, c \in Memory, up \in Ups, red \in SUBSET Nodes, h \in Heights,
            x \in Links, t \in Sides : Inserting(T, c, up, red, h, x, t)
    BY InsertSees DEF InsertFlip, At
<1>2. PICK T \in SUBSET Nodes, c \in Memory, up \in Ups, red \in SUBSET Nodes, h \in Heights,
           x \in Links, t \in Sides : Inserting(T, c, up, red, h, x, t)
    BY <1>1
<1>3. /\ T = Members /\ Linked(T, c, up) /\ Balanced(T, c, red, h, x, NULL, t)
      /\ Held(T, c) /\ \A n \in T : up[n] = word[n].up /\ (n \in red <=> IsRed(n))
      /\ x = w.node /\ x \in T /\ x \in red /\ w.parent = up[x]
    BY <1>2 DEF Inserting
<1> PICK p : p = w.parent
    OBVIOUS
<1> PICK g : g = Gparent
    OBVIOUS
<1> PICK u : u = Uncle
    OBVIOUS
<1> PICK k : k = ParentSide
    OBVIOUS
<1>4. /\ p \in T /\ p \in red /\ p = up[x] /\ g = up[p] /\ g \in T /\ g \notin red /\ k \in Sides
      /\ c[g][k] = p /\ u = c[g][Other(k)] /\ u \in T \cup {NULL} /\ u \in red
    <2>1. RedLink(w.parent) /\ RedLink(Uncle)
        BY DEF InsertFlip
    <2>2. RedParent(T, c, up, red, x)
        BY <1>2, <2>1, RedParentSees
    <2> QED BY <1>3, <2>1, <2>2 DEF RedParent
<1>5. /\ Turn /\ todo' = <<>> /\ child' = child /\ root' = root
      /\ word' = [word EXCEPT ![u] = [up |-> g, color |-> "black"],
                              ![p] = [up |-> g, color |-> "black"], ![g].color = "red"]
      /\ w' = [w EXCEPT !.node = g, !.parent = word[g].up]
    BY <1>1 DEF InsertFlip, Turn
<1>6. NULL \notin Nodes /\ NULL \notin T /\ NULL \in Links /\ u \in T /\ g # p /\ u # g /\ u # p
      /\ up[u] = g /\ g # NULL
    BY <1>3, <1>4, NodeAssumption, SidesAre DEF Links, Linked, Sides
<1>7. /\ Shown(T, c)' /\ todo' \in Seq(Puts)
      /\ Aimed(T)'
    BY <1>3, <1>5, HeldShown
<1> PICK r : r = (red \ {p, u}) \cup {g}
    OBVIOUS
<1> PICK h2 : h2 = [h EXCEPT ![p] = h[p] + 1, ![u] = h[u] + 1]
    OBVIOUS
<1>8. r \in SUBSET Nodes /\ h2 \in Heights
    BY <1>6, <1>4 DEF Heights, Links
<1>9. Balanced(T, c, r, h2, g, NULL, t)
    <2>1. \A m \in T : m \in r <=> m = g \/ (m \in red /\ m \notin {p, u})
        BY <1>4, <1>6
    <2>2. Flipped(T, c, up, red, h, r, h2, x, p, g, u, k)
        BY <1>4, <1>6, <2>1 DEF Flipped
    <2> QED BY <1>3, <1>8, <2>2, FlipBalanced
<1>10. /\ word' \in Words
       /\ \A n \in T : /\ up[n] = word'[n].up
                       /\ n \in r <=> word'[n].color = "red"
    <2>1. word \in Words /\ g \in Nodes /\ u \in Nodes /\ p \in Nodes /\ g \in Links
        BY <1>1, <1>4, <1>6 DEF Typed, Links
    <2>2. /\ word' \in Words
          /\ \A m \in Nodes : word'[m] = IF m \in {p, u} THEN [up |-> g, color |-> "black"]
                                         ELSE IF m = g THEN [up |-> word[g].up, color |-> "red"]
                                         ELSE word[m]
        BY <1>5, <1>6, <2>1 DEF Words, Colors
    <2>3. ASSUME NEW n \in T
          PROVE  up[n] = word'[n].up /\ (n \in r <=> word'[n].color = "red")
        <3>1. CASE n \in {p, u}
            <4>1. word'[n] = [up |-> g, color |-> "black"] /\ up[n] = g /\ n \notin r
                BY <1>4, <1>6, <2>2, <3>1
            <4> QED BY <4>1
        <3>2. CASE n = g
            <4>1. word'[n] = [up |-> word[g].up, color |-> "red"] /\ up[n] = word[g].up /\ n \in r
                BY <1>3, <1>4, <1>6, <2>2, <3>2, Zenon
            <4> QED BY <4>1
        <3>3. CASE n \notin {p, u, g}
            <4>1. word'[n] = word[n] /\ (n \in r <=> n \in red)
                BY <2>2, <3>3
            <4> QED BY <1>3, <4>1 DEF IsRed
        <3> QED BY <3>1, <3>2, <3>3
    <2> QED BY <2>2, <2>3
<1>11. w'.pc = "insert" /\ w'.op = w.op /\ w' \in Writers /\ w'.node = g /\ w'.parent = up[g]
    <2>1. w \in Writers /\ g \in Links /\ word[g].up \in Links /\ word[g].up = up[g]
        BY <1>1, <1>3, <1>4, <1>6 DEF Typed, Links, Words
    <2> QED BY <1>1, <1>5, <2>1 DEF Writers
<1>12. Typed' /\ Settled' /\ Members' = Members
    BY <1>1, <1>3, <1>5, <1>7, <1>10, <1>11, TurnKeeps
<1>13. Worded(T, c, up, r, t)' /\ Standing(T, c, up, r, g, NULL, t)'
    BY <1>4, <1>10, <1>11 DEF Worded, Standing, Lifting, IsRed
<1>14. Fits(T, c, up, r, h2, g, NULL, t)'
    BY <1>3, <1>7, <1>9, <1>12, <1>13 DEF Fits
<1> QED BY <1>4, <1>6, <1>8, <1>12, <1>14 DEF TreeInv, Links

\* Case 2 of an insertion as a rotation.
LEMMA InsertInnerDoes ==
    ASSUME Typed, w.pc = "insert", w.op.kind = "insert",
           NEW T \in SUBSET Nodes, NEW c \in Memory, NEW up \in Ups, NEW red \in SUBSET Nodes,
           NEW h \in Heights, NEW x \in Links, NEW t \in Sides, Inserting(T, c, up, red, h, x, t),
           InsertInner, NEW s, s = ParentSide
    PROVE  \E d \in Memory : Raised(T, c, up, d, w.parent, x, Other(s), s)
<1>3. /\ T = Members /\ Linked(T, c, up) /\ Balanced(T, c, red, h, x, NULL, t)
      /\ Held(T, c) /\ \A n \in T : up[n] = word[n].up /\ (n \in red <=> IsRed(n))
      /\ x = w.node /\ x \in T /\ x \in red /\ w.parent = up[x]
    BY DEF Inserting
<1> PICK p : p = w.parent
    OBVIOUS
<1> PICK g : g = Gparent
    OBVIOUS
<1> PICK o : o = Other(s)
    OBVIOUS
<1> PICK b : b = c[x][s]
    OBVIOUS
<1>4. /\ p \in T /\ p \in red /\ p = up[x] /\ g = up[p] /\ g \in T /\ g \notin red /\ s \in Sides
      /\ c[g][s] = p /\ c[g][o] \notin red
    <2>1. RedLink(w.parent) /\ ~RedLink(Uncle)
        BY DEF InsertInner, BlackUncle
    <2>2. RedParent(T, c, up, red, x)
        BY <2>1, RedParentSees
    <2> QED BY <1>3, <2>1, <2>2 DEF RedParent
<1>5. NULL \notin Nodes /\ NULL \notin T /\ NULL \in Links /\ o \in Sides /\ o # s /\ Other(o) = s
    BY <1>4, NodeAssumption, SidesAre DEF Links
<1>6. \A m \in T, e \in Sides : child[m][e] = c[m][e]
    <2>1. Held(T, c)
        BY <1>3
    <2> QED BY <2>1, HeldAre
<1>a. Linked(T, c, up) /\ Balanced(T, c, red, h, x, NULL, t) /\ p \in T /\ o \in Sides
    BY <1>3, <1>4, <1>5
<1>b. child[p][Other(s)] = c[p][o] /\ child[x][s] = b /\ child[x][Other(o)] = b /\ w.node = x
    BY <1>3, <1>4, <1>5, <1>6
<1>7. /\ Turn /\ x = c[p][o] /\ todo' = Rotation(p, x, o)
      /\ word' = SetParentColor(SetParentColor(word, b, p, "black"), p, x, "red")
      /\ w' = [w EXCEPT !.pc = "outer", !.parent = x, !.gparent = g, !.side = s]
      /\ child' = child /\ root' = root
    BY <1>b DEF InsertInner, Turn
<1>8. x # g
    <2>1. c[p][o] # NULL
        BY <1>3, <1>5, <1>7
    <2>2. c[p][o] # up[p]
        <3>1. NoTwoCycle(T, c, up)
            BY <1>a, NotAbove
        <3> QED BY <1>a, <2>1, <3>1 DEF NoTwoCycle
    <2> QED BY <1>4, <1>7, <2>2, Zenon
<1>9. Around(T, c, up, p, o, s)
    BY <1>3, <1>4, <1>5, <1>7, <1>8, Zenon DEF Around
<1>10. PICK d \in Memory : Rotated(T, c, d, p, o, g, s)
    BY <1>3, <1>4, <1>5, <1>7, RotatedExists, Zenon
<1>11. Apart(T, c, p, x, b, g, o, s, s)
    BY <1>4, <1>5, <1>7, <1>9, AroundIs, Zenon
<1>12. \A m \in T \cup {NULL}, e \in Sides :
         d[m][e] = IF m = p /\ e = o THEN b ELSE IF m = x /\ e = s THEN p
                   ELSE IF m = g /\ e = s THEN x ELSE c[m][e]
    BY <1>5, <1>7, <1>10 DEF Rotated
<1>17. w'.pc = "outer" /\ w'.op = w.op /\ w' \in Writers /\ w'.parent = x /\ w'.gparent = g
       /\ w'.side = s
    <2>1. w \in Writers /\ g \in Links
        BY <1>4 DEF Typed, Links
    <2> QED BY <1>4, <1>7, <2>1, Zenon DEF Writers, Places
<1>18. Lifting("insert")' /\ ~Lifting("erase")'
    BY <1>17 DEF Lifting
<1>19. /\ todo' \in Seq(Puts) /\ Stores' = {Put(p, o, b), Put(x, s, p)}
       /\ Put(p, o, b).at = p /\ Put(p, o, b).side = o /\ Put(p, o, b).to = b
       /\ Put(x, s, p).at = x /\ Put(x, s, p).side = s /\ Put(x, s, p).to = p
    <2>1. todo' = <<Put(p, o, b), Put(x, s, p)>>
        BY <1>5, <1>7, <1>b DEF Rotation
    <2>2. p \in Links /\ x \in Links /\ b \in Links
        BY <1>4, <1>11 DEF Apart, Links
    <2> DEFINE i == Put(p, o, b)
               j == Put(x, s, p)
    <2>3. i \in Puts /\ j \in Puts
        BY <1>4, <1>5, <2>2, PutsAre
    <2> HIDE DEF i, j
    <2>4. todo' = <<i, j>>
        BY <2>1 DEF i, j
    <2>5. todo' \in Seq(Puts) /\ Stores' = {i, j}
        BY <2>3, <2>4, TwoStores DEF Stores
    <2> QED BY <1>4, <1>5, <2>2, <2>5, PutsAre DEF i, j
<1>20. Shown(T, d)'
    <2>1. \A m \in T \cup {NULL}, e \in Sides : Real(m, e)' = Real(m, e)
        BY <1>7 DEF Real
    <2>2. ASSUME NEW m \in T \cup {NULL}, NEW e \in Sides, ~(m = g /\ e = s)
          PROVE  /\ \A st \in Stores' : st.at = m /\ st.side = e => d[m][e] = st.to
                 /\ (\A st \in Stores' : ~(st.at = m /\ st.side = e)) => d[m][e] = Real(m, e)
        <3>1. c[m][e] = Real(m, e)
            BY <1>3 DEF Held
        <3>2. p # x
            BY <1>11 DEF Apart
        <3> QED BY <1>12, <1>19, <2>2, <3>1, <3>2
    <2> QED BY <1>17, <1>18, <2>1, <2>2 DEF Shown
<1>21. Aimed(T)'
    <2>1. b \in T \cup {NULL} /\ p \in T /\ x \in T
        BY <1>3, <1>4, <1>11 DEF Apart
    <2> QED BY <1>5, <1>19, <2>1 DEF Aimed
<1> QED BY <1>4, <1>7, <1>9, <1>10, <1>19, <1>20, <1>21 DEF Raised

LEMMA InsertInnerKeeps == TreeInv /\ InsertInner => TreeInv'
<1> SUFFICES ASSUME TreeInv, InsertInner PROVE TreeInv'
    OBVIOUS
<1>1. /\ w.op.kind = "insert" /\ todo = <<>> /\ Typed /\ Settled /\ w.pc = "insert"
      /\ \E T \in SUBSET Nodes, c \in Memory, up \in Ups, red \in SUBSET Nodes, h \in Heights,
            x \in Links, t \in Sides : Inserting(T, c, up, red, h, x, t)
    BY InsertSees DEF InsertInner, BlackUncle, At
<1>2. PICK T \in SUBSET Nodes, c \in Memory, up \in Ups, red \in SUBSET Nodes, h \in Heights,
           x \in Links, t \in Sides : Inserting(T, c, up, red, h, x, t)
    BY <1>1
<1>3. /\ T = Members /\ Linked(T, c, up) /\ Balanced(T, c, red, h, x, NULL, t)
      /\ Held(T, c) /\ \A n \in T : up[n] = word[n].up /\ (n \in red <=> IsRed(n))
      /\ x = w.node /\ x \in T /\ x \in red /\ w.parent = up[x]
    BY <1>2 DEF Inserting
<1> PICK p : p = w.parent
    OBVIOUS
<1> PICK g : g = Gparent
    OBVIOUS
<1> PICK s : s = ParentSide
    OBVIOUS
<1> PICK o : o = Other(s)
    OBVIOUS
<1> PICK b : b = c[x][s]
    OBVIOUS
<1>4. /\ p \in T /\ p \in red /\ p = up[x] /\ g = up[p] /\ g \in T /\ g \notin red /\ s \in Sides
      /\ c[g][s] = p /\ c[g][o] \notin red
    <2>1. RedLink(w.parent) /\ ~RedLink(Uncle)
        BY DEF InsertInner, BlackUncle
    <2>2. RedParent(T, c, up, red, x)
        BY <1>2, <2>1, RedParentSees
    <2> QED BY <1>3, <2>1, <2>2 DEF RedParent
<1>5. NULL \notin Nodes /\ NULL \notin T /\ NULL \in Links /\ o \in Sides /\ o # s /\ Other(o) = s
    BY <1>4, NodeAssumption, SidesAre DEF Links
<1>6. \A m \in T, e \in Sides : child[m][e] = c[m][e]
    BY <1>3, HeldAre
<1>a. Linked(T, c, up) /\ Balanced(T, c, red, h, x, NULL, t) /\ p \in T /\ o \in Sides
    BY <1>3, <1>4, <1>5
<1>b. child[p][Other(s)] = c[p][o] /\ child[x][s] = b /\ child[x][Other(o)] = b /\ w.node = x
    BY <1>3, <1>4, <1>5, <1>6
<1>7. /\ Turn /\ x = c[p][o] /\ todo' = Rotation(p, x, o)
      /\ word' = SetParentColor(SetParentColor(word, b, p, "black"), p, x, "red")
      /\ w' = [w EXCEPT !.pc = "outer", !.parent = x, !.gparent = g, !.side = s]
      /\ child' = child /\ root' = root
    BY <1>b DEF InsertInner, Turn
<1>8. x # g
    <2>1. c[p][o] # NULL
        BY <1>3, <1>5, <1>7
    <2>2. c[p][o] # up[p]
        <3>1. NoTwoCycle(T, c, up)
            BY <1>a, NotAbove
        <3> QED BY <1>a, <2>1, <3>1 DEF NoTwoCycle
    <2> QED BY <1>4, <1>7, <2>2, Zenon
<1>10. PICK d \in Memory : Raised(T, c, up, d, p, x, o, s)
    <2>1. InsertInner /\ w.pc = "insert" /\ w.op.kind = "insert" /\ Typed
        BY <1>1
    <2> QED BY <1>2, <2>1, InsertInnerDoes
<1>9. /\ Around(T, c, up, p, o, s) /\ Rotated(T, c, d, p, o, g, s)
      /\ Shown(T, d)' /\ todo' \in Seq(Puts)
      /\ Aimed(T)'
    BY <1>4, <1>10 DEF Raised
<1>11. Apart(T, c, p, x, b, g, o, s, s)
    BY <1>4, <1>5, <1>7, <1>9, AroundIs, Zenon
<1>12. \A m \in T \cup {NULL}, e \in Sides :
         d[m][e] = IF m = p /\ e = o THEN b ELSE IF m = x /\ e = s THEN p
                   ELSE IF m = g /\ e = s THEN x ELSE c[m][e]
    BY <1>5, <1>7, <1>9 DEF Rotated
<1> PICK vp : vp = [n \in Nodes |-> IF n = x THEN g ELSE IF n = p THEN x
                                   ELSE IF n = b THEN p ELSE up[n]]
    OBVIOUS
<1>13. vp \in Ups
    BY <1>3, <1>4 DEF Ups, Links
<1>14. Turned(T, c, up, vp, p, o)
    BY <1>4, <1>5, <1>7, Zenon DEF Turned
<1>15. Linked(T, d, vp)
    BY <1>4, <1>9, <1>13, <1>14, RotationLinked
<1>16. Balanced(T, d, red, h, p, NULL, t)
    <2>1. Balanced(T, c, red, h, c[p][o], NULL, t) /\ c[p][o] \in red
        BY <1>3, <1>7
    <2>2. Rotated(T, c, d, p, o, up[p], s)
        BY <1>4, <1>9
    <2> QED BY <1>4, <1>9, <2>1, <2>2, InnerBalanced
<1>17. w'.pc = "outer" /\ w'.op = w.op /\ w' \in Writers /\ w'.parent = x /\ w'.gparent = g
       /\ w'.side = s
    <2>1. w \in Writers /\ g \in Links
        BY <1>1, <1>4 DEF Typed, Links
    <2> QED BY <1>4, <1>7, <2>1, Zenon DEF Writers, Places
<1>18. Lifting("insert")' /\ ~Lifting("erase")'
    BY <1>1, <1>17 DEF Lifting
<1>22. /\ word' \in Words
       /\ \A n \in T : /\ vp[n] = IF n = x THEN g ELSE word'[n].up
                       /\ n \in red <=> word'[n].color = "red"
    <2>1. /\ word \in Words /\ b \in Links /\ p \in Links /\ x \in Links /\ p \in Nodes
          /\ "black" \in Colors /\ "red" \in Colors
        BY <1>1, <1>4, <1>11 DEF Typed, Links, Colors, Apart
    <2>2. /\ word' \in Words
          /\ \A m \in Nodes : word'[m] = IF m = p THEN [up |-> x, color |-> "red"]
                                         ELSE IF m = b THEN [up |-> p, color |-> "black"] ELSE word[m]
        <3> PICK words : words = SetParentColor(word, b, p, "black")
            OBVIOUS
        <3>1. /\ words \in Words
              /\ \A m \in Nodes : words[m] = IF m = b THEN [up |-> p, color |-> "black"] ELSE word[m]
            BY <2>1, SetParentColorIs
        <3>2. word' = SetParentColor(words, p, x, "red")
            BY <1>7
        <3>3. /\ word' \in Words
              /\ \A m \in Nodes : word'[m] = IF m = p THEN [up |-> x, color |-> "red"] ELSE words[m]
            BY <2>1, <3>1, <3>2, SetParentColorIs
        <3> QED BY <3>1, <3>3
    <2>3. b \notin red
        <3>1. b \in red => b = x
            BY <1>3, <1>4 DEF Balanced
        <3> QED BY <1>11, <3>1 DEF Apart
    <2>4. ASSUME NEW n \in T
          PROVE  vp[n] = (IF n = x THEN g ELSE word'[n].up) /\ (n \in red <=> word'[n].color = "red")
        <3>1. p # x /\ b # x /\ b # p
            BY <1>11 DEF Apart
        <3>2. CASE n = p
            <4>1. word'[n] = [up |-> x, color |-> "red"] /\ vp[n] = x
                BY <2>2, <3>1, <3>2
            <4> QED BY <1>4, <3>1, <3>2, <4>1
        <3>3. CASE n = b
            <4>1. word'[n] = [up |-> p, color |-> "black"] /\ vp[n] = p
                BY <2>2, <3>1, <3>3
            <4> QED BY <2>3, <3>1, <3>3, <4>1
        <3>4. CASE n \notin {p, b}
            <4>1. word'[n] = word[n] /\ vp[n] = IF n = x THEN g ELSE up[n]
                BY <2>2, <3>4
            <4> QED BY <1>3, <4>1 DEF IsRed
        <3> QED BY <3>2, <3>3, <3>4
    <2> QED BY <2>2, <2>4
<1>23. Typed' /\ Settled' /\ Members' = Members
    BY <1>1, <1>3, <1>7, <1>9, <1>17, <1>22, TurnKeeps, Zenon
<1>24. Worded(T, d, vp, red, t)'
    BY <1>17, <1>18, <1>22 DEF Worded, IsRed
<1>25. Standing(T, d, vp, red, p, NULL, t)'
    <2>1. d[x][s] = p /\ d[g][s] = x /\ d[g][o] = c[g][o]
        BY <1>3, <1>4, <1>5, <1>8, <1>11, <1>12 DEF Apart
    <2> QED BY <1>3, <1>4, <1>17, <1>18, <2>1 DEF Standing
<1>26. Fits(T, d, vp, red, h, p, NULL, t)'
    BY <1>3, <1>9, <1>15, <1>16, <1>23, <1>24, <1>25 DEF Fits
<1> QED BY <1>4, <1>5, <1>13, <1>23, <1>26 DEF TreeInv, Links

\* What case 3 of an insertion finds, after case 2 or at once.
LEMMA InsertOuterSees ==
    ASSUME TreeInv, InsertOuter
    PROVE  /\ Turn /\ Typed /\ Settled /\ todo = <<>> /\ w.pc \in {"insert", "outer"}
           /\ \E T \in SUBSET Nodes, c \in Memory, up \in Ups, red \in SUBSET Nodes, h \in Heights,
                 x \in Links, t \in Sides, g \in Nodes, p \in Nodes, s \in Sides :
                /\ TwoRed(T, c, up, red, h, x, t, g, p, s) /\ InsertLift(g, p, s)
                /\ Shown(T, c) /\ (Lifting("insert") => c[w.gparent][w.side] = w.parent)
<1>0. Turn /\ Typed /\ Settled
    BY DEF InsertOuter, TreeInv
<1>1. CASE At("outer") /\ w.op.kind = "insert" /\ InsertLift(w.gparent, w.parent, w.side)
    <2>1. PICK T \in SUBSET Nodes, c \in Memory, up \in Ups, red \in SUBSET Nodes, h \in Heights,
               x \in Links, y \in Links, t \in Sides : Fits(T, c, up, red, h, x, y, t)
        BY DEF TreeInv
    <2> PICK g : g = w.gparent
        OBVIOUS
    <2> PICK p : p = w.parent
        OBVIOUS
    <2> PICK s : s = w.side
        OBVIOUS
    <2>2. todo = <<>> /\ w.pc = "outer" /\ Lifting("insert") /\ ~Lifting("erase") /\ Stores = {}
        BY <1>1 DEF At, Lifting, Stores
    <2>3. /\ y = NULL /\ T = Members /\ Linked(T, c, up) /\ Balanced(T, c, red, h, x, NULL, t)
          /\ g \in T /\ p \in T /\ p = c[g][s] /\ p \in red /\ g \notin red
          /\ x = c[p][s] /\ c[g][Other(s)] \notin red
        BY <2>1, <2>2 DEF Fits, Standing
    <2>4. s \in Sides
        BY <1>0 DEF Typed, Writers
    <2>5. \A n \in T : (n # p => up[n] = word[n].up) /\ (n \in red <=> IsRed(n))
        BY <2>1, <2>2 DEF Fits, Worded
    <2>6. HeldBut(T, c, g, s)
        BY <2>1, <2>2 DEF Fits, Shown, HeldBut
    <2>7. InsertLift(g, p, s)
        BY <1>1
    <2>8. TwoRed(T, c, up, red, h, x, t, g, p, s)
        BY <2>3, <2>4, <2>5, <2>6 DEF TwoRed
    <2>9. Shown(T, c) /\ c[w.gparent][w.side] = w.parent
        BY <2>1, <2>3 DEF Fits
    <2>10. g \in Nodes /\ p \in Nodes
        BY <2>3
    <2> QED BY <1>0, <2>2, <2>4, <2>7, <2>8, <2>9, <2>10
<1>2. CASE /\ BlackUncle
           /\ w.node # child[w.parent][Other(ParentSide)]
           /\ InsertLift(Gparent, w.parent, ParentSide)
    <2>1. /\ w.op.kind = "insert" /\ todo = <<>> /\ w.pc = "insert"
          /\ \E T \in SUBSET Nodes, c \in Memory, up \in Ups, red \in SUBSET Nodes, h \in Heights,
                x \in Links, t \in Sides : Inserting(T, c, up, red, h, x, t)
        BY <1>2, InsertSees DEF BlackUncle, At
    <2>2. PICK T \in SUBSET Nodes, c \in Memory, up \in Ups, red \in SUBSET Nodes, h \in Heights,
               x \in Links, t \in Sides : Inserting(T, c, up, red, h, x, t)
        BY <2>1
    <2>3. /\ T = Members /\ Linked(T, c, up) /\ Balanced(T, c, red, h, x, NULL, t)
          /\ Held(T, c) /\ \A n \in T : up[n] = word[n].up /\ (n \in red <=> IsRed(n))
          /\ x = w.node /\ x \in T /\ x \in red /\ w.parent = up[x]
        BY <2>2 DEF Inserting
    <2> PICK p : p = w.parent
        OBVIOUS
    <2> PICK g : g = Gparent
        OBVIOUS
    <2> PICK s : s = ParentSide
        OBVIOUS
    <2>4. RedLink(w.parent) /\ ~RedLink(Uncle)
        BY <1>2 DEF BlackUncle
    <2>5. RedParent(T, c, up, red, x)
        BY <2>2, <2>4, RedParentSees
    <2>6. /\ p \in T /\ p \in red /\ g \in T /\ g \notin red /\ s \in Sides /\ p = c[g][s]
          /\ c[g][Other(s)] \notin red
        BY <2>4, <2>5 DEF RedParent
    <2>7. x = c[p][s]
        <3>1. child[p][Other(s)] = c[p][Other(s)]
            BY <2>3, <2>6, HeldAre, SidesAre
        <3> QED BY <1>2, <2>3, <2>5, <2>6, <3>1, SidesAre DEF RedParent
    <2>8. InsertLift(g, p, s)
        BY <1>2
    <2>9. HeldBut(T, c, g, s)
        BY <2>3 DEF Held, HeldBut
    <2>10. TwoRed(T, c, up, red, h, x, t, g, p, s)
        BY <2>3, <2>6, <2>7, <2>9 DEF TwoRed
    <2>11. Shown(T, c) /\ ~Lifting("insert")
        <3>1. Stores = {}
            BY <2>1 DEF Stores
        <3> QED BY <2>1, <2>3, <3>1 DEF Shown, Held, Lifting
    <2>12. g \in Nodes /\ p \in Nodes
        BY <2>6
    <2> QED BY <1>0, <2>1, <2>6, <2>8, <2>10, <2>11, <2>12
<1> QED BY <1>1, <1>2 DEF InsertOuter

LEMMA InsertOuterKeeps == TreeInv /\ InsertOuter => TreeInv'
BY InsertOuterSees, InsertLiftKeeps

-----------------------------------------------------------------------------
(* The turns of ____rb_erase_color.                                        *)

\* What ____rb_erase_color knows at the head of its loop, words left out.
Lacking(T, c, up, red, h, y, t) ==
    /\ T = Members /\ Linked(T, c, up) /\ Balanced(T, c, red, h, NULL, y, t)
    /\ Held(T, c) /\ y = w.parent /\ y \in T /\ c[y][t] = w.node /\ w.node \notin red

\* The sibling is an element, since a black one is missing on the short side.
Short(T, c, y, t) ==
    /\ ShortSide = t /\ Sibling = c[y][Other(t)] /\ Sibling \in T
    /\ Near = c[Sibling][t] /\ Near \in T \cup {NULL}
    /\ Far = c[Sibling][Other(t)] /\ Far \in T \cup {NULL}

LEMMA ShortSees ==
    ASSUME NEW T \in SUBSET Nodes, NEW c \in Memory, NEW up \in Ups, NEW red \in SUBSET Nodes,
           NEW h \in Heights, NEW y \in Links, NEW t \in Sides, Lacking(T, c, up, red, h, y, t)
    PROVE  Short(T, c, y, t)
<1> PICK o : o = Other(t)
    OBVIOUS
<1> PICK q : q = c[y][o]
    OBVIOUS
<1>1. /\ Linked(T, c, up) /\ Balanced(T, c, red, h, NULL, y, t) /\ Held(T, c) /\ y = w.parent /\ y \in T
      /\ c[y][t] = w.node
    BY DEF Lacking
<1>2. NULL \notin T /\ o \in Sides /\ o # t
    BY NodeAssumption, SidesAre
<1>3. q \in T
    <2>1. h[y] = h[c[y][t]] + Weight(red, y) + 1 /\ h[y] = h[q] + Weight(red, y) + 0 /\ h[NULL] = 0
        BY <1>1, <1>2 DEF Balanced, Lack
    <2>2. Weight(red, y) \in Nat
        BY DEF Weight
    <2>3. h[c[y][t]] \in Nat /\ h[y] \in Nat
        BY <1>1 DEF Memory, Heights, Links
    <2>4. q \in Links
        BY <1>1, <1>2 DEF Memory, Links
    <2>5. h[q] \in Nat
        BY <2>4 DEF Heights
    <2>6. h[q] # 0
        BY <2>1, <2>2, <2>3, <2>5
    <2>7. q # NULL
        BY <2>1, <2>6
    <2> QED BY <1>1, <1>2, <2>7 DEF Linked
<1>4. \A m \in T, s \in Sides : child[m][s] = c[m][s]
    BY <1>1, HeldAre
<1>5. ShortSide = t
    <2>1. c[y]["left"] # c[y]["right"]
        <3>1. c[y]["left"] = c[y]["right"] => c[y]["left"] = NULL
            BY <1>1 DEF Linked
        <3> QED BY <1>2, <1>3, <3>1 DEF Sides
    <2>2. child[y]["right"] = c[y]["right"] /\ child[y]["left"] = c[y]["left"]
        BY <1>1, <1>4 DEF Sides
    <2> QED BY <1>1, <2>1, <2>2 DEF ShortSide, Sides
<1>6. Sibling = q
    BY <1>1, <1>2, <1>4, <1>5 DEF Sibling
<1>7. Near = c[q][t] /\ Far = c[q][o]
    BY <1>2, <1>3, <1>4, <1>5, <1>6 DEF Near, Far
<1>8. c[q][t] \in T \cup {NULL} /\ c[q][o] \in T \cup {NULL}
    BY <1>1, <1>2, <1>3 DEF Linked
<1> QED BY <1>3, <1>5, <1>6, <1>7, <1>8 DEF Short

\* What lifting the sibling q above y does.
LiftDone(T, c, up, d, y, q, o, k, words, color) ==
    /\ Around(T, c, up, y, o, k) /\ Rotated(T, c, d, y, o, up[y], k)
    /\ Shown(T, d)' /\ todo' \in Seq(Puts)
    /\ Aimed(T)'
    /\ word' \in Words
    /\ \A m \in Nodes : word'[m] = IF m = y THEN [up |-> q, color |-> color]
                                   ELSE IF m = q THEN words[y] ELSE words[m]

LEMMA EraseLiftDoes ==
    ASSUME NEW T \in SUBSET Nodes, NEW c \in Memory, NEW up \in Ups, NEW red \in SUBSET Nodes,
           NEW h \in Heights, NEW y \in Links, NEW t \in Sides, Lacking(T, c, up, red, h, y, t),
           NEW words \in Words, NEW color \in Colors, EraseLift(words, color), Turn,
           NEW q, q = Sibling, NEW o, o = Other(t), up[y] = word[y].up
    PROVE  \E k \in Sides, d \in Memory : LiftDone(T, c, up, d, y, q, o, k, words, color)
<1> PICK b : b = c[q][t]
    OBVIOUS
<1> PICK g : g = up[y]
    OBVIOUS
<1>1. /\ Linked(T, c, up) /\ Balanced(T, c, red, h, NULL, y, t) /\ Held(T, c) /\ y = w.parent /\ y \in T
    BY DEF Lacking
<1>2. NULL \notin T /\ NULL \notin Nodes /\ o \in Sides /\ o # t /\ Other(o) = t
    BY NodeAssumption, SidesAre
<1>3. ShortSide = t /\ q = c[y][o] /\ q \in T
    BY ShortSees DEF Short
<1>4. \A m \in T, s \in Sides : child[m][s] = c[m][s]
    BY <1>1, HeldAre
<1>5. g \in T \cup {NULL}
    BY <1>1 DEF Linked
<1>6. g # NULL => \A e \in Sides : child[g][e] = c[g][e]
    BY <1>4, <1>5
<1>7. PICK k \in Sides : c[g][k] = y /\ ChangeChild(y, q, g) = Put(g, k, q) /\ (g = NULL => k = "left")
    BY <1>1, <1>3, <1>6, ChangeChildIs DEF Links
<1>8. q # g
    <2>1. NoTwoCycle(T, c, up)
        BY <1>1, NotAbove
    <2>2. c[y][o] # NULL /\ y \in T
        BY <1>1, <1>2, <1>3
    <2> QED BY <1>2, <1>3, <2>1, <2>2 DEF NoTwoCycle
<1>9. Around(T, c, up, y, o, k)
    BY <1>1, <1>2, <1>3, <1>7, <1>8 DEF Around
<1>10. PICK d \in Memory : Rotated(T, c, d, y, o, g, k)
    BY <1>1, <1>2, <1>3, <1>5, RotatedExists
<1>11. Apart(T, c, y, q, b, g, o, t, k)
    BY <1>2, <1>3, <1>9, AroundIs
<1>12. todo' = <<Put(y, o, b), Put(q, t, y)>> \o <<Put(g, k, q)>>
    <2>1. child[q][t] = b
        BY <1>3, <1>4
    <2>2. Rotation(y, q, o) = <<Put(y, o, b), Put(q, t, y)>>
        BY <1>2, <2>1 DEF Rotation
    <2>3. todo' = Rotation(y, q, o) \o <<Put(g, k, q)>>
        BY <1>1, <1>3, <1>7 DEF EraseLift
    <2> QED BY <2>2, <2>3
<1>13. child' = child /\ root' = root
    BY DEF Turn
<1>14. HeldBut(T, c, y, o)
    BY <1>1 DEF Held, HeldBut
<1>15. /\ Shown(T, d)' /\ todo' \in Seq(Puts)
       /\ Aimed(T)'
    BY <1>2, <1>7, <1>10, <1>11, <1>12, <1>13, <1>14, RotationShown
<1>16. word' = RotateSetParents(words, y, q, color)
    BY <1>1 DEF EraseLift
<1>17. y \in Nodes /\ q \in Nodes /\ y # q
    BY <1>1, <1>3, <1>11 DEF Apart
<1>18. /\ word' \in Words
       /\ \A m \in Nodes : word'[m] = IF m = y THEN [up |-> q, color |-> color]
                                      ELSE IF m = q THEN words[y] ELSE words[m]
    BY <1>16, <1>17, RotateSetParentsIs
<1>19. LiftDone(T, c, up, d, y, q, o, k, words, color)
    BY <1>9, <1>10, <1>15, <1>18 DEF LiftDone
<1> QED BY <1>19

\* What ____rb_erase_color knows at the head of its loop.
Erasing(T, c, up, red, h, y, t) ==
    /\ Lacking(T, c, up, red, h, y, t)
    /\ \A n \in T : up[n] = word[n].up /\ (n \in red <=> IsRed(n))

LEMMA EraseSees ==
    ASSUME TreeInv, At("erase")
    PROVE  /\ w.op.kind = "erase" /\ w.pc = "erase" /\ todo = <<>> /\ Typed /\ Settled
           /\ \E T \in SUBSET Nodes, c \in Memory, up \in Ups, red \in SUBSET Nodes, h \in Heights,
                 y \in Links, t \in Sides : Erasing(T, c, up, red, h, y, t)
<1>1. PICK T \in SUBSET Nodes, c \in Memory, up \in Ups, red \in SUBSET Nodes, h \in Heights,
           x \in Links, y \in Links, t \in Sides : Fits(T, c, up, red, h, x, y, t)
    BY DEF TreeInv
<1>2. w.pc = "erase" /\ todo = <<>> /\ Typed /\ Settled /\ ~Lifting("insert") /\ ~Lifting("erase")
    BY DEF At, TreeInv, Lifting
<1>3. Held(T, c)
    BY <1>1, <1>2, TurnSees DEF Fits
<1>4. Erasing(T, c, up, red, h, y, t)
    BY <1>1, <1>2, <1>3 DEF Erasing, Lacking, Fits, Worded, Standing
<1> QED BY <1>2, <1>4 DEF Settled

\* A child is not its own parent.
LEMMA NoSelf ==
    ASSUME NEW T \in SUBSET Nodes, NEW c \in Memory, NEW up \in Ups, Linked(T, c, up)
    PROVE  \A m \in T, e \in Sides : c[m][e] # m
BY NodeAssumption DEF Linked

LEMMA EraseRedSiblingKeeps == TreeInv /\ EraseRedSibling => TreeInv'
<1> SUFFICES ASSUME TreeInv, EraseRedSibling PROVE TreeInv'
    OBVIOUS
<1>1. /\ w.op.kind = "erase" /\ todo = <<>> /\ Typed /\ Settled /\ w.pc = "erase"
      /\ \E T \in SUBSET Nodes, c \in Memory, up \in Ups, red \in SUBSET Nodes, h \in Heights,
            y \in Links, t \in Sides : Erasing(T, c, up, red, h, y, t)
    BY EraseSees DEF EraseRedSibling, At
<1>2. PICK T \in SUBSET Nodes, c \in Memory, up \in Ups, red \in SUBSET Nodes, h \in Heights,
           y \in Links, t \in Sides : Erasing(T, c, up, red, h, y, t)
    BY <1>1
<1>3. /\ Lacking(T, c, up, red, h, y, t) /\ \A n \in T : up[n] = word[n].up /\ (n \in red <=> IsRed(n))
    BY <1>2 DEF Erasing
<1>4. /\ T = Members /\ Linked(T, c, up) /\ Balanced(T, c, red, h, NULL, y, t)
      /\ Held(T, c) /\ y = w.parent /\ y \in T /\ c[y][t] = w.node /\ w.node \notin red
    BY <1>3 DEF Lacking
<1> PICK q : q = Sibling
    OBVIOUS
<1> PICK o : o = Other(t)
    OBVIOUS
<1> PICK b : b = Near
    OBVIOUS
<1> PICK g : g = up[y]
    OBVIOUS
<1> PICK words : words = [word EXCEPT ![b] = [up |-> y, color |-> "black"]]
    OBVIOUS
<1>5. NULL \notin T /\ NULL \notin Nodes /\ o \in Sides /\ o # t /\ Other(o) = t
    BY NodeAssumption, SidesAre
<1>6. q = c[y][o] /\ q \in T /\ b = c[q][t] /\ b \in T \cup {NULL}
    <2>1. Short(T, c, y, t)
        BY <1>3, ShortSees
    <2> QED BY <2>1 DEF Short
<1>7. q \in red
    BY <1>3, <1>6 DEF EraseRedSibling
<1>8. y \notin red /\ b \notin red
    BY <1>4, <1>5, <1>6, <1>7 DEF Balanced
<1>9. b \in T
    <2>1. h[y] = h[c[y][t]] + Weight(red, y) + 1 /\ h[y] = h[q] + Weight(red, y) + 0
        BY <1>4, <1>5, <1>6 DEF Balanced, Lack
    <2>2. h[q] = h[b] + 0 + 0 /\ h[NULL] = 0
        <3>1. q # y
            BY <1>4, <1>5, <1>6, NoSelf
        <3> QED BY <1>4, <1>6, <1>7, <3>1 DEF Balanced, Weight, Lack
    <2>3. Weight(red, y) \in Nat
        BY DEF Weight
    <2>4. h[c[y][t]] \in Nat /\ h[q] \in Nat /\ h[b] \in Nat
        BY <1>4, <1>6 DEF Memory, Heights, Links
    <2>5. h[q] # 0
        BY <2>1, <2>3, <2>4
    <2>6. h[b] # 0
        BY <2>2, <2>4, <2>5
    <2> QED BY <1>6, <2>2, <2>6
<1>10. words \in Words /\ "red" \in Colors
    <2>1. word \in Words /\ y \in Links
        BY <1>1 DEF Typed
    <2> QED BY <1>9, <2>1 DEF Words, Colors
<1>11. Turn /\ w' = w /\ EraseLift(words, "red")
    BY <1>4 DEF EraseRedSibling
<1>12. PICK k \in Sides, d \in Memory : LiftDone(T, c, up, d, y, q, o, k, words, "red")
    <2>1. up[y] = word[y].up
        BY <1>3, <1>4
    <2> QED BY <1>3, <1>10, <1>11, <2>1, EraseLiftDoes
<1>13. /\ Around(T, c, up, y, o, k) /\ Rotated(T, c, d, y, o, up[y], k)
       /\ Shown(T, d)' /\ todo' \in Seq(Puts)
       /\ Aimed(T)'
       /\ word' \in Words
       /\ \A m \in Nodes : word'[m] = IF m = y THEN [up |-> q, color |-> "red"]
                                      ELSE IF m = q THEN words[y] ELSE words[m]
    BY <1>12 DEF LiftDone
<1>14. Apart(T, c, y, q, b, g, o, t, k)
    BY <1>5, <1>6, <1>13, AroundIs
<1> PICK r : r = (red \ {q}) \cup {y}
    OBVIOUS
<1> PICK vp : vp = [n \in Nodes |-> IF n = q THEN g ELSE IF n = y THEN q
                                   ELSE IF n = b THEN y ELSE up[n]]
    OBVIOUS
<1> PICK h2 : h2 = [h EXCEPT ![y] = h[q], ![q] = h[y]]
    OBVIOUS
<1>15. r \in SUBSET Nodes /\ vp \in Ups /\ h2 \in Heights
    BY <1>4, <1>6, <1>14, Zenon DEF Ups, Heights, Links, Apart
<1>16. Linked(T, d, vp)
    <2>1. Turned(T, c, up, vp, y, o)
        BY <1>5, <1>6 DEF Turned
    <2> QED BY <1>13, <1>15, <2>1, RotationLinked
<1>17. Balanced(T, d, r, h2, NULL, y, t)
    <2>1. Exchanged(c, red, h, r, h2, y, o, NULL, y, t)
        BY <1>4, <1>5, <1>6, <1>7, <1>8, NoSelf DEF Exchanged
    <2> QED BY <1>4, <1>13, <1>15, <2>1, LiftBalanced
<1>18. ASSUME NEW n \in T
       PROVE  word'[n].up = vp[n] /\ (word'[n].color = "red" <=> n \in r)
    <2>1. /\ word \in Words /\ b # y /\ b # q /\ y # q /\ n \in Nodes
          /\ word[y].up = g /\ word[y].color # "red" /\ (n \in red <=> word[n].color = "red")
        BY <1>1, <1>3, <1>4, <1>8, <1>14 DEF Typed, Apart, IsRed
    <2>2. \A m \in Nodes : words[m] = IF m = b THEN [up |-> y, color |-> "black"] ELSE word[m]
        BY <2>1 DEF Words
    <2>3. CASE n = y
        <3>1. word'[n] = [up |-> q, color |-> "red"] /\ vp[n] = q /\ n \in r
            BY <1>13, <2>1, <2>3
        <3> QED BY <3>1
    <2>4. CASE n = q
        <3>1. word'[n] = word[y] /\ vp[n] = g /\ n \notin r
            BY <1>4, <1>13, <2>1, <2>2, <2>4
        <3> QED BY <2>1, <3>1
    <2>5. CASE n = b
        <3>1. word'[n] = [up |-> y, color |-> "black"] /\ vp[n] = y /\ n \notin r
            BY <1>8, <1>13, <2>1, <2>2, <2>5
        <3> QED BY <3>1
    <2>6. CASE n \notin {y, q, b}
        <3>1. word'[n] = word[n] /\ vp[n] = up[n] /\ (n \in r <=> n \in red)
            BY <1>13, <2>1, <2>2, <2>6
        <3> QED BY <1>3, <2>1, <3>1
    <2> QED BY <2>3, <2>4, <2>5, <2>6
<1>19. w'.pc = "erase" /\ w'.op = w.op /\ w' \in Writers
    BY <1>1, <1>11 DEF Typed
<1>20. Typed' /\ Settled' /\ Members' = Members
    BY <1>1, <1>4, <1>11, <1>13, <1>19, TurnKeeps
<1>21. Worded(T, d, vp, r, t)'
    BY <1>18, <1>19 DEF Worded, Lifting, IsRed
<1>22. Standing(T, d, vp, r, NULL, y, t)'
    <2>1. d[y][t] = c[y][t]
        BY <1>4, <1>5, <1>6, <1>13, <1>14 DEF Rotated, Apart
    <2>2. c[y][t] # y
        BY <1>4, NoSelf
    <2> QED BY <1>4, <1>11, <1>19, <2>1, <2>2 DEF Standing, Lifting
<1>23. Fits(T, d, vp, r, h2, NULL, y, t)'
    BY <1>4, <1>13, <1>16, <1>17, <1>20, <1>21, <1>22 DEF Fits
<1>24. NULL \in Links
    BY DEF Links
<1> QED BY <1>15, <1>20, <1>23, <1>24 DEF TreeInv

LEMMA EraseFlipKeeps == TreeInv /\ EraseFlip => TreeInv'
<1> SUFFICES ASSUME TreeInv, EraseFlip PROVE TreeInv'
    OBVIOUS
<1>1. /\ w.op.kind = "erase" /\ todo = <<>> /\ Typed /\ Settled /\ w.pc = "erase"
      /\ \E T \in SUBSET Nodes, c \in Memory, up \in Ups, red \in SUBSET Nodes, h \in Heights,
            y \in Links, t \in Sides : Erasing(T, c, up, red, h, y, t)
    BY EraseSees DEF EraseFlip, BlackSibling, At
<1>2. PICK T \in SUBSET Nodes, c \in Memory, up \in Ups, red \in SUBSET Nodes, h \in Heights,
           y \in Links, t \in Sides : Erasing(T, c, up, red, h, y, t)
    BY <1>1
<1>3. /\ Lacking(T, c, up, red, h, y, t) /\ \A n \in T : up[n] = word[n].up /\ (n \in red <=> IsRed(n))
    BY <1>2 DEF Erasing
<1>4. /\ T = Members /\ Linked(T, c, up) /\ Balanced(T, c, red, h, NULL, y, t)
      /\ Held(T, c) /\ y = w.parent /\ y \in T /\ c[y][t] = w.node /\ w.node \notin red
    BY <1>3 DEF Lacking
<1> PICK q : q = Sibling
    OBVIOUS
<1> PICK o : o = Other(t)
    OBVIOUS
<1>5. NULL \notin T /\ NULL \notin Nodes /\ NULL \in Links /\ o \in Sides /\ o # t /\ Other(o) = t
    BY NodeAssumption, SidesAre DEF Links
<1>6. /\ q = c[y][o] /\ q \in T /\ Near = c[q][t] /\ Far = c[q][o]
      /\ Near \in T \cup {NULL} /\ Far \in T \cup {NULL}
    <2>1. Short(T, c, y, t)
        BY <1>3, ShortSees
    <2> QED BY <2>1 DEF Short
<1>7. q \notin red /\ q # y /\ up[q] = y
    BY <1>3, <1>4, <1>5, <1>6, NoSelf DEF EraseFlip, BlackSibling, Linked
<1>8. \A e \in Sides : c[q][e] \notin red
    <2>1. Near \notin red /\ Far \notin red
        <3>1. ~RedLink(Near) /\ ~RedLink(Far)
            BY DEF EraseFlip
        <3> QED BY <1>3, <1>6, <3>1, RedLinks
    <2> QED BY <1>6, <2>1, SidesAre
<1> PICK r : r = (red \ {y}) \cup {q}
    OBVIOUS
<1> PICK h2 : h2 = [h EXCEPT ![q] = h[q] - 1, ![y] = IF y \in red THEN h[y] ELSE h[y] - 1]
    OBVIOUS
<1>9. r \in SUBSET Nodes /\ h2 \in Heights
    <2>1. h[q] = h[c[q][t]] + 1 + 0
        BY <1>4, <1>6, <1>7 DEF Balanced, Weight, Lack
    <2>2. h[y] = h[q] + Weight(red, y) + 0
        BY <1>4, <1>5, <1>6 DEF Balanced, Lack
    <2>3. Weight(red, y) \in Nat
        BY DEF Weight
    <2>4. h[q] \in Nat /\ h[y] \in Nat /\ h[c[q][t]] \in Nat
        BY <1>4, <1>6 DEF Memory, Heights, Links
    <2>5. h[q] - 1 \in Nat /\ h[y] - 1 \in Nat
        BY <2>1, <2>2, <2>3, <2>4
    <2>6. h2 \in Heights
        BY <2>4, <2>5 DEF Heights
    <2> QED BY <1>6, <2>6
<1>10. PICK k \in Sides : c[up[y]][k] = y
    BY <1>4 DEF Linked
<1>11. Paled(T, c, red, h, r, h2, y, o, q)
    BY <1>4, <1>5, <1>6, <1>7, <1>8 DEF Paled
<1>12. /\ y \in red \/ up[y] = NULL => \A i : Balanced(T, c, r, h2, NULL, NULL, i)
       /\ y \notin red => Balanced(T, c, r, h2, NULL, up[y], k)
    <2>1. PassedOn(T, c, up, red, r, h2, y, k)
        BY <1>4, <1>5, <1>9, <1>10, <1>11, PaleBalanced
    <2> QED BY <2>1 DEF PassedOn
<1> PICK flipped : flipped = [word EXCEPT ![q] = [up |-> y, color |-> "red"]]
    OBVIOUS
<1>13. /\ Turn /\ todo' = <<>> /\ child' = child /\ root' = root
       /\ IsRed(y) => word' = [flipped EXCEPT ![y].color = "black"] /\ Done
       /\ ~IsRed(y) => word' = flipped
       /\ ~IsRed(y) /\ word[y].up = NULL => Done
       /\ ~IsRed(y) /\ word[y].up # NULL => w' = [w EXCEPT !.node = y, !.parent = word[y].up]
    BY <1>1, <1>4 DEF EraseFlip, Turn
<1>14. /\ Shown(T, c)' /\ todo' \in Seq(Puts)
       /\ Aimed(T)'
    BY <1>4, <1>13, HeldShown
<1>15. flipped \in Words /\ y \in Nodes /\ q \in Nodes /\ word \in Words
       /\ \A n \in Nodes : flipped[n] = IF n = q THEN [up |-> y, color |-> "red"] ELSE word[n]
    BY <1>1, <1>4, <1>6 DEF Typed, Words, Colors
<1>16. /\ word' \in Words
       /\ \A n \in T : up[n] = word'[n].up /\ (n \in r <=> word'[n].color = "red")
    <2>1. ASSUME NEW n \in T, n # y
          PROVE  up[n] = flipped[n].up /\ (n \in r <=> flipped[n].color = "red")
        <3>1. CASE n = q
            <4>1. flipped[n] = [up |-> y, color |-> "red"]
                BY <1>15, <3>1
            <4> QED BY <1>7, <3>1, <4>1
        <3>2. CASE n # q
            <4>1. flipped[n] = word[n]
                BY <1>15, <3>2
            <4> QED BY <1>3, <2>1, <3>2, <4>1 DEF IsRed
        <3> QED BY <3>1, <3>2
    <2>2. y \notin r /\ flipped[y] = word[y] /\ word[y].up = up[y]
        BY <1>3, <1>4, <1>7, <1>15
    <2>3. CASE IsRed(y)
        <3>1. /\ word' \in Words
              /\ \A n \in Nodes : word'[n] = IF n = y THEN [up |-> flipped[y].up, color |-> "black"]
                                             ELSE flipped[n]
            BY <1>13, <1>15, <2>3 DEF Words, Colors
        <3>2. word'[y] = [up |-> up[y], color |-> "black"]
            BY <1>15, <2>2, <3>1
        <3> QED BY <2>1, <2>2, <3>1, <3>2
    <2>4. CASE ~IsRed(y)
        <3>1. word' = flipped
            BY <1>13, <2>4
        <3> QED BY <1>15, <2>1, <2>2, <2>4, <3>1 DEF IsRed
    <2> QED BY <2>3, <2>4
<1>17. IsRed(y) <=> y \in red
    BY <1>3, <1>4
<1>18. word[y].up = up[y]
    BY <1>3, <1>4
<1>19. CASE y \in red \/ up[y] = NULL
    <2>1. Done
        BY <1>13, <1>17, <1>18, <1>19
    <2>2. w'.pc = "done" /\ w'.op = w.op /\ w' \in Writers
        BY <1>1, <2>1, DoneIs
    <2>3. Typed' /\ Settled' /\ Members' = Members
        BY <1>1, <1>4, <1>13, <1>14, <1>16, <2>2, TurnKeeps
    <2>4. Worded(T, c, up, r, t)' /\ Standing(T, c, up, r, NULL, NULL, t)'
        BY <1>16, <2>2 DEF Worded, Standing, Lifting, IsRed
    <2>5. Balanced(T, c, r, h2, NULL, NULL, t)
        BY <1>12, <1>19
    <2>6. Fits(T, c, up, r, h2, NULL, NULL, t)'
        BY <1>4, <1>14, <2>3, <2>4, <2>5 DEF Fits
    <2> QED BY <1>5, <1>9, <2>3, <2>6 DEF TreeInv
<1>20. CASE y \notin red /\ up[y] # NULL
    <2>1. w' = [w EXCEPT !.node = y, !.parent = up[y]]
        BY <1>13, <1>17, <1>18, <1>20
    <2>2. up[y] \in T
        BY <1>4, <1>20 DEF Linked
    <2>3. w'.pc = "erase" /\ w'.op = w.op /\ w' \in Writers /\ w'.node = y /\ w'.parent = up[y]
        <3>1. w \in Writers /\ up[y] \in Links
            BY <1>1, <2>2 DEF Typed, Links
        <3> QED BY <1>1, <2>1, <3>1 DEF Writers
    <2>4. Typed' /\ Settled' /\ Members' = Members
        BY <1>1, <1>4, <1>13, <1>14, <1>16, <2>3, TurnKeeps
    <2>5. Worded(T, c, up, r, k)'
        BY <1>16, <2>3 DEF Worded, Lifting, IsRed
    <2>6. Standing(T, c, up, r, NULL, up[y], k)'
        BY <1>7, <1>10, <1>20, <2>2, <2>3 DEF Standing, Lifting
    <2>7. Fits(T, c, up, r, h2, NULL, up[y], k)'
        BY <1>4, <1>12, <1>14, <1>20, <2>4, <2>5, <2>6 DEF Fits
    <2> QED BY <1>5, <1>9, <2>2, <2>4, <2>7 DEF TreeInv, Links
<1> QED BY <1>19, <1>20

LEMMA EraseInnerDoes ==
    ASSUME NEW T \in SUBSET Nodes, NEW c \in Memory, NEW up \in Ups, NEW red \in SUBSET Nodes,
           NEW h \in Heights, NEW y \in Links, NEW t \in Sides, Erasing(T, c, up, red, h, y, t),
           EraseInner, NEW o, o = Other(t)
    PROVE  \E d \in Memory : Raised(T, c, up, d, Sibling, Near, t, o)
<1>3. /\ Lacking(T, c, up, red, h, y, t) /\ \A n \in T : up[n] = word[n].up /\ (n \in red <=> IsRed(n))
    BY DEF Erasing
<1>4. /\ T = Members /\ Linked(T, c, up) /\ Balanced(T, c, red, h, NULL, y, t)
      /\ Held(T, c) /\ y = w.parent /\ y \in T /\ c[y][t] = w.node /\ w.node \notin red
    BY <1>3 DEF Lacking
<1> PICK p : p = Sibling
    OBVIOUS
<1> PICK q : q = Near
    OBVIOUS
<1> PICK b : b = c[q][o]
    OBVIOUS
<1>5. NULL \notin T /\ NULL \notin Nodes /\ NULL \in Links /\ o \in Sides /\ o # t /\ Other(o) = t
    BY NodeAssumption, SidesAre DEF Links
<1>6. /\ p = c[y][o] /\ p \in T /\ q = c[p][t] /\ Far = c[p][o] /\ ShortSide = t
      /\ q \in T \cup {NULL} /\ Far \in T \cup {NULL}
    <2>1. Short(T, c, y, t)
        BY <1>3, ShortSees
    <2> QED BY <2>1 DEF Short
<1>7. p \notin red /\ p # y /\ up[p] = y
    <2>1. ~IsRed(p)
        BY DEF EraseInner, BlackSibling
    <2>2. p # y
        BY <1>4, <1>5, <1>6, NoSelf
    <2>3. up[p] = y
        BY <1>4, <1>5, <1>6 DEF Linked
    <2> QED BY <1>3, <1>6, <2>1, <2>2, <2>3
<1>8. q \in red /\ q \in T /\ c[p][o] \notin red
    <2>1. RedLink(q) /\ ~RedLink(Far)
        BY DEF EraseInner
    <2>2. q \in red /\ Far \notin red
        BY <1>3, <1>6, <2>1, RedLinks
    <2> QED BY <1>5, <1>6, <2>2 DEF RedLink
<1>9. child' = child /\ root' = root /\ Turn
      /\ todo' = Rotation(p, q, t) \o <<Put(y, o, q)>>
      /\ word' = SetParentColor(word, child[q][o], p, "black")
      /\ w' = [w EXCEPT !.pc = "outer"]
    BY <1>4, <1>6, Zenon DEF EraseInner, Turn
<1>10. \A m \in T, e \in Sides : child[m][e] = c[m][e]
    <2>1. Held(T, c)
        BY <1>4
    <2> QED BY <2>1, HeldAre
<1>11. y # q
    <2>1. NoTwoCycle(T, c, up)
        BY <1>4, NotAbove
    <2> QED BY <1>5, <1>6, <1>7, <1>8, <2>1 DEF NoTwoCycle
<1>12. Around(T, c, up, p, t, o)
    BY <1>4, <1>5, <1>6, <1>7, <1>8, <1>11 DEF Around
<1>13. PICK d \in Memory : Rotated(T, c, d, p, t, y, o)
    BY <1>4, <1>5, <1>6, <1>8, RotatedExists
<1>14. Apart(T, c, p, q, b, y, t, o, o)
    BY <1>5, <1>6, <1>7, <1>12, AroundIs
<1>15. /\ Shown(T, d)' /\ todo' \in Seq(Puts)
       /\ Aimed(T)'
    <2>1. Rotation(p, q, t) = <<Put(p, t, b), Put(q, o, p)>>
        BY <1>5, <1>8, <1>10 DEF Rotation
    <2>2. todo' = <<Put(p, t, b), Put(q, o, p)>> \o <<Put(y, o, q)>>
        BY <1>9, <2>1
    <2>3. HeldBut(T, c, p, t)
        BY <1>4 DEF Held, HeldBut
    <2>4. y = NULL => o = "left"
        BY <1>4, <1>5
    <2>5. child' = child /\ root' = root
        BY <1>9
    <2> QED BY <1>13, <1>14, <2>2, <2>3, <2>4, <2>5, RotationShown
<1> QED BY <1>6, <1>7, <1>12, <1>13, <1>15 DEF Raised

LEMMA EraseInnerKeeps == TreeInv /\ EraseInner => TreeInv'
<1> SUFFICES ASSUME TreeInv, EraseInner PROVE TreeInv'
    OBVIOUS
<1>1. /\ w.op.kind = "erase" /\ todo = <<>> /\ Typed /\ Settled /\ w.pc = "erase"
      /\ \E T \in SUBSET Nodes, c \in Memory, up \in Ups, red \in SUBSET Nodes, h \in Heights,
            y \in Links, t \in Sides : Erasing(T, c, up, red, h, y, t)
    BY EraseSees DEF EraseInner, BlackSibling, At
<1>2. PICK T \in SUBSET Nodes, c \in Memory, up \in Ups, red \in SUBSET Nodes, h \in Heights,
           y \in Links, t \in Sides : Erasing(T, c, up, red, h, y, t)
    BY <1>1
<1>3. /\ Lacking(T, c, up, red, h, y, t) /\ \A n \in T : up[n] = word[n].up /\ (n \in red <=> IsRed(n))
    BY <1>2 DEF Erasing
<1>4. /\ T = Members /\ Linked(T, c, up) /\ Balanced(T, c, red, h, NULL, y, t)
      /\ Held(T, c) /\ y = w.parent /\ y \in T /\ c[y][t] = w.node /\ w.node \notin red
    BY <1>3 DEF Lacking
<1> PICK p : p = Sibling
    OBVIOUS
<1> PICK o : o = Other(t)
    OBVIOUS
<1> PICK q : q = Near
    OBVIOUS
<1> PICK b : b = c[q][o]
    OBVIOUS
<1>5. NULL \notin T /\ NULL \notin Nodes /\ NULL \in Links /\ o \in Sides /\ o # t /\ Other(o) = t
    BY NodeAssumption, SidesAre DEF Links
<1>6. /\ p = c[y][o] /\ p \in T /\ q = c[p][t] /\ Far = c[p][o] /\ ShortSide = t
      /\ q \in T \cup {NULL} /\ Far \in T \cup {NULL}
    <2>1. Short(T, c, y, t)
        BY <1>3, ShortSees
    <2> QED BY <2>1 DEF Short
<1>7. p \notin red /\ p # y /\ up[p] = y
    <2>1. ~IsRed(p)
        BY DEF EraseInner, BlackSibling
    <2>2. p # y
        BY <1>4, <1>5, <1>6, NoSelf
    <2>3. up[p] = y
        BY <1>4, <1>5, <1>6 DEF Linked
    <2> QED BY <1>3, <1>6, <2>1, <2>2, <2>3
<1>8. q \in red /\ q \in T /\ c[p][o] \notin red
    <2>1. RedLink(q) /\ ~RedLink(Far)
        BY DEF EraseInner
    <2>2. q \in red /\ Far \notin red
        BY <1>3, <1>6, <2>1, RedLinks
    <2> QED BY <1>5, <1>6, <2>2 DEF RedLink
<1>9. child' = child /\ root' = root /\ Turn
      /\ todo' = Rotation(p, q, t) \o <<Put(y, o, q)>>
      /\ word' = SetParentColor(word, child[q][o], p, "black")
      /\ w' = [w EXCEPT !.pc = "outer"]
    BY <1>4, <1>6, Zenon DEF EraseInner, Turn
<1>10. \A m \in T, e \in Sides : child[m][e] = c[m][e]
    <2>1. Held(T, c)
        BY <1>4
    <2> QED BY <2>1, HeldAre
<1>11. y # q
    <2>1. NoTwoCycle(T, c, up)
        BY <1>4, NotAbove
    <2> QED BY <1>5, <1>6, <1>7, <1>8, <2>1 DEF NoTwoCycle
<1>12. Around(T, c, up, p, t, o)
    BY <1>4, <1>5, <1>6, <1>7, <1>8, <1>11 DEF Around
<1>13. PICK d \in Memory : Raised(T, c, up, d, p, q, t, o)
    <2>1. EraseInner
        OBVIOUS
    <2> QED BY <1>2, <2>1, EraseInnerDoes
<1>14. Apart(T, c, p, q, b, y, t, o, o)
    BY <1>5, <1>6, <1>7, <1>12, AroundIs
<1>15. /\ Rotated(T, c, d, p, t, y, o)
       /\ Shown(T, d)' /\ todo' \in Seq(Puts)
       /\ Aimed(T)'
    BY <1>7, <1>13 DEF Raised
<1> PICK r : r = (red \ {q}) \cup {p}
    OBVIOUS
<1> PICK vp : vp = [n \in Nodes |-> IF n = q THEN y ELSE IF n = p THEN q
                                   ELSE IF n = b THEN p ELSE up[n]]
    OBVIOUS
<1> PICK h2 : h2 = [h EXCEPT ![p] = h[q], ![q] = h[p]]
    BY Zenon
<1>16. r \in SUBSET Nodes /\ vp \in Ups /\ h2 \in Heights
    BY <1>4, <1>6, <1>8, Zenon DEF Ups, Heights, Links
<1>17. Linked(T, d, vp)
    <2>1. Turned(T, c, up, vp, p, t)
        BY <1>5, <1>6, <1>7 DEF Turned
    <2>2. Rotated(T, c, d, p, t, up[p], o)
        BY <1>7, <1>15
    <2> QED BY <1>12, <1>16, <2>1, <2>2, RotationLinked
<1>18. Balanced(T, d, r, h2, NULL, y, t)
    <2>1. Exchanged(c, red, h, r, h2, p, t, NULL, y, t)
        BY <1>5, <1>6, <1>7, <1>8, <1>11 DEF Exchanged
    <2>2. Rotated(T, c, d, p, t, up[p], o)
        BY <1>7, <1>15
    <2> QED BY <1>4, <1>12, <1>16, <2>1, <2>2, LiftBalanced
<1>19. /\ p # q /\ b # p /\ b # q /\ b \in T \cup {NULL}
    BY <1>14 DEF Apart
<1>20. b \notin red
    BY <1>4, <1>5, <1>8 DEF Balanced
<1>21. /\ word' \in Words
       /\ \A n \in Nodes : word'[n] = IF n = b THEN [up |-> p, color |-> "black"] ELSE word[n]
    <2>1. word \in Words /\ b \in Links /\ p \in Links /\ "black" \in Colors
        BY <1>1, <1>6, <1>19 DEF Typed, Links, Colors
    <2>2. word' = SetParentColor(word, b, p, "black")
        BY <1>5, <1>8, <1>9, <1>10
    <2> QED BY <2>1, <2>2, SetParentColorIs
<1>22. w'.pc = "outer" /\ w'.op = w.op /\ w' \in Writers /\ w'.parent = y /\ w'.node = w.node
    BY <1>1, <1>4, <1>9 DEF Typed, Writers, Places
<1>23. Lifting("erase")' /\ ~Lifting("insert")'
    BY <1>1, <1>22 DEF Lifting
<1>24. Typed' /\ Settled' /\ Members' = Members
    BY <1>1, <1>4, <1>9, <1>15, <1>21, <1>22, TurnKeeps
<1>25. d[y][o] = q /\ d[q][o] = p /\ d[y][t] = c[y][t]
    BY <1>4, <1>5, <1>6, <1>7, <1>8, <1>11, <1>15, <1>19, Zenon DEF Rotated
<1>26. ASSUME NEW n \in T
       PROVE  /\ vp[n] = IF n = q THEN y ELSE IF n = p THEN q ELSE word'[n].up
              /\ n \in r <=> n = p \/ (word'[n].color = "red" /\ n # q)
    <2>1. CASE n = b
        <3>1. word'[n] = [up |-> p, color |-> "black"] /\ vp[n] = p /\ n \notin r
            BY <1>19, <1>20, <1>21, <2>1
        <3> QED BY <1>19, <2>1, <3>1
    <2>2. CASE n # b
        <3>1. word'[n] = word[n]
            BY <1>21, <2>2
        <3> QED BY <1>3, <1>19, <2>2, <3>1 DEF IsRed
    <2> QED BY <2>1, <2>2
<1>27. Worded(T, d, vp, r, t)'
    BY <1>22, <1>23, <1>25, <1>26 DEF Worded, IsRed
<1>28. Standing(T, d, vp, r, NULL, y, t)'
    <2>1. w.node # p
        <3>1. c[y]["left"] = c[y]["right"] => c[y]["left"] = NULL
            BY <1>4 DEF Linked
        <3> QED BY <1>4, <1>5, <1>6, <3>1 DEF Sides
    <2>2. w.node \notin r /\ q \notin r /\ p \in r
        BY <1>4, <1>19, <2>1
    <2> QED BY <1>4, <1>6, <1>8, <1>22, <1>23, <1>25, <2>2, Zenon DEF Standing
<1>29. Fits(T, d, vp, r, h2, NULL, y, t)'
    BY <1>4, <1>15, <1>17, <1>18, <1>24, <1>27, <1>28 DEF Fits
<1> QED BY <1>5, <1>16, <1>24, <1>29 DEF TreeInv

\* What case 4 of an erasure finds: its words may lag behind at the sibling and the far nephew.
FarRed(T, c, up, red, h, y, t) ==
    /\ Lacking(T, c, up, red, h, y, t) /\ Sibling \notin red /\ Far \in red
    /\ \A n \in T : n \notin {Sibling, Far} => up[n] = word[n].up /\ (n \in red <=> IsRed(n))

LEMMA FarRedSees ==
    ASSUME TreeInv, EraseOuter
    PROVE  /\ Typed /\ Settled /\ w.pc # "idle" /\ todo = <<>>
           /\ \E T \in SUBSET Nodes, c \in Memory, up \in Ups, red \in SUBSET Nodes, h \in Heights,
                 y \in Links, t \in Sides : FarRed(T, c, up, red, h, y, t)
<1>1. CASE BlackSibling /\ RedLink(Far)
    <2>1. /\ Typed /\ Settled /\ w.pc = "erase" /\ todo = <<>>
          /\ \E T \in SUBSET Nodes, c \in Memory, up \in Ups, red \in SUBSET Nodes, h \in Heights,
                y \in Links, t \in Sides : Erasing(T, c, up, red, h, y, t)
        BY <1>1, EraseSees DEF BlackSibling
    <2>2. PICK T \in SUBSET Nodes, c \in Memory, up \in Ups, red \in SUBSET Nodes, h \in Heights,
               y \in Links, t \in Sides : Erasing(T, c, up, red, h, y, t)
        BY <2>1
    <2>3. /\ Lacking(T, c, up, red, h, y, t)
          /\ \A n \in T : up[n] = word[n].up /\ (n \in red <=> IsRed(n))
        BY <2>2 DEF Erasing
    <2>4. Sibling \in T /\ Far \in T \cup {NULL}
        <3>1. Short(T, c, y, t)
            BY <2>3, ShortSees
        <3> QED BY <3>1 DEF Short
    <2>5. Sibling \notin red /\ Far \in red
        <3>1. ~IsRed(Sibling) /\ RedLink(Far)
            BY <1>1 DEF BlackSibling
        <3> QED BY <2>3, <2>4, <3>1, RedLinks
    <2>6. FarRed(T, c, up, red, h, y, t)
        BY <2>3, <2>5 DEF FarRed
    <2> QED BY <2>1, <2>6
<1>2. CASE At("outer") /\ w.op.kind = "erase"
    <2>1. PICK T \in SUBSET Nodes, c \in Memory, up \in Ups, red \in SUBSET Nodes, h \in Heights,
               x \in Links, y \in Links, t \in Sides : Fits(T, c, up, red, h, x, y, t)
        BY DEF TreeInv
    <2>2. todo = <<>> /\ w.pc = "outer" /\ Lifting("erase") /\ ~Lifting("insert")
        BY <1>2 DEF At, Lifting
    <2>3. Held(T, c)
        BY <2>1, <2>2, TurnSees DEF Fits
    <2>4. /\ x = NULL /\ y = w.parent /\ y \in T /\ c[y][t] = w.node /\ w.node \notin red
          /\ c[y][Other(t)] \in T \ red /\ c[c[y][Other(t)]][Other(t)] \in T \cap red
        BY <2>1, <2>2 DEF Fits, Standing
    <2>5. Lacking(T, c, up, red, h, y, t)
        BY <2>1, <2>3, <2>4 DEF Lacking, Fits
    <2>6. Sibling = c[y][Other(t)] /\ Far = c[Sibling][Other(t)]
        <3>1. Short(T, c, y, t)
            BY <2>5, ShortSees
        <3> QED BY <3>1 DEF Short
    <2>7. \A n \in T : n \notin {Sibling, Far} => up[n] = word[n].up /\ (n \in red <=> IsRed(n))
        BY <2>1, <2>2, <2>4, <2>6 DEF Fits, Worded
    <2>8. FarRed(T, c, up, red, h, y, t)
        BY <2>4, <2>5, <2>6, <2>7 DEF FarRed
    <2> QED BY <2>2, <2>8 DEF TreeInv
<1> QED BY <1>1, <1>2 DEF EraseOuter

LEMMA EraseOuterKeeps == TreeInv /\ EraseOuter => TreeInv'
<1> SUFFICES ASSUME TreeInv, EraseOuter PROVE TreeInv'
    OBVIOUS
<1>1. /\ Typed /\ Settled /\ w.pc # "idle" /\ todo = <<>>
      /\ \E T \in SUBSET Nodes, c \in Memory, up \in Ups, red \in SUBSET Nodes, h \in Heights,
            y \in Links, t \in Sides : FarRed(T, c, up, red, h, y, t)
    BY FarRedSees
<1>2. PICK T \in SUBSET Nodes, c \in Memory, up \in Ups, red \in SUBSET Nodes, h \in Heights,
           y \in Links, t \in Sides : FarRed(T, c, up, red, h, y, t)
    BY <1>1
<1> PICK q : q = Sibling
    OBVIOUS
<1> PICK o : o = Other(t)
    OBVIOUS
<1> PICK b : b = Near
    OBVIOUS
<1> PICK f : f = Far
    OBVIOUS
<1> PICK g : g = up[y]
    OBVIOUS
<1>3. /\ Lacking(T, c, up, red, h, y, t) /\ q \notin red /\ f \in red
      /\ \A n \in T : n \notin {q, f} => up[n] = word[n].up /\ (n \in red <=> IsRed(n))
    BY <1>2 DEF FarRed
<1>4. /\ T = Members /\ Linked(T, c, up) /\ Balanced(T, c, red, h, NULL, y, t)
      /\ Held(T, c) /\ y = w.parent /\ y \in T /\ c[y][t] = w.node
    BY <1>3 DEF Lacking
<1>5. NULL \notin T /\ NULL \notin Nodes /\ o \in Sides /\ o # t /\ Other(o) = t
    BY NodeAssumption, SidesAre
<1>6. /\ q = c[y][o] /\ q \in T /\ b = c[q][t] /\ b \in T \cup {NULL} /\ f = c[q][o] /\ f \in T \cup {NULL}
    <2>1. Short(T, c, y, t)
        BY <1>3, ShortSees
    <2> QED BY <2>1 DEF Short
<1>7. f \in T /\ up[f] = q
    BY <1>3, <1>4, <1>5, <1>6 DEF Linked
<1>8. y # q /\ f # q /\ b # f
    <2>1. y # q /\ f # q
        BY <1>4, <1>5, <1>6, NoSelf, Zenon
    <2>2. c[q]["left"] = c[q]["right"] => c[q]["left"] = NULL
        BY <1>4, <1>6 DEF Linked
    <2> QED BY <1>5, <1>6, <1>7, <2>1, <2>2 DEF Sides
<1>9. f # y
    <2>1. NoTwoCycle(T, c, up)
        BY <1>4, NotAbove
    <2>2. up[q] = y
        BY <1>4, <1>5, <1>6 DEF Linked
    <2> QED BY <1>5, <1>6, <1>7, <2>1, <2>2 DEF NoTwoCycle
<1> PICK far : far = [word EXCEPT ![f] = [up |-> q, color |-> "black"]]
    OBVIOUS
<1> PICK words : words = IF b = NULL THEN far ELSE [far EXCEPT ![b].up = y]
    OBVIOUS
<1>10. Turn /\ Done /\ EraseLift(words, "black")
    BY <1>4 DEF EraseOuter
<1>11. /\ word \in Words /\ far \in Words
       /\ \A n \in Nodes : far[n] = IF n = f THEN [up |-> q, color |-> "black"] ELSE word[n]
    <2>1. word \in Words /\ q \in Links /\ f \in Nodes /\ "black" \in Colors
        BY <1>1, <1>6, <1>7 DEF Typed, Links, Colors
    <2> QED BY <2>1 DEF Words
<1>12. /\ words \in Words
       /\ \A n \in Nodes : words[n] = IF n = b THEN [up |-> y, color |-> far[n].color] ELSE far[n]
    <2>1. CASE b = NULL
        BY <1>5, <1>11, <2>1
    <2>2. CASE b # NULL
        <3>1. b \in Nodes /\ y \in Links /\ words = [far EXCEPT ![b].up = y]
            BY <1>6, <2>2
        <3> QED BY <1>11, <3>1 DEF Words
    <2> QED BY <2>1, <2>2
<1>13. word[y].up = g
    BY <1>3, <1>4, <1>8, <1>9
<1>14. PICK k \in Sides, d \in Memory : LiftDone(T, c, up, d, y, q, o, k, words, "black")
    <2>1. "black" \in Colors /\ up[y] = word[y].up
        BY <1>13 DEF Colors
    <2> QED BY <1>3, <1>10, <1>12, <2>1, EraseLiftDoes
<1>15. /\ Around(T, c, up, y, o, k) /\ Rotated(T, c, d, y, o, up[y], k)
       /\ Shown(T, d)' /\ todo' \in Seq(Puts)
       /\ Aimed(T)'
       /\ word' \in Words
       /\ \A m \in Nodes : word'[m] = IF m = y THEN [up |-> q, color |-> "black"]
                                      ELSE IF m = q THEN words[y] ELSE words[m]
    BY <1>14 DEF LiftDone
<1>16. b # y /\ b # q /\ g \in T \cup {NULL}
    <2>1. Apart(T, c, y, c[y][o], c[c[y][o]][Other(o)], up[y], o, Other(o), k)
        BY <1>15, AroundIs
    <2>2. Apart(T, c, y, q, b, g, o, t, k)
        BY <1>5, <1>6, <2>1
    <2> QED BY <2>2 DEF Apart
<1> PICK r : r = (red \ {f, y}) \cup (IF y \in red THEN {q} ELSE {})
    OBVIOUS
<1> PICK vp : vp = [n \in Nodes |-> IF n = q THEN g ELSE IF n = y THEN q
                                   ELSE IF n = b THEN y ELSE up[n]]
    OBVIOUS
<1> PICK h2 : h2 = [h EXCEPT ![y] = h[q], ![q] = h[y], ![f] = h[q]]
    BY Zenon
<1>17. r \in SUBSET Nodes /\ vp \in Ups /\ h2 \in Heights
    BY <1>4, <1>6, <1>16, Zenon DEF Ups, Heights, Links
<1>18. Linked(T, d, vp)
    <2>1. Turned(T, c, up, vp, y, o)
        BY <1>5, <1>6 DEF Turned
    <2> QED BY <1>15, <1>17, <2>1, RotationLinked
<1>19. Balanced(T, d, r, h2, NULL, NULL, t)
    <2>1. FarPaid(c, red, h, r, h2, y, o, f)
        BY <1>3, <1>6 DEF FarPaid
    <2>2. t = Other(o)
        BY <1>5
    <2> QED BY <1>4, <1>15, <1>17, <2>1, <2>2, FarBalanced
<1>20. ASSUME NEW n \in T
       PROVE  word'[n].up = vp[n] /\ (word'[n].color = "red" <=> n \in r)
    <2>1. n \in Nodes /\ y \in Nodes
        BY <1>4
    <2>a. word'[n] = IF n = y THEN [up |-> q, color |-> "black"]
                     ELSE IF n = q THEN words[y] ELSE words[n]
        BY <1>15, <2>1
    <2>b. /\ words[y] = word[y]
          /\ n = f => words[n] = [up |-> q, color |-> "black"]
          /\ n = b => words[n] = [up |-> y, color |-> word[n].color]
          /\ n \notin {f, b} => words[n] = word[n]
        BY <1>8, <1>9, <1>11, <1>12, <1>16, <2>1, Zenon
    <2>c. /\ n = q => vp[n] = g
          /\ n = y => vp[n] = q
          /\ n = b => vp[n] = y
          /\ n \notin {q, y, b} => vp[n] = up[n]
        BY <1>8, <1>16, <2>1
    <2>d. n \in r <=> (n \in red /\ n # f /\ n # y) \/ (n = q /\ y \in red)
        OBVIOUS
    <2>2. CASE n = y
        BY <1>8, <2>2, <2>a, <2>c, <2>d
    <2>3. CASE n = q
        <3>1. word'[n] = word[y] /\ vp[n] = g
            BY <1>8, <2>3, <2>a, <2>b, <2>c
        <3>2. n \in r <=> y \in red
            BY <1>3, <2>3, <2>d
        <3>3. y \in red <=> word[y].color = "red"
            BY <1>3, <1>4, <1>8, <1>9 DEF IsRed
        <3> QED BY <1>13, <3>1, <3>2, <3>3
    <2>4. CASE n = f
        <3>1. word'[n] = [up |-> q, color |-> "black"]
            BY <1>8, <1>9, <2>4, <2>a, <2>b
        <3>2. vp[n] = q /\ n \notin r
            BY <1>7, <1>8, <1>9, <2>4, <2>c, <2>d
        <3> QED BY <3>1, <3>2
    <2>5. CASE n = b
        <3>1. word'[n] = [up |-> y, color |-> word[n].color]
            BY <1>16, <2>5, <2>a, <2>b
        <3>2. vp[n] = y /\ (n \in r <=> n \in red)
            BY <1>8, <1>16, <2>5, <2>c, <2>d
        <3>3. n \in red <=> word[n].color = "red"
            BY <1>3, <1>8, <1>16, <2>5 DEF IsRed
        <3> QED BY <3>1, <3>2, <3>3
    <2>6. CASE n \notin {y, q, f, b}
        <3>1. word'[n] = word[n]
            BY <2>6, <2>a, <2>b
        <3>2. vp[n] = up[n] /\ (n \in r <=> n \in red)
            BY <2>6, <2>c, <2>d
        <3> QED BY <1>3, <2>6, <3>1, <3>2 DEF IsRed
    <2> QED BY <2>2, <2>3, <2>4, <2>5, <2>6
<1>21. w'.pc = "done" /\ w'.op = w.op /\ w' \in Writers
    BY <1>1, <1>10, DoneIs
<1>22. Typed' /\ Settled' /\ Members' = Members
    BY <1>1, <1>4, <1>10, <1>15, <1>21, TurnKeeps
<1>23. Worded(T, d, vp, r, t)' /\ Standing(T, d, vp, r, NULL, NULL, t)'
    BY <1>20, <1>21 DEF Worded, Standing, Lifting, IsRed
<1>24. Fits(T, d, vp, r, h2, NULL, NULL, t)'
    BY <1>4, <1>15, <1>18, <1>19, <1>22, <1>23 DEF Fits
<1>25. NULL \in Links
    BY DEF Links
<1> QED BY <1>17, <1>22, <1>24, <1>25 DEF TreeInv

-----------------------------------------------------------------------------
(* Calls begin between calls.                                              *)

Resting(T, c, up, red, h, t) ==
    /\ T = present /\ Linked(T, c, up) /\ Balanced(T, c, red, h, NULL, NULL, t) /\ Held(T, c)
    /\ \A n \in T : up[n] = word[n].up /\ (n \in red <=> IsRed(n))

LEMMA RestSees ==
    ASSUME TreeInv, w.pc = "idle"
    PROVE  /\ todo = <<>> /\ Typed /\ Settled /\ \A n \in present : waits[n] = {}
           /\ \E T \in SUBSET Nodes, c \in Memory, up \in Ups, red \in SUBSET Nodes, h \in Heights,
                 t \in Sides : Resting(T, c, up, red, h, t)
<1>1. PICK T \in SUBSET Nodes, c \in Memory, up \in Ups, red \in SUBSET Nodes, h \in Heights,
           x \in Links, y \in Links, t \in Sides : Fits(T, c, up, red, h, x, y, t)
    BY DEF TreeInv
<1>2. todo = <<>> /\ Typed /\ Settled /\ ~Lifting("insert") /\ ~Lifting("erase") /\ Members = present
    BY DEF TreeInv, Settled, Lifting, Members
<1>3. Held(T, c)
    BY <1>1, <1>2, TurnSees DEF Fits
<1>4. Resting(T, c, up, red, h, t)
    BY <1>1, <1>2, <1>3 DEF Resting, Fits, Worded, Standing
<1> QED BY <1>2, <1>4 DEF Settled

LEMMA CallBegins ==
    ASSUME Typed, Settled, NEW o \in Calls, Begin(o), w' \in Writers, w'.op = o,
           w'.pc \in {"insert", "erase", "done"},
           w'.pc = "insert" => o.kind = "insert", w'.pc = "erase" => o.kind = "erase",
           child' \in [Nodes -> [Sides -> Links]], word' \in Words, todo' \in Seq(Puts),
           NEW T, T = (present \cup In(o)) \ Out(o), Aimed(T)', \A n \in In(o) : waits[n] = {}
    PROVE  Typed' /\ Settled' /\ Members' = T
<1>1. w.pc = "idle" /\ root' = root /\ present' = present /\ waits' = waits
    BY DEF Begin
<1>2. Members' = T
    BY <1>1 DEF Members
<1>3. Typed'
    BY <1>1 DEF Typed
<1>4. Members = present /\ Aimed(Members)'
    BY <1>1, <1>2 DEF Members, Aimed
<1>5. \A n \in T : waits[n] = {}
    BY <1>4 DEF Settled
<1>6. Settled'
    BY <1>1, <1>2, <1>4, <1>5 DEF Settled
<1> QED BY <1>2, <1>3, <1>6

\* n, which is new, takes the place of v.
Exchange(T, c, up, red, h, t, Z, d, vp, r, h2, v, n, k) ==
    /\ Resting(T, c, up, red, h, t) /\ v \in T /\ n \in Nodes \ T /\ waits[n] = {} /\ k \in Sides
    /\ Z = (T \ {v}) \cup {n} /\ Substituted(T, c, up, d, v, n, k)
    /\ Fits(Z, d, vp, r, h2, NULL, NULL, t)'

LEMMA ReplaceFinds ==
    ASSUME TreeInv, NEW o \in Replaces, Replace(o), NEW v, v = o.victim, NEW n, n = o.node
    PROVE  /\ Typed' /\ Settled'
           /\ \E T \in SUBSET Nodes, c \in Memory, up \in Ups, red \in SUBSET Nodes,
                 h \in Heights, t \in Sides, Z \in SUBSET Nodes, d \in Memory, vp \in Ups,
                 r \in SUBSET Nodes, h2 \in Heights, k \in Sides :
                Exchange(T, c, up, red, h, t, Z, d, vp, r, h2, v, n, k)
<1>1. /\ Begin(o) /\ v \in present /\ Unused(n) /\ child' = [child EXCEPT ![n] = child[v]]
      /\ word' = ReplacedWords(v, n) /\ todo' = <<ChangeChild(v, n, word[v].up)>>
      /\ w' = [Idle EXCEPT !.pc = "done", !.op = o]
    BY DEF Replace
<1>2. w.pc = "idle" /\ root' = root /\ present' = present /\ waits' = waits
    BY <1>1 DEF Begin
<1>3. /\ todo = <<>> /\ Typed /\ Settled
      /\ \E T \in SUBSET Nodes, c \in Memory, up \in Ups, red \in SUBSET Nodes, h \in Heights,
            t \in Sides : Resting(T, c, up, red, h, t)
    BY <1>2, RestSees
<1>4. PICK T \in SUBSET Nodes, c \in Memory, up \in Ups, red \in SUBSET Nodes, h \in Heights,
           t \in Sides : Resting(T, c, up, red, h, t)
    BY <1>3
<1>5. /\ T = present /\ Linked(T, c, up) /\ Balanced(T, c, red, h, NULL, NULL, t) /\ Held(T, c)
      /\ \A m \in T : up[m] = word[m].up /\ (m \in red <=> IsRed(m))
    BY <1>4 DEF Resting
<1>6. o \in Calls /\ o.kind = "replace" /\ n \in Nodes /\ v \in T /\ In(o) = {n} /\ Out(o) = {v}
    BY <1>1, <1>5, CallsAre
<1>7. n \notin T /\ waits[n] = {} /\ n # v /\ NULL \notin Nodes /\ NULL \in Links
    BY <1>1, <1>5, <1>6, NodeAssumption DEF Unused, Links
<1> PICK g : g = up[v]
    OBVIOUS
<1>8. g \in T \cup {NULL}
    BY <1>5, <1>6 DEF Linked
<1>9. \A m \in T, e \in Sides : child[m][e] = c[m][e]
    BY <1>5, HeldAre
<1>10. PICK k \in Sides : c[g][k] = v /\ ChangeChild(v, n, g) = Put(g, k, n) /\ (g = NULL => k = "left")
    <2>1. g # NULL => \A e \in Sides : child[g][e] = c[g][e]
        BY <1>8, <1>9
    <2>2. n \in Links
        BY <1>6 DEF Links
    <2> QED BY <1>5, <1>6, <2>1, <2>2, ChangeChildIs
<1> PICK Z : Z = (T \ {v}) \cup {n}
    OBVIOUS
<1> PICK d : d = [m \in Links |-> [e \in Sides |-> IF m = n THEN c[v][e]
                                                  ELSE IF m = g /\ e = k THEN n ELSE c[m][e]]]
    OBVIOUS
<1> PICK vp : vp = [m \in Nodes |-> IF m = n THEN g ELSE IF up[m] = v THEN n ELSE up[m]]
    OBVIOUS
<1> PICK r : r = {m \in Nodes : IF m = n THEN v \in red ELSE m \in red}
    OBVIOUS
<1> PICK h2 : h2 = [h EXCEPT ![n] = h[v]]
    OBVIOUS
<1>11. /\ Z \in SUBSET Nodes /\ d \in Memory /\ vp \in Ups /\ r \in SUBSET Nodes /\ h2 \in Heights
    BY <1>6, <1>8 DEF Memory, Ups, Heights, Links
<1>12. \A m \in Z \cup {NULL}, e \in Sides :
         d[m][e] = IF m = n THEN c[v][e] ELSE IF m = g /\ e = k THEN n ELSE c[m][e]
    BY <1>6 DEF Links
<1>13. Substituted(T, c, up, d, v, n, k)
    <2>1. c[up[v]][k] = v
        BY <1>10
    <2>2. \A m \in (T \ {v}) \cup {n, NULL}, e \in Sides :
            d[m][e] = IF m = n THEN c[v][e] ELSE IF m = up[v] /\ e = k THEN n ELSE c[m][e]
        BY <1>12
    <2> QED BY <2>1, <2>2 DEF Substituted
<1>14. Linked(Z, d, vp) /\ Balanced(Z, d, r, h2, NULL, NULL, t)
    <2>1. Inherited(T, up, vp, v, n)
        BY <1>6 DEF Inherited
    <2>2. Linked((T \ {v}) \cup {n}, d, vp)
        BY <1>5, <1>6, <1>7, <1>11, <1>13, <2>1, SubstituteLinked
    <2>3. ASSUME NEW m \in (T \ {v}) \cup {n}
          PROVE  m \in r <=> IF m = n THEN v \in red ELSE m \in red
        BY <1>6
    <2>4. Repainted(T, red, h, r, h2, v, n)
        BY <2>3 DEF Repainted
    <2>5. NULL = IF NULL = v THEN n ELSE NULL
        BY <1>6, <1>7
    <2>6. Balanced((T \ {v}) \cup {n}, d, r, h2, NULL, NULL, t)
        BY <1>5, <1>6, <1>7, <1>11, <1>13, <2>4, <2>5, SubstituteBalanced
    <2> QED BY <2>2, <2>6
<1>15. todo' = <<Put(g, k, n)>>
    BY <1>1, <1>5, <1>6, <1>10
<1>16. /\ todo' \in Seq(Puts) /\ Stores' = {Put(g, k, n)}
       /\ Put(g, k, n).at = g /\ Put(g, k, n).side = k /\ Put(g, k, n).to = n
    <2>0. g \in Links /\ n \in Links /\ k \in Sides
        BY <1>6, <1>8 DEF Links
    <2>1. /\ Put(g, k, n) \in Puts
          /\ Put(g, k, n).at = g /\ Put(g, k, n).side = k /\ Put(g, k, n).to = n
        BY <2>0, PutsAre
    <2> DEFINE i == Put(g, k, n)
    <2> HIDE DEF i
    <2>2. i \in Puts /\ todo' = <<i>>
        BY <1>15, <2>1 DEF i
    <2>3. todo' \in Seq(Puts) /\ Stores' = {i}
        BY <2>2, OneStore DEF Stores
    <2> QED BY <2>1, <2>3 DEF i
<1>17. Aimed(Z)'
    BY <1>10, <1>16 DEF Aimed
<1>18. /\ child' \in [Nodes -> [Sides -> Links]]
       /\ \A m \in Nodes : child'[m] = IF m = n THEN child[v] ELSE child[m]
    <2>1. child \in [Nodes -> [Sides -> Links]]
        BY <1>3 DEF Typed
    <2> QED BY <1>1, <1>6, <2>1
<1>19. /\ word' \in Words
       /\ \A m \in Z : vp[m] = word'[m].up /\ (m \in r <=> word'[m].color = "red")
    <2>1. word \in Words
        BY <1>3 DEF Typed
    <2>2. \A m \in Nodes : word'[m] = IF m = n THEN word[v]
                                      ELSE IF \E e \in Sides : m = child[v][e]
                                      THEN [word[m] EXCEPT !.up = n] ELSE word[m]
        BY <1>1 DEF ReplacedWords
    <2>3. word' \in Words
        BY <1>1, <1>6, <2>1 DEF ReplacedWords, Words, Links
    <2>4. ASSUME NEW m \in Z
          PROVE  vp[m] = word'[m].up /\ (m \in r <=> word'[m].color = "red")
        <3>1. CASE m = n
            <4>1. word'[m] = word[v] /\ vp[m] = g
                BY <1>6, <2>2, <3>1
            <4>2. n \in r <=> v \in red
                BY <1>6
            <4>3. word[v].up = g /\ (v \in red <=> word[v].color = "red")
                BY <1>5, <1>6 DEF IsRed
            <4> QED BY <3>1, <4>1, <4>2, <4>3
        <3>2. CASE m # n
            <4>1. m \in T /\ m # v /\ (m \in r <=> m \in red)
                BY <3>2
            <4>a. \A e \in Sides : child[v][e] = c[v][e]
                BY <1>6, <1>9
            <4>2. (\E e \in Sides : m = child[v][e]) <=> up[m] = v
                <5>1. ASSUME NEW e \in Sides, m = child[v][e] PROVE up[m] = v
                    <6>1. c[v][e] = m /\ m # NULL
                        BY <1>7, <4>1, <4>a, <5>1
                    <6> QED BY <1>5, <1>6, <6>1 DEF Linked
                <5>2. ASSUME up[m] = v PROVE \E e \in Sides : m = child[v][e]
                    <6>1. PICK e \in Sides : c[up[m]][e] = m
                        BY <1>5, <4>1 DEF Linked
                    <6> QED BY <4>a, <5>2, <6>1
                <5> QED BY <5>1, <5>2
            <4>3. word[m] \in [up : Links, color : Colors]
                BY <2>1, <4>1 DEF Words
            <4>4. word'[m] = IF up[m] = v THEN [word[m] EXCEPT !.up = n] ELSE word[m]
                BY <2>2, <3>2, <4>1, <4>2
            <4>5. /\ word'[m].up = IF up[m] = v THEN n ELSE word[m].up
                  /\ word'[m].color = word[m].color
                BY <4>3, <4>4
            <4> QED BY <1>5, <3>2, <4>1, <4>5 DEF IsRed
        <3> QED BY <3>1, <3>2
    <2> QED BY <2>3, <2>4
<1>20. Shown(Z, d)'
    <2>1. ASSUME NEW m \in Z \cup {NULL}, NEW e \in Sides
          PROVE  /\ \A st \in Stores' : st.at = m /\ st.side = e => d[m][e] = st.to
                 /\ (\A st \in Stores' : ~(st.at = m /\ st.side = e)) => d[m][e] = Real(m, e)'
        <3>1. CASE m = g /\ e = k
            <4>1. m # n
                BY <1>6, <1>7, <1>8, <3>1
            <4> QED BY <1>12, <1>16, <3>1, <4>1
        <3>2. CASE ~(m = g /\ e = k)
            <4>1. \A st \in Stores' : ~(st.at = m /\ st.side = e)
                BY <1>16, <3>2
            <4>2. CASE m = n
                <5>1. d[m][e] = c[v][e] /\ m # NULL
                    BY <1>6, <1>7, <1>12, <4>2
                <5>2. child'[m][e] = child[v][e]
                    BY <1>6, <1>18, <4>2
                <5> QED BY <1>6, <1>9, <4>1, <5>1, <5>2 DEF Real
            <4>3. CASE m # n
                <5>1. d[m][e] = c[m][e] /\ m \in T \cup {NULL}
                    BY <1>12, <3>2, <4>3
                <5>2. Real(m, e)' = Real(m, e)
                    BY <1>2, <1>18, <4>3, <5>1 DEF Real
                <5>3. c[m][e] = Real(m, e)
                    BY <1>5, <5>1 DEF Held
                <5> QED BY <4>1, <5>1, <5>2, <5>3
            <4> QED BY <4>2, <4>3
        <3> QED BY <3>1, <3>2
    <2> QED BY <2>1, Zenon DEF Shown
<1>21. w' \in Writers /\ w'.op = o /\ w'.pc = "done"
    BY <1>1, <1>6 DEF Idle, Writers, Places, Links, Sides
<1>22. Typed' /\ Settled' /\ Members' = Z
    <2>1. Z = (present \cup In(o)) \ Out(o)
        BY <1>5, <1>6, <1>7
    <2>2. \A m \in In(o) : waits[m] = {}
        BY <1>6, <1>7
    <2> QED BY <1>1, <1>3, <1>6, <1>16, <1>17, <1>18, <1>19, <1>21, <2>1, <2>2, CallBegins
<1>23. Worded(Z, d, vp, r, t)' /\ Standing(Z, d, vp, r, NULL, NULL, t)'
    BY <1>19, <1>21 DEF Worded, Standing, Lifting, IsRed
<1>24. Fits(Z, d, vp, r, h2, NULL, NULL, t)'
    BY <1>14, <1>20, <1>22, <1>23 DEF Fits
<1>25. Exchange(T, c, up, red, h, t, Z, d, vp, r, h2, v, n, k)
    <2>1. n \in Nodes \ T /\ v \in T /\ waits[n] = {} /\ k \in Sides
        BY <1>6, <1>7, <1>10
    <2>2. Z = (T \ {v}) \cup {n}
        OBVIOUS
    <2> QED BY <1>4, <1>13, <1>24, <2>1, <2>2, Zenon DEF Exchange
<1> QED BY <1>11, <1>22, <1>25, Zenon

LEMMA ReplaceKeeps == TreeInv /\ (\E o \in Replaces : Replace(o)) => TreeInv'
<1> SUFFICES ASSUME TreeInv, NEW o \in Replaces, Replace(o) PROVE TreeInv'
    OBVIOUS
<1> PICK v : v = o.victim
    OBVIOUS
<1> PICK n : n = o.node
    OBVIOUS
<1>1. /\ Typed' /\ Settled'
      /\ \E T \in SUBSET Nodes, c \in Memory, up \in Ups, red \in SUBSET Nodes,
            h \in Heights, t \in Sides, Z \in SUBSET Nodes, d \in Memory, vp \in Ups,
            r \in SUBSET Nodes, h2 \in Heights, k \in Sides :
           Exchange(T, c, up, red, h, t, Z, d, vp, r, h2, v, n, k)
    BY ReplaceFinds
<1>2. PICK Z \in SUBSET Nodes, d \in Memory, vp \in Ups, r \in SUBSET Nodes, h2 \in Heights,
           t \in Sides : Fits(Z, d, vp, r, h2, NULL, NULL, t)'
    BY <1>1 DEF Exchange
<1>3. NULL \in Links
    BY DEF Links
<1> QED BY <1>1, <1>2, <1>3 DEF TreeInv

-----------------------------------------------------------------------------
(* An erasure with one child at most.                                      *)

\* How ____rb_erase_color is entered, or not.
LEMMA RebalanceIs ==
    ASSUME NEW o \in Calls, NEW g \in Links, Rebalance(o, g)
    PROVE  /\ w' \in Writers /\ w'.op = o /\ w'.node = NULL
           /\ g = NULL => w'.pc = "done"
           /\ g # NULL => w'.pc = "erase" /\ w'.parent = g
BY DEF Rebalance, Idle, Writers, Places, Links, Sides

\* z, which has a child on side s at most, is taken out.
Removal(T, c, up, red, h, t, Z, d, vp, r, h2, y, t2, z, s, k) ==
    /\ Resting(T, c, up, red, h, t) /\ z \in T /\ s \in Sides /\ k \in Sides
    /\ Z = T \ {z} /\ Unlinked(T, c, up, d, z, s, k)
    /\ Fits(Z, d, vp, r, h2, NULL, y, t2)' /\ w'.pc # "outer"

LEMMA EraseOneFinds ==
    ASSUME TreeInv, NEW o \in Erases, EraseOne(o), NEW z, z = o.node
    PROVE  /\ Typed' /\ Settled'
           /\ \E T \in SUBSET Nodes, c \in Memory, up \in Ups, red \in SUBSET Nodes,
                 h \in Heights, t \in Sides, Z \in SUBSET Nodes, d \in Memory, vp \in Ups,
                 r \in SUBSET Nodes, h2 \in Heights, y \in Links, t2 \in Sides,
                 s \in Sides, k \in Sides :
                Removal(T, c, up, red, h, t, Z, d, vp, r, h2, y, t2, z, s, k)
<1> PICK b : b = IF child[z]["left"] = NULL THEN child[z]["right"] ELSE child[z]["left"]
    OBVIOUS
<1>1. /\ Begin(o) /\ z \in present /\ child' = child
      /\ \E e \in Sides : child[z][e] = NULL
      /\ todo' = <<ChangeChild(z, b, word[z].up)>>
      /\ word' = IF b = NULL THEN word ELSE [word EXCEPT ![b] = word[z]]
      /\ Rebalance(o, IF b = NULL /\ ~IsRed(z) THEN word[z].up ELSE NULL)
    BY DEF EraseOne, EraseBegin
<1>2. w.pc = "idle" /\ root' = root /\ present' = present /\ waits' = waits
    BY <1>1 DEF Begin
<1>3. /\ todo = <<>> /\ Typed /\ Settled
      /\ \E T \in SUBSET Nodes, c \in Memory, up \in Ups, red \in SUBSET Nodes, h \in Heights,
            t \in Sides : Resting(T, c, up, red, h, t)
    BY <1>2, RestSees
<1>4. PICK T \in SUBSET Nodes, c \in Memory, up \in Ups, red \in SUBSET Nodes, h \in Heights,
           t \in Sides : Resting(T, c, up, red, h, t)
    BY <1>3
<1>5. /\ T = present /\ Linked(T, c, up) /\ Balanced(T, c, red, h, NULL, NULL, t) /\ Held(T, c)
      /\ \A m \in T : up[m] = word[m].up /\ (m \in red <=> IsRed(m))
    BY <1>4 DEF Resting
<1>6. o \in Calls /\ o.kind = "erase" /\ z \in T /\ In(o) = {} /\ Out(o) = {z}
    BY <1>1, <1>5, CallsAre
<1>7. NULL \notin Nodes /\ NULL \in Links
    BY NodeAssumption DEF Links
<1> PICK g : g = up[z]
    OBVIOUS
<1>8. g \in T \cup {NULL} /\ g # z
    BY <1>5, <1>6 DEF Linked
<1>9. \A m \in T, e \in Sides : child[m][e] = c[m][e]
    BY <1>5, HeldAre
<1>10. PICK s \in Sides : b = c[z][s] /\ c[z][Other(s)] = NULL
    <2>1. \A e \in Sides : child[z][e] = c[z][e]
        BY <1>6, <1>9
    <2> QED BY <1>1, <2>1 DEF Sides, Other
<1>11. b \in T \cup {NULL} /\ b # z /\ b \in Links
    <2>1. b # NULL => b \in T /\ up[b] = z
        BY <1>5, <1>6, <1>10 DEF Linked
    <2>2. b # NULL => b # z
        BY <1>5, <2>1 DEF Linked
    <2> QED BY <1>6, <1>7, <2>1, <2>2 DEF Links
<1>12. PICK k \in Sides : c[g][k] = z /\ ChangeChild(z, b, g) = Put(g, k, b) /\ (g = NULL => k = "left")
    <2>1. g # NULL => \A e \in Sides : child[g][e] = c[g][e]
        BY <1>8, <1>9
    <2> QED BY <1>5, <1>6, <1>11, <2>1, ChangeChildIs
<1> PICK Z : Z = T \ {z}
    OBVIOUS
<1> PICK d : d = [m \in Links |-> [e \in Sides |-> IF m = g /\ e = k THEN b ELSE c[m][e]]]
    OBVIOUS
<1> PICK vp : vp = [m \in Nodes |-> IF m = b THEN g ELSE up[m]]
    OBVIOUS
<1> PICK r : r = {m \in red : m # b}
    OBVIOUS
<1> PICK h2 : h2 = [h EXCEPT ![b] = IF b = NULL THEN 0 ELSE 1]
    OBVIOUS
<1>13. /\ Z \in SUBSET Nodes /\ d \in Memory /\ vp \in Ups /\ r \in SUBSET Nodes /\ h2 \in Heights
    BY <1>6, <1>8, <1>11 DEF Memory, Ups, Heights, Links
<1>14. \A m \in Z \cup {NULL}, e \in Sides : d[m][e] = IF m = g /\ e = k THEN b ELSE c[m][e]
    BY <1>6 DEF Links
<1>15. Unlinked(T, c, up, d, z, s, k)
    BY <1>10, <1>12, <1>14 DEF Unlinked
<1>16. Linked(Z, d, vp)
    <2>1. Adopted(T, c, up, vp, z, s)
        BY <1>10 DEF Adopted
    <2>2. NoTwoCycle(T, c, up)
        BY <1>5, NotAbove
    <2>3. Linked(T \ {z}, d, vp)
        BY <1>5, <1>6, <1>13, <1>15, <2>1, <2>2, UnlinkLinked
    <2> QED BY <2>3
<1>17. Settles(T, c, up, d, red, r, h2, z, s, k)
    <2>1. Blackened(T, c, red, h, r, h2, z, s)
        BY <1>10 DEF Blackened
    <2> QED BY <1>5, <1>6, <1>13, <1>15, <2>1, UnlinkBalanced
<1>18. /\ b # NULL => z \notin red
       /\ b # NULL \/ z \in red \/ g = NULL => Balanced(Z, d, r, h2, NULL, NULL, t)
       /\ b = NULL /\ z \notin red => Balanced(Z, d, r, h2, NULL, g, k)
    BY <1>10, <1>17 DEF Settles
<1>19. /\ todo' = <<Put(g, k, b)>>
       /\ Rebalance(o, IF b = NULL /\ z \notin red THEN g ELSE NULL)
    BY <1>1, <1>5, <1>6, <1>12
<1>20. /\ todo' \in Seq(Puts) /\ Stores' = {Put(g, k, b)}
       /\ Put(g, k, b).at = g /\ Put(g, k, b).side = k /\ Put(g, k, b).to = b
    <2>0. g \in Links /\ k \in Sides
        BY <1>8 DEF Links
    <2>1. /\ Put(g, k, b) \in Puts
          /\ Put(g, k, b).at = g /\ Put(g, k, b).side = k /\ Put(g, k, b).to = b
        BY <1>11, <2>0, PutsAre
    <2> DEFINE i == Put(g, k, b)
    <2> HIDE DEF i
    <2>2. i \in Puts /\ todo' = <<i>>
        BY <1>19, <2>1 DEF i
    <2>3. todo' \in Seq(Puts) /\ Stores' = {i}
        BY <2>2, OneStore DEF Stores
    <2> QED BY <2>1, <2>3 DEF i
<1>21. Aimed(Z)'
    BY <1>11, <1>12, <1>20 DEF Aimed
<1>22. child' \in [Nodes -> [Sides -> Links]]
    BY <1>1, <1>3 DEF Typed
<1>23. /\ word' \in Words
       /\ \A m \in Z : vp[m] = word'[m].up /\ (m \in r <=> word'[m].color = "red")
    <2>1. word \in Words
        BY <1>3 DEF Typed
    <2>2. b # NULL => b \in Nodes
        BY <1>11
    <2>3. word' \in Words
        BY <1>1, <1>6, <2>1, <2>2 DEF Words
    <2>4. \A m \in Nodes : word'[m] = IF m = b THEN word[z] ELSE word[m]
        BY <1>1, <1>7, <2>1, <2>2 DEF Words
    <2>5. word[z].up = g /\ (z \in red <=> word[z].color = "red")
        BY <1>5, <1>6 DEF IsRed
    <2>6. ASSUME NEW m \in Z
          PROVE  vp[m] = word'[m].up /\ (m \in r <=> word'[m].color = "red")
        <3>1. CASE m = b
            <4>1. m # NULL /\ z \notin red
                BY <1>7, <1>18, <3>1
            <4> QED BY <2>4, <2>5, <3>1, <4>1
        <3>2. CASE m # b
            BY <1>5, <2>4, <3>2 DEF IsRed
        <3> QED BY <3>1, <3>2
    <2> QED BY <2>3, <2>6
<1>24. Shown(Z, d)'
    <2>1. ASSUME NEW m \in Z \cup {NULL}, NEW e \in Sides
          PROVE  /\ \A st \in Stores' : st.at = m /\ st.side = e => d[m][e] = st.to
                 /\ (\A st \in Stores' : ~(st.at = m /\ st.side = e)) => d[m][e] = Real(m, e)'
        <3>1. CASE m = g /\ e = k
            BY <1>14, <1>20, <3>1
        <3>2. CASE ~(m = g /\ e = k)
            <4>1. \A st \in Stores' : ~(st.at = m /\ st.side = e)
                BY <1>20, <3>2
            <4>2. d[m][e] = c[m][e]
                BY <1>14, <3>2
            <4>3. c[m][e] = Real(m, e)
                BY <1>5 DEF Held
            <4>4. Real(m, e)' = Real(m, e)
                BY <1>1, <1>2 DEF Real
            <4> QED BY <4>1, <4>2, <4>3, <4>4
        <3> QED BY <3>1, <3>2
    <2> QED BY <2>1 DEF Shown
<1> PICK y : y = IF b = NULL /\ z \notin red THEN g ELSE NULL
    OBVIOUS
<1> PICK t2 : t2 = IF b = NULL /\ z \notin red THEN k ELSE t
    OBVIOUS
<1>25. /\ y \in Links /\ t2 \in Sides /\ Rebalance(o, y)
    BY <1>7, <1>8, <1>19 DEF Links
<1>26. /\ w' \in Writers /\ w'.op = o /\ w'.node = NULL
       /\ y = NULL => w'.pc = "done"
       /\ y # NULL => w'.pc = "erase" /\ w'.parent = y
    BY <1>6, <1>25, RebalanceIs
<1>27. Typed' /\ Settled' /\ Members' = Z
    <2>1. Z = (present \cup In(o)) \ Out(o) /\ \A m \in In(o) : waits[m] = {}
        BY <1>5, <1>6
    <2> QED BY <1>1, <1>3, <1>6, <1>20, <1>21, <1>22, <1>23, <1>26, <2>1, CallBegins, Zenon
<1>28. Balanced(Z, d, r, h2, NULL, y, t2)
    <2>1. CASE b = NULL /\ z \notin red
        BY <1>18, <2>1
    <2>2. CASE ~(b = NULL /\ z \notin red)
        BY <1>18, <2>2
    <2> QED BY <2>1, <2>2
<1>29. Worded(Z, d, vp, r, t2)'
    BY <1>23, <1>26, Zenon DEF Worded, Lifting, IsRed
<1>30. Standing(Z, d, vp, r, NULL, y, t2)'
    <2>1. CASE y = NULL
        BY <1>26, <2>1, Zenon DEF Standing, Lifting
    <2>2. CASE y # NULL
        <3>1. b = NULL /\ y = g /\ t2 = k /\ y \in Z
            BY <1>8, <2>2
        <3>2. d[y][t2] = NULL /\ NULL \notin r
            BY <1>7, <1>14, <3>1
        <3> QED BY <1>26, <2>2, <3>1, <3>2, Zenon DEF Standing, Lifting
    <2> QED BY <2>1, <2>2
<1>31. Fits(Z, d, vp, r, h2, NULL, y, t2)'
    BY <1>16, <1>24, <1>27, <1>28, <1>29, <1>30, Zenon DEF Fits
<1>32. Removal(T, c, up, red, h, t, Z, d, vp, r, h2, y, t2, z, s, k)
    <2>1. w'.pc # "outer"
        BY <1>26
    <2>2. z \in T /\ s \in Sides /\ k \in Sides /\ Z = T \ {z}
        BY <1>6
    <2> QED BY <1>4, <1>15, <1>31, <2>1, <2>2, Zenon DEF Removal
<1> QED BY <1>13, <1>25, <1>27, <1>32, Zenon

LEMMA EraseOneKeeps == TreeInv /\ (\E o \in Erases : EraseOne(o)) => TreeInv'
<1> SUFFICES ASSUME TreeInv, NEW o \in Erases, EraseOne(o) PROVE TreeInv'
    OBVIOUS
<1> PICK z : z = o.node
    OBVIOUS
<1>1. /\ Typed' /\ Settled'
      /\ \E T \in SUBSET Nodes, c \in Memory, up \in Ups, red \in SUBSET Nodes,
            h \in Heights, t \in Sides, Z \in SUBSET Nodes, d \in Memory, vp \in Ups,
            r \in SUBSET Nodes, h2 \in Heights, y \in Links, t2 \in Sides,
            s \in Sides, k \in Sides :
           Removal(T, c, up, red, h, t, Z, d, vp, r, h2, y, t2, z, s, k)
    BY EraseOneFinds
<1>2. PICK Z \in SUBSET Nodes, d \in Memory, vp \in Ups, r \in SUBSET Nodes, h2 \in Heights,
           y \in Links, t2 \in Sides : Fits(Z, d, vp, r, h2, NULL, y, t2)'
    BY <1>1 DEF Removal
<1>3. NULL \in Links
    BY DEF Links
<1> QED BY <1>1, <1>2, <1>3 DEF TreeInv
=============================================================================
