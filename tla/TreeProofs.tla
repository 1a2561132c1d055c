----------------------------- MODULE TreeProofs -----------------------------
(***************************************************************************)
(* The live entries of every repository form a tree, with renames and in   *)
(* every order of application, and the inode map, patched operation by     *)
(* operation, is the one a full walk of that tree computes.  Last, the     *)
(* operation a record comes from and the time a repository is at.          *)
(***************************************************************************)
EXTENDS CoreProofs

-----------------------------------------------------------------------------
(* What Reach computes *)

Onwards(links, met) == met \cup {x[2] : x \in {y \in links : y[1] \in met}}

\* A set no link leaves.
Closed(links, C) == \A x \in links : x[1] \in C => x[2] \in C

\* The first n rounds, as a function on 0 .. n.
Rounds(links, from, n, g) ==
  g = [k \in 0 .. n |-> IF k = 0 THEN from ELSE Onwards(links, g[k - 1])]

\* There are n rounds for every n.
LEMMA RoundsExist ==
  ASSUME NEW links, NEW from, NEW n \in Nat
  PROVE  \E g : Rounds(links, from, n, g)
<1> DEFINE Bad == {k \in Nat : ~\E g : Rounds(links, from, k, g)}
<1> SUFFICES ASSUME Bad # {} PROVE FALSE
  BY Zenon
<1>1. PICK m \in Bad : \A k \in Bad : m <= k
  <2>1. Bad \subseteq Nat
    BY Zenon
  <2> HIDE DEF Bad
  <2> QED
    BY <2>1, LeastNatural, Zenon
<1>2. CASE m = 0
  <2> DEFINE g == [k \in 0 .. 0 |-> from]
  <2>1. Rounds(links, from, 0, g)
    BY DEF Rounds
  <2> QED
    BY <1>1, <1>2, <2>1, Zenon
<1>3. CASE m # 0
  <2>1. m - 1 \in Nat /\ m - 1 \notin Bad
    BY <1>1, <1>3
  <2>2. PICK g : Rounds(links, from, m - 1, g)
    BY <2>1, Zenon
  <2> DEFINE h == [k \in 0 .. m |-> IF k = m THEN Onwards(links, g[m - 1]) ELSE g[k]]
  <2>3. h = [k \in 0 .. m |-> IF k = 0 THEN from ELSE Onwards(links, h[k - 1])]
    <3>1. ASSUME NEW k \in 0 .. m
          PROVE  h[k] = IF k = 0 THEN from ELSE Onwards(links, h[k - 1])
      <4>1. CASE k = m
        <5>1. h[m - 1] = g[m - 1]
          BY <1>3, <2>1, SMTT(60)
        <5> QED
          BY <1>3, <4>1, <5>1, Zenon
      <4>2. CASE k # m
        <5>1. k \in 0 .. (m - 1) /\ (k # 0 => k - 1 \in 0 .. m /\ k - 1 # m)
          BY <2>1, <4>2, SMTT(60)
        <5>2. g[k] = IF k = 0 THEN from ELSE Onwards(links, g[k - 1])
          BY <2>2, <5>1, Zenon DEF Rounds
        <5> QED
          BY <4>2, <5>1, <5>2, Zenon
      <4> QED
        BY <4>1, <4>2, Zenon
    <3> QED
      BY <3>1, Zenon
  <2>4. Rounds(links, from, m, h)
    BY <2>3, Zenon DEF Rounds
  <2> QED
    BY <1>1, <2>4, Zenon
<1> QED
  BY <1>2, <1>3, Zenon

\* They do not depend on how many there are.
LEMMA RoundsAgree ==
  ASSUME NEW links, NEW from, NEW m \in Nat, NEW n \in Nat, NEW g, NEW h,
         Rounds(links, from, m, g), Rounds(links, from, n, h)
  PROVE  \A k \in Nat : k <= m /\ k <= n => g[k] = h[k]
<1> DEFINE Bad == {k \in Nat : k <= m /\ k <= n /\ g[k] # h[k]}
<1> SUFFICES ASSUME Bad # {} PROVE FALSE
  BY Zenon
<1>1. PICK k \in Bad : \A j \in Bad : k <= j
  <2>1. Bad \subseteq Nat
    BY Zenon
  <2> HIDE DEF Bad
  <2> QED
    BY <2>1, LeastNatural, Zenon
<1>2. k \in 0 .. m /\ k \in 0 .. n
  BY <1>1
<1>3. /\ g[k] = IF k = 0 THEN from ELSE Onwards(links, g[k - 1])
      /\ h[k] = IF k = 0 THEN from ELSE Onwards(links, h[k - 1])
  BY <1>2, Zenon DEF Rounds
<1>4. CASE k = 0
  BY <1>1, <1>3, <1>4, Zenon
<1>5. CASE k # 0
  <2>1. k - 1 \in Nat /\ k - 1 \notin Bad /\ k - 1 <= m /\ k - 1 <= n
    BY <1>1, <1>5, SMTT(60)
  <2>2. g[k - 1] = h[k - 1]
    BY <2>1, Zenon
  <2> QED
    BY <1>1, <1>3, <1>5, <2>2, Zenon
<1> QED
  BY <1>4, <1>5, Zenon

\* Reach is its recursion.
LEMMA ReachSteps ==
  ASSUME NEW links, NEW from
  PROVE  /\ Reach(links, from, 0) = from
         /\ \A n \in Nat : Reach(links, from, n + 1) = Onwards(links, Reach(links, from, n))
<1> DEFINE R(w) == w = [k \in Nat |-> IF k = 0 THEN from ELSE Onwards(links, w[k - 1])]
           G(n) == CHOOSE g : Rounds(links, from, n, g)
           w == [n \in Nat |-> G(n)[n]]
<1>1. \A n \in Nat : Rounds(links, from, n, G(n))
  BY RoundsExist, Zenon
<1>2. ASSUME NEW k \in Nat
      PROVE  w[k] = IF k = 0 THEN from ELSE Onwards(links, w[k - 1])
  <2>1. G(k)[k] = IF k = 0 THEN from ELSE Onwards(links, G(k)[k - 1])
    <3> DEFINE g == G(k)
    <3>1. Rounds(links, from, k, g)
      BY <1>1, Zenon
    <3> HIDE DEF g
    <3>2. g = [j \in 0 .. k |-> IF j = 0 THEN from ELSE Onwards(links, g[j - 1])]
      BY <3>1, Zenon DEF Rounds
    <3>3. g[k] = IF k = 0 THEN from ELSE Onwards(links, g[k - 1])
      BY <3>2
    <3> QED
      BY <3>3, Zenon DEF g
  <2>2. CASE k = 0
    BY <2>1, <2>2, Zenon
  <2>3. CASE k # 0
    <3>1. k - 1 \in Nat /\ k - 1 <= k
      BY <2>3
    <3>2. G(k)[k - 1] = G(k - 1)[k - 1]
      BY <1>1, <3>1, RoundsAgree, SMTT(60)
    <3> QED
      BY <2>1, <2>3, <3>1, <3>2, SMTT(60)
  <2> QED
    BY <2>2, <2>3, Zenon
<1>3. R(w)
  <2>1. w = [k \in Nat |-> w[k]]
    OBVIOUS
  <2> HIDE DEF w
  <2> QED
    BY <1>2, <2>1, ZenonT(60)
<1> HIDE DEF w
<1> DEFINE v == CHOOSE u : R(u)
<1>4. R(v)
  BY <1>3, Zenon
<1>5. \A n \in Nat : Reach(links, from, n) = v[n]
  BY Zenon DEF Reach, Onwards
<1> HIDE DEF v
<1>6. \A n \in Nat : v[n] = IF n = 0 THEN from ELSE Onwards(links, v[n - 1])
  BY <1>4, Zenon
<1> QED
  BY <1>5, <1>6

\* No round leaves a closed set that holds the start.
LEMMA ReachWithin ==
  ASSUME NEW links, NEW from, NEW C, from \subseteq C, Closed(links, C), NEW n \in Nat
  PROVE  Reach(links, from, n) \subseteq C
<1> DEFINE Bad == {k \in Nat : ~(Reach(links, from, k) \subseteq C)}
<1> SUFFICES ASSUME Bad # {} PROVE FALSE
  BY Zenon
<1>1. PICK m \in Bad : \A k \in Bad : m <= k
  <2>1. Bad \subseteq Nat
    BY Zenon
  <2> HIDE DEF Bad
  <2> QED
    BY <2>1, LeastNatural, Zenon
<1>2. m # 0
  BY <1>1, ReachSteps, SMTT(60)
<1>3. m - 1 \in Nat /\ m - 1 \notin Bad
  BY <1>1, <1>2, SMTT(60)
<1>4. Reach(links, from, m - 1) \subseteq C
  BY <1>3, Zenon
<1>5. Reach(links, from, m) = Onwards(links, Reach(links, from, m - 1))
  <2>1. (m - 1) + 1 = m
    BY <1>1, SMTT(60)
  <2>2. Reach(links, from, (m - 1) + 1) = Onwards(links, Reach(links, from, m - 1))
    BY <1>3, ReachSteps, ZenonT(60)
  <2> QED
    BY <2>1, <2>2, Zenon
<1> QED
  BY <1>1, <1>4, <1>5, Zenon DEF Onwards, Closed

\* Rounds only add, so the start and the first round are in every later one.
LEMMA ReachGrows ==
  ASSUME NEW links, NEW from, NEW n \in Nat
  PROVE  /\ from \subseteq Reach(links, from, n)
         /\ n # 0 => Onwards(links, from) \subseteq Reach(links, from, n)
<1> DEFINE P(k) == /\ from \subseteq Reach(links, from, k)
                   /\ k # 0 => Onwards(links, from) \subseteq Reach(links, from, k)
           Bad == {k \in Nat : ~P(k)}
<1> SUFFICES ASSUME Bad # {} PROVE FALSE
  BY Zenon
<1>1. PICK m \in Bad : \A k \in Bad : m <= k
  <2>1. Bad \subseteq Nat
    BY Zenon
  <2> HIDE DEF Bad
  <2> QED
    BY <2>1, LeastNatural, Zenon
<1>2. P(0)
  BY ReachSteps, SMTT(60)
<1>3. m # 0
  BY <1>1, <1>2, Zenon
<1>4. m - 1 \in Nat /\ P(m - 1)
  BY <1>1, <1>3, SMTT(60)
<1>5. Reach(links, from, m) = Onwards(links, Reach(links, from, m - 1))
  <2>1. (m - 1) + 1 = m /\ m - 1 \in Nat
    BY <1>1, <1>3, SMTT(60)
  <2>2. Reach(links, from, (m - 1) + 1) = Onwards(links, Reach(links, from, m - 1))
    BY <2>1, ReachSteps, ZenonT(60)
  <2> QED
    BY <2>1, <2>2, Zenon
<1>6. P(m)
  <2>1. CASE m = 1
    <3>1. Reach(links, from, m - 1) = from
      BY <2>1, ReachSteps
    <3> QED
      BY <1>5, <3>1, Zenon DEF Onwards
  <2>2. CASE m # 1
    BY <1>3, <1>4, <1>5, <2>2, Zenon DEF Onwards
  <2> QED
    BY <2>1, <2>2, Zenon
<1> QED
  BY <1>1, <1>6, Zenon

\* With as many rounds as there are nodes to add, nothing is left to reach.
LEMMA ReachCloses ==
  ASSUME NEW links, NEW from, from # {}, NEW W, IsFiniteSet(W), from \subseteq W,
         \A x \in links : x[2] \in W,
         NEW n \in Nat, Cardinality(W) <= n + 1
  PROVE  Closed(links, Reach(links, from, n))
<1> DEFINE S(k) == Reach(links, from, k)
           Bad == {k \in Nat : ~Closed(links, S(k)) /\ Cardinality(S(k)) < k + 1}
<1>1. Closed(links, W)
  BY Zenon DEF Closed
<1>2. \A k \in Nat : /\ S(k) \subseteq W /\ IsFiniteSet(S(k)) /\ Cardinality(S(k)) \in Nat
                     /\ Cardinality(S(k)) <= Cardinality(W)
                     /\ Cardinality(S(k)) = Cardinality(W) => S(k) = W
  <2> TAKE k \in Nat
  <2>1. S(k) \subseteq W
    BY <1>1, ReachWithin, Zenon
  <2> QED
    BY <2>1, FS_Subset, FS_CardinalityType, Zenon
<1>3. \A k \in Nat : S(k + 1) = Onwards(links, S(k))
  BY ReachSteps, ZenonT(60)
<1>4. S(0) = from
  BY ReachSteps, Zenon
<1> HIDE DEF S
<1>5. Bad = {}
  <2> SUFFICES ASSUME Bad # {} PROVE FALSE
    BY Zenon
  <2>1. PICK m \in Bad : \A k \in Bad : m <= k
    <3>1. Bad \subseteq Nat
      BY Zenon
    <3> HIDE DEF Bad
    <3> QED
      BY <3>1, LeastNatural, Zenon
  <2>2. Cardinality(S(0)) >= 1
    <3>1. Cardinality(from) # 0 /\ Cardinality(from) \in Nat
      BY <1>2, <1>4, FS_EmptySet, SMTT(60)
    <3> QED
      BY <1>4, <3>1, SMTT(60)
  <2>3. m # 0 /\ Cardinality(S(m)) \in Nat
    BY <1>2, <2>1, <2>2, SMTT(60)
  <2>4. m - 1 \in Nat /\ m - 1 \notin Bad /\ S(m) = Onwards(links, S(m - 1))
    <3>1. m - 1 \in Nat /\ m - 1 \notin Bad /\ (m - 1) + 1 = m
      BY <2>1, <2>3, SMTT(60)
    <3> QED
      BY <1>3, <3>1, Zenon
  <2>5. CASE Closed(links, S(m - 1))
    <3>1. S(m) = S(m - 1)
      BY <2>4, <2>5, Zenon DEF Closed, Onwards
    <3> QED
      BY <2>1, <2>5, <3>1, SMTT(60)
  <2>6. CASE ~Closed(links, S(m - 1))
    <3>1. Cardinality(S(m - 1)) >= m /\ Cardinality(S(m - 1)) \in Nat
      BY <1>2, <2>1, <2>4, <2>6, SMTT(60)
    <3>2. S(m - 1) \subseteq S(m) /\ S(m - 1) # S(m)
      BY <2>4, <2>6, Zenon DEF Closed, Onwards
    <3>3. Cardinality(S(m - 1)) < Cardinality(S(m))
      <4>1. IsFiniteSet(S(m))
        BY <1>2, <2>1, Zenon
      <4>2. /\ Cardinality(S(m - 1)) <= Cardinality(S(m))
            /\ Cardinality(S(m - 1)) = Cardinality(S(m)) => S(m - 1) = S(m)
        BY <3>2, <4>1, FS_Subset, Zenon
      <4> QED
        BY <2>3, <3>1, <3>2, <4>2, SMTT(60)
    <3> QED
      BY <2>1, <2>3, <3>1, <3>3, SMTT(60)
  <2> QED
    BY <2>5, <2>6, Zenon
<1>6. CASE Cardinality(S(n)) >= n + 1
  <2>1. Cardinality(W) \in Nat
    BY FS_CardinalityType, Zenon
  <2>2. Cardinality(S(n)) = Cardinality(W)
    BY <1>2, <1>6, <2>1, SMTT(60)
  <2> QED
    BY <1>1, <1>2, <2>2, Zenon DEF S
<1>7. CASE ~(Cardinality(S(n)) >= n + 1)
  <2>1. Closed(links, S(n))
    BY <1>2, <1>5, <1>7, SMTT(60)
  <2> QED
    BY <2>1, Zenon DEF S
<1> QED
  BY <1>6, <1>7, Zenon

-----------------------------------------------------------------------------
(* The inductive invariant of the tree *)

\* Entries are in directories, under dots of applied operations, and name inodes
\* below the root that exist and are of the entry's kind.
EntriesOK(s) ==
  /\ IsDir(s, Root)
  /\ \A i \in Inode \ {Root} : s.inode[i] # None => i \in s.applied
  /\ \A d \in Inode : \A e \in s.dir[d].adds :
       /\ IsDir(s, d) /\ e.dot \in s.applied /\ e.inode # Root
       /\ s.inode[e.inode] # None /\ s.inode[e.inode].kind = e.kind

\* An inode has one live entry, in its recorded parent, and is not below itself.
LinksOK(s) ==
  /\ \A d \in Inode : \A e \in Live(s.dir[d]) : s.parent[e.inode] = d
  /\ \A d \in Inode : \A e, g \in Live(s.dir[d]) : e.inode = g.inode => e = g
  /\ \A i \in Inode : \A d \in DirsFrom(s, i) : ~Lists(s.dir[d], i)

TreeInv == \A r \in Device : EntriesOK(rep[r]) /\ LinksOK(rep[r])

-----------------------------------------------------------------------------
(* DirsFrom is the least set of directories that holds its start and what    *)
(* its members list.                                                         *)

\* What it means for a set to be closed under the links of the tree.
DirClosed(s, C) == \A d \in C : \A e \in Live(s.dir[d]) : e.kind = "Dir" => e.inode \in C

\* The same with pairs.
LEMMA ClosedIff ==
  ASSUME NEW s, NEW C, C \subseteq Inode
  PROVE  Closed(DirLinks(s), C) <=> DirClosed(s, C)
<1>1. ASSUME Closed(DirLinks(s), C), NEW d \in C, NEW e \in Live(s.dir[d]), e.kind = "Dir"
      PROVE  e.inode \in C
  <2>1. <<d, e.inode>> \in DirLinks(s)
    BY <1>1, SMTT(60) DEF DirLinks
  <2> QED
    BY <1>1, <2>1, Zenon DEF Closed
<1>2. ASSUME DirClosed(s, C), NEW x \in DirLinks(s), x[1] \in C PROVE x[2] \in C
  <2>1. PICK d \in Inode : x \in {<<d, e.inode>> : e \in {y \in Live(s.dir[d]) : y.kind = "Dir"}}
    BY Zenon DEF DirLinks
  <2>2. PICK e \in Live(s.dir[d]) : e.kind = "Dir" /\ x = <<d, e.inode>>
    BY <2>1, Zenon
  <2> QED
    BY <1>2, <2>2, Zenon DEF DirClosed
<1> QED
  BY <1>1, <1>2, Zenon DEF Closed, DirClosed

\* There are finitely many ids.
LEMMA IdFinite == IsFiniteSet(Id)
<1>1. IsFiniteSet(1 .. MaxOps)
  BY BoundAssumption, FS_Interval, SMTT(60)
<1> QED
  BY <1>1, DeviceAssumption, FS_Product, Zenon DEF Id

\* The walk of DirsFrom is long enough to meet every directory there is below d.
LEMMA DirsFromLeast ==
  ASSUME NEW s, RepType(s), EntriesOK(s), NEW d \in Inode
  PROVE  /\ d \in DirsFrom(s, d)
         /\ DirsFrom(s, d) \subseteq Inode
         /\ DirClosed(s, DirsFrom(s, d))
         /\ \A C \in SUBSET Inode : d \in C /\ DirClosed(s, C) => DirsFrom(s, d) \subseteq C
<1> DEFINE n == Cardinality(s.applied)
           L == DirLinks(s)
           W == s.applied \cup {d}
<1>1. IsFiniteSet(s.applied) /\ n \in Nat
  <2>1. s.applied \subseteq Id
    BY Zenon DEF RepType
  <2> QED
    BY <2>1, IdFinite, FS_Subset, FS_CardinalityType, Zenon
<1>2. IsFiniteSet(W) /\ Cardinality(W) <= n + 1
  <2>1. IsFiniteSet(W) /\ (Cardinality(W) = n \/ Cardinality(W) = n + 1)
    BY <1>1, FS_AddElement, Zenon
  <2> QED
    BY <1>1, <2>1, SMTT(60)
<1>3. \A x \in L : x[2] \in s.applied /\ x[2] \in Inode
  <2> SUFFICES ASSUME NEW x \in L PROVE x[2] \in s.applied /\ x[2] \in Inode
    BY Zenon
  <2>1. PICK c \in Inode : x \in {<<c, e.inode>> : e \in {y \in Live(s.dir[c]) : y.kind = "Dir"}}
    BY Zenon DEF DirLinks
  <2>2. PICK e \in Live(s.dir[c]) : x = <<c, e.inode>>
    BY <2>1, Zenon
  <2>3. e \in s.dir[c].adds /\ s.dir[c] \in DirMap
    BY <2>2, Zenon DEF Live, RepType
  <2>4. e.inode \in Inode
    BY <2>3, Zenon DEF DirMap, Entry
  <2> QED
    BY <2>2, <2>3, <2>4, Zenon DEF EntriesOK
<1>4. Closed(L, Inode)
  BY <1>3, Zenon DEF Closed
<1> HIDE DEF L, n, W
<1>5. Reach(L, {d}, n) \subseteq Inode
  BY <1>1, <1>4, ReachWithin, SMTT(60)
<1>6. DirsFrom(s, d) = Reach(L, {d}, n)
  BY <1>5, Zenon DEF DirsFrom, L, n
<1>7. d \in Reach(L, {d}, n)
  BY <1>1, ReachGrows, Zenon
<1>8. Closed(L, Reach(L, {d}, n))
  <2>1. {d} \subseteq W /\ {d} # {} /\ \A x \in L : x[2] \in W
    BY <1>3, Zenon DEF W
  <2> QED
    BY <1>1, <1>2, <2>1, ReachCloses, SMTT(60)
<1>9. ASSUME NEW C \in SUBSET Inode, d \in C, DirClosed(s, C) PROVE Reach(L, {d}, n) \subseteq C
  <2>1. Closed(L, C)
    BY <1>9, ClosedIff, Zenon DEF L
  <2> QED
    BY <1>1, <1>9, <2>1, ReachWithin, SMTT(60)
<1> QED
  BY <1>5, <1>6, <1>7, <1>8, <1>9, ClosedIff, Zenon DEF L

-----------------------------------------------------------------------------
(* What each operation does to the entries *)

\* mutate_create adds one entry, under a new dot, for an inode that was not there.
Hangs(s, x, op) ==
  LET p  == op.parent
      ne == DirEntry(op, op.id, EntryTypeOf(op), op.name)
  IN  /\ p \in Inode /\ IsDir(s, p) /\ op.id \in Inode \ {Root, p}
      /\ s.inode[op.id] = None /\ x.inode[op.id] = InodeRecord(op)
      /\ \A i \in Inode \ {op.id} : x.inode[i] = s.inode[i] /\ x.parent[i] = s.parent[i]
      /\ x.parent[op.id] = p
      /\ \A d \in Inode \ {p} : x.dir[d].adds = s.dir[d].adds /\ Live(x.dir[d]) = Live(s.dir[d])
      /\ x.dir[p].adds = s.dir[p].adds \cup {ne}
      /\ Live(s.dir[p]) \subseteq Live(x.dir[p])
      /\ Live(x.dir[p]) \subseteq Live(s.dir[p]) \cup {ne}
      /\ s.dir[op.id].adds = {}
      /\ \A d \in Inode \ {p, op.id} : x.dir[d] = s.dir[d]

\* What mutate_create does is that.
LEMMA CreateShape ==
  ASSUME NEW s, RepType(s), EntriesOK(s), NEW op \in Op, op.id \notin s.applied,
         op.kind \in {"Mkdir", "CreateFile"}, CanApply(s, op),
         NEW x, SameNamespace(x, Effect(s, op))
  PROVE  Hangs(s, x, op)
<1> DEFINE p  == op.parent
           new == op.id
           ne == DirEntry(op, new, EntryTypeOf(op), op.name)
<1>1. p \in Inode /\ new \in Inode \ {Root}
  BY InodeTypes, Zenon DEF Op, InodeForOp
<1>2. IsDir(s, p)
  BY Zenon DEF CanApply, Unmet, CreateUnmet
<1>3. s.inode[new] = None /\ p # new
  BY <1>1, <1>2, Zenon DEF EntriesOK, IsDir
<1>4. s.dir[new].adds = {}
  BY <1>1, <1>3, Zenon DEF EntriesOK, IsDir
<1>5. \A d \in Inode : s.dir[d] \in DirMap
  BY Zenon DEF RepType
<1>6. /\ Effect(s, op) = CreateEffect(s, op)
      /\ x.inode = [s.inode EXCEPT ![new] = InodeRecord(op)]
      /\ x.parent = [s.parent EXCEPT ![new] = p]
      /\ x.dir = [[s.dir EXCEPT ![new] = IF op.kind = "Mkdir" THEN EmptyMap ELSE s.dir[new]]
                    EXCEPT ![p] = Add(s.dir[p], ne)]
  <2>1. Effect(s, op) = CreateEffect(s, op)
    BY Zenon DEF Effect
  <2>2. /\ CreateEffect(s, op).inode = [s.inode EXCEPT ![new] = InodeRecord(op)]
        /\ CreateEffect(s, op).parent = [s.parent EXCEPT ![new] = p]
    BY Zenon DEF CreateEffect, RepType, InodeForOp
  <2>3. CreateEffect(s, op).dir =
          [[s.dir EXCEPT ![new] = IF op.kind = "Mkdir" THEN EmptyMap ELSE s.dir[new]]
                    EXCEPT ![p] = Add(s.dir[p], ne)]
    BY <1>1, <1>3, Zenon DEF CreateEffect, RepType, InodeForOp
  <2> QED
    BY <2>1, <2>2, <2>3, SMTT(60) DEF SameNamespace
<1>7. Add(s.dir[p], ne).adds = s.dir[p].adds \cup {ne} /\ Add(s.dir[p], ne).removes = s.dir[p].removes
  <2>1. \A e \in s.dir[p].adds : e.dot # ne.dot
    BY <1>1, Zenon DEF EntriesOK, DirEntry
  <2> QED
    BY <1>1, <1>5, <2>1, SMTT(60) DEF Add, DirMap
<1>8. /\ \A d \in Inode \ {p, new} : x.dir[d] = s.dir[d]
      /\ x.dir[p] = Add(s.dir[p], ne)
      /\ x.dir[new] = EmptyMap \/ x.dir[new] = s.dir[new]
  BY <1>1, <1>3, <1>6, SMTT(60) DEF RepType
<1>9. x.dir[new].adds = {}
  BY <1>4, <1>8, SMTT(60) DEF EmptyMap
<1>10. \A d \in Inode \ {p} : x.dir[d].adds = s.dir[d].adds /\ Live(x.dir[d]) = Live(s.dir[d])
  BY <1>4, <1>8, <1>9, ZenonT(60) DEF Live
<1>11. /\ Live(s.dir[p]) \subseteq Live(x.dir[p])
       /\ Live(x.dir[p]) \subseteq Live(s.dir[p]) \cup {ne}
  BY <1>7, <1>8, Zenon DEF Live
<1>12. /\ x.inode[new] = InodeRecord(op) /\ x.parent[new] = p
       /\ \A i \in Inode \ {new} : x.inode[i] = s.inode[i] /\ x.parent[i] = s.parent[i]
  BY <1>1, <1>6, SMTT(60) DEF RepType
<1> HIDE DEF ne
<1> QED
  BY <1>1, <1>2, <1>3, <1>4, <1>7, <1>8, <1>10, <1>11, <1>12, SMTT(60) DEF ne, Hangs

\* mutate_write changes the content of one inode that exists.
LEMMA WriteShape ==
  ASSUME NEW s, RepType(s), NEW op \in Op, op.kind = "Write", CanApply(s, op),
         NEW x, SameNamespace(x, Effect(s, op))
  PROVE  /\ x.dir = s.dir /\ x.parent = s.parent
         /\ op.inode \in Inode /\ s.inode[op.inode] # None /\ s.inode[op.inode].kind = "File"
         /\ \A i \in Inode \ {op.inode} : x.inode[i] = s.inode[i]
         /\ x.inode[op.inode] # None /\ x.inode[op.inode].kind = "File"
<1> DEFINE old == s.inode[op.inode]
           c == MergeReg(old.content, [key |-> OpKey(op), value |-> FileNode(op)])
<1>1. op.inode \in Inode /\ old # None /\ old.kind = "File"
  BY Zenon DEF CanApply, Unmet, WriteUnmet, Fails, WriteFails, Op
<1>2. Effect(s, op) = WriteEffect(s, op)
  BY Zenon DEF Effect
<1>3. /\ WriteEffect(s, op).dir = s.dir /\ WriteEffect(s, op).parent = s.parent
      /\ WriteEffect(s, op).inode = [s.inode EXCEPT ![op.inode] = [old EXCEPT !.content = c]]
  BY <1>1, Zenon DEF WriteEffect, RepType
<1>4. old \in InodeRec /\ s.inode \in [Inode -> InodeRec \cup {None}]
  BY <1>1, Zenon DEF RepType
<1>5. c \in Register
  <2>1. FileNode(op) \in Node
    BY Zenon DEF FileNode, Node, Op
  <2>2. [key |-> OpKey(op), value |-> FileNode(op)] \in Register
    BY <2>1, KeyType, SMTT(60) DEF Register
  <2> QED
    BY <1>4, <2>2, SMTT(60) DEF MergeReg, InodeRec
<1> HIDE DEF c, old
<1>6. /\ x.dir = s.dir /\ x.parent = s.parent
      /\ x.inode = [s.inode EXCEPT ![op.inode] = [old EXCEPT !.content = c]]
  BY <1>2, <1>3, Zenon DEF SameNamespace
<1>7. [old EXCEPT !.content = c].kind = "File" /\ [old EXCEPT !.content = c] \in InodeRec
  BY <1>1, <1>4, <1>5, SMTT(60) DEF InodeRec
<1>8. x.inode[op.inode] = [old EXCEPT !.content = c] /\ \A i \in Inode \ {op.inode} : x.inode[i] = s.inode[i]
  BY <1>1, <1>4, <1>6, SMTT(60)
<1> QED
  BY <1>1, <1>6, <1>7, <1>8, NoneAssumption, Zenon DEF old

\* mutate_unlink takes entries away.
LEMMA UnlinkShape ==
  ASSUME NEW s, RepType(s), NEW op \in Op, op.kind = "Unlink",
         NEW x, SameNamespace(x, Effect(s, op))
  PROVE  /\ x.inode = s.inode /\ x.parent = s.parent
         /\ \A d \in Inode : x.dir[d].adds = s.dir[d].adds /\ Live(x.dir[d]) \subseteq Live(s.dir[d])
<1>1. op.parent \in Inode /\ s.dir \in [Inode -> DirMap]
  BY Zenon DEF Op, RepType
<1>2. Effect(s, op) = UnlinkEffect(s, op)
  BY Zenon DEF Effect
<1>3. /\ x.inode = s.inode /\ x.parent = s.parent
      /\ x.dir = [s.dir EXCEPT ![op.parent] = RemoveDots(s.dir[op.parent], op.name, op.observed)]
  BY <1>2, Zenon DEF UnlinkEffect, RepType, SameNamespace
<1>4. \A m \in DirMap : /\ RemoveDots(m, op.name, op.observed).adds = m.adds
                        /\ m.removes \subseteq RemoveDots(m, op.name, op.observed).removes
  BY Zenon DEF RemoveDots, DirMap
<1> QED
  BY <1>1, <1>3, <1>4, SMTT(60) DEF Live

\* mutate_rename takes away what it observed under the old name and adds the
\* inode of one of the entries under the new name and a new dot.
Shifts(s, x, op) ==
  LET p  == op.parent
      np == op.newParent
      e  == MovedEntry(s, op)
      ne == DirEntry(op, e.inode, e.kind, op.newName)
  IN  /\ p \in Inode /\ np \in Inode /\ IsDir(s, np)
      /\ e \in Live(s.dir[p]) /\ e.inode \in Inode
      /\ e.kind = "Dir" => ~SubtreeContains(s, e.inode, np)
      /\ x.inode = s.inode
      /\ \A i \in Inode \ {e.inode} : x.parent[i] = s.parent[i]
      /\ x.parent[e.inode] = np
      /\ \A d \in Inode \ {np} : /\ x.dir[d].adds = s.dir[d].adds
                                 /\ Live(x.dir[d]) \subseteq Live(s.dir[d])
      /\ x.dir[np].adds = s.dir[np].adds \cup {ne}
      /\ Live(x.dir[np]) \subseteq Live(s.dir[np]) \cup {ne}
      /\ e \notin Live(x.dir[p])

\* What mutate_rename does is that.
LEMMA RenameShape ==
  ASSUME NEW s, RepType(s), EntriesOK(s), NEW op \in Op, op.id \notin s.applied,
         op.kind = "Rename", CanApply(s, op), Observed(s, op) # {},
         NEW x, SameNamespace(x, Effect(s, op))
  PROVE  Shifts(s, x, op)
<1> DEFINE p  == op.parent
           np == op.newParent
           e  == MovedEntry(s, op)
           ne == DirEntry(op, e.inode, e.kind, op.newName)
<1>1. p \in Inode /\ np \in Inode /\ s.dir \in [Inode -> DirMap] /\ s.parent \in [Inode -> Inode \cup {None}]
  BY Zenon DEF Op, RepType
<1>2. IsDir(s, np)
  BY Zenon DEF CanApply, Unmet, RenameUnmet
<1>3. e \in Observed(s, op) /\ e \in Entry
  BY MovedEntryIn, Zenon
<1>4. e.kind = "Dir" => ~SubtreeContains(s, e.inode, np)
  BY Zenon DEF CanApply, Fails, RenameFails, Unmet
<1>5. /\ Effect(s, op) = RenameEffect(s, op)
      /\ RenameEffect(s, op).inode = s.inode
      /\ RenameEffect(s, op).parent = [s.parent EXCEPT ![e.inode] = np]
  BY Zenon DEF Effect, RenameEffect, RepType
<1>6. RenameEffect(s, op).dir = [s.dir EXCEPT ![p]  = RemoveDots(@, op.name, op.observed),
                                              ![np] = Add(@, ne)]
  <2> DEFINE y == RenameEffect(s, op)
  <2>1. y = [s EXCEPT !.parent[e.inode] = np,
                      !.dir[p]          = RemoveDots(@, op.name, op.observed),
                      !.dir[np]         = Add(@, ne)]
    BY Zenon DEF RenameEffect
  <2> HIDE DEF y, e, ne
  <2> QED
    BY <2>1, Zenon DEF RepType, y
<1> HIDE DEF e
<1>7. e \in Live(s.dir[p]) /\ e.name = op.name /\ e.dot \in op.observed /\ e.inode \in Inode
  BY <1>3, Zenon DEF Observed, GetAll, Entry
<1>8. /\ x.inode = s.inode /\ x.parent[e.inode] = np
      /\ \A i \in Inode \ {e.inode} : x.parent[i] = s.parent[i]
  BY <1>1, <1>5, <1>7, SMTT(60) DEF SameNamespace
<1> DEFINE m == [s.dir EXCEPT ![p] = RemoveDots(s.dir[p], op.name, op.observed)]
<1>9. /\ m \in [Inode -> DirMap]
      /\ \A d \in Inode : m[d].adds = s.dir[d].adds /\ Live(m[d]) \subseteq Live(s.dir[d])
      /\ <<e.name, e.dot>> \in m[p].removes
  <2>1. \A k \in DirMap : /\ RemoveDots(k, op.name, op.observed).adds = k.adds
                          /\ RemoveDots(k, op.name, op.observed).removes =
                               k.removes \cup {<<op.name, dot>> : dot \in op.observed}
                          /\ RemoveDots(k, op.name, op.observed) \in DirMap
    BY SMTT(60) DEF RemoveDots, DirMap, Op
  <2> QED
    BY <1>1, <1>7, <2>1, SMTT(60) DEF Live
<1>10. x.dir = [m EXCEPT ![np] = Add(m[np], ne)]
  BY <1>5, <1>6, SMTT(60) DEF SameNamespace
<1> HIDE DEF m, ne
<1>11. Add(m[np], ne).adds = m[np].adds \cup {ne} /\ Add(m[np], ne).removes = m[np].removes
  <2>1. \A k \in m[np].adds : k.dot # ne.dot
    BY <1>1, <1>9, Zenon DEF EntriesOK, DirEntry, ne
  <2> QED
    BY <1>1, <1>9, <2>1, SMTT(60) DEF Add, DirMap
<1>12. /\ \A d \in Inode \ {np} : x.dir[d] = m[d]
       /\ x.dir[np].adds = m[np].adds \cup {ne} /\ x.dir[np].removes = m[np].removes
  BY <1>1, <1>9, <1>10, <1>11, Zenon
<1>13. /\ \A d \in Inode \ {np} : x.dir[d].adds = s.dir[d].adds /\ Live(x.dir[d]) \subseteq Live(s.dir[d])
       /\ x.dir[np].adds = s.dir[np].adds \cup {ne}
       /\ Live(x.dir[np]) \subseteq Live(s.dir[np]) \cup {ne}
  BY <1>1, <1>9, <1>12, SMTT(60) DEF Live
<1>14. e \notin Live(x.dir[p])
  BY <1>1, <1>9, <1>12, Zenon DEF Live
<1> QED
  BY <1>1, <1>2, <1>4, <1>7, <1>8, <1>13, <1>14, ZenonT(60) DEF e, ne, Shifts

-----------------------------------------------------------------------------
(* Every operation keeps the tree *)

\* An inode is not below itself if it is outside a closed set that starts at it.
LEMMA NotBelow ==
  ASSUME NEW x, RepType(x), EntriesOK(x), NEW i \in Inode, NEW C \in SUBSET Inode,
         i \in C, DirClosed(x, C), \A d \in C : ~Lists(x.dir[d], i)
  PROVE  \A d \in DirsFrom(x, i) : ~Lists(x.dir[d], i)
<1>1. DirsFrom(x, i) \subseteq C
  BY DirsFromLeast, Zenon
<1> QED
  BY <1>1, Zenon

\* No file has entries, so nothing is below it.
LEMMA NothingInFile ==
  ASSUME NEW s, EntriesOK(s), NEW i \in Inode, ~IsDir(s, i)
  PROVE  Live(s.dir[i]) = {} /\ DirClosed(s, {i}) /\ \A j : ~Lists(s.dir[i], j)
<1>1. Live(s.dir[i]) = {}
  BY Zenon DEF EntriesOK, Live
<1> QED
  BY <1>1, Zenon DEF DirClosed, Lists

\* Steps that add no entry and change no kind keep the tree.
LEMMA ShrinkTree ==
  ASSUME NEW s, RepType(s), EntriesOK(s), LinksOK(s), NEW x, RepType(x),
         s.applied \subseteq x.applied, x.parent = s.parent,
         \A i \in Inode : /\ s.inode[i] # None <=> x.inode[i] # None
                          /\ s.inode[i] # None => x.inode[i].kind = s.inode[i].kind,
         \A d \in Inode : x.dir[d].adds = s.dir[d].adds /\ Live(x.dir[d]) \subseteq Live(s.dir[d])
  PROVE  EntriesOK(x) /\ LinksOK(x)
<1>1. \A d \in Inode : \A e \in s.dir[d].adds : e.inode \in Inode
  BY DEF RepType, DirMap, Entry
<1>2. EntriesOK(x)
  <2>1. \A i \in Inode : IsDir(s, i) => IsDir(x, i)
    BY Zenon DEF IsDir
  <2>2. IsDir(x, Root) /\ \A i \in Inode \ {Root} : x.inode[i] # None => i \in x.applied
    BY <2>1, InodeTypes, Zenon DEF EntriesOK
  <2>3. ASSUME NEW d \in Inode, NEW e \in x.dir[d].adds
        PROVE  /\ IsDir(x, d) /\ e.dot \in x.applied /\ e.inode # Root
               /\ x.inode[e.inode] # None /\ x.inode[e.inode].kind = e.kind
    <3>1. e \in s.dir[d].adds /\ e.inode \in Inode
      BY <1>1, Zenon
    <3> QED
      BY <2>1, <3>1, Zenon DEF EntriesOK
  <2> QED
    BY <2>2, <2>3, Zenon DEF EntriesOK
<1>3. ASSUME NEW i \in Inode PROVE \A d \in DirsFrom(x, i) : ~Lists(x.dir[d], i)
  <2> DEFINE C == DirsFrom(s, i)
  <2>1. i \in C /\ C \in SUBSET Inode /\ DirClosed(s, C)
    BY DirsFromLeast, Zenon
  <2>2. \A d \in C : ~Lists(s.dir[d], i)
    BY Zenon DEF LinksOK
  <2> HIDE DEF C
  <2>3. DirClosed(x, C) /\ \A d \in C : ~Lists(x.dir[d], i)
    BY <2>1, <2>2, ZenonT(60) DEF DirClosed, Lists
  <2> QED
    BY <1>2, <2>1, <2>3, NotBelow, Zenon
<1>4. \A d \in Inode : \A e \in Live(x.dir[d]) : x.parent[e.inode] = d
  BY SMTT(60) DEF LinksOK
<1>5. \A d \in Inode : \A e, g \in Live(x.dir[d]) : e.inode = g.inode => e = g
  BY DEF LinksOK
<1> QED
  BY <1>2, <1>3, <1>4, <1>5, SMTT(60) DEF LinksOK

\* mutate_create hangs a leaf into the tree.
LEMMA CreateTree ==
  ASSUME NEW s, RepType(s), EntriesOK(s), LinksOK(s), NEW op \in Op, op.id \notin s.applied,
         op.kind \in {"Mkdir", "CreateFile"}, CanApply(s, op),
         NEW x, RepType(x), SameNamespace(x, Effect(s, op)), x.applied = s.applied \cup {op.id}
  PROVE  EntriesOK(x) /\ LinksOK(x)
<1> DEFINE p   == op.parent
           new == op.id
           ne  == DirEntry(op, new, EntryTypeOf(op), op.name)
<1>1. /\ p \in Inode /\ IsDir(s, p) /\ new \in Inode \ {Root, p}
      /\ s.inode[new] = None /\ x.inode[new] = InodeRecord(op)
      /\ \A i \in Inode \ {new} : x.inode[i] = s.inode[i] /\ x.parent[i] = s.parent[i]
      /\ x.parent[new] = p
      /\ \A d \in Inode \ {p} : x.dir[d].adds = s.dir[d].adds /\ Live(x.dir[d]) = Live(s.dir[d])
      /\ x.dir[p].adds = s.dir[p].adds \cup {ne}
      /\ Live(x.dir[p]) \subseteq Live(s.dir[p]) \cup {ne}
      /\ s.dir[new].adds = {}
  <2>1. Hangs(s, x, op)
    BY CreateShape, Zenon
  <2> QED
    BY <2>1, Zenon DEF Hangs
<1>2. ne.inode = new /\ ne.dot = new /\ ne.kind = EntryTypeOf(op)
  BY Zenon DEF DirEntry
<1>3. x.inode[new] # None /\ x.inode[new].kind = EntryTypeOf(op)
  <2>1. InodeRecord(op) \in InodeRec /\ InodeRecord(op).kind = EntryTypeOf(op)
    BY KeyType, Zenon DEF InodeRecord, InodeRec, EntryTypeOf, Register
  <2> QED
    BY <1>1, <2>1, NoneAssumption, SMTT(60)
<1> HIDE DEF ne, new, p
<1>4. \A d \in Inode : \A e \in s.dir[d].adds : e.inode \in Inode /\ e.inode # new
  <2>1. \A d \in Inode : \A e \in s.dir[d].adds : e.inode \in Inode
    BY SMTT(60) DEF RepType, DirMap, Entry
  <2> QED
    BY <1>1, <2>1, SMTT(60) DEF EntriesOK
<1>5. EntriesOK(x)
  <2>1. IsDir(x, Root)
    BY <1>1, InodeTypes, Zenon DEF EntriesOK, IsDir
  <2>2. \A i \in Inode \ {Root} : x.inode[i] # None => i \in x.applied
    BY <1>1, Zenon DEF EntriesOK, new
  <2>3. \A d \in Inode : x.dir[d].adds # {} => IsDir(x, d)
    BY <1>1, SMTT(60) DEF EntriesOK, IsDir
  <2>4. ASSUME NEW d \in Inode, NEW e \in x.dir[d].adds
        PROVE  /\ IsDir(x, d) /\ e.dot \in x.applied /\ e.inode # Root
               /\ x.inode[e.inode] # None /\ x.inode[e.inode].kind = e.kind
    <3>1. CASE e = ne
      BY <1>1, <1>2, <1>3, <2>3, <3>1, Zenon DEF new
    <3>2. CASE e \in s.dir[d].adds
      BY <1>1, <1>4, <2>3, <3>2, SMTT(60) DEF EntriesOK
    <3> QED
      BY <1>1, <3>1, <3>2, Zenon
  <2> QED
    BY <2>1, <2>2, <2>4, Zenon DEF EntriesOK
<1>6. \A d \in Inode : \A e \in Live(s.dir[d]) : e \in s.dir[d].adds
  BY Zenon DEF Live
<1>7. \A d \in Inode : \A e \in Live(x.dir[d]) : x.parent[e.inode] = d
  BY <1>1, <1>2, <1>4, <1>6, SMTT(60) DEF LinksOK
<1>8. \A d \in Inode : \A e, g \in Live(x.dir[d]) : e.inode = g.inode => e = g
  BY <1>1, <1>2, <1>4, <1>6, SMTT(60) DEF LinksOK
<1>9. Live(x.dir[new]) = {}
  BY <1>1, <1>6, Zenon
<1>10. ASSUME NEW i \in Inode PROVE \A d \in DirsFrom(x, i) : ~Lists(x.dir[d], i)
  <2>1. CASE i = new
    <3>1. DirClosed(x, {new}) /\ \A d \in {new} : ~Lists(x.dir[d], new)
      BY <1>9, Zenon DEF DirClosed, Lists
    <3> QED
      BY <1>1, <1>5, <2>1, <3>1, NotBelow, SMTT(60)
  <2>2. CASE i # new
    <3> DEFINE C == DirsFrom(s, i) \cup {new}
    <3>1. i \in C /\ C \in SUBSET Inode /\ DirClosed(s, DirsFrom(s, i)) /\ DirsFrom(s, i) \subseteq Inode
      BY <1>1, DirsFromLeast, Zenon
    <3>2. \A d \in DirsFrom(s, i) : ~Lists(s.dir[d], i)
      BY Zenon DEF LinksOK
    <3>3. DirClosed(x, C)
      BY <1>1, <1>2, <1>9, <3>1, SMTT(60) DEF DirClosed
    <3>4. \A d \in C : ~Lists(x.dir[d], i)
      BY <1>1, <1>2, <1>9, <2>2, <3>1, <3>2, SMTT(60) DEF Lists
    <3> HIDE DEF C
    <3> QED
      BY <1>5, <3>1, <3>3, <3>4, NotBelow, Zenon
  <2> QED
    BY <2>1, <2>2, Zenon
<1> QED
  BY <1>5, <1>7, <1>8, <1>10, Zenon DEF LinksOK

\* A directory moved by mutate_rename goes to a place that is not below it.
LEMMA OutsideSubtree ==
  ASSUME NEW s, RepType(s), EntriesOK(s), NEW m \in Inode, NEW np \in Inode,
         ~SubtreeContains(s, m, np)
  PROVE  np \notin DirsFrom(s, m)
<1> DEFINE C == DirsFrom(s, m)
<1>1. m \in C /\ C \subseteq Inode /\ DirClosed(s, C)
  BY DirsFromLeast, Zenon
<1>2. m # np /\ \A d \in C : ~Lists(s.dir[d], np)
  BY Zenon DEF SubtreeContains
<1>3. DirClosed(s, C \ {np})
  <2> HIDE DEF C
  <2> QED
    BY <1>1, <1>2, Zenon DEF DirClosed, Lists
<1>4. C \subseteq C \ {np}
  <2>1. C \ {np} \in SUBSET Inode /\ m \in C \ {np}
    BY <1>1, <1>2, SMTT(60)
  <2> QED
    BY <1>3, <2>1, DirsFromLeast, SMTT(60)
<1> QED
  BY <1>4, Zenon

\* mutate_rename moves one inode, with all that is below it.
LEMMA RenameTree ==
  ASSUME NEW s, RepType(s), EntriesOK(s), LinksOK(s), NEW op \in Op, op.id \notin s.applied,
         op.kind = "Rename", CanApply(s, op), Observed(s, op) # {},
         NEW x, RepType(x), SameNamespace(x, Effect(s, op)), x.applied = s.applied \cup {op.id}
  PROVE  EntriesOK(x) /\ LinksOK(x)
<1> DEFINE p  == op.parent
           np == op.newParent
           e  == MovedEntry(s, op)
           m  == e.inode
           ne == DirEntry(op, m, e.kind, op.newName)
<1>1. Shifts(s, x, op)
  BY RenameShape, Zenon
<1>2. /\ p \in Inode /\ np \in Inode /\ IsDir(s, np)
      /\ e \in Live(s.dir[p]) /\ m \in Inode
      /\ e.kind = "Dir" => ~SubtreeContains(s, m, np)
      /\ x.inode = s.inode
      /\ \A i \in Inode \ {m} : x.parent[i] = s.parent[i]
      /\ x.parent[m] = np
      /\ e \notin Live(x.dir[p])
  BY <1>1, Zenon DEF Shifts
<1>3. /\ \A d \in Inode \ {np} : x.dir[d].adds = s.dir[d].adds /\ Live(x.dir[d]) \subseteq Live(s.dir[d])
      /\ x.dir[np].adds = s.dir[np].adds \cup {ne}
      /\ Live(x.dir[np]) \subseteq Live(s.dir[np]) \cup {ne}
  BY <1>1, ZenonT(60) DEF Shifts
<1>4. ne.inode = m /\ ne.kind = e.kind /\ ne.dot = op.id
  BY Zenon DEF DirEntry
<1> HIDE DEF e, m, ne
<1>5. \A d \in Inode : \A g \in Live(s.dir[d]) : g \in s.dir[d].adds
  BY Zenon DEF Live
<1>6. m # Root /\ s.inode[m] # None /\ s.inode[m].kind = e.kind
  BY <1>2, <1>5, SMTT(60) DEF EntriesOK, m
<1>7. EntriesOK(x)
  <2>1. \A i \in Inode : IsDir(x, i) <=> IsDir(s, i)
    BY <1>2, Zenon DEF IsDir
  <2>2. IsDir(x, Root) /\ \A i \in Inode \ {Root} : x.inode[i] # None => i \in x.applied
    BY <1>2, <2>1, InodeTypes, Zenon DEF EntriesOK
  <2>3. ASSUME NEW d \in Inode, NEW g \in x.dir[d].adds
        PROVE  /\ IsDir(x, d) /\ g.dot \in x.applied /\ g.inode # Root
               /\ x.inode[g.inode] # None /\ x.inode[g.inode].kind = g.kind
    <3>1. CASE g \in s.dir[d].adds
      BY <1>2, <2>1, <3>1, SMTT(60) DEF EntriesOK
    <3>2. CASE g = ne /\ d = np
      BY <1>2, <1>4, <1>6, <2>1, <3>2, Zenon
    <3> QED
      BY <1>3, <3>1, <3>2, SMTT(60)
  <2> QED
    BY <2>2, <2>3, Zenon DEF EntriesOK
<1>8. \A d \in Inode : \A g \in Live(x.dir[d]) :
        (g \in Live(s.dir[d]) /\ g.inode # m) \/ (g = ne /\ d = np)
  <2>1. ASSUME NEW d \in Inode, NEW g \in Live(x.dir[d]), g \in Live(s.dir[d]), g.inode = m
        PROVE  FALSE
    <3>1. d = p
      BY <1>2, <2>1, SMTT(60) DEF LinksOK, m
    <3>2. g = e
      BY <1>2, <2>1, <3>1, SMTT(60) DEF LinksOK, m
    <3> QED
      BY <1>2, <2>1, <3>1, <3>2, Zenon
  <2>2. \A d \in Inode : \A g \in Live(x.dir[d]) : g \in Live(s.dir[d]) \/ (g = ne /\ d = np)
    BY <1>3, Zenon
  <2>3. \A d \in Inode : \A g \in Live(x.dir[d]) : g \in Live(s.dir[d]) => g.inode # m
    BY <2>1, Zenon
  <2> QED
    BY <2>2, <2>3, Zenon
<1>9. \A d \in Inode : \A g \in Live(x.dir[d]) : x.parent[g.inode] = d
  <2>1. \A d \in Inode : \A g \in Live(s.dir[d]) : g.inode \in Inode
    BY <1>5, SMTT(60) DEF RepType, DirMap, Entry
  <2> QED
    BY <1>2, <1>4, <1>8, <2>1, SMTT(60) DEF LinksOK
<1>10. \A d \in Inode : \A g, h \in Live(x.dir[d]) : g.inode = h.inode => g = h
  BY <1>4, <1>8, SMTT(60) DEF LinksOK
<1>11. ASSUME NEW i \in Inode PROVE \A d \in DirsFrom(x, i) : ~Lists(x.dir[d], i)
  <2> DEFINE C(j) == DirsFrom(s, j)
  <2>1. \A j \in Inode : j \in C(j) /\ C(j) \in SUBSET Inode /\ DirClosed(s, C(j))
    BY DirsFromLeast, Zenon
  <2>2. \A j \in Inode : \A d \in C(j) : ~Lists(s.dir[d], j)
    BY Zenon DEF LinksOK
  <2>3. ASSUME NEW j \in Inode, NEW k \in Inode, k \in C(j) PROVE C(k) \subseteq C(j)
    BY <2>1, <2>3, DirsFromLeast, SMTT(60)
  <2> HIDE DEF C
  <2>4. CASE e.kind # "Dir"
    <3>1. ~IsDir(x, m) /\ m # np
      BY <1>2, <1>6, <2>4, SMTT(60) DEF IsDir
    <3>2. Live(x.dir[m]) = {} /\ DirClosed(x, {m}) /\ \A j : ~Lists(x.dir[m], j)
      BY <1>2, <1>7, <3>1, NothingInFile, ZenonT(60)
    <3>3. CASE i = m
      BY <1>2, <1>7, <3>2, <3>3, NotBelow, SMTT(60)
    <3>4. CASE i # m
      <4>1. DirClosed(x, C(i))
        BY <1>4, <1>8, <2>1, <2>4, Zenon DEF DirClosed
      <4>2. \A d \in C(i) : ~Lists(x.dir[d], i)
        BY <1>4, <1>8, <2>1, <2>2, <3>4, Zenon DEF Lists
      <4> QED
        BY <1>7, <2>1, <4>1, <4>2, NotBelow, Zenon
    <3> QED
      BY <3>3, <3>4, SMTT(60)
  <2>5. CASE e.kind = "Dir"
    <3>1. np \notin C(m)
      BY <1>2, <2>5, OutsideSubtree, SMTT(60) DEF C
    <3>2. DirClosed(x, C(m))
      BY <1>2, <1>8, <2>1, <3>1, SMTT(60) DEF DirClosed
    <3>3. CASE i = m
      <4>1. \A d \in C(m) : ~Lists(x.dir[d], m)
        BY <1>2, <1>8, <2>1, <3>1, SMTT(60) DEF Lists
      <4> QED
        BY <1>2, <1>7, <2>1, <3>2, <3>3, <4>1, NotBelow, SMTT(60)
    <3>4. CASE i # m /\ np \notin C(i)
      <4>1. DirClosed(x, C(i))
        BY <1>8, <2>1, <3>4, SMTT(60) DEF DirClosed
      <4>2. \A d \in C(i) : ~Lists(x.dir[d], i)
        BY <1>8, <2>1, <2>2, <3>4, SMTT(60) DEF Lists
      <4> QED
        BY <1>7, <2>1, <4>1, <4>2, NotBelow, Zenon
    <3>5. CASE i # m /\ np \in C(i)
      <4> DEFINE B == C(i) \cup C(m)
      <4>1. i \in B /\ B \in SUBSET Inode
        BY <1>2, <2>1, Zenon
      <4>2. DirClosed(x, B)
        BY <1>2, <1>4, <1>8, <2>1, SMTT(60) DEF DirClosed
      <4>3. \A d \in C(i) : ~Lists(x.dir[d], i)
        BY <1>4, <1>8, <2>1, <2>2, <3>5, Zenon DEF Lists
      <4>4. ASSUME NEW d \in C(m), Lists(x.dir[d], i) PROVE FALSE
        <5>1. PICK g \in Live(x.dir[d]) : g.inode = i
          BY <4>4, Zenon DEF Lists
        <5>2. d \in Inode /\ g \in Live(s.dir[d])
          BY <1>2, <1>8, <2>1, <3>1, <5>1, SMTT(60)
        <5>3. CASE g.kind = "Dir"
          <6>1. i \in C(m)
            BY <1>2, <2>1, <5>1, <5>2, <5>3, ZenonT(60) DEF DirClosed
          <6>2. C(i) \subseteq C(m)
            BY <1>2, <2>3, <6>1, SMTT(60)
          <6> QED
            BY <3>1, <3>5, <6>2, SMTT(60)
        <5>4. CASE g.kind # "Dir"
          <6>1. ~IsDir(s, i)
            BY <1>5, <5>1, <5>2, <5>4, SMTT(60) DEF EntriesOK, IsDir
          <6>2. DirClosed(s, {i})
            BY <6>1, NothingInFile, Zenon
          <6>3. C(i) \subseteq {i}
            BY <6>2, DirsFromLeast, SMTT(60) DEF C
          <6> QED
            BY <1>2, <3>5, <6>1, <6>3, SMTT(60)
        <5> QED
          BY <5>3, <5>4, Zenon
      <4> HIDE DEF B
      <4>5. \A d \in B : ~Lists(x.dir[d], i)
        BY <4>3, <4>4, Zenon DEF B
      <4> QED
        BY <1>7, <4>1, <4>2, <4>5, NotBelow, SMTT(60)
    <3> QED
      BY <3>3, <3>4, <3>5, Zenon
  <2> QED
    BY <2>4, <2>5, SMTT(60)
<1> QED
  BY <1>7, <1>9, <1>10, <1>11, SMTT(60) DEF LinksOK

\* The tree depends on the tables of the namespace and on how many operations
\* were applied.
LEMMA SameTree ==
  ASSUME NEW s, NEW x, SameNamespace(x, s), x.applied = s.applied
  PROVE  /\ EntriesOK(s) <=> EntriesOK(x)
         /\ LinksOK(s) <=> LinksOK(x)
         /\ WalkedMap(s) = WalkedMap(x)
         /\ \A d : DirsFrom(s, d) = DirsFrom(x, d)
<1>1. \A d : DirsFrom(s, d) = DirsFrom(x, d)
  BY SMTT(60) DEF DirsFrom, DirLinks, SameNamespace
<1>2. EntriesOK(s) <=> EntriesOK(x)
  BY SMTT(60) DEF EntriesOK, SameNamespace, IsDir
<1>3. LinksOK(s) <=> LinksOK(x)
  BY <1>1, SMTT(60) DEF LinksOK, SameNamespace
<1>4. LiveFiles(s) = LiveFiles(x)
  BY <1>1, SMTT(60) DEF LiveFiles, SameNamespace
<1>5. \A i : DirObject(s, i) = DirObject(x, i) /\ FileObject(s, i) = FileObject(x, i)
  BY Zenon DEF DirObject, FileObject, SameNamespace
<1>6. WalkedMap(s) = WalkedMap(x)
  BY <1>1, <1>4, <1>5, SMTT(60) DEF WalkedMap
<1> QED
  BY <1>1, <1>2, <1>3, <1>6, SMTT(60)

\* Applying an operation keeps the tree, whatever its kind.
LEMMA ApplyTree ==
  ASSUME NEW s, RepType(s), EntriesOK(s), LinksOK(s), NEW op \in Op, op.id \notin s.applied,
         CanApply(s, op), NEW x, RepType(x), RepType(Effect(s, op)),
         SameNamespace(x, Effect(s, op)), x.applied = s.applied \cup {op.id}
  PROVE  EntriesOK(x) /\ LinksOK(x)
<1>1. CASE op.kind \in {"Mkdir", "CreateFile"}
  BY <1>1, CreateTree, Zenon
<1>2. CASE op.kind = "Write"
  BY <1>2, WriteShape, ShrinkTree, SMTT(60)
<1>3. CASE op.kind = "Unlink"
  <2>1. /\ x.inode = s.inode /\ x.parent = s.parent
        /\ \A d \in Inode : x.dir[d].adds = s.dir[d].adds /\ Live(x.dir[d]) \subseteq Live(s.dir[d])
    BY <1>3, UnlinkShape, ZenonT(60)
  <2> QED
    BY <2>1, ShrinkTree, Zenon
<1>4. CASE op.kind = "Rename" /\ Observed(s, op) # {}
  BY <1>4, RenameTree, Zenon
<1>5. CASE op.kind = "Rename" /\ Observed(s, op) = {}
  <2>1. Effect(s, op) = s
    BY <1>5, Zenon DEF Effect, RenameEffect
  <2>2. x.inode = s.inode /\ x.parent = s.parent /\ x.dir = s.dir
    BY <2>1, Zenon DEF SameNamespace
  <2> QED
    BY <2>2, ShrinkTree, Zenon
<1> QED
  BY <1>1, <1>2, <1>3, <1>4, <1>5, Zenon DEF Op, Kind

\* So does every step of a repository.
LEMMA TreeStep ==
  ASSUME TypeInv, TreeInv, NEW r \in Device, NEW x, NEW t, Step(r, x, t)
  PROVE  EntriesOK(x) /\ LinksOK(x)
<1>1. RepType(rep[r]) /\ RepType(x) /\ EntriesOK(rep[r]) /\ LinksOK(rep[r])
  BY Zenon DEF TypeInv, TreeInv, Step, Becomes
<1>2. ASSUME NEW op \in Op, op.id \notin rep[r].applied, Applies(rep[r], x, op)
      PROVE  EntriesOK(x) /\ LinksOK(x)
  <2>1. PICK k : /\ RepType(k) /\ SameNamespace(k, rep[r]) /\ k.applied = rep[r].applied
                 /\ CanApply(k, op) /\ RepType(Effect(k, op)) /\ SameNamespace(x, Effect(k, op))
    BY <1>2, Zenon DEF Applies
  <2>2. EntriesOK(k) /\ LinksOK(k)
    BY <1>1, <2>1, SameTree, SMTT(60)
  <2>3. op.id \notin k.applied /\ x.applied = k.applied \cup {op.id}
    BY <1>2, <2>1, Zenon DEF Applies
  <2> QED
    BY <1>1, <2>1, <2>2, <2>3, ApplyTree, SMTT(60)
<1>3. CASE SameNamespace(x, rep[r]) /\ x.applied = rep[r].applied
  BY <1>1, <1>3, SameTree, Zenon
<1> QED
  BY <1>2, <1>3, StepCases, Zenon

\* A new repository is its root directory, empty.
LEMMA BootstrappedTree == EntriesOK(Bootstrapped) /\ LinksOK(Bootstrapped)
<1> DEFINE b == Bootstrapped
<1>1. /\ b.applied = {} /\ b.dir = [i \in Inode |-> EmptyMap]
      /\ b.inode = [i \in Inode |-> IF i = Root THEN GenesisRoot ELSE None]
  BY BootstrappedEmpty, Zenon
<1> HIDE DEF b
<1>2. Live(EmptyMap) = {} /\ EmptyMap.adds = {}
  BY Zenon DEF Live, EmptyMap
<1>3. GenesisRoot # None /\ GenesisRoot.kind = "Dir"
  <2>1. GenesisRoot \in InodeRec
    BY Zenon DEF GenesisRoot, InodeRec, Register
  <2> QED
    BY <2>1, NoneAssumption, Zenon DEF GenesisRoot
<1>4. EntriesOK(b)
  BY <1>1, <1>2, <1>3, InodeTypes, SMTT(60) DEF EntriesOK, IsDir
<1>5. LinksOK(b)
  BY <1>1, <1>2, Zenon DEF LinksOK, Lists, DirsFrom
<1> QED
  BY <1>4, <1>5, Zenon DEF b

\* A bootstrapped repository is a tree of one directory.
LEMMA TreeInvInit == Init => TreeInv
  BY BootstrappedTree, Zenon DEF Init, TreeInv

\* No step of any device breaks the shape of a tree.
LEMMA TreeInvNext == TypeInv /\ TreeInv /\ [Next]_vars => TreeInv'
<1>1. CASE UNCHANGED vars
  BY <1>1, Zenon DEF vars, TreeInv
<1>2. ASSUME TypeInv, TreeInv, Next PROVE TreeInv'
  <2>1. PICK r \in Device : \E x, t : Step(r, x, t)
    BY <1>2, StepShape, Zenon
  <2>2. PICK x, t : Step(r, x, t)
    BY <2>1, Zenon
  <2>3. EntriesOK(x) /\ LinksOK(x)
    BY <1>2, <2>2, TreeStep, SMTT(60)
  <2>4. rep' = [q \in Device |-> IF q = r THEN x ELSE rep[q]]
    BY <1>2, <2>2, Zenon DEF Step, Becomes, TypeInv
  <2>5. ASSUME NEW q \in Device PROVE EntriesOK(rep'[q]) /\ LinksOK(rep'[q])
    BY <1>2, <2>3, <2>4, Zenon DEF TreeInv
  <2> QED
    BY <2>5, Zenon DEF TreeInv
<1> QED
  BY <1>1, <1>2, Zenon

\* The live entries of every repository form a tree: an inode is linked once,
\* never from below itself, and the root is linked nowhere (mutate_rename's
\* subtree_contains and the retraction of the observed dots).
THEOREM TreesStayTrees == Spec => []TreeShaped
<1>1. TypeInv /\ TreeInv => TreeShaped
  <2> SUFFICES ASSUME TypeInv, TreeInv, NEW r \in Device
               PROVE  /\ \A x, y \in Links(rep[r]) : x[2] = y[2] => x = y
                      /\ \A i \in Inode \ {Root} : \A d \in DirsFrom(rep[r], i) : ~Lists(rep[r].dir[d], i)
                      /\ \A x \in Links(rep[r]) : x[2] # Root
    BY Zenon DEF TreeShaped
  <2>1. EntriesOK(rep[r]) /\ LinksOK(rep[r])
    BY Zenon DEF TreeInv
  <2>2. ASSUME NEW x \in Links(rep[r])
        PROVE  \E d \in Inode : \E e \in Live(rep[r].dir[d]) : x = <<d, e.inode, e.dot>>
    BY Zenon DEF Links
  <2>3. \A x, y \in Links(rep[r]) : x[2] = y[2] => x = y
    <3> SUFFICES ASSUME NEW x \in Links(rep[r]), NEW y \in Links(rep[r]), x[2] = y[2]
                 PROVE  x = y
      BY Zenon
    <3>1. PICK d \in Inode : \E e \in Live(rep[r].dir[d]) : x = <<d, e.inode, e.dot>>
      BY <2>2, Zenon
    <3>2. PICK e \in Live(rep[r].dir[d]) : x = <<d, e.inode, e.dot>>
      BY <3>1, Zenon
    <3>3. PICK c \in Inode : \E g \in Live(rep[r].dir[c]) : y = <<c, g.inode, g.dot>>
      BY <2>2, Zenon
    <3>4. PICK g \in Live(rep[r].dir[c]) : y = <<c, g.inode, g.dot>>
      BY <3>3, Zenon
    <3>5. e.inode = g.inode
      BY <3>2, <3>4, SMTT(60)
    <3>6. d = c
      BY <2>1, <3>5, SMTT(60) DEF LinksOK
    <3>7. e = g
      BY <2>1, <3>5, <3>6, Zenon DEF LinksOK
    <3> QED
      BY <3>2, <3>4, <3>6, <3>7, SMTT(60)
  <2>4. \A x \in Links(rep[r]) : x[2] # Root
    <3>1. \A d \in Inode : \A e \in Live(rep[r].dir[d]) : e.inode # Root
      BY <2>1, Zenon DEF EntriesOK, Live
    <3> QED
      BY <2>2, <3>1, SMTT(60)
  <2> QED
    BY <2>1, <2>3, <2>4, Zenon DEF LinksOK
<1> QED
  BY <1>1, TypeInvInit, TypeInvNext, TreeInvInit, TreeInvNext, PTL DEF Spec

-----------------------------------------------------------------------------
(* The inode map *)

\* The inodes of the live tree.
Tree(s) == DirsFrom(s, Root) \cup LiveFiles(s)

\* The directories met from the root are directories, and the files are files.
LEMMA TreeKinds ==
  ASSUME NEW s, RepType(s), EntriesOK(s)
  PROVE  /\ \A i \in DirsFrom(s, Root) : i \in Inode /\ IsDir(s, i)
         /\ \A i \in LiveFiles(s) : /\ i \in Inode /\ ~IsDir(s, i) /\ s.inode[i] # None
                                    /\ \E d \in DirsFrom(s, Root) : Lists(s.dir[d], i)
         /\ \A d \in DirsFrom(s, Root) : \A e \in Live(s.dir[d]) : e.inode \in Tree(s)
<1> DEFINE D == {i \in Inode : IsDir(s, i)}
<1>1. \A d \in Inode : \A e \in Live(s.dir[d]) :
        /\ e \in s.dir[d].adds /\ e.inode \in Inode /\ e.kind \in {"Dir", "File"}
        /\ s.inode[e.inode] # None /\ s.inode[e.inode].kind = e.kind
  BY DEF Live, RepType, DirMap, Entry, EntriesOK
<1>2. Root \in D /\ D \in SUBSET Inode /\ DirClosed(s, D)
  BY <1>1, InodeTypes, Zenon DEF EntriesOK, DirClosed, IsDir
<1>3. /\ DirsFrom(s, Root) \subseteq D
      /\ DirClosed(s, DirsFrom(s, Root))
  BY <1>2, InodeTypes, DirsFromLeast, Zenon
<1>4. ASSUME NEW i \in LiveFiles(s)
      PROVE  \E d \in DirsFrom(s, Root) : \E e \in Live(s.dir[d]) : e.inode = i /\ e.kind = "File"
  BY Zenon DEF LiveFiles
<1>5. ASSUME NEW i \in LiveFiles(s)
      PROVE  /\ i \in Inode /\ ~IsDir(s, i) /\ s.inode[i] # None
             /\ \E d \in DirsFrom(s, Root) : Lists(s.dir[d], i)
  <2>1. PICK d \in DirsFrom(s, Root) : \E e \in Live(s.dir[d]) : e.inode = i /\ e.kind = "File"
    BY <1>4, Zenon
  <2>2. PICK e \in Live(s.dir[d]) : e.inode = i /\ e.kind = "File"
    BY <2>1, Zenon
  <2> QED
    BY <1>1, <1>3, <2>1, <2>2, SMTT(60) DEF IsDir, Lists
<1>6. ASSUME NEW d \in DirsFrom(s, Root), NEW e \in Live(s.dir[d]) PROVE e.inode \in Tree(s)
  <2>1. CASE e.kind = "Dir"
    BY <1>3, <2>1, Zenon DEF DirClosed, Tree
  <2>2. CASE e.kind = "File"
    BY <2>2, Zenon DEF LiveFiles, Tree
  <2> QED
    BY <1>1, <1>3, <2>1, <2>2, SMTT(60)
<1> QED
  BY <1>3, <1>5, <1>6, Zenon

\* is_reachable, which climbs recorded parents, says of an inode that it is in
\* the live tree exactly when it is, as long as the map holds nothing else.
LEMMA ReachableIff ==
  ASSUME NEW s, RepType(s), EntriesOK(s), LinksOK(s),
         \A j \in Inode : s.imap[j] # None => j \in Tree(s), NEW i \in Inode
  PROVE  IsReachable(s, i) <=> i \in Tree(s)
<1> DEFINE L == ParentLinks(s)
           F == {j \in Inode : j = Root \/ s.imap[j] # None}
           n == Cardinality(s.applied)
           W == s.applied \cup {Root}
           R == Reach(L, F, n)
<1>1. \A x \in L : \E j \in Inode : /\ x = <<s.parent[j], j>> /\ s.parent[j] \in Inode
                                    /\ Lists(s.dir[s.parent[j]], j)
  BY Zenon DEF ParentLinks, RepType
<1>2. ASSUME NEW d \in Inode, NEW j \in Inode, Lists(s.dir[d], j) PROVE <<d, j>> \in L
  <2>1. s.parent[j] = d
    BY <1>2, Zenon DEF Lists, LinksOK
  <2> QED
    BY <1>2, <2>1, NoneAssumption, SMTT(60) DEF ParentLinks
<1>3. Root \in Tree(s) /\ Tree(s) \subseteq Inode
  BY TreeKinds, InodeTypes, DirsFromLeast, ZenonT(60) DEF Tree
<1>4. F \subseteq Tree(s) /\ Root \in F /\ F \subseteq Inode
  BY <1>3, InodeTypes, Zenon
<1>5. Closed(L, Tree(s))
  <2> SUFFICES ASSUME NEW x \in L, x[1] \in Tree(s) PROVE x[2] \in Tree(s)
    BY Zenon DEF Closed
  <2>1. PICK j \in Inode : x = <<s.parent[j], j>> /\ s.parent[j] \in Inode
                           /\ Lists(s.dir[s.parent[j]], j)
    BY <1>1, Zenon
  <2>2. IsDir(s, s.parent[j])
    BY <2>1, NothingInFile, ZenonT(60)
  <2>3. s.parent[j] \in DirsFrom(s, Root)
    BY <2>1, <2>2, TreeKinds, Zenon DEF Tree
  <2> QED
    BY <2>1, <2>3, TreeKinds, SMTT(60) DEF Lists
<1>6. IsFiniteSet(W) /\ n \in Nat /\ Cardinality(W) <= n + 1
  <2>1. IsFiniteSet(s.applied) /\ n \in Nat
    BY IdFinite, FS_Subset, FS_CardinalityType, Zenon DEF RepType
  <2>2. /\ IsFiniteSet(W)
        /\ Root \in s.applied => Cardinality(W) = n
        /\ Root \notin s.applied => Cardinality(W) = n + 1
    BY <2>1, FS_AddElement, Zenon
  <2> QED
    BY <2>1, <2>2, SMTT(60)
<1>7. Tree(s) \subseteq W
  BY <1>3, TreeKinds, Zenon DEF EntriesOK, IsDir, Tree
<1>8. \A x \in L : x[2] \in W
  <2> SUFFICES ASSUME NEW x \in L PROVE x[2] \in W
    BY Zenon
  <2>1. PICK j \in Inode : x = <<s.parent[j], j>> /\ s.parent[j] \in Inode
                           /\ Lists(s.dir[s.parent[j]], j)
    BY <1>1, Zenon
  <2>2. s.inode[j] # None /\ j # Root
    BY <2>1, Zenon DEF Lists, Live, EntriesOK
  <2> QED
    BY <2>1, <2>2, Zenon DEF EntriesOK
<1>9. R \subseteq Tree(s)
  BY <1>4, <1>5, <1>6, ReachWithin, SMTT(60)
<1>10. Closed(L, R) /\ F \subseteq R
  BY <1>4, <1>6, <1>7, <1>8, ReachCloses, ReachGrows, SMTT(60)
<1>11. Tree(s) \subseteq R
  <2> HIDE DEF R, L, F
  <2>1. \A d \in R \cap Inode : \A e \in Live(s.dir[d]) : e.inode \in R
    <3> SUFFICES ASSUME NEW d \in R \cap Inode, NEW e \in Live(s.dir[d]) PROVE e.inode \in R
      BY Zenon
    <3>1. e.inode \in Inode
      BY DEF Live, RepType, DirMap, Entry
    <3>2. Lists(s.dir[d], e.inode)
      BY Zenon DEF Lists
    <3>3. <<d, e.inode>> \in L
      BY <1>2, <3>1, <3>2, Zenon
    <3> QED
      BY <1>10, <3>3, Zenon DEF Closed
  <2>2. DirClosed(s, R \cap Inode)
    <3>1. \A d \in Inode : \A e \in Live(s.dir[d]) : e.inode \in Inode
      BY DEF Live, RepType, DirMap, Entry
    <3> QED
      BY <2>1, <3>1, Zenon DEF DirClosed
  <2>3. R \cap Inode \in SUBSET Inode /\ Root \in R \cap Inode
    BY <1>4, <1>10, InodeTypes, Zenon
  <2>4. DirsFrom(s, Root) \subseteq R \cap Inode
    BY <2>2, <2>3, DirsFromLeast, InodeTypes, Zenon
  <2> QED
    BY <2>1, <2>4, TreeKinds, SMTT(60) DEF Tree, Lists
<1> QED
  BY <1>9, <1>11, Zenon DEF IsReachable

\* refresh_map_entry sets the entry a full walk would set.
LEMMA RefreshIsWalk ==
  ASSUME NEW s, RepType(s), EntriesOK(s), LinksOK(s), s.imap = [j \in Inode |-> s.imap[j]],
         \A j \in Inode : s.imap[j] # None => j \in Tree(s), NEW i \in Inode
  PROVE  LET c == RefreshMapEntry(s, i)
         IN  /\ RepType(c) /\ SameNamespace(c, s) /\ c.applied = s.applied
             /\ c.imap = [j \in Inode |-> IF j = i THEN WalkedMap(s)[i] ELSE s.imap[j]]
             /\ \A j \in Inode : c.imap[j] # None => j \in Tree(s)
<1> DEFINE c == RefreshMapEntry(s, i)
           v == IF ~IsReachable(s, i) \/ s.inode[i] = None THEN None
                ELSE IF IsDir(s, i) THEN DirObject(s, i) ELSE FileObject(s, i)
<1>1. c = [s EXCEPT !.imap = [s.imap EXCEPT ![i] = v]]
  BY Zenon DEF RefreshMapEntry
<1>2. IsReachable(s, i) <=> i \in Tree(s)
  BY ReachableIff, Zenon
<1>3. v = WalkedMap(s)[i]
  BY <1>2, TreeKinds, Zenon DEF WalkedMap, IsDir, Tree
<1>4. i \notin Tree(s) => v = None
  BY <1>2, Zenon
<1> HIDE DEF v
<1>5. /\ RepType(c) /\ SameNamespace(c, s) /\ c.applied = s.applied
      /\ c.imap = [s.imap EXCEPT ![i] = v]
  BY <1>1, Zenon DEF RepType, SameNamespace
<1>6. [s.imap EXCEPT ![i] = v] = [j \in Inode |-> IF j = i THEN v ELSE s.imap[j]]
  BY Zenon
<1> HIDE DEF c
<1>7. \A j \in Inode : c.imap[j] # None => j \in Tree(s)
  BY <1>4, <1>5, <1>6, SMTT(60)
<1> QED
  BY <1>3, <1>5, <1>6, <1>7, Zenon DEF c

\* The map is that of a full walk.
Walked(s) == s.imap = WalkedMap(s)

WalkInv == \A r \in Device : Walked(rep[r])

\* A map that is that of a walk is a function, and holds the live tree.
LEMMA WalkedFacts ==
  ASSUME NEW s, RepType(s), EntriesOK(s)
  PROVE  /\ WalkedMap(s) = [j \in Inode |-> WalkedMap(s)[j]]
         /\ \A j \in Inode : WalkedMap(s)[j] # None => j \in Tree(s)
         /\ \A j \in Inode : WalkedMap(s)[j] = IF j \in DirsFrom(s, Root) THEN DirObject(s, j)
                                               ELSE IF j \in LiveFiles(s) THEN FileObject(s, j)
                                               ELSE None
  BY Zenon DEF WalkedMap, Tree

\* After a create the tree is the old one and at most the new inode.
LEMMA CreateGrows ==
  ASSUME NEW s, RepType(s), EntriesOK(s), NEW x, RepType(x), EntriesOK(x),
         NEW op \in Op, op.kind \in {"Mkdir", "CreateFile"}, Hangs(s, x, op)
  PROVE  /\ DirsFrom(s, Root) \subseteq DirsFrom(x, Root)
         /\ DirsFrom(x, Root) \subseteq DirsFrom(s, Root) \cup {op.id}
         /\ LiveFiles(s) \subseteq LiveFiles(x)
         /\ LiveFiles(x) \subseteq LiveFiles(s) \cup {op.id}
<1> DEFINE p  == op.parent
           ne == DirEntry(op, op.id, EntryTypeOf(op), op.name)
           D  == DirsFrom(s, Root)
           E  == DirsFrom(x, Root)
<1>1. /\ p \in Inode /\ op.id \in Inode
      /\ \A d \in Inode : Live(s.dir[d]) \subseteq Live(x.dir[d])
      /\ \A d \in Inode : Live(x.dir[d]) \subseteq Live(s.dir[d]) \cup {ne}
      /\ s.dir[op.id].adds = {} /\ p # op.id
      /\ \A d \in Inode \ {p} : Live(x.dir[d]) = Live(s.dir[d])
  <2>1. /\ p \in Inode /\ op.id \in Inode /\ p # op.id /\ s.dir[op.id].adds = {}
        /\ \A d \in Inode \ {p} : Live(x.dir[d]) = Live(s.dir[d])
        /\ Live(s.dir[p]) \subseteq Live(x.dir[p])
        /\ Live(x.dir[p]) \subseteq Live(s.dir[p]) \cup {ne}
    BY Zenon DEF Hangs
  <2> HIDE DEF p, ne
  <2> QED
    BY <2>1, SMTT(60)
<1>2. ne.inode = op.id
  BY Zenon DEF DirEntry
<1>3. Live(x.dir[op.id]) = {}
  BY <1>1, Zenon DEF Live
<1>4. /\ Root \in D /\ D \in SUBSET Inode /\ DirClosed(s, D)
      /\ \A C \in SUBSET Inode : Root \in C /\ DirClosed(s, C) => D \subseteq C
  BY DirsFromLeast, InodeTypes, Zenon
<1>5. /\ Root \in E /\ E \in SUBSET Inode /\ DirClosed(x, E)
      /\ \A C \in SUBSET Inode : Root \in C /\ DirClosed(x, C) => E \subseteq C
  BY DirsFromLeast, InodeTypes, Zenon
<1> HIDE DEF D, E, ne
<1>6. DirClosed(s, E)
  BY <1>1, <1>5, Zenon DEF DirClosed
<1>7. DirClosed(x, D \cup {op.id})
  BY <1>1, <1>2, <1>3, <1>4, SMTT(60) DEF DirClosed
<1>8. D \subseteq E /\ E \subseteq D \cup {op.id}
  BY <1>1, <1>4, <1>5, <1>6, <1>7, Zenon
<1>9. \A i : i \in LiveFiles(s) <=> \E d \in D : \E e \in Live(s.dir[d]) : e.kind = "File" /\ e.inode = i
  BY Zenon DEF LiveFiles, D
<1>10. \A i : i \in LiveFiles(x) <=> \E d \in E : \E e \in Live(x.dir[d]) : e.kind = "File" /\ e.inode = i
  BY Zenon DEF LiveFiles, E
<1>11. LiveFiles(s) \subseteq LiveFiles(x)
  BY <1>1, <1>4, <1>8, <1>9, <1>10, SMTT(60)
<1>12. ASSUME NEW i \in LiveFiles(x), i # op.id PROVE i \in LiveFiles(s)
  <2>1. PICK d \in E : \E e \in Live(x.dir[d]) : e.kind = "File" /\ e.inode = i
    BY <1>10, Zenon
  <2>2. PICK e \in Live(x.dir[d]) : e.kind = "File" /\ e.inode = i
    BY <2>1, Zenon
  <2>3. d \in D
    BY <1>3, <1>8, <2>2, Zenon
  <2>4. e \in Live(s.dir[d])
    BY <1>1, <1>2, <1>4, <1>12, <2>2, <2>3, Zenon
  <2> QED
    BY <1>9, <2>2, <2>3, <2>4, Zenon
<1> QED
  BY <1>8, <1>11, <1>12, SMTT(60) DEF D, E

\* The two entries a create refreshes are the two that change.
LEMMA CreateWalk ==
  ASSUME NEW s, RepType(s), EntriesOK(s), Walked(s),
         NEW o, RepType(o), EntriesOK(o), LinksOK(o), o.imap = s.imap,
         NEW op \in Op, op.kind \in {"Mkdir", "CreateFile"}, Hangs(s, o, op)
  PROVE  Walked(MaintainInodeMap(o, op))
<1> DEFINE p == op.parent
           w == WalkedMap(o)
           a == RefreshMapEntry(o, p)
           c == RefreshMapEntry(a, op.id)
<1>1. /\ p \in Inode /\ op.id \in Inode
      /\ \A j \in Inode \ {p, op.id} : o.dir[j] = s.dir[j] /\ o.inode[j] = s.inode[j]
  BY ZenonT(60) DEF Hangs
<1>2. /\ DirsFrom(s, Root) \subseteq DirsFrom(o, Root)
      /\ DirsFrom(o, Root) \subseteq DirsFrom(s, Root) \cup {op.id}
      /\ LiveFiles(s) \subseteq LiveFiles(o)
      /\ LiveFiles(o) \subseteq LiveFiles(s) \cup {op.id}
  BY CreateGrows, Zenon
<1>3. /\ s.imap = [j \in Inode |-> s.imap[j]]
      /\ \A j \in Inode : s.imap[j] # None => j \in Tree(s)
      /\ \A j \in Inode : s.imap[j] = IF j \in DirsFrom(s, Root) THEN DirObject(s, j)
                                      ELSE IF j \in LiveFiles(s) THEN FileObject(s, j)
                                      ELSE None
  BY WalkedFacts, SMTT(60) DEF Walked
<1>4. \A j \in Inode : o.imap[j] # None => j \in Tree(o)
  BY <1>2, <1>3, Zenon DEF Tree
<1>5. \A j \in Inode : w[j] = IF j \in DirsFrom(o, Root) THEN DirObject(o, j)
                              ELSE IF j \in LiveFiles(o) THEN FileObject(o, j)
                              ELSE None
  BY WalkedFacts, Zenon
<1>6. w = [j \in Inode |-> w[j]]
  BY WalkedFacts, Zenon
<1>7. \A j \in Inode \ {p, op.id} : w[j] = s.imap[j]
  <2>1. \A j \in Inode \ {p, op.id} : DirObject(o, j) = DirObject(s, j) /\ FileObject(o, j) = FileObject(s, j)
    BY <1>1, ZenonT(60) DEF DirObject, FileObject
  <2> HIDE DEF w
  <2> QED
    BY <1>2, <1>3, <1>5, <2>1, ZenonT(60)
<1> HIDE DEF w
<1>8. /\ RepType(a) /\ SameNamespace(a, o) /\ a.applied = o.applied
      /\ a.imap = [j \in Inode |-> IF j = p THEN w[p] ELSE o.imap[j]]
      /\ \A j \in Inode : a.imap[j] # None => j \in Tree(o)
  <2>1. o.imap = [j \in Inode |-> o.imap[j]]
    BY <1>3, Zenon
  <2> QED
    BY <1>1, <1>4, <2>1, RefreshIsWalk, ZenonT(60) DEF w
<1> HIDE DEF a
<1>9. EntriesOK(a) /\ LinksOK(a) /\ WalkedMap(a) = w /\ Tree(a) = Tree(o)
  <2>1. EntriesOK(a) /\ LinksOK(a) /\ WalkedMap(a) = w /\ DirsFrom(a, Root) = DirsFrom(o, Root)
    BY <1>8, SameTree, SMTT(60) DEF w
  <2>2. LiveFiles(a) = LiveFiles(o)
    BY <1>8, <2>1, SMTT(60) DEF LiveFiles, SameNamespace
  <2> QED
    BY <2>1, <2>2, Zenon DEF Tree
<1>10. /\ SameNamespace(c, a) /\ c.applied = a.applied
       /\ c.imap = [j \in Inode |-> IF j = op.id THEN w[op.id] ELSE a.imap[j]]
  <2>1. a.imap = [j \in Inode |-> a.imap[j]]
    BY <1>8, Zenon
  <2>2. \A j \in Inode : a.imap[j] # None => j \in Tree(a)
    BY <1>8, <1>9, Zenon
  <2>3. /\ SameNamespace(c, a) /\ c.applied = a.applied
        /\ c.imap = [j \in Inode |-> IF j = op.id THEN WalkedMap(a)[op.id] ELSE a.imap[j]]
    BY <1>1, <1>8, <1>9, <2>1, <2>2, RefreshIsWalk, ZenonT(60)
  <2> QED
    BY <1>9, <2>3, Zenon
<1>11. MaintainInodeMap(o, op) = c
  BY Zenon DEF MaintainInodeMap, a, InodeForOp
<1> HIDE DEF c
<1>12. WalkedMap(c) = w
  BY <1>9, <1>10, SameTree, SMTT(60)
<1>13. c.imap = w
  <2>1. \A j \in Inode : (IF j = op.id THEN w[op.id] ELSE a.imap[j]) = w[j]
    BY <1>1, <1>7, <1>8, SMTT(60)
  <2> QED
    BY <1>6, <1>10, <2>1, SMTT(60)
<1> QED
  BY <1>11, <1>12, <1>13, SMTT(60) DEF Walked

\* The entry a write refreshes is the one that changes.
LEMMA WriteWalk ==
  ASSUME NEW s, RepType(s), EntriesOK(s), Walked(s),
         NEW o, RepType(o), EntriesOK(o), LinksOK(o), o.imap = s.imap,
         NEW op \in Op, op.kind = "Write", op.inode \in Inode, o.dir = s.dir,
         \A i \in Inode \ {op.inode} : o.inode[i] = s.inode[i]
  PROVE  Walked(MaintainInodeMap(o, op))
<1> DEFINE w == WalkedMap(o)
           c == RefreshMapEntry(o, op.inode)
           D == DirsFrom(s, Root)
           E == DirsFrom(o, Root)
<1>1. D = E
  <2>1. /\ Root \in D /\ D \in SUBSET Inode /\ DirClosed(s, D)
        /\ \A C \in SUBSET Inode : Root \in C /\ DirClosed(s, C) => D \subseteq C
    BY DirsFromLeast, InodeTypes, Zenon
  <2>2. /\ Root \in E /\ E \in SUBSET Inode /\ DirClosed(o, E)
        /\ \A C \in SUBSET Inode : Root \in C /\ DirClosed(o, C) => E \subseteq C
    BY DirsFromLeast, InodeTypes, Zenon
  <2> HIDE DEF D, E
  <2>3. \A C : DirClosed(s, C) <=> DirClosed(o, C)
    BY Zenon DEF DirClosed
  <2> QED
    BY <2>1, <2>2, <2>3, Zenon
<1>2. LiveFiles(o) = LiveFiles(s)
  BY <1>1, Zenon DEF LiveFiles
<1>3. /\ s.imap = [j \in Inode |-> s.imap[j]]
      /\ \A j \in Inode : s.imap[j] # None => j \in Tree(s)
      /\ \A j \in Inode : s.imap[j] = IF j \in DirsFrom(s, Root) THEN DirObject(s, j)
                                      ELSE IF j \in LiveFiles(s) THEN FileObject(s, j)
                                      ELSE None
  BY WalkedFacts, SMTT(60) DEF Walked
<1>4. \A j \in Inode : o.imap[j] # None => j \in Tree(o)
  BY <1>1, <1>2, <1>3, Zenon DEF Tree
<1>5. \A j \in Inode : w[j] = IF j \in DirsFrom(o, Root) THEN DirObject(o, j)
                              ELSE IF j \in LiveFiles(o) THEN FileObject(o, j)
                              ELSE None
  BY WalkedFacts, Zenon
<1>6. w = [j \in Inode |-> w[j]]
  BY WalkedFacts, Zenon
<1> HIDE DEF w
<1>7. \A j \in Inode \ {op.inode} : w[j] = s.imap[j]
  <2>1. \A j \in Inode \ {op.inode} : DirObject(o, j) = DirObject(s, j) /\ FileObject(o, j) = FileObject(s, j)
    BY Zenon DEF DirObject, FileObject
  <2> QED
    BY <1>1, <1>2, <1>3, <1>5, <2>1, SMTT(60)
<1>8. /\ SameNamespace(c, o) /\ c.applied = o.applied
      /\ c.imap = [j \in Inode |-> IF j = op.inode THEN w[op.inode] ELSE o.imap[j]]
  <2>1. o.imap = [j \in Inode |-> o.imap[j]]
    BY <1>3, Zenon
  <2> QED
    BY <1>4, <2>1, RefreshIsWalk, ZenonT(60) DEF w
<1>9. MaintainInodeMap(o, op) = c
  BY Zenon DEF MaintainInodeMap
<1> HIDE DEF c
<1>10. WalkedMap(c) = w
  BY <1>8, SameTree, Zenon DEF w
<1>11. c.imap = w
  <2>1. \A j \in Inode : (IF j = op.inode THEN w[op.inode] ELSE o.imap[j]) = w[j]
    BY <1>7, Zenon
  <2> QED
    BY <1>6, <1>8, <2>1, SMTT(60)
<1> QED
  BY <1>9, <1>10, <1>11, Zenon DEF Walked

\* What maintain_inode_map is given.
LEMMA CommitParts ==
  ASSUME NEW s, RepType(s), NEW op \in Op, CanApply(s, op)
  PROVE  \E o : /\ Commit(s, op) = MaintainInodeMap(o, op)
                /\ RepType(o) /\ SameNamespace(o, Effect(s, op)) /\ o.imap = s.imap
                /\ o.applied = s.applied \cup {op.id}
<1> DEFINE f == Effect(s, op)
           m == MarkApplied(f, op)
           o == ObserveTime(m, op)
<1>1. RepType(f)
  BY CommitFrame, Zenon
<1>2. f.imap = s.imap /\ f.applied = s.applied
  <2>1. CASE op.kind \in {"Mkdir", "CreateFile"}
    <3>1. f = CreateEffect(s, op)
      BY <2>1, Zenon DEF Effect
    <3> QED
      BY <3>1, Zenon DEF CreateEffect, RepType
  <2>2. CASE op.kind = "Write"
    <3>1. f = WriteEffect(s, op)
      BY <2>2, Zenon DEF Effect
    <3> QED
      BY <3>1, Zenon DEF WriteEffect, RepType
  <2>3. CASE op.kind = "Rename"
    <3>1. f = RenameEffect(s, op)
      BY <2>3, Zenon DEF Effect
    <3> QED
      BY <3>1, Zenon DEF RenameEffect, RepType
  <2>4. CASE op.kind = "Unlink"
    <3>1. f = UnlinkEffect(s, op)
      BY <2>4, Zenon DEF Effect
    <3> QED
      BY <3>1, Zenon DEF UnlinkEffect, RepType
  <2> QED
    BY <2>1, <2>2, <2>3, <2>4, SMTT(60) DEF Op, Kind
<1> HIDE DEF f
<1>3. /\ RepType(m) /\ SameNamespace(m, f) /\ m.imap = f.imap
      /\ m.applied = f.applied \cup {op.id}
  BY <1>1, ZenonT(60) DEF MarkApplied, RepType, SameNamespace, Op
<1> HIDE DEF m
<1>4. RepType(o) /\ SameNamespace(o, m) /\ o.imap = m.imap /\ o.applied = m.applied
  BY <1>3, KeyType, Zenon DEF ObserveTime, RepType, SameNamespace
<1>5. Commit(s, op) = MaintainInodeMap(o, op)
  BY Zenon DEF Commit, m, f
<1> HIDE DEF o
<1> QED
  BY <1>2, <1>3, <1>4, <1>5, SMTT(60) DEF SameNamespace, f

\* Committing an operation keeps the map that of a walk.
LEMMA CommitWalk ==
  ASSUME NEW s, RepType(s), EntriesOK(s), LinksOK(s), Walked(s), NEW op \in Op,
         op.id \notin s.applied, CanApply(s, op), RepType(Effect(s, op))
  PROVE  Walked(Commit(s, op))
<1>1. PICK o : /\ Commit(s, op) = MaintainInodeMap(o, op)
               /\ RepType(o) /\ SameNamespace(o, Effect(s, op)) /\ o.imap = s.imap
               /\ o.applied = s.applied \cup {op.id}
  BY CommitParts, Zenon
<1>2. EntriesOK(o) /\ LinksOK(o)
  BY <1>1, ApplyTree, Zenon
<1>3. CASE op.kind \in {"Mkdir", "CreateFile"}
  <2>1. Hangs(s, o, op)
    BY <1>1, <1>3, CreateShape, SMTT(60)
  <2> QED
    BY <1>1, <1>2, <1>3, <2>1, CreateWalk, SMTT(60)
<1>4. CASE op.kind = "Write"
  <2>1. /\ o.dir = s.dir /\ op.inode \in Inode
        /\ \A i \in Inode \ {op.inode} : o.inode[i] = s.inode[i]
    BY <1>1, <1>4, WriteShape, SMTT(60)
  <2>2. Walked(MaintainInodeMap(o, op))
    BY <1>1, <1>2, <1>4, <2>1, WriteWalk, ZenonT(60)
  <2> QED
    BY <1>1, <2>2, SMTT(60)
<1>5. CASE op.kind \in {"Rename", "Unlink"}
  <2> DEFINE c == [o EXCEPT !.imap = WalkedMap(o)]
  <2>1. MaintainInodeMap(o, op) = c
    BY <1>5, Zenon DEF MaintainInodeMap
  <2>2. SameNamespace(c, o) /\ c.applied = o.applied /\ c.imap = WalkedMap(o)
    BY <1>1, Zenon DEF RepType, SameNamespace
  <2> HIDE DEF c
  <2> QED
    BY <1>1, <2>1, <2>2, SameTree, SMTT(60) DEF Walked
<1> QED
  BY <1>3, <1>4, <1>5, SMTT(60) DEF Op, Kind

\* So does every step of a repository.
LEMMA WalkStep ==
  ASSUME TypeInv, TreeInv, WalkInv, NEW r \in Device, NEW x, NEW t, Step(r, x, t)
  PROVE  Walked(x)
<1>1. RepType(rep[r]) /\ EntriesOK(rep[r]) /\ LinksOK(rep[r]) /\ Walked(rep[r])
  BY Zenon DEF TypeInv, TreeInv, WalkInv
<1>2. ASSUME NEW op \in Op, op.id \notin rep[r].applied, Applies(rep[r], x, op)
      PROVE  Walked(x)
  <2>1. PICK k : /\ RepType(k) /\ SameNamespace(k, rep[r]) /\ SameIndex(k, rep[r])
                 /\ k.applied = rep[r].applied /\ CanApply(k, op) /\ RepType(Effect(k, op))
                 /\ SameNamespace(x, Effect(k, op)) /\ SameIndex(x, Commit(k, op))
    BY <1>2, Zenon DEF Applies
  <2>2. EntriesOK(k) /\ LinksOK(k) /\ WalkedMap(k) = WalkedMap(rep[r])
    BY <1>1, <2>1, SameTree, SMTT(60)
  <2>3. Walked(k)
    BY <1>1, <2>1, <2>2, SMTT(60) DEF Walked, SameIndex
  <2>4. Walked(Commit(k, op))
    BY <1>2, <2>1, <2>2, <2>3, CommitWalk, ZenonT(60)
  <2>5. SameNamespace(Commit(k, op), Effect(k, op)) /\ Commit(k, op).applied = k.applied \cup {op.id}
    BY <2>1, CommitFrame, ZenonT(60)
  <2>6. SameNamespace(x, Commit(k, op)) /\ x.applied = Commit(k, op).applied
    BY <1>2, <2>1, <2>5, ZenonT(60) DEF Applies, SameNamespace
  <2>7. WalkedMap(x) = WalkedMap(Commit(k, op))
    BY <2>6, SameTree, Zenon
  <2> QED
    BY <2>1, <2>4, <2>7, SMTT(60) DEF Walked, SameIndex
<1>3. CASE SameNamespace(x, rep[r]) /\ SameIndex(x, rep[r]) /\ x.applied = rep[r].applied
  <2>1. WalkedMap(x) = WalkedMap(rep[r])
    BY <1>3, SameTree, Zenon
  <2> QED
    BY <1>1, <1>3, <2>1, SMTT(60) DEF Walked, SameIndex
<1> QED
  BY <1>2, <1>3, StepCases, Zenon

\* bootstrap_if_needed walks the tree of its root.
LEMMA WalkInvInit == Init => WalkInv
<1> DEFINE bare == [oplog   |-> {}, applied |-> {}, pending |-> {},
                    inode   |-> [i \in Inode |-> IF i = Root THEN GenesisRoot ELSE None],
                    parent  |-> [i \in Inode |-> None],
                    dir     |-> [i \in Inode |-> EmptyMap],
                    imap    |-> [i \in Inode |-> None],
                    head    |-> None,
                    time    |-> 0, blobs |-> {}, next |-> 0]
           b == BuildSnapshot([bare EXCEPT !.imap = WalkedMap(bare)])
<1>1. Bootstrapped = b
  BY Zenon DEF Bootstrapped
<1>2. SameNamespace(b, bare) /\ b.applied = bare.applied
  BY Zenon DEF BuildSnapshot, SameNamespace
<1>3. b.imap = WalkedMap(bare)
  BY Zenon DEF BuildSnapshot
<1> HIDE DEF b, bare
<1>4. Walked(b)
  BY <1>2, <1>3, SameTree, SMTT(60) DEF Walked
<1> QED
  BY <1>1, <1>4, Zenon DEF Init, WalkInv

\* Every step that changes the directories also rebuilds the map.
LEMMA WalkInvNext == TypeInv /\ TreeInv /\ WalkInv /\ [Next]_vars => WalkInv'
<1>1. CASE UNCHANGED vars
  BY <1>1, Zenon DEF vars, WalkInv
<1>2. ASSUME TypeInv, TreeInv, WalkInv, Next PROVE WalkInv'
  <2>1. PICK r \in Device : \E x, t : Step(r, x, t)
    BY <1>2, StepShape, SMTT(60)
  <2>2. PICK x, t : Step(r, x, t)
    BY <2>1, Zenon
  <2>3. Walked(x)
    BY <1>2, <2>2, WalkStep, SMTT(60)
  <2>4. rep' = [q \in Device |-> IF q = r THEN x ELSE rep[q]]
    BY <1>2, <2>2, SMTT(60) DEF Step, Becomes, TypeInv
  <2>5. ASSUME NEW q \in Device PROVE Walked(rep'[q])
    BY <1>2, <2>3, <2>4, SMTT(60) DEF WalkInv
  <2> QED
    BY <2>5, Zenon DEF WalkInv
<1> QED
  BY <1>1, <1>2, SMTT(60)

\* The map maintain_inode_map patches one entry at a time is at every moment the
\* map a full walk of the live tree computes, for every order of application.
THEOREM MapIsMaintained == Spec => []ImapIsWalk
<1>1. WalkInv => ImapIsWalk
  BY Zenon DEF WalkInv, Walked, ImapIsWalk
<1> QED
  BY <1>1, TypeInvInit, TypeInvNext, TreeInvInit, TreeInvNext, WalkInvInit, WalkInvNext, PTL DEF Spec

-----------------------------------------------------------------------------
(* What the tables say of the operations applied *)

\* x is s after operation op was applied to k, which is s but for the log.
Lands(s, k, x, op) ==
  /\ op \in x.oplog /\ op.id \notin s.applied /\ op.id \notin k.applied
  /\ RepType(k) /\ EntriesOK(k) /\ SameNamespace(k, s) /\ SameIndex(k, s)
  /\ CanApply(k, op) /\ RepType(Effect(k, op)) /\ SameNamespace(x, Effect(k, op))
  /\ SameIndex(x, Commit(k, op)) /\ AppliedOps(x) = AppliedOps(s) \cup {op}

\* Nothing is applied.
Rests(s, x) ==
  SameNamespace(x, s) /\ SameIndex(x, s) /\ AppliedOps(x) = AppliedOps(s)

\* A step of a repository applies one operation or none.
LEMMA LandsOrRests ==
  ASSUME TypeInv, LogInv, TreeInv, NEW r \in Device, NEW x, NEW t, Step(r, x, t)
  PROVE  /\ RepType(rep[r]) /\ RepType(x) /\ rep[r].oplog \subseteq x.oplog
         /\ \A q \in Device : rep'[q] = IF q = r THEN x ELSE rep[q]
         /\ Rests(rep[r], x) \/ \E op \in Op : \E k : Lands(rep[r], k, x, op)
<1> DEFINE s == rep[r]
<1>1. /\ RepType(s) /\ RepType(x) /\ s.oplog \subseteq x.oplog
      /\ \A q \in Device : rep'[q] = IF q = r THEN x ELSE rep[q]
  BY LogStep, SMTT(60)
<1>2. /\ \A o \in s.oplog : \A p \in s.oplog : o.id = p.id => o = p
      /\ \A o \in x.oplog : \A p \in x.oplog : o.id = p.id => o = p
      /\ s.pending \subseteq s.oplog
      /\ s.applied \subseteq IdsOf(s.oplog)
  <2>1. \A o \in x.oplog : \A p \in x.oplog : o.id = p.id => o = p
    BY <1>1, IdsStep, SMTT(60)
  <2> QED
    BY <2>1, Zenon DEF LogInv, LogWellFormed
<1>3. EntriesOK(s)
  BY Zenon DEF TreeInv
<1>4. ASSUME x.applied = s.applied, SameNamespace(x, s), SameIndex(x, s),
             NEW op, x.oplog \subseteq s.oplog \cup {op}, op.id \notin s.applied \/ x.oplog = s.oplog
      PROVE  Rests(s, x)
  <2>1. AppliedOps(x) = AppliedOps(s)
    BY <1>1, <1>4, SMTT(60) DEF AppliedOps
  <2> QED
    BY <1>4, <2>1, Zenon DEF Rests
<1>5. ASSUME NEW op \in Op, op.id \notin s.applied, Applies(s, x, op), op \in x.oplog,
             x.oplog \subseteq s.oplog \cup {op}
      PROVE  \E k : Lands(s, k, x, op)
  <2>1. PICK k : /\ RepType(k) /\ SameNamespace(k, s) /\ SameIndex(k, s) /\ k.applied = s.applied
                 /\ CanApply(k, op) /\ RepType(Effect(k, op)) /\ SameNamespace(x, Effect(k, op))
                 /\ SameIndex(x, Commit(k, op))
    BY <1>5, SMTT(60) DEF Applies
  <2>2. x.applied = s.applied \cup {op.id}
    BY <1>5, SMTT(60) DEF Applies
  <2>3. AppliedOps(x) = AppliedOps(s) \cup {op}
    BY <1>1, <1>2, <1>5, <2>2, SMTT(60) DEF AppliedOps
  <2>4. EntriesOK(k)
    BY <1>3, <2>1, SameTree, SMTT(60)
  <2> QED
    BY <1>5, <2>1, <2>3, <2>4, SMTT(60) DEF Lands
<1>6. CASE Quiet(s, x)
  <2>1. PICK op : op \in {None}
    BY Zenon
  <2>2. x.oplog = s.oplog /\ x.applied = s.applied /\ SameNamespace(x, s) /\ SameIndex(x, s)
    BY <1>6, Zenon DEF Quiet
  <2>3. x.oplog \subseteq s.oplog \cup {op}
    BY <2>2, Zenon
  <2>4. Rests(s, x)
    BY <1>4, <2>2, <2>3, SMTT(60)
  <2> QED
    BY <1>1, <2>4, SMTT(60)
<1>7. CASE \E op \in Op : Takes(s, x, op) /\ Sourced(r, x, op)
  <2>1. PICK op \in Op : Takes(s, x, op)
    BY <1>7, SMTT(60)
  <2>2. x.oplog = s.oplog \cup {op} /\ op.id \notin s.applied
    BY <2>1, Zenon DEF Takes
  <2>3. CASE Keeps(s, x, op)
    <3>1. x.applied = s.applied /\ SameNamespace(x, s) /\ SameIndex(x, s)
      BY <2>3, SMTT(60) DEF Keeps
    <3>2. x.oplog \subseteq s.oplog \cup {op}
      BY <2>2, SMTT(60)
    <3>3. Rests(s, x)
      BY <1>4, <2>2, <3>1, <3>2, SMTT(60)
    <3> QED
      BY <1>1, <3>3, SMTT(60)
  <2>4. CASE Applies(s, x, op)
    <3>1. x.oplog \subseteq s.oplog \cup {op} /\ op \in x.oplog
      BY <2>2, SMTT(60)
    <3>2. \E k : Lands(s, k, x, op)
      BY <1>5, <2>2, <2>4, <3>1, SMTT(60)
    <3> QED
      BY <1>1, <3>2, SMTT(60)
  <2> QED
    BY <1>1, <2>1, <2>3, <2>4, SMTT(60) DEF Takes
<1>8. CASE \E op \in Op : Resumes(s, x, op) /\ x.next = s.next
  <2>1. PICK op \in Op : Resumes(s, x, op)
    BY <1>8, SMTT(60)
  <2>2. op \in x.oplog /\ x.oplog = s.oplog /\ op.id \notin s.applied /\ Applies(s, x, op)
    BY <1>2, <2>1, SMTT(60) DEF Resumes
  <2> QED
    BY <1>1, <1>5, <2>2, SMTT(60)
<1> QED
  BY <1>1, <1>6, <1>7, <1>8, SMTT(60) DEF Step

\* An inode is what the operation that made it says.
MadeBy(s, i, op) ==
  /\ op \in s.oplog /\ op.id = i /\ op.kind \in {"Mkdir", "CreateFile"}
  /\ s.inode[i].kind = EntryTypeOf(op) /\ s.inode[i].ctime = op.time

Minted(s) ==
  /\ s.inode[Root] = GenesisRoot
  /\ \A i \in Inode \ {Root} : s.inode[i] # None => \E op : MadeBy(s, i, op)

\* The time is the highest one applied (observe_time).
Timed(s) ==
  /\ \A op \in AppliedOps(s) : op.time <= s.time
  /\ s.time = 0 \/ \E op \in AppliedOps(s) : op.time = s.time

\* Writes, removals and renames leave the kinds and times of the inodes.
LEMMA MintedLands ==
  ASSUME NEW s, RepType(s), Minted(s), NEW x, s.oplog \subseteq x.oplog,
         NEW op \in Op, NEW k, Lands(s, k, x, op)
  PROVE  Minted(x)
<1>1. /\ RepType(k) /\ EntriesOK(k) /\ k.inode = s.inode /\ CanApply(k, op)
      /\ SameNamespace(x, Effect(k, op)) /\ op \in x.oplog /\ op.id \notin k.applied
  BY Zenon DEF Lands, SameNamespace
<1>2. CASE op.kind \in {"Mkdir", "CreateFile"}
  <2>1. Hangs(k, x, op)
    BY <1>1, <1>2, CreateShape, Zenon
  <2>2. /\ op.id \in Inode \ {Root} /\ x.inode[op.id] = InodeRecord(op)
        /\ \A i \in Inode \ {op.id} : x.inode[i] = s.inode[i]
    BY <1>1, <2>1, Zenon DEF Hangs
  <2>3. MadeBy(x, op.id, op)
    BY <1>1, <1>2, <2>2, SMTT(60) DEF MadeBy, InodeRecord
  <2> QED
    BY <2>2, <2>3, InodeTypes, SMTT(60) DEF Minted, MadeBy
<1>3. CASE op.kind = "Write"
  <2>1. /\ op.inode \in Inode /\ s.inode[op.inode] # None /\ s.inode[op.inode].kind = "File"
        /\ \A i \in Inode \ {op.inode} : x.inode[i] = s.inode[i]
    BY <1>1, <1>3, WriteShape, SMTT(60)
  <2>2. x.inode = WriteEffect(k, op).inode
    BY <1>1, <1>3, Zenon DEF SameNamespace, Effect
  <2>3. k.inode[op.inode] \in InodeRec
    BY <1>1, <2>1, Zenon DEF RepType
  <2>4. x.inode[op.inode].kind = s.inode[op.inode].kind /\ x.inode[op.inode].ctime = s.inode[op.inode].ctime
    BY <1>1, <2>1, <2>2, <2>3, SMTT(60) DEF WriteEffect, InodeRec, RepType
  <2>5. op.inode # Root
    BY <1>1, <2>1, Zenon DEF EntriesOK, IsDir
  <2> QED
    BY <2>1, <2>4, <2>5, InodeTypes, SMTT(60) DEF Minted, MadeBy
<1>4. CASE op.kind \in {"Rename", "Unlink"}
  <2>1. x.inode = s.inode
    <3>1. CASE op.kind = "Rename"
      BY <1>1, <3>1, Zenon DEF Effect, RenameEffect, SameNamespace, RepType
    <3>2. CASE op.kind = "Unlink"
      BY <1>1, <3>2, SMTT(60) DEF Effect, UnlinkEffect, SameNamespace, RepType
    <3> QED
      BY <1>4, <3>1, <3>2, Zenon
  <2> QED
    BY <2>1, SMTT(60) DEF Minted, MadeBy
<1> QED
  BY <1>2, <1>3, <1>4, SMTT(60) DEF Op, Kind

\* The time stays the highest one applied.
LEMMA TimedLands ==
  ASSUME NEW s, RepType(s), Timed(s), NEW x, NEW op \in Op, NEW k, Lands(s, k, x, op)
  PROVE  Timed(x)
<1>1. x.time = IF op.time > s.time THEN op.time ELSE s.time
  BY CommitTime, SMTT(60) DEF Lands, SameIndex
<1>2. s.time \in Nat /\ \A o \in AppliedOps(s) \cup {op} : o.time \in Nat
  BY KeyType, SMTT(60) DEF RepType, AppliedOps
<1>3. AppliedOps(x) = AppliedOps(s) \cup {op}
  BY Zenon DEF Lands
<1> QED
  BY <1>1, <1>2, <1>3, SMTT(60) DEF Timed
=============================================================================
