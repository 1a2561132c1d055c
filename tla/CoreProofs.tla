----------------------------- MODULE CoreProofs -----------------------------
(***************************************************************************)
(* The orders of Crdt: numbers, dots and register keys.  Then: Core keeps  *)
(* its types, for every set of devices, names, contents and clock          *)
(* readings.  What makes TypeOK inductive is what a running handler may    *)
(* count on: the rows a drain has still to visit are parked, and a call    *)
(* that is to write after its create has room for one more operation.      *)
(* Last the logs, and the forms a step takes with what each leaves behind. *)
(***************************************************************************)
EXTENDS Core, FiniteSetTheorems, WellFoundedInduction, TLAPS

-----------------------------------------------------------------------------
(* Numbers *)

\* A nonempty set of numbers has a least one.
LEMMA LeastNatural ==
  ASSUME NEW T, T \subseteq Nat, T # {}
  PROVE  \E m \in T : \A n \in T : m <= n
<1>1. \E m \in T : \A n \in T : ~(<<n, m>> \in OpToRel(<, Nat))
  BY NatLessThanWellFounded, WFMin, Zenon
<1>2. \A n, m \in Nat : n < m => <<n, m>> \in OpToRel(<, Nat)
  BY Zenon DEF OpToRel
<1>3. PICK m \in T : \A n \in T : ~(<<n, m>> \in OpToRel(<, Nat))
  BY <1>1, Zenon
<1>4. ASSUME NEW n \in T PROVE m <= n
  <2>1. n \in Nat /\ m \in Nat
    BY Zenon
  <2>2. ~(n < m)
    BY <1>2, <1>3, <2>1, Zenon
  <2> QED
    BY <2>1, <2>2
<1> QED
  BY <1>4, Zenon

\* A nonempty set of numbers below a bound has a greatest one.
LEMMA GreatestNatural ==
  ASSUME NEW T, T \subseteq Nat, T # {}, NEW b \in Nat, \A n \in T : n <= b
  PROVE  \E m \in T : \A n \in T : n <= m
<1> DEFINE U == {k \in Nat : \E n \in T : k = b - n}
<1>1. U # {} /\ U \subseteq Nat
  <2>1. PICK n \in T : TRUE
    BY Zenon
  <2>2. b - n \in U
    BY <2>1
  <2> QED
    BY <2>2, Zenon
<1>2. PICK k \in U : \A j \in U : k <= j
  <2> HIDE DEF U
  <2> QED BY <1>1, LeastNatural, Zenon
<1>3. PICK m \in T : k = b - m
  BY <1>2, Zenon
<1>4. \A n \in T : b - n \in U
  OBVIOUS
<1>5. \A n \in T : n <= m
  BY <1>2, <1>3, <1>4
<1> QED
  BY <1>5, Zenon

\* A finite set of numbers is bounded.
LEMMA FiniteBounded ==
  ASSUME NEW S, S \subseteq Nat, IsFiniteSet(S)
  PROVE  \E b \in Nat : \A n \in S : n <= b
<1> DEFINE Bad == {X \in SUBSET Nat : IsFiniteSet(X) /\ ~\E b \in Nat : \A n \in X : n <= b}
           C == {k \in Nat : \E X \in Bad : k = Cardinality(X)}
<1>1. SUFFICES Bad = {}
  BY <1>1, Zenon
<1>2. SUFFICES ASSUME Bad # {} PROVE FALSE
  BY Zenon
<1>3. \A X \in Bad : Cardinality(X) \in Nat
  BY FS_CardinalityType, Zenon
<1>4. C # {} /\ C \subseteq Nat
  BY <1>2, <1>3, Zenon
<1>5. PICK k \in C : \A j \in C : k <= j
  <2> HIDE DEF C
  <2> QED BY <1>4, LeastNatural, Zenon
<1>6. PICK X \in Bad : k = Cardinality(X)
  BY <1>5, Zenon
<1>7. PICK x \in X : TRUE
  BY <1>6, Zenon
<1>8. X \ {x} \notin Bad
  <2>1. IsFiniteSet(X) /\ x \in X
    BY <1>6, <1>7, Zenon
  <2>2. IsFiniteSet(X \ {x}) /\ Cardinality(X \ {x}) = Cardinality(X) - 1
    BY <2>1, FS_RemoveElement, Zenon
  <2>3. Cardinality(X) - 1 \notin C
    BY <1>3, <1>5, <1>6
  <2>4. Cardinality(X \ {x}) \in Nat
    BY <2>2, FS_CardinalityType, Zenon
  <2> QED
    BY <2>2, <2>3, <2>4, Zenon
<1>9. IsFiniteSet(X \ {x}) /\ X \ {x} \in SUBSET Nat
  BY <1>6, <1>7, FS_RemoveElement, Zenon
<1>10. PICK b \in Nat : \A n \in X \ {x} : n <= b
  BY <1>8, <1>9, Zenon
<1>11. \E c \in Nat : \A n \in X : n <= c
  <2>1. x \in Nat
    BY <1>6, <1>7, Zenon
  <2>2. \A n \in X : n <= b + x
    BY <1>6, <1>10, <2>1
  <2> QED
    BY <2>1, <2>2, SMTT(60)
<1> QED
  BY <1>6, <1>11, Zenon

-----------------------------------------------------------------------------
(* Dots and keys *)

\* The order of dots is strict and total.
LEMMA DotOrder ==
  ASSUME NEW a \in Nat \X Nat, NEW b \in Nat \X Nat
  PROVE  /\ ~DotLess(a, a)
         /\ ~(DotLess(a, b) /\ DotLess(b, a))
         /\ a = b \/ DotLess(a, b) \/ DotLess(b, a)
<1>1. a = <<a[1], a[2]>> /\ b = <<b[1], b[2]>>
  OBVIOUS
<1>2. a[1] \in Nat /\ a[2] \in Nat /\ b[1] \in Nat /\ b[2] \in Nat
  BY Zenon
<1> QED
  BY <1>1, <1>2 DEF DotLess

\* A nonempty set of dots has a least one: LeastDot is an element of it.
LEMMA LeastDotIn ==
  ASSUME NEW T, T \subseteq Nat \X Nat, T # {}
  PROVE  LeastDot(T) \in T /\ \A e \in T : e = LeastDot(T) \/ DotLess(LeastDot(T), e)
<1> DEFINE D == {d \in Nat : \E e \in T : e[1] = d}
<1>1. D # {} /\ D \subseteq Nat
  <2>1. PICK e \in T : TRUE
    BY Zenon
  <2>2. e[1] \in D
    BY <2>1, Zenon
  <2> QED
    BY <2>2, Zenon
<1>2. PICK d \in D : \A x \in D : d <= x
  <2> HIDE DEF D
  <2> QED BY <1>1, LeastNatural, Zenon
<1> DEFINE C == {c \in Nat : \E e \in T : e[1] = d /\ e[2] = c}
<1>3. C # {} /\ C \subseteq Nat
  <2>1. PICK e \in T : e[1] = d
    BY <1>2, Zenon
  <2>2. e[2] \in C
    BY <2>1, Zenon
  <2> QED
    BY <2>2, Zenon
<1>4. PICK c \in C : \A x \in C : c <= x
  <2> HIDE DEF C
  <2> QED BY <1>3, LeastNatural, Zenon
<1>5. PICK m \in T : m[1] = d /\ m[2] = c
  BY <1>4, Zenon
<1>6. ASSUME NEW e \in T PROVE e = m \/ DotLess(m, e)
  <2>1. e[1] \in D /\ e[1] \in Nat /\ e[2] \in Nat /\ m[1] \in Nat /\ m[2] \in Nat
    BY Zenon
  <2>2. e = <<e[1], e[2]>> /\ m = <<m[1], m[2]>>
    OBVIOUS
  <2>3. m[1] <= e[1]
    BY <1>2, <1>5, <2>1, Zenon
  <2>4. e[1] = m[1] => m[2] <= e[2]
    BY <1>4, <1>5, <2>1, Zenon
  <2> HIDE DEF D, C
  <2> QED
    BY <2>1, <2>2, <2>3, <2>4 DEF DotLess
<1>7. \E x \in T : \A e \in T : e = x \/ DotLess(x, e)
  BY <1>6, Zenon
<1> HIDE DEF D, C
<1> QED
  BY <1>7, Zenon DEF LeastDot

\* A nonempty set of dots below a bound has a greatest one: GreatestDot is an
\* element of it.
LEMMA GreatestDotIn ==
  ASSUME NEW T, T \subseteq Nat \X Nat, T # {},
         NEW b \in Nat, \A e \in T : e[1] <= b /\ e[2] <= b
  PROVE  GreatestDot(T) \in T /\ \A e \in T : e = GreatestDot(T) \/ DotLess(e, GreatestDot(T))
<1> DEFINE D == {d \in Nat : \E e \in T : e[1] = d}
<1>1. D # {} /\ D \subseteq Nat
  <2>1. PICK e \in T : TRUE
    BY Zenon
  <2>2. e[1] \in D
    BY <2>1, Zenon
  <2> QED
    BY <2>2, Zenon
<1>2. PICK d \in D : \A x \in D : x <= d
  <2>1. \A x \in D : x <= b
    BY Zenon
  <2> HIDE DEF D
  <2> QED BY <1>1, <2>1, GreatestNatural, Zenon
<1> DEFINE C == {c \in Nat : \E e \in T : e[1] = d /\ e[2] = c}
<1>3. C # {} /\ C \subseteq Nat
  <2>1. PICK e \in T : e[1] = d
    BY <1>2, Zenon
  <2>2. e[2] \in C
    BY <2>1, Zenon
  <2> QED
    BY <2>2, Zenon
<1>4. PICK c \in C : \A x \in C : x <= c
  <2>1. \A x \in C : x <= b
    BY Zenon
  <2> HIDE DEF C
  <2> QED BY <1>3, <2>1, GreatestNatural, Zenon
<1>5. PICK m \in T : m[1] = d /\ m[2] = c
  BY <1>4, Zenon
<1>6. ASSUME NEW e \in T PROVE e = m \/ DotLess(e, m)
  <2>1. e[1] \in D /\ e[1] \in Nat /\ e[2] \in Nat /\ m[1] \in Nat /\ m[2] \in Nat
    BY Zenon
  <2>2. e = <<e[1], e[2]>> /\ m = <<m[1], m[2]>>
    OBVIOUS
  <2>3. e[1] <= m[1]
    BY <1>2, <1>5, <2>1, Zenon
  <2>4. e[1] = m[1] => e[2] <= m[2]
    BY <1>4, <1>5, <2>1, Zenon
  <2> HIDE DEF D, C
  <2> QED
    BY <2>1, <2>2, <2>3, <2>4 DEF DotLess
<1>7. \E x \in T : \A e \in T : e = x \/ DotLess(e, x)
  BY <1>6, Zenon
<1> HIDE DEF D, C
<1> QED
  BY <1>7, Zenon DEF GreatestDot

\* The order of register keys is strict, total and transitive, so the value a
\* register keeps does not depend on the order of merges.
LEMMA KeyOrder ==
  ASSUME NEW a \in Nat \X Nat \X Nat, NEW b \in Nat \X Nat \X Nat,
         NEW c \in Nat \X Nat \X Nat
  PROVE  /\ ~KeyLess(a, a)
         /\ ~(KeyLess(a, b) /\ KeyLess(b, a))
         /\ a = b \/ KeyLess(a, b) \/ KeyLess(b, a)
         /\ KeyLess(a, b) /\ KeyLess(b, c) => KeyLess(a, c)
<1>1. a = <<a[1], a[2], a[3]>> /\ b = <<b[1], b[2], b[3]>>
  OBVIOUS
<1>2. /\ a[1] \in Nat /\ a[2] \in Nat /\ a[3] \in Nat
      /\ b[1] \in Nat /\ b[2] \in Nat /\ b[3] \in Nat
      /\ c[1] \in Nat /\ c[2] \in Nat /\ c[3] \in Nat
  BY Zenon
<1>3. \A x, y \in Nat \X Nat \X Nat :
        KeyLess(x, y) <=> \/ x[1] < y[1]
                          \/ x[1] = y[1] /\ x[2] < y[2]
                          \/ x[1] = y[1] /\ x[2] = y[2] /\ x[3] < y[3]
  BY Zenon DEF KeyLess, DotLess
<1>4. ~KeyLess(a, a) /\ ~(KeyLess(a, b) /\ KeyLess(b, a))
  BY <1>2, <1>3
<1>5. a = b \/ KeyLess(a, b) \/ KeyLess(b, a)
  BY <1>1, <1>2, <1>3
<1>6. KeyLess(a, b) /\ KeyLess(b, c) => KeyLess(a, c)
  BY <1>2, <1>3
<1> QED
  BY <1>4, <1>5, <1>6, Zenon

-----------------------------------------------------------------------------
(* The types *)

\* What a handler may go on with in repository s.
ThenOK(s, then) ==
  /\ then \in Then \cup {None}
  /\ then # None /\ then.at = "write" => s.next < MaxOps /\ then.time \in Times

TaskOK(s, t) ==
  /\ t \in Task
  /\ ThenOK(s, t.then)
  /\ t.at = "drain" => t.todo \subseteq IdsOf(s.pending)
  /\ t.at \in {"write", "import"} => t.then # None /\ t.then.at = t.at

\* The inductive strengthening of TypeOK.
TypeInv ==
  /\ rep = [r \in Device |-> rep[r]]
  /\ task = [r \in Device |-> task[r]]
  /\ \A r \in Device : RepType(rep[r]) /\ TaskOK(rep[r], task[r])

-----------------------------------------------------------------------------
(* Ids and keys *)

\* The inode of an operation (inode_for_op) is an inode other than the root.
LEMMA InodeTypes == /\ Root \in Inode
                    /\ \A id \in Id : InodeForOp(id) \in Inode /\ InodeForOp(id) # Root
  BY DeviceAssumption DEF Inode, Root, Id, InodeForOp

\* An operation id is a pair of numbers.
LEMMA IdType == \A id \in Id : id[1] \in Nat /\ id[2] \in Nat /\ id = <<id[1], id[2]>>
<1> SUFFICES ASSUME NEW id \in Id
             PROVE  id[1] \in Nat /\ id[2] \in Nat /\ id = <<id[1], id[2]>>
  BY Zenon
<1>1. PICK d \in Device, n \in 1 .. MaxOps : id = <<d, n>>
  BY DEF Id
<1> QED
  BY <1>1, DeviceAssumption, BoundAssumption

\* So is the order key of an operation a triple of them.
LEMMA KeyType == \A op \in Op : OpKey(op) \in Nat \X Nat \X Nat /\ op.time \in Nat
  BY IdType, BoundAssumption, Zenon DEF Op, OpKey

\* Ids are bounded: finitely many devices, at most MaxOps operations each.
LEMMA IdBounded == Id \subseteq Nat \X Nat /\ \E b \in Nat : \A id \in Id : id[1] <= b /\ id[2] <= b
<1>1. Id \subseteq Nat \X Nat
  BY IdType, DeviceAssumption, BoundAssumption, Zenon DEF Id
<1>2. PICK c \in Nat : \A d \in Device : d <= c
  BY FiniteBounded, DeviceAssumption, Zenon
<1>3. ASSUME NEW id \in Id PROVE id[1] <= c + MaxOps /\ id[2] <= c + MaxOps
  <2>1. PICK d \in Device, n \in 1 .. MaxOps : id = <<d, n>>
    BY DEF Id
  <2>2. d <= c /\ d \in Nat /\ n \in Nat /\ n <= MaxOps
    BY <1>2, DeviceAssumption, BoundAssumption
  <2> QED
    BY <2>1, <2>2, BoundAssumption
<1>4. c + MaxOps \in Nat
  BY BoundAssumption
<1> QED
  BY <1>1, <1>3, <1>4, Zenon

-----------------------------------------------------------------------------
(* The effect of one operation *)

\* mutate_create keeps the types.
LEMMA CreateType ==
  ASSUME NEW s, RepType(s), NEW op \in Op, op.kind \in {"Mkdir", "CreateFile"}
  PROVE  RepType(CreateEffect(s, op))
<1> DEFINE new == InodeForOp(op.id)
<1>1. new \in Inode
  BY InodeTypes, Zenon DEF Op
<1>2. InodeRecord(op) \in InodeRec
  BY KeyType, Zenon DEF InodeRecord, InodeRec, EntryTypeOf, Register
<1>3. DirEntry(op, new, EntryTypeOf(op), op.name) \in Entry
  BY <1>1, Zenon DEF DirEntry, Entry, EntryTypeOf, Op
<1>4. EmptyMap \in DirMap
  BY Zenon DEF EmptyMap, DirMap
<1>5. \A m \in DirMap, e \in Entry : Add(m, e) \in DirMap
  BY Zenon DEF Add, DirMap
<1>6. op.parent \in Inode
  BY Zenon DEF Op
<1> QED
  BY <1>1, <1>2, <1>3, <1>4, <1>5, <1>6, ZenonT(60) DEF RepType, CreateEffect
\* mutate_write keeps the types: it is applied to an inode that exists.
LEMMA WriteType ==
  ASSUME NEW s, RepType(s), NEW op \in Op, s.inode[op.inode] # None
  PROVE  RepType(WriteEffect(s, op))
<1>1. op.inode \in Inode /\ s.inode[op.inode] \in InodeRec
  BY Zenon DEF RepType, Op
<1> DEFINE reg == [key |-> OpKey(op), value |-> FileNode(op)]
<1>2. reg \in Register
  <2>1. FileNode(op) \in Node
    BY Zenon DEF FileNode, Node, Op
  <2> QED
    BY <2>1, KeyType, Zenon DEF Register
<1>3. MergeReg(s.inode[op.inode].content, reg) \in Register
  BY <1>1, <1>2, Zenon DEF MergeReg, InodeRec
<1> HIDE DEF reg
<1>4. [s.inode[op.inode] EXCEPT !.content = MergeReg(s.inode[op.inode].content, reg)] \in InodeRec
  BY <1>1, <1>3, Zenon DEF InodeRec
<1>5. WriteEffect(s, op) =
        [s EXCEPT !.inode[op.inode] =
           [s.inode[op.inode] EXCEPT !.content = MergeReg(s.inode[op.inode].content, reg)]]
  BY <1>1, Zenon DEF WriteEffect, reg, RepType
<1> QED
  BY <1>1, <1>4, <1>5, SMTT(60) DEF RepType

\* The entry a rename moves is one it observed (the greatest dot exists).
LEMMA MovedEntryIn ==
  ASSUME NEW s, RepType(s), NEW op \in Op, Observed(s, op) # {}
  PROVE  MovedEntry(s, op) \in Observed(s, op) /\ MovedEntry(s, op) \in Entry
<1>1. op.parent \in Inode
  BY Zenon DEF Op
<1>2. s.dir[op.parent] \in DirMap
  BY <1>1, Zenon DEF RepType
<1>3. Observed(s, op) \subseteq Entry
  BY <1>2, Zenon DEF Observed, GetAll, Live, DirMap
<1>4. DotsOf(Observed(s, op)) \subseteq Id /\ DotsOf(Observed(s, op)) # {}
  BY <1>3, Zenon DEF DotsOf, Entry
<1>5. PICK b \in Nat : \A id \in Id : id[1] <= b /\ id[2] <= b
  BY IdBounded, Zenon
<1>6. DotsOf(Observed(s, op)) \subseteq Nat \X Nat
  BY <1>4, IdBounded, Zenon
<1>7. GreatestDot(DotsOf(Observed(s, op))) \in DotsOf(Observed(s, op))
  BY <1>4, <1>5, <1>6, GreatestDotIn, Zenon
<1>8. \E e \in Observed(s, op) : e.dot = GreatestDot(DotsOf(Observed(s, op)))
  BY <1>7, Zenon DEF DotsOf
<1> QED
  BY <1>3, <1>8, Zenon DEF MovedEntry

\* mutate_rename keeps the types.
LEMMA RenameType ==
  ASSUME NEW s, RepType(s), NEW op \in Op
  PROVE  RepType(RenameEffect(s, op))
<1>1. CASE Observed(s, op) = {}
  BY <1>1, Zenon DEF RenameEffect
<1>2. CASE Observed(s, op) # {}
  <2> DEFINE e == MovedEntry(s, op)
  <2>1. e \in Entry
    BY <1>2, MovedEntryIn, Zenon
  <2> HIDE DEF e
  <2>2. e.inode \in Inode /\ op.parent \in Inode /\ op.newParent \in Inode
    BY <2>1, Zenon DEF Entry, Op
  <2>3. DirEntry(op, e.inode, e.kind, op.newName) \in Entry
    BY <2>1, <2>2, Zenon DEF DirEntry, Entry, Op
  <2>4. \A m \in DirMap, x \in Entry : Add(m, x) \in DirMap
    BY Zenon DEF Add, DirMap
  <2>5. \A m \in DirMap : RemoveDots(m, op.name, op.observed) \in DirMap
    BY DEF RemoveDots, DirMap, Op
  <2> QED
    BY <1>2, <2>2, <2>3, <2>4, <2>5, Zenon DEF RenameEffect, RepType, e
<1> QED
  BY <1>1, <1>2, Zenon

\* mutate_unlink keeps the types.
LEMMA UnlinkType ==
  ASSUME NEW s, RepType(s), NEW op \in Op
  PROVE  RepType(UnlinkEffect(s, op))
<1>1. op.parent \in Inode
  BY Zenon DEF Op
<1>2. \A m \in DirMap : RemoveDots(m, op.name, op.observed) \in DirMap
  BY DEF RemoveDots, DirMap, Op
<1> QED
  BY <1>1, <1>2, Zenon DEF UnlinkEffect, RepType

\* The tables a mutation, and those the bookkeeping after it, leaves alone.
SameTables(x, y) ==
  /\ x.oplog = y.oplog /\ x.applied = y.applied /\ x.pending = y.pending
  /\ x.blobs = y.blobs /\ x.next = y.next

SameNamespace(x, y) == x.inode = y.inode /\ x.parent = y.parent /\ x.dir = y.dir

\* What a snapshot is built from.
SameIndex(x, y) == x.imap = y.imap /\ x.time = y.time

\* maintain_inode_map writes the inode map and nothing else.
LEMMA MaintainFrame ==
  ASSUME NEW s, RepType(s), NEW op \in Op
  PROVE  LET c == MaintainInodeMap(s, op)
         IN  RepType(c) /\ SameTables(c, s) /\ SameNamespace(c, s)
<1>1. ASSUME NEW x, NEW i, RepType(x)
      PROVE  LET c == RefreshMapEntry(x, i)
             IN  RepType(c) /\ SameTables(c, x) /\ SameNamespace(c, x)
  BY <1>1, Zenon DEF RefreshMapEntry, RepType, SameTables, SameNamespace
<1>2. CASE op.kind \in {"Mkdir", "CreateFile"}
  <2> DEFINE p == RefreshMapEntry(s, op.parent)
             c == RefreshMapEntry(p, InodeForOp(op.id))
  <2>1. RepType(p) /\ SameTables(p, s) /\ SameNamespace(p, s)
    BY <1>1, Zenon
  <2> HIDE DEF p
  <2>2. RepType(c) /\ SameTables(c, p) /\ SameNamespace(c, p)
    BY <1>1, <2>1, Zenon
  <2>3. MaintainInodeMap(s, op) = c
    BY <1>2, Zenon DEF MaintainInodeMap, p
  <2> HIDE DEF c
  <2> QED
    BY <2>1, <2>2, <2>3, Zenon DEF SameTables, SameNamespace
<1>3. CASE op.kind = "Write"
  <2>1. MaintainInodeMap(s, op) = RefreshMapEntry(s, op.inode)
    BY <1>3, Zenon DEF MaintainInodeMap
  <2> QED
    BY <1>1, <2>1, Zenon
<1>4. CASE op.kind \in {"Rename", "Unlink"}
  <2>1. MaintainInodeMap(s, op) = [s EXCEPT !.imap = WalkedMap(s)]
    BY <1>4, Zenon DEF MaintainInodeMap
  <2> QED
    BY <2>1, Zenon DEF RepType, SameTables, SameNamespace
<1> QED
  BY <1>2, <1>3, <1>4, Zenon DEF Op, Kind

\* What is done after the mutation leaves the namespace tables alone, adds the
\* applied marker and takes the parked row away.
LEMMA CommitFrame ==
  ASSUME NEW s, RepType(s), NEW op \in Op, CanApply(s, op)
  PROVE  LET c == Commit(s, op)
             f == Effect(s, op)
         IN  /\ RepType(c) /\ RepType(f) /\ SameNamespace(c, f)
             /\ c.oplog = s.oplog /\ c.applied = s.applied \cup {op.id}
             /\ c.pending = {p \in s.pending : p.id # op.id}
             /\ c.blobs = s.blobs /\ c.next = s.next
<1> DEFINE f == Effect(s, op)
<1>1. RepType(f) /\ SameTables(f, s)
  <2>1. CASE op.kind \in {"Mkdir", "CreateFile"}
    <3>1. f = CreateEffect(s, op)
      BY <2>1, Zenon DEF Effect
    <3>2. RepType(CreateEffect(s, op))
      BY <2>1, CreateType, Zenon
    <3>3. SameTables(CreateEffect(s, op), s)
      BY Zenon DEF CreateEffect, RepType, SameTables
    <3> QED
      BY <3>1, <3>2, <3>3, Zenon
  <2>2. CASE op.kind = "Write"
    <3>1. s.inode[op.inode] # None
      BY <2>2, Zenon DEF CanApply, Unmet, WriteUnmet
    <3>2. f = WriteEffect(s, op)
      BY <2>2, Zenon DEF Effect
    <3>3. RepType(WriteEffect(s, op))
      BY <3>1, WriteType, Zenon
    <3>4. SameTables(WriteEffect(s, op), s)
      BY Zenon DEF WriteEffect, RepType, SameTables
    <3> QED
      BY <3>2, <3>3, <3>4, Zenon
  <2>3. CASE op.kind = "Rename"
    <3>1. f = RenameEffect(s, op)
      BY <2>3, Zenon DEF Effect
    <3>2. RepType(RenameEffect(s, op))
      BY <2>3, RenameType, Zenon
    <3>3. SameTables(RenameEffect(s, op), s)
      BY Zenon DEF RenameEffect, RepType, SameTables
    <3> QED
      BY <3>1, <3>2, <3>3, Zenon
  <2>4. CASE op.kind = "Unlink"
    <3>1. f = UnlinkEffect(s, op)
      BY <2>4, Zenon DEF Effect
    <3>2. RepType(UnlinkEffect(s, op))
      BY <2>4, UnlinkType, Zenon
    <3>3. SameTables(UnlinkEffect(s, op), s)
      BY SMTT(40) DEF UnlinkEffect, RepType, SameTables
    <3> QED
      BY <3>1, <3>2, <3>3, Zenon
  <2> QED
    BY <2>1, <2>2, <2>3, <2>4, Zenon DEF Op, Kind
<1> DEFINE m == MarkApplied(f, op)
<1> HIDE DEF f
<1>2. /\ RepType(m)
      /\ m.oplog = f.oplog /\ m.blobs = f.blobs /\ m.next = f.next
      /\ m.applied = f.applied \cup {op.id}
      /\ m.pending = {p \in f.pending : p.id # op.id}
      /\ SameNamespace(m, f)
  BY <1>1, ZenonT(60) DEF MarkApplied, RepType, SameNamespace, Op
<1> DEFINE o == ObserveTime(m, op)
<1> HIDE DEF m
<1>3. RepType(o) /\ SameTables(o, m) /\ SameNamespace(o, m)
  BY <1>2, KeyType, Zenon DEF ObserveTime, RepType, SameTables, SameNamespace
<1> HIDE DEF o
<1> DEFINE c == MaintainInodeMap(o, op)
<1>4. RepType(c) /\ SameTables(c, o) /\ SameNamespace(c, o)
  BY <1>3, MaintainFrame, Zenon
<1>5. Commit(s, op) = c
  BY Zenon DEF Commit, c, o, m, f
<1> HIDE DEF c
<1> QED
  BY <1>1, <1>2, <1>3, <1>4, <1>5, Zenon DEF SameTables, SameNamespace, f

-----------------------------------------------------------------------------
(* The shape of a step: it changes one repository and its handler, and       *)
(* either leaves the log and the namespace alone or takes one operation.     *)

\* Operations that exist somewhere repository r may take them from.
Known(r) ==
  {op \in Op : \/ \E q \in Device : op \in rep[q].oplog
               \/ task[r].then # None /\ op \in task[r].then.ops}

\* No operation is taken; rows of applied operations may leave the queue.
Quiet(s, x) ==
  /\ SameNamespace(x, s) /\ SameIndex(x, s)
  /\ x.oplog = s.oplog /\ x.applied = s.applied /\ x.next \in {s.next, s.next + 1}
  /\ x.pending \subseteq s.pending
  /\ s.blobs \subseteq x.blobs

\* The operation is logged and refused or parked.
Keeps(s, x, op) ==
  /\ SameNamespace(x, s) /\ SameIndex(x, s)
  /\ x.applied = s.applied
  /\ x.pending = s.pending \/ x.pending = s.pending \cup {op}

\* The operation is logged and applied.
Applies(s, x, op) ==
  /\ x.applied = s.applied \cup {op.id}
  /\ x.pending = {p \in s.pending : p.id # op.id}
  /\ \E k : /\ RepType(k) /\ SameNamespace(k, s) /\ SameIndex(k, s)
            /\ k.applied = s.applied /\ k.blobs = x.blobs
            /\ CanApply(k, op) /\ RepType(Effect(k, op)) /\ SameNamespace(x, Effect(k, op))
            /\ SameIndex(x, Commit(k, op))

Takes(s, x, op) ==
  /\ op.id \notin s.applied
  /\ x.oplog = s.oplog \cup {op}
  /\ s.blobs \subseteq x.blobs
  /\ Keeps(s, x, op) \/ Applies(s, x, op)

\* A parked operation is applied; it is logged already.
Resumes(s, x, op) ==
  /\ op \in s.pending
  /\ op.id \notin s.applied
  /\ x.oplog = s.oplog
  /\ x.blobs = s.blobs
  /\ Applies(s, x, op)

\* The operation is the next one of device r, or one that exists already.
Sourced(r, x, op) ==
  \/ op.id = <<r, rep[r].next + 1>> /\ x.next = rep[r].next + 1
  \/ op \in Known(r) /\ x.next = rep[r].next

Becomes(r, x, t) ==
  /\ rep' = [rep EXCEPT ![r] = x]
  /\ task' = [task EXCEPT ![r] = t]
  /\ RepType(x) /\ TaskOK(x, t)

Step(r, x, t) ==
  /\ Becomes(r, x, t)
  /\ t.then # None => t.then.ops \subseteq Known(r)
  /\ \/ Quiet(rep[r], x)
     \/ \E op \in Op : Takes(rep[r], x, op) /\ Sourced(r, x, op)
     \/ \E op \in Op : Resumes(rep[r], x, op) /\ x.next = rep[r].next

\* A step applies one operation, or leaves the tables as they are.
LEMMA StepCases ==
  ASSUME NEW r, NEW x, NEW t, Step(r, x, t)
  PROVE  /\ rep[r].blobs \subseteq x.blobs
         /\ \/ /\ SameNamespace(x, rep[r]) /\ SameIndex(x, rep[r])
               /\ x.applied = rep[r].applied
            \/ \E op \in Op : op.id \notin rep[r].applied /\ Applies(rep[r], x, op)
<1> DEFINE Goal == /\ rep[r].blobs \subseteq x.blobs
                   /\ \/ /\ SameNamespace(x, rep[r]) /\ SameIndex(x, rep[r])
                         /\ x.applied = rep[r].applied
                      \/ \E op \in Op : op.id \notin rep[r].applied /\ Applies(rep[r], x, op)
<1>1. CASE Quiet(rep[r], x)
  BY <1>1, Zenon DEF Quiet
<1>2. ASSUME NEW op \in Op, Takes(rep[r], x, op) PROVE Goal
  BY <1>2, Zenon DEF Takes, Keeps
<1>3. ASSUME NEW op \in Op, Resumes(rep[r], x, op) PROVE Goal
  BY <1>3, Zenon DEF Resumes
<1> HIDE DEF Goal
<1>4. Goal
  BY <1>1, <1>2, <1>3, Zenon DEF Step, Goal
<1> QED
  BY <1>4, Zenon DEF Goal

\* The idle task is one, and so is the task a handler resumes.
LEMMA ResumeOK ==
  ASSUME NEW s, NEW then, ThenOK(s, then)
  PROVE  TaskOK(s, Resume(then)) /\ Resume(then).then = then
<1>1. CASE then = None
  BY <1>1, Zenon DEF ThenOK, TaskOK, Resume, Idle, Task
<1>2. CASE then # None
  <2>1. then \in Then /\ then.at \in {"write", "import"}
    BY <1>2, Zenon DEF ThenOK, Then
  <2>2. Resume(then) = [at |-> then.at, todo |-> {}, progressed |-> FALSE, snap |-> FALSE,
                        then |-> then]
    BY <1>2, Zenon DEF Resume, Idle
  <2> QED
    BY <1>2, <2>1, <2>2 DEF ThenOK, TaskOK, Task
<1> QED
  BY <1>1, <1>2, Zenon

\* The end of a drain changes the snapshot at most.
LEMMA EndDrainShape ==
  ASSUME NEW r \in Device, NEW s, RepType(s), NEW snap, NEW then, ThenOK(s, then),
         EndDrain(r, s, snap, then)
  PROVE  \E x, t : /\ Becomes(r, x, t) /\ SameTables(x, s) /\ SameNamespace(x, s)
                   /\ SameIndex(x, s) /\ t.then = then
<1> DEFINE x == IF snap THEN BuildSnapshot(s) ELSE s
<1>1. RepType(x) /\ SameTables(x, s) /\ SameNamespace(x, s) /\ SameIndex(x, s)
  BY Zenon DEF BuildSnapshot, RepType, SameTables, SameNamespace, SameIndex
<1>2. rep' = [rep EXCEPT ![r] = x] /\ task' = [task EXCEPT ![r] = Resume(then)]
  BY Zenon DEF EndDrain
<1> HIDE DEF x
<1>3. ThenOK(x, then)
  BY <1>1, Zenon DEF ThenOK, SameTables
<1>4. TaskOK(x, Resume(then)) /\ Resume(then).then = then
  BY <1>3, ResumeOK, Zenon
<1> QED
  BY <1>1, <1>2, <1>4, Zenon DEF Becomes

\* So does the beginning of a pass.
LEMMA BeginPassShape ==
  ASSUME NEW r \in Device, NEW s, RepType(s), NEW then, ThenOK(s, then),
         BeginPass(r, s, TRUE, then) \/ BeginPass(r, s, FALSE, then)
  PROVE  \E x, t : /\ Becomes(r, x, t) /\ SameTables(x, s) /\ SameNamespace(x, s)
                   /\ SameIndex(x, s) /\ t.then = then
<1>1. CASE s.pending = {}
  <2>1. EndDrain(r, s, TRUE, then) \/ EndDrain(r, s, FALSE, then)
    BY <1>1, Zenon DEF BeginPass
  <2>2. CASE EndDrain(r, s, TRUE, then)
    BY <2>2, EndDrainShape, ZenonT(60)
  <2>3. CASE EndDrain(r, s, FALSE, then)
    BY <2>3, EndDrainShape, ZenonT(60)
  <2> QED
    BY <2>1, <2>2, <2>3, Zenon
<1>2. CASE s.pending # {}
  <2> DEFINE t(snap) == [at |-> "drain", todo |-> IdsOf(s.pending), progressed |-> FALSE,
                         snap |-> snap, then |-> then]
  <2>1. rep' = [rep EXCEPT ![r] = s]
          /\ (task' = [task EXCEPT ![r] = t(TRUE)] \/ task' = [task EXCEPT ![r] = t(FALSE)])
    BY <1>2, Zenon DEF BeginPass
  <2>2. IdsOf(s.pending) \subseteq Id
    BY DEF IdsOf, RepType, Op
  <2>3. /\ TaskOK(s, t(TRUE)) /\ t(TRUE).then = then
        /\ TaskOK(s, t(FALSE)) /\ t(FALSE).then = then
    BY <2>2, Zenon DEF TaskOK, ThenOK, Task
  <2>4. SameTables(s, s) /\ SameNamespace(s, s) /\ SameIndex(s, s)
    BY Zenon DEF SameTables, SameNamespace, SameIndex
  <2> HIDE DEF t
  <2> QED
    BY <2>1, <2>3, <2>4, Zenon DEF Becomes
<1> QED
  BY <1>1, <1>2, Zenon

\* apply_op_inner takes the operation, or leaves everything as it was.
LEMMA ApplyOpShape ==
  ASSUME NEW r \in Device, NEW s, RepType(s), NEW op \in Op, NEW done, ThenOK(s, done),
         NEW parked, ThenOK(s, parked), ApplyOp(r, s, op, done, parked)
  PROVE  \E x, t : /\ Becomes(r, x, t) /\ t.then \in {done, parked, None} /\ x.next = s.next
                   /\ Quiet(s, x) \/ Takes(s, x, op)
<1> DEFINE kept == AppendOp(s, op)
<1>1. /\ RepType(kept) /\ SameNamespace(kept, s) /\ kept.oplog = s.oplog \cup {op}
      /\ kept.applied = s.applied /\ kept.pending = s.pending
      /\ kept.blobs = s.blobs /\ kept.next = s.next /\ SameIndex(kept, s)
  BY Zenon DEF AppendOp, RepType, SameNamespace, SameIndex
<1>2. ThenOK(kept, done) /\ ThenOK(kept, parked) /\ ThenOK(kept, None)
  BY <1>1, Zenon DEF ThenOK
<1>3. CASE op.id \in s.applied
  <2>1. EndDrain(r, s, FALSE, done)
    BY <1>3, Zenon DEF ApplyOp
  <2>2. PICK x, t : /\ Becomes(r, x, t) /\ SameTables(x, s) /\ SameNamespace(x, s)
                    /\ SameIndex(x, s) /\ t.then = done
    BY <2>1, EndDrainShape, ZenonT(60)
  <2> QED
    BY <2>2, Zenon DEF SameTables, Quiet
<1>4. CASE op.id \notin s.applied /\ Fails(kept, op)
  <2>1. rep' = [rep EXCEPT ![r] = kept] /\ task' = [task EXCEPT ![r] = Idle]
    BY <1>4, Zenon DEF ApplyOp, Abort
  <2>2. TaskOK(kept, Idle) /\ Idle.then = None
    BY <1>2, ResumeOK, ZenonT(60) DEF Resume
  <2>3. Takes(s, kept, op)
    BY <1>1, <1>4, Zenon DEF Takes, Keeps
  <2> HIDE DEF kept
  <2> QED
    BY <1>1, <2>1, <2>2, <2>3, Zenon DEF Becomes
<1>5. CASE op.id \notin s.applied /\ ~Fails(kept, op) /\ Unmet(kept, op)
  <2> DEFINE y == StorePending(kept, op)
  <2>1. BeginPass(r, y, FALSE, parked)
    BY <1>5, Zenon DEF ApplyOp
  <2> HIDE DEF kept
  <2>2. /\ RepType(y) /\ SameNamespace(y, s) /\ y.oplog = s.oplog \cup {op}
        /\ y.applied = s.applied /\ y.pending = s.pending \cup {op}
        /\ y.blobs = s.blobs /\ y.next = s.next /\ SameIndex(y, s)
    BY <1>1, Zenon DEF StorePending, RepType, SameNamespace, SameIndex
  <2>3. ThenOK(y, parked)
    BY <2>2, Zenon DEF ThenOK
  <2> HIDE DEF y
  <2>4. PICK x, t : /\ Becomes(r, x, t) /\ SameTables(x, y) /\ SameNamespace(x, y)
                    /\ SameIndex(x, y) /\ t.then = parked
    <3>1. RepType(y) /\ ThenOK(y, parked)
      BY <2>2, <2>3, Zenon
    <3>2. BeginPass(r, y, TRUE, parked) \/ BeginPass(r, y, FALSE, parked)
      BY <2>1, Zenon
    <3> QED
      BY <3>1, <3>2, BeginPassShape, Zenon
  <2>5. Takes(s, x, op)
    BY <1>5, <2>2, <2>4, Zenon DEF Takes, Keeps, SameTables, SameNamespace, SameIndex
  <2> QED
    BY <2>2, <2>4, <2>5, Zenon DEF SameTables
<1>6. CASE op.id \notin s.applied /\ ~Fails(kept, op) /\ ~Unmet(kept, op)
  <2> DEFINE y == Commit(kept, op)
  <2>1. BeginPass(r, y, TRUE, done)
    BY <1>6, Zenon DEF ApplyOp
  <2> HIDE DEF kept
  <2>2. CanApply(kept, op)
    BY <1>6, Zenon DEF CanApply
  <2>3. /\ RepType(y) /\ RepType(Effect(kept, op)) /\ SameNamespace(y, Effect(kept, op))
        /\ y.oplog = s.oplog \cup {op} /\ y.applied = s.applied \cup {op.id}
        /\ y.pending = {p \in s.pending : p.id # op.id}
        /\ y.blobs = s.blobs /\ y.next = s.next
    BY <1>1, <2>2, CommitFrame, SMTT(60)
  <2> HIDE DEF y
  <2>4. ThenOK(y, done)
    BY <2>3, Zenon DEF ThenOK
  <2>5. PICK x, t : /\ Becomes(r, x, t) /\ SameTables(x, y) /\ SameNamespace(x, y)
                    /\ SameIndex(x, y) /\ t.then = done
    <3>1. RepType(y) /\ ThenOK(y, done)
      BY <2>3, <2>4, Zenon
    <3>2. BeginPass(r, y, TRUE, done) \/ BeginPass(r, y, FALSE, done)
      BY <2>1, ZenonT(60)
    <3> QED
      BY <3>1, <3>2, BeginPassShape, Zenon
  <2>6. SameNamespace(x, Effect(kept, op)) /\ x.blobs = s.blobs /\ SameIndex(x, Commit(kept, op))
    BY <2>3, <2>5, Zenon DEF SameTables, SameNamespace, y
  <2>7. Applies(s, x, op)
    <3>1. x.applied = s.applied \cup {op.id} /\ x.pending = {p \in s.pending : p.id # op.id}
      BY <2>3, <2>5, Zenon DEF SameTables
    <3> QED
      BY <1>1, <2>2, <2>3, <2>6, <3>1, Zenon DEF Applies
  <2>8. x.oplog = s.oplog \cup {op} /\ x.next = s.next
    BY <2>3, <2>5, Zenon DEF SameTables
  <2>9. Takes(s, x, op)
    BY <1>6, <2>6, <2>7, <2>8, Zenon DEF Takes
  <2> QED
    BY <2>5, <2>8, <2>9, Zenon
<1> QED
  BY <1>3, <1>4, <1>5, <1>6, Zenon

\* A call that takes a new operation: the counter is bumped, content may be
\* stored before.
LEMMA LocalShape ==
  ASSUME TypeInv, NEW r \in Device, NEW s, RepType(s),
         SameNamespace(s, rep[r]), SameIndex(s, rep[r]),
         s.oplog = rep[r].oplog, s.applied = rep[r].applied,
         s.pending = rep[r].pending, rep[r].blobs \subseteq s.blobs,
         s.next = rep[r].next + 1,
         NEW op \in Op, op.id = <<r, rep[r].next + 1>>,
         NEW done, ThenOK(s, done), done # None => done.ops = {},
         ApplyOp(r, s, op, done, None)
  PROVE  \E x, t : Step(r, x, t)
<1>1. ThenOK(s, None)
  BY Zenon DEF ThenOK
<1>2. PICK x, t : /\ Becomes(r, x, t) /\ t.then \in {done, None} /\ x.next = s.next
                  /\ Quiet(s, x) \/ Takes(s, x, op)
  BY <1>1, ApplyOpShape
<1>3. t.then # None => t.then.ops \subseteq Known(r)
  BY <1>2, Zenon
<1>4. CASE Quiet(s, x)
  <2>1. Quiet(rep[r], x)
    BY <1>2, <1>4, Zenon DEF Quiet, SameNamespace, SameIndex
  <2> QED
    BY <1>2, <1>3, <2>1, SMTT(40) DEF Step
<1>5. CASE Takes(s, x, op)
  <2>1. Keeps(s, x, op) => Keeps(rep[r], x, op)
    BY Zenon DEF Keeps, SameNamespace, SameIndex
  <2>2. ASSUME Applies(s, x, op) PROVE Applies(rep[r], x, op)
    <3>1. PICK k : /\ RepType(k) /\ SameNamespace(k, s) /\ SameIndex(k, s)
                   /\ k.applied = s.applied /\ k.blobs = x.blobs
                   /\ CanApply(k, op) /\ RepType(Effect(k, op))
                   /\ SameNamespace(x, Effect(k, op)) /\ SameIndex(x, Commit(k, op))
      BY <2>2, Zenon DEF Applies
    <3>2. SameNamespace(k, rep[r]) /\ SameIndex(k, rep[r]) /\ k.applied = rep[r].applied
      BY <3>1, Zenon DEF SameNamespace, SameIndex
    <3>3. x.applied = rep[r].applied \cup {op.id}
            /\ x.pending = {p \in rep[r].pending : p.id # op.id}
      BY <2>2, Zenon DEF Applies
    <3> QED
      BY <3>1, <3>2, <3>3, Zenon DEF Applies
  <2>3. Takes(rep[r], x, op)
    BY <1>5, <2>1, <2>2, Zenon DEF Takes
  <2>4. Sourced(r, x, op)
    BY <1>2, Zenon DEF Sourced
  <2> QED
    BY <1>2, <1>3, <2>3, <2>4, SMTT(40) DEF Step
<1> QED
  BY <1>2, <1>4, <1>5, Zenon

\* A step that takes an operation r knows of.
LEMMA RemoteShape ==
  ASSUME TypeInv, NEW r \in Device, NEW op \in Op, op \in Known(r),
         NEW then, ThenOK(rep[r], then), then # None => then.ops \subseteq Known(r),
         ApplyOp(r, rep[r], op, then, then)
  PROVE  \E x, t : Step(r, x, t)
<1>1. RepType(rep[r])
  BY Zenon DEF TypeInv
<1>2. PICK x, t : /\ Becomes(r, x, t) /\ t.then \in {then, None} /\ x.next = rep[r].next
                  /\ Quiet(rep[r], x) \/ Takes(rep[r], x, op)
  BY <1>1, ApplyOpShape
<1>3. t.then # None => t.then.ops \subseteq Known(r)
  BY <1>2, Zenon
<1>4. Sourced(r, x, op)
  BY <1>2, Zenon DEF Sourced
<1> QED
  BY <1>2, <1>3, <1>4, Zenon DEF Step

\* What a started handler has in hand.
LEMMA TaskFacts ==
  ASSUME TypeInv, NEW r \in Device
  PROVE  /\ RepType(rep[r]) /\ TaskOK(rep[r], task[r]) /\ task[r] \in Task
         /\ ThenOK(rep[r], task[r].then) /\ ThenOK(rep[r], None)
         /\ task[r].then # None => /\ task[r].then \in Then
                                   /\ task[r].then.ops \subseteq Known(r)
                                   /\ task[r].then.ops \subseteq Op
<1>1. RepType(rep[r]) /\ TaskOK(rep[r], task[r])
  BY Zenon DEF TypeInv
<1>2. task[r] \in Task /\ ThenOK(rep[r], task[r].then) /\ ThenOK(rep[r], None)
  BY <1>1, Zenon DEF TaskOK, ThenOK
<1>3. task[r].then # None => task[r].then \in Then
  BY <1>2, Zenon DEF ThenOK
<1>4. task[r].then # None => task[r].then.ops \subseteq Op
  BY <1>3, Zenon DEF Then
<1>5. task[r].then # None => task[r].then.ops \subseteq Known(r)
  BY <1>4, Zenon DEF Known
<1> QED
  BY <1>1, <1>2, <1>3, <1>4, <1>5, Zenon

-----------------------------------------------------------------------------
(* The steps *)

\* make_op below the bound yields an operation under a fresh counter.
LEMMA NewOpType ==
  ASSUME TypeInv, NEW r \in Device, rep[r].next < MaxOps, NEW kind \in Kind, NEW t \in Times
  PROVE  NewOp(r, kind, t) \in Op
<1>1. rep[r].next \in 0 .. MaxOps
  BY Zenon DEF TypeInv, RepType
<1>2. <<r, rep[r].next + 1>> \in Id
  BY <1>1, BoundAssumption, SMTT(40) DEF Id
<1> QED
  BY <1>2, InodeTypes, Zenon DEF NewOp, Op

\* apply_local below the bound.
LEMMA ApplyLocalShape ==
  ASSUME TypeInv, NEW r \in Device, rep[r].next < MaxOps,
         NEW op \in Op, op.id = <<r, rep[r].next + 1>>,
         NEW done, done \in Then \cup {None}, done # None => done.ops = {},
         done # None => rep[r].next + 1 < MaxOps /\ done.time \in Times,
         ApplyLocal(r, op, done)
  PROVE  \E x, t : Step(r, x, t)
<1> DEFINE s == [rep[r] EXCEPT !.next = @ + 1]
<1>1. RepType(rep[r])
  BY Zenon DEF TypeInv
<1>2. /\ RepType(s) /\ SameNamespace(s, rep[r]) /\ s.oplog = rep[r].oplog
      /\ s.applied = rep[r].applied /\ s.pending = rep[r].pending
      /\ rep[r].blobs \subseteq s.blobs /\ s.next = rep[r].next + 1 /\ SameIndex(s, rep[r])
  BY <1>1, BoundAssumption DEF RepType, SameNamespace, SameIndex
<1>3. ApplyOp(r, s, op, done, None)
  BY Zenon DEF ApplyLocal
<1>4. ThenOK(s, done)
  BY <1>2, SMTT(40) DEF ThenOK
<1> HIDE DEF s
<1> QED
  BY <1>2, <1>3, <1>4, LocalShape, Zenon

\* write_file's write, with its content stored first.
LEMMA WriteOpShape ==
  ASSUME TypeInv, NEW r \in Device, rep[r].next < MaxOps,
         NEW i \in Inode, NEW c \in SUBSET Chunk, NEW tm \in Times, WriteOp(r, i, c, tm)
  PROVE  \E x, t : Step(r, x, t)
<1> DEFINE s  == [rep[r] EXCEPT !.next = @ + 1, !.blobs = @ \cup c]
           op == [NewOp(r, "Write", tm) EXCEPT !.inode = i, !.chunks = c]
<1>1. RepType(rep[r])
  BY Zenon DEF TypeInv
<1>2. /\ RepType(s) /\ SameNamespace(s, rep[r]) /\ s.oplog = rep[r].oplog
      /\ s.applied = rep[r].applied /\ s.pending = rep[r].pending
      /\ rep[r].blobs \subseteq s.blobs /\ s.next = rep[r].next + 1 /\ SameIndex(s, rep[r])
  <2>1. rep[r].next + 1 \in 0 .. MaxOps /\ rep[r].blobs \cup c \in SUBSET Chunk
    BY <1>1, BoundAssumption DEF RepType
  <2>2. RepType(s)
    BY <1>1, <2>1, Zenon DEF RepType
  <2>3. s.next = rep[r].next + 1 /\ s.blobs = rep[r].blobs \cup c
    BY <1>1, Zenon DEF RepType
  <2>4. SameNamespace(s, rep[r]) /\ s.oplog = rep[r].oplog
          /\ s.applied = rep[r].applied /\ s.pending = rep[r].pending /\ SameIndex(s, rep[r])
    BY <1>1, Zenon DEF RepType, SameNamespace, SameIndex
  <2> HIDE DEF s
  <2> QED
    BY <2>2, <2>3, <2>4, Zenon
<1>3. NewOp(r, "Write", tm) \in Op
  BY NewOpType, Zenon DEF Kind
<1>4. op \in Op /\ op.id = <<r, rep[r].next + 1>>
  BY <1>3, Zenon DEF Op, NewOp
<1>5. ApplyOp(r, s, op, None, None)
  BY Zenon DEF WriteOp
<1>6. ThenOK(s, None)
  BY Zenon DEF ThenOK
<1> HIDE DEF s, op
<1> QED
  BY <1>2, <1>4, <1>5, <1>6, LocalShape, Zenon

\* The directories a user reaches, and what is live in them, have their types.
LEMMA Reached ==
  ASSUME TypeInv, NEW r \in Device
  PROVE  /\ DirsFrom(rep[r], Root) \subseteq Inode
         /\ LiveFiles(rep[r]) \subseteq Inode
         /\ \A d \in Inode : /\ Live(rep[r].dir[d]) \subseteq Entry
                             /\ \A e \in Entry : ObservedEntryOps(rep[r].dir[d], e) \subseteq Id
<1>1. DirsFrom(rep[r], Root) \subseteq Inode
  BY Zenon DEF DirsFrom
<1>2. \A d \in Inode : rep[r].dir[d] \in DirMap
  BY Zenon DEF TypeInv, RepType
<1>3. \A d \in Inode : Live(rep[r].dir[d]) \subseteq Entry
  BY <1>2, Zenon DEF Live, DirMap
<1>4. LiveFiles(rep[r]) \subseteq Inode
  BY <1>1, <1>3, SMTT(60) DEF LiveFiles, Entry
<1>5. \A d \in Inode : \A e \in Entry : ObservedEntryOps(rep[r].dir[d], e) \subseteq Id
  BY <1>3 DEF ObservedEntryOps, DotsOf, GetAll, Entry
<1> QED
  BY <1>1, <1>3, <1>4, <1>5, Zenon

\* The calls of a user.
LEMMA LocalStep ==
  ASSUME TypeInv, NEW r \in Device, Local(r)
  PROVE  \E x, t : Step(r, x, t)
<1> USE DEF MayCall
<1>0. rep[r].next \in Nat /\ MaxOps \in Nat
  BY BoundAssumption DEF TypeInv, RepType
<1>1. CASE LocalMkdir(r)
  <2>1. PICK d \in DirsFrom(rep[r], Root), n \in Name, t \in Times :
          ApplyLocal(r, [NewOp(r, "Mkdir", t) EXCEPT !.parent = d, !.name = n], None)
    BY <1>1, Zenon DEF LocalMkdir
  <2> DEFINE op == [NewOp(r, "Mkdir", t) EXCEPT !.parent = d, !.name = n]
  <2>2. rep[r].next < MaxOps
    BY <1>0, <1>1 DEF LocalMkdir
  <2>3. NewOp(r, "Mkdir", t) \in Op
    BY <2>2, NewOpType, Zenon DEF Kind
  <2>4. op \in Op /\ op.id = <<r, rep[r].next + 1>>
    BY <2>3, Reached, Zenon DEF Op, NewOp
  <2> HIDE DEF op
  <2> QED
    BY <2>1, <2>2, <2>4, ApplyLocalShape, Zenon DEF op
<1>2. CASE LocalCreate(r)
  <2>1. PICK d \in DirsFrom(rep[r], Root), n \in Name, t \in Times, c \in Contents :
          LET op == [NewOp(r, "CreateFile", t) EXCEPT !.parent = d, !.name = n]
          IN  ApplyLocal(r, op, [at |-> "write", inode |-> InodeForOp(op.id),
                                 chunks |-> c, time |-> t, ops |-> {}])
    BY <1>2, ZenonT(60) DEF LocalCreate
  <2> DEFINE op == [NewOp(r, "CreateFile", t) EXCEPT !.parent = d, !.name = n]
             done == [at |-> "write", inode |-> InodeForOp(op.id),
                      chunks |-> c, time |-> t, ops |-> {}]
  <2>2. rep[r].next < MaxOps /\ rep[r].next + 1 < MaxOps
    BY <1>0, <1>2 DEF LocalCreate
  <2>3. NewOp(r, "CreateFile", t) \in Op
    BY <2>2, NewOpType, Zenon DEF Kind
  <2>4. op \in Op /\ op.id = <<r, rep[r].next + 1>>
    BY <2>3, Reached, ZenonT(60) DEF Op, NewOp
  <2>5. ApplyLocal(r, op, done)
    BY <2>1, Zenon
  <2> HIDE DEF op
  <2>6. done \in Then /\ done.ops = {} /\ done.time \in Times
    <3>1. InodeForOp(op.id) \in Inode
      BY <2>4, InodeTypes, Zenon DEF Op
    <3>2. c \in SUBSET Chunk
      BY Zenon DEF Chunk
    <3>3. t \in Nat
      BY BoundAssumption, Zenon
    <3> QED
      BY <3>1, <3>2, <3>3, Zenon DEF Then
  <2> HIDE DEF done
  <2> QED
    BY <2>2, <2>4, <2>5, <2>6, ApplyLocalShape, Zenon
<1>3. CASE LocalOverwrite(r)
  <2>1. PICK i \in LiveFiles(rep[r]), t \in Times, c \in Contents : WriteOp(r, i, c, t)
    BY <1>3, Zenon DEF LocalOverwrite
  <2>2. rep[r].next < MaxOps
    BY <1>0, <1>3 DEF LocalOverwrite
  <2>3. i \in Inode /\ c \in SUBSET Chunk
    BY Reached, Zenon DEF Chunk
  <2> QED
    BY <2>1, <2>2, <2>3, WriteOpShape, SMTT(40)
<1>4. CASE LocalUnlink(r)
  <2>1. PICK d \in DirsFrom(rep[r], Root), t \in Times : \E e \in Live(rep[r].dir[d]) :
          ApplyLocal(r, [NewOp(r, "Unlink", t) EXCEPT
                           !.parent = d, !.name = e.name,
                           !.observed = ObservedEntryOps(rep[r].dir[d], e)], None)
    BY <1>4, Zenon DEF LocalUnlink
  <2>2. PICK e \in Live(rep[r].dir[d]) :
          ApplyLocal(r, [NewOp(r, "Unlink", t) EXCEPT
                           !.parent = d, !.name = e.name,
                           !.observed = ObservedEntryOps(rep[r].dir[d], e)], None)
    BY <2>1, Zenon
  <2> DEFINE op == [NewOp(r, "Unlink", t) EXCEPT
                      !.parent = d, !.name = e.name,
                      !.observed = ObservedEntryOps(rep[r].dir[d], e)]
  <2>3. rep[r].next < MaxOps
    BY <1>0, <1>4 DEF LocalUnlink
  <2>4. NewOp(r, "Unlink", t) \in Op
    BY <2>3, NewOpType, Zenon DEF Kind
  <2>5. d \in Inode /\ e.name \in Name \cup {None}
          /\ ObservedEntryOps(rep[r].dir[d], e) \subseteq Id
    BY Reached, Zenon DEF Entry
  <2>6. op \in Op /\ op.id = <<r, rep[r].next + 1>>
    BY <2>4, <2>5, Zenon DEF Op, NewOp
  <2> HIDE DEF op
  <2> QED
    BY <2>2, <2>3, <2>6, ApplyLocalShape, ZenonT(60) DEF op
<1>5. CASE LocalRename(r)
  <2>1. PICK d \in DirsFrom(rep[r], Root), to \in DirsFrom(rep[r], Root), n \in Name,
             t \in Times : \E e \in Live(rep[r].dir[d]) :
          ApplyLocal(r, [NewOp(r, "Rename", t) EXCEPT
                           !.parent = d, !.name = e.name, !.newParent = to, !.newName = n,
                           !.observed = ObservedEntryOps(rep[r].dir[d], e)], None)
    BY <1>5, ZenonT(60) DEF LocalRename
  <2>2. PICK e \in Live(rep[r].dir[d]) :
          ApplyLocal(r, [NewOp(r, "Rename", t) EXCEPT
                           !.parent = d, !.name = e.name, !.newParent = to, !.newName = n,
                           !.observed = ObservedEntryOps(rep[r].dir[d], e)], None)
    BY <2>1, Zenon
  <2> DEFINE op == [NewOp(r, "Rename", t) EXCEPT
                      !.parent = d, !.name = e.name, !.newParent = to, !.newName = n,
                      !.observed = ObservedEntryOps(rep[r].dir[d], e)]
  <2>3. rep[r].next < MaxOps
    BY <1>0, <1>5 DEF LocalRename
  <2>4. NewOp(r, "Rename", t) \in Op
    BY <2>3, NewOpType, Zenon DEF Kind
  <2>5. d \in Inode /\ to \in Inode /\ e.name \in Name \cup {None}
          /\ ObservedEntryOps(rep[r].dir[d], e) \subseteq Id
    BY Reached, Zenon DEF Entry
  <2>6. op \in Op /\ op.id = <<r, rep[r].next + 1>>
    BY <2>4, <2>5, Zenon DEF Op, NewOp
  <2> HIDE DEF op
  <2> QED
    BY <2>2, <2>3, <2>6, ApplyLocalShape, ZenonT(60) DEF op
<1> QED
  BY <1>1, <1>2, <1>3, <1>4, <1>5, Zenon DEF Local

\* One row of a drain.
LEMMA DrainRowStep ==
  ASSUME TypeInv, NEW r \in Device, DrainRow(r)
  PROVE  \E x, t : Step(r, x, t)
<1> DEFINE s   == rep[r]
           id  == LeastDot(task[r].todo)
           op  == CHOOSE o \in s.pending : o.id = id
           row == [task[r] EXCEPT !.todo = @ \ {id}]
<1>1. RepType(s) /\ task[r] \in Task /\ ThenOK(s, task[r].then)
        /\ (task[r].then # None => task[r].then.ops \subseteq Known(r))
        /\ ThenOK(s, None)
  BY TaskFacts, Zenon
<1>2. task[r].at = "drain" /\ task[r].todo # {} /\ task[r].todo \subseteq IdsOf(s.pending)
        /\ task[r].todo \subseteq Id
  BY Zenon DEF DrainRow, TypeInv, TaskOK, Task
<1>3. id \in task[r].todo
  BY <1>2, LeastDotIn, IdBounded, Zenon
<1>4. op \in s.pending /\ op.id = id
  BY <1>2, <1>3, Zenon DEF IdsOf
<1>5. op \in Op
  BY <1>1, <1>4, Zenon DEF RepType
<1>6. row \in Task /\ row.at = "drain" /\ row.then = task[r].then
        /\ row.todo = task[r].todo \ {id}
  BY <1>1, <1>2, Zenon DEF Task
<1>7. task[r].todo \ {id} \subseteq IdsOf({p \in s.pending : p.id # id})
  BY <1>2, Zenon DEF IdsOf
<1>8. /\ [row EXCEPT !.progressed = TRUE] \in Task
      /\ [row EXCEPT !.progressed = TRUE].at = "drain"
      /\ [row EXCEPT !.progressed = TRUE].then = task[r].then
      /\ [row EXCEPT !.progressed = TRUE].todo = task[r].todo \ {id}
  BY <1>6, Zenon DEF Task
<1>9. /\ [row EXCEPT !.progressed = TRUE, !.snap = TRUE] \in Task
      /\ [row EXCEPT !.progressed = TRUE, !.snap = TRUE].at = "drain"
      /\ [row EXCEPT !.progressed = TRUE, !.snap = TRUE].then = task[r].then
      /\ [row EXCEPT !.progressed = TRUE, !.snap = TRUE].todo = task[r].todo \ {id}
  BY <1>6, Zenon DEF Task
<1>10. CASE id \in s.applied
  <2> DEFINE x == [s EXCEPT !.pending = {p \in @ : p.id # id}]
             t == [row EXCEPT !.progressed = TRUE]
  <2>1. rep' = [rep EXCEPT ![r] = x] /\ task' = [task EXCEPT ![r] = t]
    BY <1>10, Zenon DEF DrainRow, TypeInv
  <2>2. RepType(x) /\ Quiet(s, x) /\ x.pending = {p \in s.pending : p.id # id}
          /\ x.next = s.next
    BY <1>1, Zenon DEF RepType, Quiet, SameNamespace, SameIndex
  <2> HIDE DEF x, row, id
  <2>3. TaskOK(x, t) /\ t.then = task[r].then
    BY <1>1, <1>7, <1>8, <2>2, Zenon DEF TaskOK, ThenOK
  <2> HIDE DEF t
  <2> QED
    BY <1>1, <2>1, <2>2, <2>3, ZenonT(60) DEF Step, Becomes
<1>11. CASE id \notin s.applied /\ Fails(s, op)
  <2>1. rep' = [rep EXCEPT ![r] = s] /\ task' = [task EXCEPT ![r] = Idle]
    BY <1>11, Zenon DEF DrainRow, Abort
  <2>2. TaskOK(s, Idle) /\ Idle.then = None
    BY <1>1, ResumeOK, Zenon DEF Resume
  <2>3. Quiet(s, s)
    BY Zenon DEF Quiet, SameNamespace, SameIndex
  <2> QED
    BY <1>1, <2>1, <2>2, <2>3, ZenonT(60) DEF Step, Becomes
<1>12. CASE id \notin s.applied /\ ~Fails(s, op) /\ Unmet(s, op)
  <2>1. rep' = rep /\ task' = [task EXCEPT ![r] = row]
    BY <1>12, Zenon DEF DrainRow
  <2>2. rep' = [rep EXCEPT ![r] = s]
    BY <2>1, Zenon DEF TypeInv
  <2>3. Quiet(s, s)
    BY Zenon DEF Quiet, SameNamespace, SameIndex
  <2> HIDE DEF row, id
  <2>4. TaskOK(s, row)
    BY <1>1, <1>2, <1>6, Zenon DEF TaskOK
  <2> QED
    BY <1>1, <1>6, <2>1, <2>2, <2>3, <2>4, Zenon DEF Step, Becomes
<1>13. CASE id \notin s.applied /\ ~Fails(s, op) /\ ~Unmet(s, op)
  <2> DEFINE x == Commit(s, op)
             t == [row EXCEPT !.progressed = TRUE, !.snap = TRUE]
  <2>1. rep' = [rep EXCEPT ![r] = x] /\ task' = [task EXCEPT ![r] = t]
    BY <1>13, Zenon DEF DrainRow
  <2>2. CanApply(s, op)
    BY <1>13, Zenon DEF CanApply
  <2> HIDE DEF op, row, id
  <2>3. /\ RepType(x) /\ RepType(Effect(s, op)) /\ SameNamespace(x, Effect(s, op))
        /\ x.oplog = s.oplog /\ x.applied = s.applied \cup {op.id}
        /\ x.pending = {p \in s.pending : p.id # op.id}
        /\ x.blobs = s.blobs /\ x.next = s.next
    BY <1>1, <1>5, <2>2, CommitFrame, SMTT(60)
  <2> HIDE DEF x
  <2>4. TaskOK(x, t) /\ t.then = task[r].then
    BY <1>1, <1>4, <1>7, <1>9, <2>3, SMTT(40) DEF TaskOK, ThenOK
  <2> HIDE DEF t
  <2>5. Resumes(s, x, op)
    BY <1>1, <1>4, <1>13, <2>2, <2>3, SMTT(40) DEF Resumes, Applies, SameNamespace, SameIndex, x
  <2> QED
    BY <1>1, <1>4, <1>5, <2>1, <2>3, <2>4, <2>5, ZenonT(60) DEF Step, Becomes
<1> QED
  BY <1>10, <1>11, <1>12, <1>13, SMTT(60)

\* A step that only begins or ends a drain, with content added.
LEMMA QuietShape ==
  ASSUME TypeInv, NEW r \in Device, NEW s, RepType(s), SameNamespace(s, rep[r]),
         SameIndex(s, rep[r]), s.oplog = rep[r].oplog, s.applied = rep[r].applied, s.next = rep[r].next,
         s.pending = rep[r].pending, rep[r].blobs \subseteq s.blobs,
         NEW then, ThenOK(s, then), then # None => then.ops \subseteq Known(r),
         \/ BeginPass(r, s, TRUE, then) \/ BeginPass(r, s, FALSE, then)
         \/ EndDrain(r, s, TRUE, then) \/ EndDrain(r, s, FALSE, then)
  PROVE  \E x, t : Step(r, x, t)
<1>1. PICK x, t : /\ Becomes(r, x, t) /\ SameTables(x, s) /\ SameNamespace(x, s)
                  /\ SameIndex(x, s) /\ t.then = then
  <2>1. CASE BeginPass(r, s, TRUE, then) \/ BeginPass(r, s, FALSE, then)
    BY ONLY <2>1, RepType(s), ThenOK(s, then), r \in Device, BeginPassShape, Zenon
  <2>2. CASE EndDrain(r, s, TRUE, then)
    BY ONLY <2>2, RepType(s), ThenOK(s, then), r \in Device, EndDrainShape, ZenonT(60)
  <2>3. CASE EndDrain(r, s, FALSE, then)
    BY ONLY <2>3, RepType(s), ThenOK(s, then), r \in Device, EndDrainShape, ZenonT(60)
  <2> QED
    BY <2>1, <2>2, <2>3, Zenon
<1>2. Quiet(rep[r], x)
  BY <1>1, Zenon DEF Quiet, SameTables, SameNamespace, SameIndex
<1> QED
  BY <1>1, <1>2, SMTT(40) DEF Step

\* The other steps of a running handler.
LEMMA WorkStep ==
  ASSUME TypeInv, NEW r \in Device, Work(r)
  PROVE  \E x, t : Step(r, x, t)
<1>0. /\ RepType(rep[r]) /\ TaskOK(rep[r], task[r]) /\ task[r] \in Task
      /\ ThenOK(rep[r], task[r].then) /\ ThenOK(rep[r], None)
      /\ task[r].then # None => /\ task[r].then \in Then
                                /\ task[r].then.ops \subseteq Known(r)
                                /\ task[r].then.ops \subseteq Op
  BY TaskFacts, Zenon
<1>1. CASE DrainRow(r)
  BY <1>1, DrainRowStep, SMTT(40)
<1>2. CASE DrainPass(r)
  <2>1. task[r].snap = TRUE \/ task[r].snap = FALSE
    BY <1>0, Zenon DEF Task
  <2>2. \/ BeginPass(r, rep[r], task[r].snap, task[r].then)
        \/ EndDrain(r, rep[r], task[r].snap, task[r].then)
    BY <1>2, Zenon DEF DrainPass
  <2>3. \/ BeginPass(r, rep[r], TRUE, task[r].then) \/ BeginPass(r, rep[r], FALSE, task[r].then)
        \/ EndDrain(r, rep[r], TRUE, task[r].then) \/ EndDrain(r, rep[r], FALSE, task[r].then)
    <3>1. CASE task[r].snap = TRUE
      BY <2>2, <3>1, Zenon
    <3>2. CASE task[r].snap = FALSE
      BY <2>2, <3>2, ZenonT(60)
    <3> QED
      BY <2>1, <3>1, <3>2, Zenon
  <2>4. SameNamespace(rep[r], rep[r]) /\ SameIndex(rep[r], rep[r])
    BY Zenon DEF SameNamespace, SameIndex
  <2> QED
    BY <1>0, <2>3, <2>4, QuietShape, ZenonT(60)
<1>3. CASE ContinueWrite(r)
  <2>1. task[r].then # None /\ task[r].then \in Then /\ task[r].then.at = "write"
    BY <1>0, <1>3, Zenon DEF ContinueWrite, TaskOK
  <2>2. rep[r].next < MaxOps /\ task[r].then.time \in Times
    BY <1>0, <2>1, Zenon DEF ThenOK
  <2>3. task[r].then.inode \in Inode /\ task[r].then.chunks \in SUBSET Chunk
    BY <2>1, Zenon DEF Then
  <2>4. WriteOp(r, task[r].then.inode, task[r].then.chunks, task[r].then.time)
    BY <1>3, Zenon DEF ContinueWrite
  <2> QED
    BY <2>2, <2>3, <2>4, WriteOpShape, Zenon
<1>4. CASE ContinueImport(r)
  <2> DEFINE then == task[r].then
             op   == CHOOSE o \in then.ops : o.id = LeastDot(IdsOf(then.ops))
             rest == [then EXCEPT !.ops = @ \ {op}]
  <2>1. then # None /\ then \in Then /\ then.at = "import"
    BY <1>0, <1>4, SMTT(40) DEF ContinueImport, TaskOK
  <2>2. CASE then.ops = {}
    <3>1. BeginPass(r, rep[r], FALSE, None)
      BY <1>4, <2>2, ZenonT(60) DEF ContinueImport
    <3>2. SameNamespace(rep[r], rep[r]) /\ SameIndex(rep[r], rep[r])
      BY Zenon DEF SameNamespace, SameIndex
    <3> QED
      BY <1>0, <3>1, <3>2, QuietShape, Zenon
  <2>3. CASE then.ops # {}
    <3>1. IdsOf(then.ops) # {} /\ IdsOf(then.ops) \subseteq Id
      BY <1>0, <2>1, <2>3, SMTT(60) DEF IdsOf, Op
    <3>2. LeastDot(IdsOf(then.ops)) \in IdsOf(then.ops)
      BY <3>1, LeastDotIn, IdBounded, Zenon
    <3>3. op \in then.ops
      BY <3>2, Zenon DEF IdsOf
    <3>4. op \in Op /\ op \in Known(r)
      BY <1>0, <2>1, <3>3, Zenon
    <3>5. ApplyOp(r, rep[r], op, rest, rest)
      BY <1>4, <2>3, Zenon DEF ContinueImport
    <3> HIDE DEF op
    <3>6. rest \in Then /\ rest.at = "import" /\ rest.ops \subseteq then.ops
      BY <2>1, Zenon DEF Then
    <3> HIDE DEF rest
    <3>7. ThenOK(rep[r], rest) /\ rest.ops \subseteq Known(r)
      BY <1>0, <2>1, <3>6, Zenon DEF ThenOK
    <3> QED
      BY <3>4, <3>5, <3>7, RemoteShape, Zenon
  <2> QED
    BY <2>2, <2>3, SMTT(60)
<1> QED
  BY <1>1, <1>2, <1>3, <1>4, SMTT(40) DEF Work

\* The steps that take something from a peer.
LEMMA SyncStep ==
  ASSUME TypeInv, NEW r \in Device, NEW src \in Device, Sync(r, src) \/ Import(r, src)
  PROVE  \E x, t : Step(r, x, t)
<1>0. RepType(rep[r]) /\ RepType(rep[src]) /\ ThenOK(rep[r], None) /\ rep[src].oplog \subseteq Op
  <2>1. RepType(rep[r]) /\ RepType(rep[src]) /\ ThenOK(rep[r], None)
    BY TaskFacts, Zenon
  <2> QED
    BY <2>1, Zenon DEF RepType
<1>a. rep[src].oplog \subseteq Known(r)
  <2> SUFFICES ASSUME NEW o \in rep[src].oplog PROVE o \in Known(r)
    BY Zenon
  <2>1. o \in Op /\ \E q \in Device : o \in rep[q].oplog
    BY <1>0, Zenon
  <2> QED
    BY <2>1, Zenon DEF Known
<1>1. CASE Deliver(r, src)
  <2> DEFINE M  == MissingFor(r, src)
             op == CHOOSE o \in M : o.id = LeastDot(IdsOf(M))
  <2>1. M # {} /\ M \subseteq Op /\ M \subseteq Known(r)
    <3>1. M # {} /\ M \subseteq rep[src].oplog
      BY <1>1, Zenon DEF Deliver, MissingFor
    <3> QED
      BY <1>0, <1>a, <3>1, Zenon
  <2>2. ApplyOp(r, rep[r], op, None, None)
    BY <1>1, Zenon DEF Deliver
  <2> HIDE DEF M
  <2>3. IdsOf(M) # {} /\ IdsOf(M) \subseteq Id
    BY <2>1, Zenon DEF IdsOf, Op
  <2>4. LeastDot(IdsOf(M)) \in IdsOf(M)
    BY <2>3, LeastDotIn, IdBounded, Zenon
  <2>5. op \in M
    BY <2>4, SMTT(40) DEF IdsOf
  <2> HIDE DEF op
  <2> QED
    BY <1>0, <2>1, <2>2, <2>5, RemoteShape, SMTT(40)
<1>2. CASE FetchBlobs(r, src)
  <2>1. PICK batch \in SUBSET (MissingChunks(rep[r]) \cap rep[src].blobs) :
          BeginPass(r, [rep[r] EXCEPT !.blobs = @ \cup batch], FALSE, None)
    BY <1>2, ZenonT(60) DEF FetchBlobs
  <2> DEFINE s == [rep[r] EXCEPT !.blobs = @ \cup batch]
  <2>2. batch \subseteq Chunk
    BY <1>0, Zenon DEF RepType
  <2>3. RepType(s) /\ s.blobs = rep[r].blobs \cup batch
    BY <1>0, <2>2, Zenon DEF RepType
  <2>4. SameNamespace(s, rep[r]) /\ s.oplog = rep[r].oplog /\ s.applied = rep[r].applied
          /\ s.next = rep[r].next /\ s.pending = rep[r].pending /\ SameIndex(s, rep[r])
    BY <1>0, Zenon DEF RepType, SameNamespace, SameIndex
  <2>5. BeginPass(r, s, FALSE, None)
    BY <2>1, Zenon
  <2> HIDE DEF s
  <2>6. ThenOK(s, None)
    BY Zenon DEF ThenOK
  <2> QED
    BY <2>3, <2>4, <2>5, <2>6, QuietShape, Zenon
<1>3. CASE Import(r, src)
  <2> DEFINE then == [at |-> "import", inode |-> Root, chunks |-> {}, time |-> 0,
                      ops |-> rep[src].oplog]
             x == [rep[r] EXCEPT !.blobs = @ \cup rep[src].blobs]
  <2>1. then \in Then /\ then.at = "import" /\ then.ops = rep[src].oplog
    BY <1>0, InodeTypes, Zenon DEF Then, RepType
  <2>2. then.ops \subseteq Known(r)
    BY <1>a, <2>1, Zenon
  <2>3. rep' = [rep EXCEPT ![r] = x] /\ task' = [task EXCEPT ![r] = Resume(then)]
    BY <1>3, Zenon DEF Import
  <2> HIDE DEF then
  <2>4. RepType(x) /\ x.blobs = rep[r].blobs \cup rep[src].blobs
    BY <1>0, Zenon DEF RepType
  <2>5. SameNamespace(x, rep[r]) /\ x.oplog = rep[r].oplog /\ x.applied = rep[r].applied
          /\ x.next = rep[r].next /\ x.pending = rep[r].pending /\ SameIndex(x, rep[r])
    BY <1>0, Zenon DEF RepType, SameNamespace, SameIndex
  <2> HIDE DEF x
  <2>6. ThenOK(x, then)
    BY <2>1, Zenon DEF ThenOK
  <2>7. TaskOK(x, Resume(then)) /\ Resume(then).then = then
    BY <2>6, ResumeOK, Zenon
  <2>8. Quiet(rep[r], x)
    BY <2>4, <2>5, Zenon DEF Quiet
  <2> QED
    BY <2>2, <2>3, <2>4, <2>7, <2>8, ZenonT(60) DEF Step, Becomes
<1> QED
  BY <1>1, <1>2, <1>3, SMTT(40) DEF Sync

\* Every step has the shape.
LEMMA StepShape ==
  ASSUME TypeInv, Next
  PROVE  \E r \in Device : \E x, t : Step(r, x, t)
<1>1. PICK r \in Device :
        Local(r) \/ Work(r) \/ \E src \in Device \ {r} : Sync(r, src) \/ Import(r, src)
  BY Zenon DEF Next
<1> QED
  BY <1>1, LocalStep, WorkStep, SyncStep, Zenon

-----------------------------------------------------------------------------
(* Types *)

\* A repository starts with nothing logged, parked or named.
LEMMA BootstrappedEmpty ==
  /\ Bootstrapped.oplog = {} /\ Bootstrapped.applied = {} /\ Bootstrapped.pending = {}
  /\ Bootstrapped.inode = [i \in Inode |-> IF i = Root THEN GenesisRoot ELSE None]
  /\ Bootstrapped.parent = [i \in Inode |-> None]
  /\ Bootstrapped.dir = [i \in Inode |-> EmptyMap]
  /\ Bootstrapped.blobs = {} /\ Bootstrapped.next = 0 /\ Bootstrapped.time = 0
  BY Zenon DEF Bootstrapped, BuildSnapshot

\* bootstrap_if_needed makes a well-typed repository.
LEMMA BootstrappedType == RepType(Bootstrapped)
<1>1. GenesisRoot \in InodeRec
  BY Zenon DEF GenesisRoot, InodeRec, Register
<1>2. EmptyMap \in DirMap
  BY SMTT(40) DEF EmptyMap, DirMap
<1> DEFINE bare == [oplog   |-> {}, applied |-> {}, pending |-> {},
                    inode   |-> [i \in Inode |-> IF i = Root THEN GenesisRoot ELSE None],
                    parent  |-> [i \in Inode |-> None],
                    dir     |-> [i \in Inode |-> EmptyMap],
                    imap    |-> [i \in Inode |-> None],
                    head    |-> None,
                    time    |-> 0, blobs |-> {}, next |-> 0]
<1>3. RepType(bare)
  BY <1>1, <1>2, BoundAssumption, SMTT(60) DEF RepType
<1>4. Bootstrapped = BuildSnapshot([bare EXCEPT !.imap = WalkedMap(bare)])
  BY Zenon DEF Bootstrapped
<1> HIDE DEF bare
<1>5. RepType([bare EXCEPT !.imap = WalkedMap(bare)])
  BY <1>3, Zenon DEF RepType
<1>6. \A s : RepType(s) => RepType(BuildSnapshot(s))
  BY Zenon DEF RepType, BuildSnapshot
<1> QED
  BY <1>4, <1>5, <1>6, Zenon

\* The initial state has the strengthened types.
LEMMA TypeInvInit == Init => TypeInv
<1> SUFFICES ASSUME Init PROVE TypeInv
  BY SMTT(40)
<1>1. TaskOK(Bootstrapped, Idle)
  BY ResumeOK, Zenon DEF ThenOK, Resume
<1> QED
  BY <1>1, BootstrappedType, Zenon DEF Init, TypeInv

\* Every step keeps them.
LEMMA TypeInvNext == TypeInv /\ [Next]_vars => TypeInv'
<1>1. CASE UNCHANGED vars
  BY <1>1 DEF vars, TypeInv, RepType, TaskOK, ThenOK
<1>2. ASSUME TypeInv, Next PROVE TypeInv'
  <2>1. PICK r \in Device : \E x, t : Step(r, x, t)
    BY <1>2, StepShape, Zenon
  <2>2. PICK x, t : Step(r, x, t)
    BY <2>1, Zenon
  <2> QED
    BY <1>2, <2>2, Zenon DEF Step, Becomes, TypeInv
<1> QED
  BY <1>1, <1>2, SMTT(40)

\* Every table of every repository, and what every handler holds, keeps its
\* type (TypeOK), whatever is issued, delivered, imported or retried.
THEOREM TypeCorrect == Spec => []TypeOK
<1>1. TypeInv => TypeOK
  BY Zenon DEF TypeInv, TypeOK, TaskOK
<1> QED
  BY <1>1, TypeInvInit, TypeInvNext, PTL DEF Spec

-----------------------------------------------------------------------------
(* The logs: an id names one operation across all repositories.  What an     *)
(* import has still to apply is in the log of some repository.               *)

Logged(op) == \E q \in Device : op \in rep[q].oplog

LogInv ==
  /\ LogWellFormed
  /\ \A r \in Device : task[r].then # None => \A op \in task[r].then.ops : Logged(op)

\* The empty logs are well formed.
LEMMA LogInvInit == Init => LogInv
<1> SUFFICES ASSUME Init PROVE LogInv
  BY Zenon
<1>1. \A r \in Device : rep[r] = Bootstrapped /\ task[r] = Idle
  BY Zenon DEF Init
<1>2. Idle.then = None
  BY Zenon DEF Idle
<1> QED
  BY <1>1, <1>2, BootstrappedEmpty, Zenon DEF LogInv, LogWellFormed, IdsOf

\* What a step does to the logs: one log may gain one operation, which is new
\* under its device's next counter or logged somewhere already.
LEMMA LogStep ==
  ASSUME TypeInv, LogInv, NEW r \in Device, NEW x, NEW t, Step(r, x, t)
  PROVE  /\ RepType(rep[r]) /\ RepType(x) /\ rep[r].next <= x.next
         /\ \A q \in Device : rep'[q] = IF q = r THEN x ELSE rep[q]
         /\ \A q \in Device : task'[q] = IF q = r THEN t ELSE task[q]
         /\ t.then # None => \A op \in t.then.ops : Logged(op)
         /\ \/ x.oplog = rep[r].oplog
            \/ \E op \in Op : /\ x.oplog = rep[r].oplog \cup {op}
                              /\ Logged(op) \/ (op.id = <<r, rep[r].next + 1>>
                                                /\ x.next = rep[r].next + 1)
<1>1. RepType(rep[r]) /\ RepType(x)
  BY Zenon DEF TypeInv, Step, Becomes
<1>2. rep[r].next \in Nat /\ x.next \in Nat
  BY <1>1, BoundAssumption, SMTT(60) DEF RepType
<1>3. rep' = [rep EXCEPT ![r] = x] /\ task' = [task EXCEPT ![r] = t]
  BY Zenon DEF Step, Becomes
<1>4. \A op \in Known(r) : Logged(op)
  BY Zenon DEF Known, LogInv, Logged
<1>5. t.then # None => \A op \in t.then.ops : Logged(op)
  BY <1>4, Zenon DEF Step
<1>6. CASE Quiet(rep[r], x)
  <2>1. x.oplog = rep[r].oplog /\ rep[r].next <= x.next
    BY <1>2, <1>6 DEF Quiet
  <2> QED
    BY <1>1, <1>3, <1>5, <2>1, Zenon DEF TypeInv
<1>7. CASE \E op \in Op : Takes(rep[r], x, op) /\ Sourced(r, x, op)
  <2>1. PICK op \in Op : Takes(rep[r], x, op) /\ Sourced(r, x, op)
    BY <1>7, Zenon
  <2>2. x.oplog = rep[r].oplog \cup {op}
    BY <2>1, Zenon DEF Takes
  <2>3. /\ Logged(op) \/ (op.id = <<r, rep[r].next + 1>> /\ x.next = rep[r].next + 1)
        /\ rep[r].next <= x.next
    BY <1>2, <1>4, <2>1, SMTT(60) DEF Sourced
  <2> QED
    BY <1>1, <1>3, <1>5, <2>2, <2>3, Zenon DEF TypeInv
<1>8. CASE \E op \in Op : Resumes(rep[r], x, op) /\ x.next = rep[r].next
  <2>1. x.oplog = rep[r].oplog /\ rep[r].next <= x.next
    BY <1>2, <1>8 DEF Resumes
  <2> QED
    BY <1>1, <1>3, <1>5, <2>1, Zenon DEF TypeInv
<1> QED
  BY <1>6, <1>7, <1>8, Zenon DEF Step

\* Ids stay unique and below the counters.
LEMMA IdsStep ==
  ASSUME TypeInv, LogInv, NEW r \in Device, NEW x, NEW t, Step(r, x, t)
  PROVE  /\ \A p, q \in Device : \A a \in rep'[p].oplog, b \in rep'[q].oplog : a.id = b.id => a = b
         /\ \A p, q \in Device : \A a \in rep'[q].oplog : a.id[1] = p => a.id[2] <= rep'[p].next
<1>1. /\ RepType(rep[r]) /\ RepType(x) /\ rep[r].next <= x.next
      /\ \A q \in Device : rep'[q] = IF q = r THEN x ELSE rep[q]
      /\ \/ x.oplog = rep[r].oplog
         \/ \E op \in Op : /\ x.oplog = rep[r].oplog \cup {op}
                           /\ Logged(op) \/ (op.id = <<r, rep[r].next + 1>>
                                             /\ x.next = rep[r].next + 1)
  BY LogStep, Zenon
<1>2. \A q \in Device : rep[q].next \in Nat /\ rep'[q].next \in Nat /\ rep[q].next <= rep'[q].next
  BY <1>1, BoundAssumption, SMTT(60) DEF TypeInv, RepType
<1>3. \A q \in Device : \A a \in rep[q].oplog : a.id[1] \in Nat /\ a.id[2] \in Nat
  BY IdType, SMTT(60) DEF TypeInv, RepType, Op
<1>4. /\ \A p, q \in Device : \A a \in rep[p].oplog, b \in rep[q].oplog : a.id = b.id => a = b
      /\ \A p, q \in Device : \A a \in rep[q].oplog : a.id[1] = p => a.id[2] <= rep[p].next
  BY Zenon DEF LogInv, LogWellFormed
<1>5. CASE \A q \in Device : \A a \in rep'[q].oplog : Logged(a)
  BY <1>2, <1>3, <1>4, <1>5, SMTT(60) DEF Logged
<1>6. CASE \E op \in Op : /\ x.oplog = rep[r].oplog \cup {op}
                          /\ op.id = <<r, rep[r].next + 1>>
                          /\ x.next = rep[r].next + 1
  <2>1. PICK op \in Op : /\ x.oplog = rep[r].oplog \cup {op}
                         /\ op.id = <<r, rep[r].next + 1>>
                         /\ x.next = rep[r].next + 1
    BY <1>6, Zenon
  <2>2. \A q \in Device : \A a \in rep'[q].oplog : Logged(a) \/ a = op
    BY <1>1, <2>1, Zenon DEF Logged
  <2>3. \A a : Logged(a) => a.id # op.id
    BY <1>2, <1>3, <1>4, <2>1, SMTT(60) DEF Logged
  <2>4. op.id[1] = r /\ op.id[2] = rep'[r].next
    BY <1>1, <2>1
  <2>5. \A a, b : Logged(a) /\ Logged(b) /\ a.id = b.id => a = b
    BY <1>4, Zenon DEF Logged
  <2>6. \A a : \A p \in Device : Logged(a) /\ a.id[1] = p => a.id[2] <= rep'[p].next
    BY <1>2, <1>3, <1>4, SMTT(60) DEF Logged
  <2> HIDE DEF Logged
  <2> QED
    BY <1>2, <2>2, <2>3, <2>4, <2>5, <2>6, SMTT(60)
<1>7. CASE x.oplog = rep[r].oplog
  <2>1. \A q \in Device : \A a \in rep'[q].oplog : Logged(a)
    BY <1>1, <1>7, Zenon DEF Logged
  <2> QED
    BY <1>5, <2>1, Zenon
<1>8. CASE \E op \in Op : x.oplog = rep[r].oplog \cup {op} /\ Logged(op)
  <2>1. \A q \in Device : \A a \in rep'[q].oplog : Logged(a)
    BY <1>1, <1>8, Zenon DEF Logged
  <2> QED
    BY <1>5, <2>1, Zenon
<1> QED
  BY <1>1, <1>6, <1>7, <1>8, Zenon

\* Markers and parked rows belong to logged operations, and exclude each other.
LEMMA RowsStep ==
  ASSUME TypeInv, LogInv, NEW r \in Device, NEW x, NEW t, Step(r, x, t)
  PROVE  /\ x.applied \subseteq IdsOf(x.oplog)
         /\ x.pending \subseteq x.oplog
         /\ IdsOf(x.pending) \cap x.applied = {}
<1>1. /\ rep[r].applied \subseteq IdsOf(rep[r].oplog)
      /\ rep[r].pending \subseteq rep[r].oplog
      /\ IdsOf(rep[r].pending) \cap rep[r].applied = {}
  BY Zenon DEF LogInv, LogWellFormed
<1>2. CASE Quiet(rep[r], x)
  BY <1>1, <1>2, Zenon DEF Quiet, IdsOf
<1>3. CASE \E op \in Op : Takes(rep[r], x, op) /\ Sourced(r, x, op)
  <2>1. PICK op \in Op : Takes(rep[r], x, op)
    BY <1>3, Zenon
  <2>2. x.oplog = rep[r].oplog \cup {op} /\ op.id \notin rep[r].applied
    BY <2>1, Zenon DEF Takes
  <2>3. CASE Keeps(rep[r], x, op)
    BY <1>1, <2>2, <2>3, SMTT(60) DEF Keeps, IdsOf
  <2>4. CASE Applies(rep[r], x, op)
    BY <1>1, <2>2, <2>4, SMTT(60) DEF Applies, IdsOf
  <2> QED
    BY <2>1, <2>3, <2>4, Zenon DEF Takes
<1>4. CASE \E op \in Op : Resumes(rep[r], x, op) /\ x.next = rep[r].next
  BY <1>1, <1>4, SMTT(60) DEF Resumes, Applies, IdsOf
<1> QED
  BY <1>2, <1>3, <1>4, Zenon DEF Step

\* Every step keeps the logs well formed.
LEMMA LogInvNext == TypeInv /\ LogInv /\ [Next]_vars => LogInv'
<1>1. CASE UNCHANGED vars
  BY <1>1 DEF vars, LogInv, LogWellFormed, Logged
<1>2. ASSUME TypeInv, LogInv, Next PROVE LogInv'
  <2>1. PICK r \in Device : \E x, t : Step(r, x, t)
    BY <1>2, StepShape, Zenon
  <2>2. PICK x, t : Step(r, x, t)
    BY <2>1, Zenon
  <2>3. /\ \A q \in Device : rep'[q] = IF q = r THEN x ELSE rep[q]
        /\ \A q \in Device : task'[q] = IF q = r THEN t ELSE task[q]
        /\ t.then # None => \A op \in t.then.ops : Logged(op)
        /\ rep[r].oplog \subseteq x.oplog
    BY <1>2, <2>2, LogStep, SMTT(60)
  <2>4. \A op : Logged(op) => Logged(op)'
    BY <2>3, Zenon DEF Logged
  <2>5. \A q \in Device : task'[q].then # None => \A op \in task'[q].then.ops : Logged(op)'
    BY <1>2, <2>3, <2>4, Zenon DEF LogInv
  <2>6. \A q \in Device : /\ rep'[q].applied \subseteq IdsOf(rep'[q].oplog)
                          /\ rep'[q].pending \subseteq rep'[q].oplog
                          /\ IdsOf(rep'[q].pending) \cap rep'[q].applied = {}
    BY <1>2, <2>2, <2>3, RowsStep, SMTT(60) DEF LogInv, LogWellFormed
  <2>7. LogWellFormed'
    BY <1>2, <2>2, <2>6, IdsStep, Zenon DEF LogWellFormed
  <2> QED
    BY <2>5, <2>7, Zenon DEF LogInv
<1> QED
  BY <1>1, <1>2, Zenon

\* An id names one operation in every log, no log holds an operation numbered
\* past its device's counter, and a parked operation is logged and unmarked
\* (append_op, store_pending, mark_op_applied, next_op_counter).
THEOREM LogsCorrect == Spec => []LogWellFormed
<1>1. Init => TypeInv /\ LogInv
  BY TypeInvInit, LogInvInit, Zenon
<1>2. TypeInv /\ LogInv /\ [Next]_vars => (TypeInv /\ LogInv)'
  BY TypeInvNext, LogInvNext, Zenon
<1>3. LogInv => LogWellFormed
  BY Zenon DEF LogInv
<1> QED
  BY <1>1, <1>2, <1>3, PTL DEF Spec

-----------------------------------------------------------------------------
(* The forms a step takes, with what the caller of a handler gives it.       *)

\* s is the repository y with content or a counter value added.
Like(s, y) ==
  /\ RepType(s) /\ SameNamespace(s, y) /\ SameIndex(s, y) /\ s.head = y.head
  /\ s.oplog = y.oplog /\ s.applied = y.applied /\ s.pending = y.pending
  /\ y.blobs \subseteq s.blobs

\* An operation a user of r issues, what it is applied to, and what follows it.
Issued(r, s, op, done) ==
  /\ op \in Op /\ op.id = <<r, rep[r].next + 1>> /\ op.chunks \subseteq s.blobs
  /\ op.kind = "Rename" => "Rename" \in Calls
  /\ op.kind # "Write" => op.parent \in DirsFrom(rep[r], Root)
  /\ op.kind = "Write" => \/ op.inode \in LiveFiles(rep[r])
                          \/ task[r].at = "write" /\ op.inode = task[r].then.inode
  /\ done # None => op.kind = "CreateFile" /\ done.at = "write" /\ done.inode = op.id

\* An operation r takes from a peer or from an export.
Relayed(r, op, then) ==
  /\ op \in Op /\ op \in Known(r)
  /\ \/ then = None /\ task[r].at = "idle" /\ op.id \notin IdsOf(rep[r].oplog)
     \/ then # None /\ then.at = "import" /\ task[r].at = "import"

Issues(r) ==
  \E s, op, done : /\ Like(s, rep[r]) /\ task[r].at # "drain" /\ Issued(r, s, op, done)
                   /\ ApplyOp(r, s, op, done, None)

Relays(r) == \E op, then : Relayed(r, op, then) /\ ApplyOp(r, rep[r], op, then, then)

Retries(r) ==
  \E s : Like(s, rep[r]) /\ task[r].at # "drain" /\ BeginPass(r, s, FALSE, None)

Imports(r) ==
  \E s, then : /\ Like(s, rep[r]) /\ task[r].at = "idle" /\ then # None /\ then.at = "import"
               /\ rep' = [rep EXCEPT ![r] = s] /\ task' = [task EXCEPT ![r] = Resume(then)]

Turn(r) == Issues(r) \/ Relays(r) \/ Retries(r) \/ Imports(r) \/ DrainRow(r) \/ DrainPass(r)

\* apply_local, below the bound.
LEMMA ApplyLocalIssues ==
  ASSUME TypeInv, NEW r \in Device, task[r].at # "drain", rep[r].next < MaxOps,
         NEW op \in Op, op.id = <<r, rep[r].next + 1>>, op.chunks = {}, op.kind # "Write",
         op.kind = "Rename" => "Rename" \in Calls, op.parent \in DirsFrom(rep[r], Root),
         NEW done, done # None => op.kind = "CreateFile" /\ done.at = "write" /\ done.inode = op.id,
         ApplyLocal(r, op, done)
  PROVE  Issues(r)
<1> DEFINE s == [rep[r] EXCEPT !.next = @ + 1]
<1>1. RepType(rep[r])
  BY Zenon DEF TypeInv
<1>2. Like(s, rep[r])
  BY <1>1, BoundAssumption, SMTT(60) DEF RepType, SameNamespace, SameIndex, Like
<1>3. ApplyOp(r, s, op, done, None)
  BY Zenon DEF ApplyLocal
<1> HIDE DEF s
<1>4. Issued(r, s, op, done)
  BY Zenon DEF Issued
<1> QED
  BY <1>2, <1>3, <1>4, Zenon DEF Issues

\* write_file's write, with its content stored first.
LEMMA WriteOpIssues ==
  ASSUME TypeInv, NEW r \in Device, task[r].at # "drain", rep[r].next < MaxOps,
         NEW i \in Inode, NEW c \in SUBSET Chunk, NEW tm \in Times,
         i \in LiveFiles(rep[r]) \/ (task[r].at = "write" /\ i = task[r].then.inode),
         WriteOp(r, i, c, tm)
  PROVE  Issues(r)
<1> DEFINE s  == [rep[r] EXCEPT !.next = @ + 1, !.blobs = @ \cup c]
           op == [NewOp(r, "Write", tm) EXCEPT !.inode = i, !.chunks = c]
<1>1. RepType(rep[r])
  BY Zenon DEF TypeInv
<1>2. Like(s, rep[r]) /\ c \subseteq s.blobs
  <2>1. rep[r].next + 1 \in 0 .. MaxOps /\ rep[r].blobs \cup c \in SUBSET Chunk
    BY <1>1, BoundAssumption, SMTT(60) DEF RepType
  <2>2. RepType(s)
    BY <1>1, <2>1, Zenon DEF RepType
  <2>3. s.blobs = rep[r].blobs \cup c
    BY <1>1, Zenon DEF RepType
  <2>4. SameNamespace(s, rep[r]) /\ s.oplog = rep[r].oplog /\ s.head = rep[r].head
          /\ s.applied = rep[r].applied /\ s.pending = rep[r].pending /\ SameIndex(s, rep[r])
    BY <1>1, Zenon DEF RepType, SameNamespace, SameIndex
  <2> HIDE DEF s
  <2> QED
    BY <2>2, <2>3, <2>4, Zenon DEF Like
<1>3. NewOp(r, "Write", tm) \in Op
  BY NewOpType, Zenon DEF Kind
<1>4. /\ op \in Op /\ op.id = <<r, rep[r].next + 1>> /\ op.kind = "Write"
      /\ op.inode = i /\ op.chunks = c
  BY <1>3, Zenon DEF Op, NewOp
<1>5. ApplyOp(r, s, op, None, None)
  BY Zenon DEF WriteOp
<1> HIDE DEF s, op
<1>6. Issued(r, s, op, None)
  BY <1>2, <1>4, Zenon DEF Issued
<1> QED
  BY <1>2, <1>5, <1>6, Zenon DEF Issues

\* The calls of a user.
LEMMA LocalTurn ==
  ASSUME TypeInv, NEW r \in Device, Local(r)
  PROVE  Turn(r)
<1> USE DEF MayCall
<1> SUFFICES Issues(r)
  BY Zenon DEF Turn
<1>0. rep[r].next \in Nat /\ MaxOps \in Nat
  BY BoundAssumption DEF TypeInv, RepType
<1>1. CASE LocalMkdir(r)
  <2>1. PICK d \in DirsFrom(rep[r], Root), n \in Name, t \in Times :
          ApplyLocal(r, [NewOp(r, "Mkdir", t) EXCEPT !.parent = d, !.name = n], None)
    BY <1>1, Zenon DEF LocalMkdir
  <2> DEFINE op == [NewOp(r, "Mkdir", t) EXCEPT !.parent = d, !.name = n]
  <2>2. rep[r].next < MaxOps /\ task[r].at # "drain"
    BY <1>0, <1>1, SMTT(60) DEF LocalMkdir
  <2>3. NewOp(r, "Mkdir", t) \in Op
    BY <2>2, NewOpType, Zenon DEF Kind
  <2>4. /\ op \in Op /\ op.id = <<r, rep[r].next + 1>> /\ op.chunks = {}
        /\ op.kind = "Mkdir" /\ op.parent = d
    BY <2>3, Reached, Zenon DEF Op, NewOp
  <2>5. ApplyLocal(r, op, None)
    BY <2>1, Zenon
  <2> HIDE DEF op
  <2> QED
    BY <2>2, <2>4, <2>5, ApplyLocalIssues, SMTT(60)
<1>2. CASE LocalCreate(r)
  <2>1. PICK d \in DirsFrom(rep[r], Root), n \in Name, t \in Times, c \in Contents :
          LET op == [NewOp(r, "CreateFile", t) EXCEPT !.parent = d, !.name = n]
          IN  ApplyLocal(r, op, [at |-> "write", inode |-> InodeForOp(op.id),
                                 chunks |-> c, time |-> t, ops |-> {}])
    BY <1>2, ZenonT(60) DEF LocalCreate
  <2> DEFINE op == [NewOp(r, "CreateFile", t) EXCEPT !.parent = d, !.name = n]
             done == [at |-> "write", inode |-> InodeForOp(op.id),
                      chunks |-> c, time |-> t, ops |-> {}]
  <2>2. rep[r].next < MaxOps /\ task[r].at # "drain"
    BY <1>0, <1>2, SMTT(60) DEF LocalCreate
  <2>3. NewOp(r, "CreateFile", t) \in Op
    BY <2>2, NewOpType, Zenon DEF Kind
  <2>4. /\ op \in Op /\ op.id = <<r, rep[r].next + 1>> /\ op.chunks = {}
        /\ op.kind = "CreateFile" /\ op.parent = d
    BY <2>3, Reached, ZenonT(60) DEF Op, NewOp
  <2>5. ApplyLocal(r, op, done)
    BY <2>1, Zenon
  <2> HIDE DEF op
  <2>6. done.at = "write" /\ done.inode = op.id
    BY Zenon DEF InodeForOp
  <2> HIDE DEF done
  <2> QED
    BY <2>2, <2>4, <2>5, <2>6, ApplyLocalIssues, SMTT(60)
<1>3. CASE LocalOverwrite(r)
  <2>1. PICK i \in LiveFiles(rep[r]), t \in Times, c \in Contents : WriteOp(r, i, c, t)
    BY <1>3, Zenon DEF LocalOverwrite
  <2>2. rep[r].next < MaxOps /\ task[r].at # "drain"
    BY <1>0, <1>3, SMTT(60) DEF LocalOverwrite
  <2>3. i \in Inode /\ c \in SUBSET Chunk
    BY Reached, Zenon DEF Chunk
  <2> QED
    BY <2>1, <2>2, <2>3, WriteOpIssues, SMTT(60)
<1>4. CASE LocalUnlink(r)
  <2>1. PICK d \in DirsFrom(rep[r], Root), t \in Times : \E e \in Live(rep[r].dir[d]) :
          ApplyLocal(r, [NewOp(r, "Unlink", t) EXCEPT
                           !.parent = d, !.name = e.name,
                           !.observed = ObservedEntryOps(rep[r].dir[d], e)], None)
    BY <1>4, Zenon DEF LocalUnlink
  <2>2. PICK e \in Live(rep[r].dir[d]) :
          ApplyLocal(r, [NewOp(r, "Unlink", t) EXCEPT
                           !.parent = d, !.name = e.name,
                           !.observed = ObservedEntryOps(rep[r].dir[d], e)], None)
    BY <2>1, Zenon
  <2> DEFINE op == [NewOp(r, "Unlink", t) EXCEPT
                      !.parent = d, !.name = e.name,
                      !.observed = ObservedEntryOps(rep[r].dir[d], e)]
  <2>3. rep[r].next < MaxOps /\ task[r].at # "drain"
    BY <1>0, <1>4, SMTT(60) DEF LocalUnlink
  <2>4. NewOp(r, "Unlink", t) \in Op
    BY <2>3, NewOpType, Zenon DEF Kind
  <2>5. d \in Inode /\ e.name \in Name \cup {None}
          /\ ObservedEntryOps(rep[r].dir[d], e) \subseteq Id
    BY Reached, Zenon DEF Entry
  <2>6. /\ op \in Op /\ op.id = <<r, rep[r].next + 1>> /\ op.chunks = {}
        /\ op.kind = "Unlink" /\ op.parent = d
    BY <2>4, <2>5, ZenonT(60) DEF Op, NewOp
  <2>7. ApplyLocal(r, op, None)
    BY <2>2, Zenon
  <2> HIDE DEF op
  <2> QED
    BY <2>3, <2>6, <2>7, ApplyLocalIssues, SMTT(60)
<1>5. CASE LocalRename(r)
  <2>1. PICK d \in DirsFrom(rep[r], Root), to \in DirsFrom(rep[r], Root), n \in Name,
             t \in Times : \E e \in Live(rep[r].dir[d]) :
          ApplyLocal(r, [NewOp(r, "Rename", t) EXCEPT
                           !.parent = d, !.name = e.name, !.newParent = to, !.newName = n,
                           !.observed = ObservedEntryOps(rep[r].dir[d], e)], None)
    BY <1>5, ZenonT(60) DEF LocalRename
  <2>2. PICK e \in Live(rep[r].dir[d]) :
          ApplyLocal(r, [NewOp(r, "Rename", t) EXCEPT
                           !.parent = d, !.name = e.name, !.newParent = to, !.newName = n,
                           !.observed = ObservedEntryOps(rep[r].dir[d], e)], None)
    BY <2>1, Zenon
  <2> DEFINE op == [NewOp(r, "Rename", t) EXCEPT
                      !.parent = d, !.name = e.name, !.newParent = to, !.newName = n,
                      !.observed = ObservedEntryOps(rep[r].dir[d], e)]
  <2>3. rep[r].next < MaxOps /\ task[r].at # "drain" /\ "Rename" \in Calls
    BY <1>0, <1>5, SMTT(60) DEF LocalRename
  <2>4. NewOp(r, "Rename", t) \in Op
    BY <2>3, NewOpType, Zenon DEF Kind
  <2>5. d \in Inode /\ to \in Inode /\ e.name \in Name \cup {None}
          /\ ObservedEntryOps(rep[r].dir[d], e) \subseteq Id
    BY Reached, Zenon DEF Entry
  <2>6. /\ op \in Op /\ op.id = <<r, rep[r].next + 1>> /\ op.chunks = {}
        /\ op.kind = "Rename" /\ op.parent = d
    BY <2>4, <2>5, ZenonT(60) DEF Op, NewOp
  <2>7. ApplyLocal(r, op, None)
    BY <2>2, Zenon
  <2> HIDE DEF op
  <2> QED
    BY <2>3, <2>6, <2>7, ApplyLocalIssues, SMTT(60)
<1> QED
  BY <1>1, <1>2, <1>3, <1>4, <1>5, SMTT(60) DEF Local

\* Content alone.
LEMMA LikeMore ==
  ASSUME NEW s, RepType(s), NEW c \in SUBSET Chunk
  PROVE  Like(s, s) /\ Like([s EXCEPT !.blobs = @ \cup c], s)
<1> DEFINE y == [s EXCEPT !.blobs = @ \cup c]
<1>1. RepType(y) /\ y.blobs = s.blobs \cup c
  BY Zenon DEF RepType
<1>2. SameNamespace(y, s) /\ s.oplog = y.oplog /\ s.head = y.head
        /\ s.applied = y.applied /\ s.pending = y.pending /\ SameIndex(y, s)
  BY Zenon DEF RepType, SameNamespace, SameIndex
<1> HIDE DEF y
<1>3. Like(y, s)
  BY <1>1, <1>2, Zenon DEF Like
<1>4. Like(s, s)
  BY Zenon DEF Like, SameNamespace, SameIndex
<1> QED
  BY <1>3, <1>4, Zenon DEF y

\* The steps of a running handler.
LEMMA WorkTurn ==
  ASSUME TypeInv, NEW r \in Device, Work(r)
  PROVE  Turn(r)
<1>0. /\ RepType(rep[r]) /\ TaskOK(rep[r], task[r]) /\ task[r] \in Task
      /\ ThenOK(rep[r], task[r].then)
      /\ task[r].then # None => /\ task[r].then \in Then
                                /\ task[r].then.ops \subseteq Known(r)
                                /\ task[r].then.ops \subseteq Op
  BY TaskFacts, Zenon
<1>1. CASE DrainRow(r) \/ DrainPass(r)
  BY <1>1, Zenon DEF Turn
<1>2. CASE ContinueWrite(r)
  <2>1. task[r].then # None /\ task[r].then \in Then /\ task[r].then.at = "write" /\ task[r].at = "write"
    BY <1>0, <1>2, Zenon DEF ContinueWrite, TaskOK
  <2>2. rep[r].next < MaxOps /\ task[r].then.time \in Times
    BY <1>0, <2>1, Zenon DEF ThenOK
  <2>3. task[r].then.inode \in Inode /\ task[r].then.chunks \in SUBSET Chunk
    BY <2>1, Zenon DEF Then
  <2>4. WriteOp(r, task[r].then.inode, task[r].then.chunks, task[r].then.time)
    BY <1>2, Zenon DEF ContinueWrite
  <2>5. Issues(r)
    BY <2>1, <2>2, <2>3, <2>4, WriteOpIssues, SMTT(60)
  <2> QED
    BY <2>5, Zenon DEF Turn
<1>3. CASE ContinueImport(r)
  <2> DEFINE then == task[r].then
             op   == CHOOSE o \in then.ops : o.id = LeastDot(IdsOf(then.ops))
             rest == [then EXCEPT !.ops = @ \ {op}]
  <2>1. task[r].at = "import" /\ then # None /\ then \in Then /\ then.at = "import"
    BY <1>0, <1>3, SMTT(40) DEF ContinueImport, TaskOK
  <2>2. CASE then.ops = {}
    <3>1. BeginPass(r, rep[r], FALSE, None)
      BY <1>3, <2>2, ZenonT(60) DEF ContinueImport
    <3>2. Like(rep[r], rep[r])
      BY <1>0, LikeMore, Zenon
    <3>3. Retries(r)
      BY <2>1, <3>1, <3>2, ZenonT(60) DEF Retries
    <3> QED
      BY <3>3, SMTT(60) DEF Turn
  <2>3. CASE then.ops # {}
    <3>1. IdsOf(then.ops) # {} /\ IdsOf(then.ops) \subseteq Id
      BY <1>0, <2>1, <2>3, SMTT(60) DEF IdsOf, Op
    <3>2. LeastDot(IdsOf(then.ops)) \in IdsOf(then.ops)
      BY <3>1, LeastDotIn, IdBounded, Zenon
    <3>3. op \in then.ops
      BY <3>2, Zenon DEF IdsOf
    <3>4. op \in Op /\ op \in Known(r)
      BY <1>0, <2>1, <3>3, SMTT(60)
    <3>5. ApplyOp(r, rep[r], op, rest, rest)
      BY <1>3, <2>3, Zenon DEF ContinueImport
    <3> HIDE DEF op
    <3>6. rest \in Then /\ rest.at = "import"
      BY <2>1, Zenon DEF Then
    <3>7. rest # None
      BY <3>6, NoneAssumption, Zenon
    <3> HIDE DEF rest
    <3>8. Relayed(r, op, rest)
      BY <2>1, <3>4, <3>6, <3>7, SMTT(60) DEF Relayed
    <3>9. Relays(r)
      BY <3>5, <3>8, Zenon DEF Relays
    <3> QED
      BY <3>9, Zenon DEF Turn
  <2> QED
    BY <2>2, <2>3, SMTT(60)
<1> QED
  BY <1>1, <1>2, <1>3, Zenon DEF Work

\* The steps that take something from a peer.
LEMMA SyncTurn ==
  ASSUME TypeInv, NEW r \in Device, NEW src \in Device, Sync(r, src) \/ Import(r, src)
  PROVE  Turn(r)
<1>0. RepType(rep[r]) /\ RepType(rep[src])
  BY TaskFacts, Zenon
<1>a. rep[src].oplog \subseteq Op /\ rep[src].blobs \subseteq Chunk /\ rep[src].oplog \subseteq Known(r)
  BY <1>0, Zenon DEF RepType, Known
<1>1. CASE Deliver(r, src)
  <2> DEFINE M  == MissingFor(r, src)
             op == CHOOSE o \in M : o.id = LeastDot(IdsOf(M))
  <2>1. /\ M # {} /\ M \subseteq Op /\ M \subseteq Known(r)
        /\ \A o \in M : o.id \notin IdsOf(rep[r].oplog)
    BY <1>1, <1>a, Zenon DEF Deliver, MissingFor
  <2>2. ApplyOp(r, rep[r], op, None, None) /\ task[r].at = "idle"
    BY <1>1, Zenon DEF Deliver
  <2> HIDE DEF M
  <2>3. IdsOf(M) # {} /\ IdsOf(M) \subseteq Id
    BY <2>1, SMTT(60) DEF IdsOf, Op
  <2>4. LeastDot(IdsOf(M)) \in IdsOf(M)
    BY <2>3, LeastDotIn, IdBounded, Zenon
  <2>5. op \in M
    BY <2>4, SMTT(40) DEF IdsOf
  <2> HIDE DEF op
  <2>6. Relayed(r, op, None)
    BY <2>1, <2>2, <2>5, Zenon DEF Relayed
  <2>7. Relays(r)
    BY <2>2, <2>6, Zenon DEF Relays
  <2> QED
    BY <2>7, Zenon DEF Turn
<1>2. CASE FetchBlobs(r, src)
  <2>1. PICK batch \in SUBSET (MissingChunks(rep[r]) \cap rep[src].blobs) :
          BeginPass(r, [rep[r] EXCEPT !.blobs = @ \cup batch], FALSE, None)
    BY <1>2, ZenonT(60) DEF FetchBlobs
  <2>2. batch \in SUBSET Chunk
    BY <1>a, Zenon
  <2>3. Like([rep[r] EXCEPT !.blobs = @ \cup batch], rep[r])
    BY <1>0, <2>2, LikeMore, Zenon
  <2>4. task[r].at # "drain"
    BY <1>2, Zenon DEF FetchBlobs
  <2>5. Retries(r)
    BY <2>1, <2>3, <2>4, ZenonT(60) DEF Retries
  <2> QED
    BY <2>5, Zenon DEF Turn
<1>3. CASE Import(r, src)
  <2> DEFINE then == [at |-> "import", inode |-> Root, chunks |-> {}, time |-> 0,
                      ops |-> rep[src].oplog]
             x == [rep[r] EXCEPT !.blobs = @ \cup rep[src].blobs]
  <2>1. then.at = "import"
    BY Zenon
  <2>2. then # None
    <3>1. then \in Then
      BY <1>a, InodeTypes, Zenon DEF Then
    <3> QED
      BY <3>1, NoneAssumption, Zenon
  <2>3. rep' = [rep EXCEPT ![r] = x] /\ task' = [task EXCEPT ![r] = Resume(then)]
          /\ task[r].at = "idle"
    BY <1>3, Zenon DEF Import
  <2>4. Like(x, rep[r])
    BY <1>0, <1>a, LikeMore, SMTT(60)
  <2> HIDE DEF then, x
  <2>5. Imports(r)
    BY <2>1, <2>2, <2>3, <2>4, ZenonT(60) DEF Imports
  <2> QED
    BY <2>5, Zenon DEF Turn
<1> QED
  BY <1>1, <1>2, <1>3, SMTT(60) DEF Sync

\* Every step takes one of the forms.
LEMMA NextTurn ==
  ASSUME TypeInv, Next
  PROVE  \E r \in Device : Turn(r)
<1>1. PICK r \in Device :
        Local(r) \/ Work(r) \/ \E src \in Device \ {r} : Sync(r, src) \/ Import(r, src)
  BY Zenon DEF Next
<1> QED
  BY <1>1, LocalTurn, WorkTurn, SyncTurn, Zenon

-----------------------------------------------------------------------------
(* The published root and the queue *)

Published(s) == s.head = [root |-> s.imap, time |-> s.time]

\* The root is current, or the drain under way is to publish it.
HeadOK(s, t) == (t.at = "drain" /\ t.snap) \/ Published(s)

Settled(s) == \A op \in s.pending : ~CanApply(s, op)

\* The queue is settled between handlers; in a pass that made no progress, what
\* was visited cannot be applied.
DrainOK(s, t) ==
  /\ t.at = "idle" => Settled(s)
  /\ t.at = "drain" /\ ~t.progressed =>
       \A op \in s.pending : op.id \in t.todo \/ ~CanApply(s, op)

\* What is logged is applied or parked.
Covered(s) == IdsOf(s.oplog) = s.applied \cup IdsOf(s.pending)

\* What an operation does depends on the namespace, the markers and the content.
LEMMA SameMutate ==
  ASSUME NEW s, NEW x, NEW op, SameNamespace(x, s), x.applied = s.applied, x.blobs = s.blobs
  PROVE  /\ Unmet(x, op) <=> Unmet(s, op)
         /\ Fails(x, op) <=> Fails(s, op)
         /\ CanApply(x, op) <=> CanApply(s, op)
<1>1. x.inode = s.inode /\ x.dir = s.dir /\ \A i : IsDir(x, i) <=> IsDir(s, i)
  BY Zenon DEF SameNamespace, IsDir
<1>2. Observed(x, op) = Observed(s, op)
  BY <1>1, Zenon DEF Observed
<1>3. RenameUnmet(x, op) <=> RenameUnmet(s, op)
  BY <1>1, <1>2, Zenon DEF RenameUnmet
<1>4. RenameFails(x, op) <=> RenameFails(s, op)
  <2>1. MovedEntry(x, op) = MovedEntry(s, op)
    BY <1>2, Zenon DEF MovedEntry
  <2>2. \A d, i : SubtreeContains(x, d, i) <=> SubtreeContains(s, d, i)
    BY <1>1 DEF SubtreeContains, DirsFrom, DirLinks, SameNamespace
  <2> QED
    BY <1>2, <1>3, <2>1, <2>2, SMTT(60) DEF RenameFails
<1>5. Unmet(x, op) <=> Unmet(s, op)
  BY <1>1, <1>3, Zenon DEF Unmet, CreateUnmet, WriteUnmet, WriteCanWin, UnlinkUnmet
<1>6. Fails(x, op) <=> Fails(s, op)
  BY <1>1, <1>4, Zenon DEF Fails, WriteFails
<1> QED
  BY <1>5, <1>6, Zenon DEF CanApply

\* What a handler is left in by the end of a drain or the beginning of a pass.
LeftBy(r, s, then) ==
  /\ HeadOK(rep'[r], task'[r]) /\ DrainOK(rep'[r], task'[r])
  /\ SameTables(rep'[r], s) /\ task'[r].then = then
  /\ \A q \in Device \ {r} : rep'[q] = rep[q] /\ task'[q] = task[q]

\* The end of a drain with nothing left to apply, or in the middle of a call.
LEMMA EndDrainLeaves ==
  ASSUME TypeInv, NEW r \in Device, NEW s, RepType(s), NEW snap, NEW then,
         then = None \/ then.at \in {"write", "import"},
         EndDrain(r, s, snap, then), snap \/ Published(s), then # None \/ Settled(s)
  PROVE  LeftBy(r, s, then)
<1> DEFINE x == IF snap THEN BuildSnapshot(s) ELSE s
           t == Resume(then)
<1>1. rep'[r] = x /\ task'[r] = t /\ \A q \in Device \ {r} : rep'[q] = rep[q] /\ task'[q] = task[q]
  BY Zenon DEF EndDrain, TypeInv
<1>2. SameTables(x, s) /\ SameNamespace(x, s) /\ Published(x)
  BY Zenon DEF BuildSnapshot, RepType, SameTables, SameNamespace, Published
<1>3. t.then = then /\ t.at # "drain" /\ (t.at = "idle" => then = None)
  BY Zenon DEF Resume, Idle
<1> HIDE DEF x, t
<1>4. Settled(s) => Settled(x)
  BY <1>2, SameMutate, Zenon DEF Settled, SameTables
<1> QED
  BY <1>1, <1>2, <1>3, <1>4, Zenon DEF LeftBy, HeadOK, DrainOK

\* A new pass has everything still to visit.
LEMMA BeginPassLeaves ==
  ASSUME TypeInv, NEW r \in Device, NEW s, RepType(s), NEW snap, NEW then,
         then = None \/ then.at \in {"write", "import"},
         BeginPass(r, s, snap, then), snap \/ Published(s)
  PROVE  LeftBy(r, s, then)
<1>1. CASE s.pending = {}
  <2>1. EndDrain(r, s, snap, then) /\ Settled(s)
    BY <1>1, Zenon DEF BeginPass, Settled
  <2> QED
    BY <2>1, EndDrainLeaves, Zenon
<1>2. CASE s.pending # {}
  <2> DEFINE t == [at |-> "drain", todo |-> IdsOf(s.pending), progressed |-> FALSE,
                   snap |-> snap, then |-> then]
  <2>1. rep'[r] = s /\ task'[r] = t /\ \A q \in Device \ {r} : rep'[q] = rep[q] /\ task'[q] = task[q]
    BY <1>2, ZenonT(60) DEF BeginPass, TypeInv
  <2>2. HeadOK(s, t) /\ DrainOK(s, t) /\ t.then = then
    BY Zenon DEF HeadOK, DrainOK, IdsOf
  <2>3. SameTables(s, s)
    BY Zenon DEF SameTables
  <2> QED
    BY <2>1, <2>2, <2>3, Zenon DEF LeftBy
<1> QED
  BY <1>1, <1>2, Zenon

\* What apply_op_inner leaves behind when the operation does not fail.
TakenBy(r, s, op, done, parked) ==
  /\ HeadOK(rep'[r], task'[r]) /\ DrainOK(rep'[r], task'[r]) /\ Covered(rep'[r])
  /\ rep'[r].oplog \subseteq s.oplog \cup {op}
  /\ \A p \in rep'[r].pending :
       p \in s.pending \/ (p = op /\ op.id \notin s.applied /\ Unmet(s, op))
  /\ \/ task'[r].then = parked
     \/ task'[r].then = done /\ (op.id \in s.applied \/ op \in AppliedOps(rep'[r]))
  /\ \A q \in Device \ {r} : rep'[q] = rep[q] /\ task'[q] = task[q]

\* Taking in an operation that cannot fail publishes the head it makes, starts
\* the drain it owes, and logs or parks nothing but that operation.
LEMMA ApplyOpTakes ==
  ASSUME TypeInv, NEW r \in Device, NEW s, RepType(s), NEW op \in Op, NEW done, NEW parked,
         done = None \/ done.at \in {"write", "import"},
         parked = None \/ parked.at \in {"write", "import"},
         ApplyOp(r, s, op, done, parked), Published(s), Covered(s), ~Fails(s, op),
         op.id \notin s.applied \/ done # None
  PROVE  TakenBy(r, s, op, done, parked)
<1> DEFINE kept == AppendOp(s, op)
<1>1. /\ RepType(kept) /\ SameNamespace(kept, s) /\ kept.oplog = s.oplog \cup {op}
      /\ kept.applied = s.applied /\ kept.pending = s.pending /\ Published(kept)
      /\ kept.blobs = s.blobs
  BY Zenon DEF AppendOp, RepType, SameNamespace, Published
<1>2. (Unmet(kept, op) <=> Unmet(s, op)) /\ ~Fails(kept, op)
  <2> HIDE DEF kept
  <2> QED
    BY <1>1, SameMutate, Zenon
<1>3. CASE op.id \in s.applied
  <2>1. EndDrain(r, s, FALSE, done) /\ done # None
    BY <1>3, Zenon DEF ApplyOp
  <2>2. LeftBy(r, s, done)
    BY <2>1, EndDrainLeaves, ZenonT(60)
  <2> QED
    BY <1>3, <2>2, Zenon DEF LeftBy, TakenBy, SameTables, Covered
<1>4. CASE op.id \notin s.applied /\ Unmet(kept, op)
  <2> DEFINE y == StorePending(kept, op)
  <2>1. BeginPass(r, y, FALSE, parked)
    BY <1>2, <1>4, Zenon DEF ApplyOp
  <2> HIDE DEF kept
  <2>2. /\ RepType(y) /\ y.oplog = s.oplog \cup {op} /\ y.applied = s.applied
        /\ y.pending = s.pending \cup {op} /\ Published(y)
    BY <1>1, Zenon DEF StorePending, RepType, Published
  <2> HIDE DEF y
  <2>3. LeftBy(r, y, parked)
    BY <2>1, <2>2, BeginPassLeaves, ZenonT(60)
  <2>4. Covered(y)
    BY <2>2, SMTT(60) DEF Covered, IdsOf
  <2>5. Covered(rep'[r])
    BY <2>3, <2>4, Zenon DEF Covered, LeftBy, SameTables
  <2> QED
    BY <1>2, <1>4, <2>2, <2>3, <2>5, SMTT(60) DEF LeftBy, TakenBy, SameTables
<1>5. CASE op.id \notin s.applied /\ ~Unmet(kept, op)
  <2> DEFINE y == Commit(kept, op)
  <2>1. BeginPass(r, y, TRUE, done)
    BY <1>2, <1>5, Zenon DEF ApplyOp
  <2>2. CanApply(kept, op)
    BY <1>2, <1>5, Zenon DEF CanApply
  <2> HIDE DEF kept
  <2>3. /\ RepType(y) /\ y.oplog = s.oplog \cup {op} /\ y.applied = s.applied \cup {op.id}
        /\ y.pending = {p \in s.pending : p.id # op.id}
    BY <1>1, <2>2, CommitFrame, SMTT(60)
  <2> HIDE DEF y
  <2>4. LeftBy(r, y, done)
    BY <2>1, <2>3, BeginPassLeaves, ZenonT(60)
  <2>5. Covered(y)
    BY <2>3 DEF Covered, IdsOf
  <2>6. Covered(rep'[r])
    BY <2>4, <2>5, Zenon DEF Covered, LeftBy, SameTables
  <2>7. op \in AppliedOps(rep'[r])
    BY <2>3, <2>4, Zenon DEF AppliedOps, LeftBy, SameTables
  <2> QED
    BY <2>3, <2>4, <2>6, <2>7, Zenon DEF LeftBy, TakenBy, SameTables
<1> QED
  BY <1>3, <1>4, <1>5, Zenon

\* What a row of a drain, and the end of a pass, leave behind.
DrainedBy(r) ==
  /\ HeadOK(rep'[r], task'[r]) /\ DrainOK(rep'[r], task'[r]) /\ Covered(rep'[r])
  /\ rep'[r].oplog = rep[r].oplog /\ rep'[r].pending \subseteq rep[r].pending
  /\ task'[r].then = task[r].then
  /\ \A q \in Device \ {r} : rep'[q] = rep[q] /\ task'[q] = task[q]

\* A row of a drain that cannot fail lands or stays parked, and is settled as the
\* pass goes on.
LEMMA DrainRowLeaves ==
  ASSUME TypeInv, LogInv, NEW r \in Device, DrainRow(r), Covered(rep[r]),
         HeadOK(rep[r], task[r]), DrainOK(rep[r], task[r]),
         \A op \in rep[r].pending : ~Fails(rep[r], op)
  PROVE  DrainedBy(r)
<1> DEFINE s   == rep[r]
           id  == LeastDot(task[r].todo)
           op  == CHOOSE o \in s.pending : o.id = id
           row == [task[r] EXCEPT !.todo = @ \ {id}]
<1>1. RepType(s) /\ task[r] \in Task
  BY TaskFacts, Zenon
<1>2. task[r].at = "drain" /\ task[r].todo # {} /\ task[r].todo \subseteq IdsOf(s.pending)
        /\ task[r].todo \subseteq Id
  BY Zenon DEF DrainRow, TypeInv, TaskOK, Task
<1>3. id \in task[r].todo
  BY <1>2, LeastDotIn, IdBounded, Zenon
<1>4. op \in s.pending /\ op.id = id
  BY <1>2, <1>3, Zenon DEF IdsOf
<1>5. op \in Op /\ ~Fails(s, op)
  BY <1>1, <1>4, SMTT(60) DEF RepType
<1>6. id \notin s.applied /\ \A p \in s.pending : p.id = id => p = op
  BY <1>4, SMTT(60) DEF LogInv, LogWellFormed, IdsOf
<1>7. CASE Unmet(s, op)
  <2>1. rep' = rep /\ task' = [task EXCEPT ![r] = row]
    BY <1>5, <1>6, <1>7, Zenon DEF DrainRow
  <2>2. rep'[r] = s /\ task'[r] = row /\ \A q \in Device \ {r} : rep'[q] = rep[q] /\ task'[q] = task[q]
    BY <2>1, Zenon DEF TypeInv
  <2>3. /\ row.at = "drain" /\ row.then = task[r].then /\ row.snap = task[r].snap
        /\ row.progressed = task[r].progressed /\ row.todo = task[r].todo \ {id}
    BY <1>1, <1>2, Zenon DEF Task
  <2>4. ~CanApply(s, op)
    BY <1>7, Zenon DEF CanApply
  <2> HIDE DEF row, id, op
  <2>5. DrainOK(s, row)
    BY <1>2, <1>6, <2>3, <2>4, Zenon DEF DrainOK
  <2>6. HeadOK(s, row)
    BY <1>2, <2>3, Zenon DEF HeadOK
  <2> QED
    BY <2>2, <2>3, <2>5, <2>6, Zenon DEF DrainedBy
<1>8. CASE ~Unmet(s, op)
  <2> DEFINE x == Commit(s, op)
             t == [row EXCEPT !.progressed = TRUE, !.snap = TRUE]
  <2>1. rep' = [rep EXCEPT ![r] = x] /\ task' = [task EXCEPT ![r] = t]
    BY <1>5, <1>6, <1>8, SMTT(60) DEF DrainRow
  <2>2. rep'[r] = x /\ task'[r] = t /\ \A q \in Device \ {r} : rep'[q] = rep[q] /\ task'[q] = task[q]
    BY <2>1, Zenon DEF TypeInv
  <2>3. CanApply(s, op)
    BY <1>5, <1>8, Zenon DEF CanApply
  <2>4. t.at = "drain" /\ t.snap = TRUE /\ t.progressed = TRUE /\ t.then = task[r].then
    BY <1>1, <1>2, Zenon DEF Task
  <2> HIDE DEF op, row, id, t
  <2>5. /\ x.oplog = s.oplog /\ x.applied = s.applied \cup {op.id}
        /\ x.pending = {p \in s.pending : p.id # op.id}
    BY <1>1, <1>5, <2>3, CommitFrame, SMTT(60)
  <2> HIDE DEF x
  <2>6. Covered(x)
    <3>1. op.id \in IdsOf(s.pending)
      BY <1>4, Zenon DEF IdsOf
    <3>2. IdsOf(s.pending) = IdsOf(x.pending) \cup {op.id}
      BY <2>5, <3>1, SMTT(60) DEF IdsOf
    <3> QED
      BY <2>5, <3>2, Zenon DEF Covered
  <2>7. HeadOK(x, t) /\ DrainOK(x, t)
    BY <2>4, Zenon DEF HeadOK, DrainOK
  <2> QED
    BY <2>2, <2>4, <2>5, <2>6, <2>7, Zenon DEF DrainedBy
<1> QED
  BY <1>7, <1>8, Zenon

\* The end of a pass starts another one exactly when this one applied a row.
LEMMA DrainPassLeaves ==
  ASSUME TypeInv, NEW r \in Device, DrainPass(r), Covered(rep[r]),
         HeadOK(rep[r], task[r]), DrainOK(rep[r], task[r])
  PROVE  DrainedBy(r)
<1> DEFINE s == rep[r]
           then == task[r].then
<1>1. RepType(s) /\ (then = None \/ then.at \in {"write", "import"})
  <2>1. RepType(s) /\ (then # None => then \in Then)
    BY TaskFacts, Zenon
  <2> QED
    BY <2>1, Zenon DEF Then
<1>2. task[r].at = "drain" /\ task[r].todo = {} /\ (task[r].snap \/ Published(s))
  BY Zenon DEF DrainPass, HeadOK
<1>3. LeftBy(r, s, then)
  <2>1. CASE task[r].progressed
    <3>1. BeginPass(r, s, task[r].snap, then)
      BY <2>1, Zenon DEF DrainPass
    <3> QED
      BY <1>1, <1>2, <3>1, BeginPassLeaves, SMTT(60)
  <2>2. CASE ~task[r].progressed
    <3>1. EndDrain(r, s, task[r].snap, then)
      BY <2>2, Zenon DEF DrainPass
    <3>2. Settled(s)
      BY <1>2, <2>2, Zenon DEF DrainOK, Settled
    <3> QED
      BY <1>1, <1>2, <3>1, <3>2, EndDrainLeaves, SMTT(60)
  <2> QED
    BY <2>1, <2>2, SMTT(60)
<1> QED
  BY <1>3, Zenon DEF LeftBy, DrainedBy, SameTables, Covered

\* Applying an operation observes its time.
LEMMA CommitTime ==
  ASSUME NEW s, RepType(s), NEW op \in Op, CanApply(s, op)
  PROVE  Commit(s, op).time = IF op.time > s.time THEN op.time ELSE s.time
<1> DEFINE f == Effect(s, op)
           m == MarkApplied(f, op)
           o == ObserveTime(m, op)
<1>1. RepType(f)
  BY CommitFrame, SMTT(60)
<1>2. f.time = s.time
  <2>1. CASE op.kind \in {"Mkdir", "CreateFile"}
    <3>1. f = CreateEffect(s, op)
      BY <2>1, SMTT(60) DEF Effect
    <3> QED
      BY <3>1, SMTT(60) DEF CreateEffect, RepType
  <2>2. CASE op.kind = "Write"
    <3>1. f = WriteEffect(s, op)
      BY <2>2, SMTT(60) DEF Effect
    <3> QED
      BY <3>1, SMTT(60) DEF WriteEffect, RepType
  <2>3. CASE op.kind = "Rename"
    <3>1. f = RenameEffect(s, op)
      BY <2>3, SMTT(60) DEF Effect
    <3> QED
      BY <3>1, SMTT(60) DEF RenameEffect, RepType
  <2>4. CASE op.kind = "Unlink"
    <3>1. f = UnlinkEffect(s, op)
      BY <2>4, SMTT(60) DEF Effect
    <3> QED
      BY <3>1, SMTT(60) DEF UnlinkEffect, RepType
  <2> QED
    BY <2>1, <2>2, <2>3, <2>4, SMTT(60) DEF Op, Kind
<1> HIDE DEF f
<1>3. m.time = f.time /\ RepType(m)
  BY <1>1, ZenonT(60) DEF MarkApplied, RepType, Op
<1> HIDE DEF m
<1>4. o.time = (IF op.time > m.time THEN op.time ELSE m.time) /\ RepType(o)
  BY <1>3, KeyType, Zenon DEF ObserveTime, RepType
<1> HIDE DEF o
<1>5. MaintainInodeMap(o, op).time = o.time
  BY <1>4, SMTT(60) DEF MaintainInodeMap, RefreshMapEntry, RepType
<1>6. Commit(s, op) = MaintainInodeMap(o, op)
  BY Zenon DEF Commit, o, m, f
<1> QED
  BY <1>2, <1>3, <1>4, <1>5, <1>6, SMTT(60)
=============================================================================
