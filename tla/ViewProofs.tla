----------------------------- MODULE ViewProofs -----------------------------
(***************************************************************************)
(* Core implements NamespaceView: the names listed in every directory and  *)
(* the content of every file are a function of the set of operations       *)
(* applied, for every order in which they are delivered, parked, retried   *)
(* or imported.                                                            *)
(*                                                                         *)
(* The inductive invariant ties the tables of a repository to the set of   *)
(* operations it applied: which inodes exist, which names and removals     *)
(* each directory holds, and which operation's content each file has.      *)
(* Last, the operations applied can be put in an order.                    *)
(***************************************************************************)
EXTENDS CoreProofs

\* op's content is in the register of inode i, and its key is the greatest.
Latest(ops, i, op) ==
  /\ op \in Abstract!ContentOps(ops, i)
  /\ \A o \in Abstract!ContentOps(ops, i) : o = op \/ KeyLess(OpKey(o), OpKey(op))

\* The tables of s are those of the set of operations ops.
ViewOK(s, ops) ==
  /\ \A i \in Inode : s.inode[i] # None <=> i \in Abstract!Made(ops)
  /\ \A op \in ops : Abstract!Touches(op) \subseteq Abstract!Made(ops)
  /\ \A d \in Inode : NamesOf(s.dir[d]) = Abstract!NamesIn(ops, d)
  /\ \A d \in Inode : s.dir[d].removes = Abstract!RemovedFrom(ops, d)
  /\ \A i \in Inode \ {Root} : s.inode[i] # None =>
       \E op \in ops : Latest(ops, i, op) /\ s.inode[i].content = Abstract!ContentSetBy(op)

ViewInv == \A r \in Device : ViewOK(rep[r], AppliedOps(rep[r]))

-----------------------------------------------------------------------------
(* One more operation in the set *)

\* The instance shares the definitions of Namespace.
LEMMA Shared ==
  /\ Abstract!Root = Root /\ Abstract!Inode = Inode
  /\ \A x : Abstract!InodeForOp(x) = x /\ Abstract!OpKey(x) = OpKey(x)
            /\ Abstract!FileNode(x) = FileNode(x) /\ Abstract!IdsOf(x) = IdsOf(x)
  /\ \A x, y : Abstract!KeyLess(x, y) = KeyLess(x, y)
  BY Zenon DEF Abstract!Root, Root, Abstract!Inode, Inode, Abstract!Id, Id, Abstract!InodeForOp,
         Abstract!OpKey, OpKey, Abstract!FileNode, FileNode, Abstract!IdsOf, IdsOf,
         Abstract!KeyLess, KeyLess, Abstract!DotLess, DotLess

\* What one more operation adds to the creating, moving and removing ones.
LEMMA KindsAdd ==
  ASSUME NEW A, NEW op
  PROVE  LET B == A \cup {op} IN
         /\ \A o : o \in Abstract!Creates(B) <=>
                \/ o \in Abstract!Creates(A)
                \/ o = op /\ op.kind \in {"Mkdir", "CreateFile"}
         /\ \A o : o \in Abstract!Moves(B) <=>
                \/ o \in Abstract!Moves(A)
                \/ o = op /\ op.kind = "Rename" /\ op.observed # {}
         /\ \A o : o \in Abstract!Removals(B) <=>
                \/ o \in Abstract!Removals(A)
                \/ o = op /\ ((op.kind = "Rename" /\ op.observed # {}) \/ op.kind = "Unlink")
  BY Zenon DEF Abstract!Creates, Abstract!Moves, Abstract!Removals

\* What it adds to the inodes.
LEMMA MadeAdd ==
  ASSUME NEW A, NEW op
  PROVE  LET B == A \cup {op} IN
         /\ op.kind \in {"Mkdir", "CreateFile"} => Abstract!Made(B) = Abstract!Made(A) \cup {op.id}
         /\ op.kind \notin {"Mkdir", "CreateFile"} => Abstract!Made(B) = Abstract!Made(A)
<1> DEFINE B == A \cup {op}
<1>1. \A o : o \in Abstract!Creates(B) <=>
         o \in Abstract!Creates(A) \/ (o = op /\ op.kind \in {"Mkdir", "CreateFile"})
  BY KindsAdd, Zenon
<1> HIDE DEF B
<1>2. op.kind \in {"Mkdir", "CreateFile"} => Abstract!Made(B) = Abstract!Made(A) \cup {op.id}
  BY <1>1, Shared, Zenon DEF Abstract!Made
<1>3. op.kind \notin {"Mkdir", "CreateFile"} => Abstract!Made(B) = Abstract!Made(A)
  BY <1>1, Shared, Zenon DEF Abstract!Made
<1> QED
  BY <1>2, <1>3, Zenon DEF B

\* What it adds to the names of a directory.
LEMMA NamesAdd ==
  ASSUME NEW A, NEW op, NEW d, NEW z
  PROVE  z \in Abstract!NamesIn(A \cup {op}, d) <=>
           \/ z \in Abstract!NamesIn(A, d)
           \/ /\ op.kind \in {"Mkdir", "CreateFile"} /\ op.parent = d
              /\ z = <<op.name, op.id, op.time>>
           \/ /\ op.kind = "Rename" /\ op.observed # {} /\ op.newParent = d
              /\ z = <<op.newName, op.id, op.time>>
<1> DEFINE B == A \cup {op}
<1>1. /\ \A o : o \in Abstract!Creates(B) <=>
              o \in Abstract!Creates(A) \/ (o = op /\ op.kind \in {"Mkdir", "CreateFile"})
      /\ \A o : o \in Abstract!Moves(B) <=>
              o \in Abstract!Moves(A) \/ (o = op /\ op.kind = "Rename" /\ op.observed # {})
  BY KindsAdd, Zenon
<1>2. \A C : z \in Abstract!NamesIn(C, d) <=>
         \/ \E o \in Abstract!Creates(C) : o.parent = d /\ z = <<o.name, o.id, o.time>>
         \/ \E o \in Abstract!Moves(C) : o.newParent = d /\ z = <<o.newName, o.id, o.time>>
  BY Zenon DEF Abstract!NamesIn
<1> HIDE DEF B
<1>3. z \in Abstract!NamesIn(B, d) <=>
        \/ z \in Abstract!NamesIn(A, d)
        \/ /\ op.kind \in {"Mkdir", "CreateFile"} /\ op.parent = d
           /\ z = <<op.name, op.id, op.time>>
        \/ /\ op.kind = "Rename" /\ op.observed # {} /\ op.newParent = d
           /\ z = <<op.newName, op.id, op.time>>
  BY <1>1, <1>2, SMTT(60)
<1> QED
  BY <1>3, Zenon DEF B

\* What it adds to the removals of a directory.
LEMMA RemovedAdd ==
  ASSUME NEW A, NEW op, NEW d
  PROVE  LET B == A \cup {op} IN
         /\ op.kind \in {"Rename", "Unlink"} /\ op.parent = d =>
              Abstract!RemovedFrom(B, d) =
                Abstract!RemovedFrom(A, d) \cup {<<op.name, dot>> : dot \in op.observed}
         /\ ~(op.kind \in {"Rename", "Unlink"} /\ op.parent = d) =>
              Abstract!RemovedFrom(B, d) = Abstract!RemovedFrom(A, d)
<1> DEFINE B == A \cup {op}
<1>1. \A o : o \in Abstract!Removals(B) <=>
         \/ o \in Abstract!Removals(A)
         \/ o = op /\ ((op.kind = "Rename" /\ op.observed # {}) \/ op.kind = "Unlink")
  BY KindsAdd, Zenon
<1>2. \A C, z : z \in Abstract!RemovedFrom(C, d) <=>
         \E o \in Abstract!Removals(C) : o.parent = d /\ \E dot \in o.observed : z = <<o.name, dot>>
  BY DEF Abstract!RemovedFrom
<1> HIDE DEF B
<1>3. ASSUME NEW z
      PROVE  z \in Abstract!RemovedFrom(B, d) <=>
               \/ z \in Abstract!RemovedFrom(A, d)
               \/ op.kind \in {"Rename", "Unlink"} /\ op.parent = d
                    /\ \E dot \in op.observed : z = <<op.name, dot>>
  <2>1. (\E dot \in op.observed : z = <<op.name, dot>>) => op.observed # {}
    BY Zenon
  <2> QED
    BY <1>1, <1>2, <2>1, SMTT(60)
<1> QED
  BY <1>3, Zenon DEF B

\* What it adds to the operations that set the content of an inode.
LEMMA ContentAdd ==
  ASSUME NEW A, NEW op, NEW i
  PROVE  LET B == A \cup {op} IN
         /\ \/ op.kind \in {"Mkdir", "CreateFile"} /\ op.id = i
            \/ op.kind = "Write" /\ op.inode = i
            => Abstract!ContentOps(B, i) = Abstract!ContentOps(A, i) \cup {op}
         /\ /\ ~(op.kind \in {"Mkdir", "CreateFile"} /\ op.id = i)
            /\ ~(op.kind = "Write" /\ op.inode = i)
            => Abstract!ContentOps(B, i) = Abstract!ContentOps(A, i)
<1> DEFINE B == A \cup {op}
<1>1. \A o : o \in Abstract!Creates(B) <=>
         o \in Abstract!Creates(A) \/ (o = op /\ op.kind \in {"Mkdir", "CreateFile"})
  BY KindsAdd, Zenon
<1>2. \A C, o : o \in Abstract!ContentOps(C, i) <=>
         \/ o \in Abstract!Creates(C) /\ o.id = i
         \/ o \in C /\ o.kind = "Write" /\ o.inode = i
  BY Shared, Zenon DEF Abstract!ContentOps
<1>3. \A o : o \in B <=> o \in A \/ o = op
  BY Zenon
<1> HIDE DEF B
<1>4. ASSUME NEW o
      PROVE  o \in Abstract!ContentOps(B, i) <=>
               \/ o \in Abstract!ContentOps(A, i)
               \/ o = op /\ (\/ op.kind \in {"Mkdir", "CreateFile"} /\ op.id = i
                             \/ op.kind = "Write" /\ op.inode = i)
  BY <1>1, <1>2, <1>3, SMTT(60)
<1> QED
  BY <1>4, Zenon DEF B

\* An operation that was not applied has left nothing: its inode does not exist
\* and no entry carries its dot.
LEMMA FreshId ==
  ASSUME NEW s, RepType(s), NEW A, A \subseteq Op, ViewOK(s, A),
         NEW op \in Op, op.id \notin IdsOf(A)
  PROVE  /\ op.id \notin Abstract!Made(A)
         /\ Abstract!NamesIn(A, op.id) = {}
         /\ Abstract!RemovedFrom(A, op.id) = {}
         /\ Abstract!ContentOps(A, op.id) = {}
         /\ \A d \in Inode : \A e \in s.dir[d].adds : e.dot \in IdsOf(A) /\ e.dot # op.id
<1>1. op.id \notin Abstract!Made(A)
  BY InodeTypes, Shared, SMTT(60) DEF Abstract!Made, Abstract!Creates, IdsOf, Op, InodeForOp
<1>2. \A o \in A : op.id \notin Abstract!Touches(o)
  BY <1>1, Zenon DEF ViewOK
<1>3. \A o \in Abstract!Creates(A) : o \in A /\ o.parent # op.id
  BY <1>2, Zenon DEF Abstract!Creates, Abstract!Touches
<1>4. \A o \in Abstract!Moves(A) : o \in A /\ o.parent # op.id /\ o.newParent # op.id
  BY <1>2, Zenon DEF Abstract!Moves, Abstract!Touches
<1>5. \A o \in Abstract!Removals(A) : o.parent # op.id
  BY <1>2, <1>4, Zenon DEF Abstract!Removals, Abstract!Touches
<1>6. Abstract!NamesIn(A, op.id) = {}
  BY <1>3, <1>4, Zenon DEF Abstract!NamesIn
<1>7. Abstract!RemovedFrom(A, op.id) = {}
  BY <1>5, Zenon DEF Abstract!RemovedFrom
<1>8. Abstract!ContentOps(A, op.id) = {}
  <2>1. \A o \in Abstract!Creates(A) : o.id # op.id
    BY <1>3, Zenon DEF IdsOf
  <2>2. \A o \in A : o.kind = "Write" => o.inode # op.id
    BY <1>2, Zenon DEF Abstract!Touches
  <2> QED
    BY <2>1, <2>2, Shared, Zenon DEF Abstract!ContentOps
<1>9. ASSUME NEW d \in Inode, NEW e \in s.dir[d].adds
      PROVE  e.dot \in IdsOf(A) /\ e.dot # op.id
  <2>1. <<e.name, e.dot, e.time>> \in NamesOf(s.dir[d])
    BY Zenon DEF NamesOf
  <2>2. <<e.name, e.dot, e.time>> \in Abstract!NamesIn(A, d)
    BY <2>1, Zenon DEF ViewOK
  <2>3. \E o \in A : e.dot = o.id
    BY <1>3, <1>4, <2>2, Zenon DEF Abstract!NamesIn
  <2> QED
    BY <2>3, Zenon DEF IdsOf
<1> QED
  BY <1>1, <1>6, <1>7, <1>8, <1>9, SMTT(40)

\* An add under a dot that is not there adds one name and no removal.
LEMMA AddNames ==
  ASSUME NEW m \in DirMap, NEW e \in Entry, \A x \in m.adds : x.dot # e.dot
  PROVE  /\ NamesOf(Add(m, e)) = NamesOf(m) \cup {<<e.name, e.dot, e.time>>}
         /\ Add(m, e).removes = m.removes
<1>1. Add(m, e) = [m EXCEPT !.adds = m.adds \cup {e}]
  BY Zenon DEF Add, DirMap
<1>2. Add(m, e).adds = m.adds \cup {e} /\ Add(m, e).removes = m.removes
  BY <1>1, Zenon DEF DirMap
<1> QED
  BY <1>2, Zenon DEF NamesOf

\* A removal adds to what is removed and touches no name.
LEMMA RemoveNames ==
  ASSUME NEW m \in DirMap, NEW n, NEW dots
  PROVE  /\ NamesOf(RemoveDots(m, n, dots)) = NamesOf(m)
         /\ RemoveDots(m, n, dots).removes = m.removes \cup {<<n, d>> : d \in dots}
  BY Zenon DEF RemoveDots, NamesOf, DirMap

-----------------------------------------------------------------------------
(* The effect of one operation is what it adds to the view *)

\* mutate_create
LEMMA CreateView ==
  ASSUME NEW s, RepType(s), NEW A, A \subseteq Op, ViewOK(s, A),
         NEW op \in Op, op.id \notin IdsOf(A), op.kind \in {"Mkdir", "CreateFile"},
         CanApply(s, op)
  PROVE  ViewOK(CreateEffect(s, op), A \cup {op}) /\ Abstract!Needs(A, op)
<1> DEFINE x == CreateEffect(s, op)
           B == A \cup {op}
           ent == DirEntry(op, op.id, EntryTypeOf(op), op.name)
<1>1. /\ op.id \notin Abstract!Made(A)
      /\ Abstract!NamesIn(A, op.id) = {}
      /\ Abstract!RemovedFrom(A, op.id) = {}
      /\ Abstract!ContentOps(A, op.id) = {}
      /\ \A d \in Inode : \A e \in s.dir[d].adds : e.dot \in IdsOf(A) /\ e.dot # op.id
  BY FreshId, Zenon
<1>2. op.parent \in Inode /\ op.id \in Inode /\ op.id # Root
  BY InodeTypes, Zenon DEF Op, InodeForOp
<1>3. op.parent \in Abstract!Made(A) /\ op.parent # op.id
  BY <1>1, <1>2, Zenon DEF CanApply, Unmet, CreateUnmet, IsDir, ViewOK
<1>4. Abstract!Touches(op) = {op.parent}
  BY Zenon DEF Abstract!Touches
<1>5. Abstract!Needs(A, op)
  BY <1>3, <1>4, Zenon DEF Abstract!Needs
<1>6. /\ Abstract!Made(B) = Abstract!Made(A) \cup {op.id}
      /\ Abstract!NamesIn(B, op.parent) =
           Abstract!NamesIn(A, op.parent) \cup {<<op.name, op.id, op.time>>}
      /\ \A d \in Inode \ {op.parent} : Abstract!NamesIn(B, d) = Abstract!NamesIn(A, d)
      /\ \A d \in Inode : Abstract!RemovedFrom(B, d) = Abstract!RemovedFrom(A, d)
      /\ Abstract!ContentOps(B, op.id) = Abstract!ContentOps(A, op.id) \cup {op}
      /\ \A i \in Inode \ {op.id} : Abstract!ContentOps(B, i) = Abstract!ContentOps(A, i)
  <2>1. op.kind # "Rename" /\ op.kind # "Unlink" /\ op.kind # "Write"
    BY Zenon
  <2>2. Abstract!Made(B) = Abstract!Made(A) \cup {op.id}
    BY MadeAdd, Zenon
  <2>3. Abstract!NamesIn(B, op.parent) =
          Abstract!NamesIn(A, op.parent) \cup {<<op.name, op.id, op.time>>}
    <3>1. ASSUME NEW z
          PROVE  z \in Abstract!NamesIn(B, op.parent) <=>
                   z \in Abstract!NamesIn(A, op.parent) \/ z = <<op.name, op.id, op.time>>
      BY <2>1, NamesAdd, Zenon
    <3> QED
      BY <3>1, Zenon
  <2>4. ASSUME NEW d \in Inode \ {op.parent}
        PROVE  Abstract!NamesIn(B, d) = Abstract!NamesIn(A, d)
    <3>1. ASSUME NEW z
          PROVE  z \in Abstract!NamesIn(B, d) <=> z \in Abstract!NamesIn(A, d)
      BY <2>1, NamesAdd, Zenon
    <3> QED
      BY <3>1, Zenon
  <2>5. \A d \in Inode : Abstract!RemovedFrom(B, d) = Abstract!RemovedFrom(A, d)
    BY <2>1, RemovedAdd, ZenonT(60)
  <2>6. Abstract!ContentOps(B, op.id) = Abstract!ContentOps(A, op.id) \cup {op}
    BY ContentAdd
  <2>7. \A i \in Inode \ {op.id} : Abstract!ContentOps(B, i) = Abstract!ContentOps(A, i)
    BY <2>1, ContentAdd, Zenon
  <2> QED
    BY <2>2, <2>3, <2>4, <2>5, <2>6, <2>7, SMTT(40)
<1>7. /\ x.inode = [s.inode EXCEPT ![op.id] = InodeRecord(op)]
      /\ \A d \in Inode : x.dir[d] = IF d = op.parent THEN Add(s.dir[d], ent)
                                      ELSE IF d = op.id /\ op.kind = "Mkdir" THEN EmptyMap
                                      ELSE s.dir[d]
  BY <1>2, <1>3, Zenon DEF CreateEffect, RepType, InodeForOp
<1>8. InodeRecord(op) \in InodeRec /\ InodeRecord(op) # None
  BY KeyType, NoneAssumption, SMTT(60) DEF InodeRecord, InodeRec, EntryTypeOf, Register
<1>9. s.inode \in [Inode -> InodeRec \cup {None}] /\ \A d \in Inode : s.dir[d] \in DirMap
  BY Zenon DEF RepType
<1> HIDE DEF x
<1>10. \A i \in Inode : x.inode[i] # None <=> i \in Abstract!Made(B)
  BY <1>2, <1>6, <1>7, <1>8, <1>9, Zenon DEF ViewOK
<1>11. \A o \in B : Abstract!Touches(o) \subseteq Abstract!Made(B)
  BY <1>3, <1>4, <1>6, ZenonT(60) DEF ViewOK
<1>12. ent \in Entry /\ ent.dot = op.id /\ ent.name = op.name /\ ent.time = op.time
  BY <1>2, Zenon DEF DirEntry, Entry, EntryTypeOf, Op
<1>13. ASSUME NEW d \in Inode
       PROVE  NamesOf(x.dir[d]) = Abstract!NamesIn(B, d)
                /\ x.dir[d].removes = Abstract!RemovedFrom(B, d)
  <2> HIDE DEF ent
  <2> HIDE DEF B
  <2>0. NamesOf(s.dir[d]) = Abstract!NamesIn(A, d) /\ s.dir[d].removes = Abstract!RemovedFrom(A, d)
    BY Zenon DEF ViewOK
  <2>1. CASE d = op.parent
    <3>1. \A e \in s.dir[d].adds : e.dot # ent.dot
      BY <1>1, <1>12, Zenon
    <3>2. x.dir[d] = Add(s.dir[d], ent)
      BY <1>7, <2>1, Zenon
    <3>3. /\ NamesOf(x.dir[d]) = NamesOf(s.dir[d]) \cup {<<op.name, op.id, op.time>>}
          /\ x.dir[d].removes = s.dir[d].removes
      BY <1>9, <1>12, <3>1, <3>2, AddNames, SMTT(40)
    <3>4. Abstract!NamesIn(B, d) = Abstract!NamesIn(A, d) \cup {<<op.name, op.id, op.time>>}
      BY <1>6, <2>1, Zenon
    <3> QED
      BY <1>6, <2>0, <3>3, <3>4, SMTT(40)
  <2>2. CASE d = op.id /\ op.kind = "Mkdir"
    <3>1. x.dir[d] = EmptyMap
      BY <1>3, <1>7, <2>2, SMTT(60)
    <3>2. NamesOf(EmptyMap) = {} /\ EmptyMap.removes = {}
      BY Zenon DEF NamesOf, EmptyMap
    <3>3. Abstract!NamesIn(B, d) = {} /\ Abstract!RemovedFrom(B, d) = {}
      BY <1>1, <1>3, <1>6, <2>2, SMTT(40)
    <3> QED
      BY <3>1, <3>2, <3>3, SMTT(60)
  <2>3. CASE d # op.parent /\ ~(d = op.id /\ op.kind = "Mkdir")
    <3>1. x.dir[d] = s.dir[d]
      BY <1>7, <2>3, Zenon
    <3>2. Abstract!NamesIn(B, d) = Abstract!NamesIn(A, d)
      BY <1>6, <2>3, Zenon
    <3> QED
      BY <1>6, <2>0, <3>1, <3>2, SMTT(60)
  <2> QED
    BY <2>1, <2>2, <2>3, Zenon
<1>14. ASSUME NEW i \in Inode \ {Root}, x.inode[i] # None
       PROVE  \E o \in B : Latest(B, i, o) /\ x.inode[i].content = Abstract!ContentSetBy(o)
  <2>1. CASE i = op.id
    <3>1. Abstract!ContentOps(B, i) = {op}
      BY <1>1, <1>6, <2>1, SMTT(60)
    <3>2. Latest(B, i, op)
      BY <3>1, Zenon DEF Latest
    <3>3. x.inode[i].content = Abstract!ContentSetBy(op)
      BY <1>7, <1>9, <2>1, Shared, SMTT(40) DEF InodeRecord, Abstract!ContentSetBy
    <3> QED
      BY <3>2, <3>3, Zenon
  <2>2. CASE i # op.id
    <3>1. Abstract!ContentOps(B, i) = Abstract!ContentOps(A, i)
      BY <1>6, <2>2, Zenon
    <3>2. x.inode[i] = s.inode[i]
      BY <1>7, <1>9, <2>2, SMTT(40)
    <3>3. PICK o \in A : Latest(A, i, o) /\ s.inode[i].content = Abstract!ContentSetBy(o)
      BY <1>14, <3>2, Zenon DEF ViewOK
    <3>4. Latest(B, i, o)
      BY <3>1, <3>3, SMTT(40) DEF Latest
    <3> QED
      BY <3>2, <3>3, <3>4, SMTT(60)
  <2> QED
    BY <2>1, <2>2, Zenon
<1> QED
  BY <1>5, <1>10, <1>11, <1>13, <1>14, ZenonT(60) DEF ViewOK, x

\* mutate_write
LEMMA WriteView ==
  ASSUME NEW s, RepType(s), NEW A, A \subseteq Op, ViewOK(s, A),
         NEW op \in Op, op.id \notin IdsOf(A), op.kind = "Write", CanApply(s, op)
  PROVE  ViewOK(WriteEffect(s, op), A \cup {op}) /\ Abstract!Needs(A, op)
<1> DEFINE x == WriteEffect(s, op)
           B == A \cup {op}
           reg == [key |-> OpKey(op), value |-> FileNode(op)]
<1>1. op.inode \in Inode /\ s.inode[op.inode] # None
  BY Zenon DEF CanApply, Unmet, WriteUnmet, Op
<1>2. op.inode \in Abstract!Made(A)
  BY <1>1, Zenon DEF ViewOK
<1>3. Abstract!Touches(op) = {op.inode}
  BY Zenon DEF Abstract!Touches
<1>4. Abstract!Needs(A, op)
  BY <1>2, <1>3, Zenon DEF Abstract!Needs
<1>5. Abstract!Made(B) = Abstract!Made(A)
  BY MadeAdd, Zenon
<1>6. ASSUME NEW d \in Inode
      PROVE  /\ Abstract!NamesIn(B, d) = Abstract!NamesIn(A, d)
             /\ Abstract!RemovedFrom(B, d) = Abstract!RemovedFrom(A, d)
  <2>1. ASSUME NEW z
        PROVE  z \in Abstract!NamesIn(B, d) <=> z \in Abstract!NamesIn(A, d)
    BY NamesAdd, Zenon
  <2>2. Abstract!RemovedFrom(B, d) = Abstract!RemovedFrom(A, d)
    BY RemovedAdd, Zenon
  <2> QED
    BY <2>1, <2>2, Zenon
<1>7. s.inode \in [Inode -> InodeRec \cup {None}] /\ s.inode[op.inode] \in InodeRec
  BY <1>1, Zenon DEF RepType
<1>8. /\ x.dir = s.dir
      /\ \A i \in Inode \ {op.inode} : x.inode[i] = s.inode[i]
      /\ x.inode[op.inode] = [s.inode[op.inode] EXCEPT
                                !.content = MergeReg(s.inode[op.inode].content, reg)]
  BY <1>1, <1>7, SMTT(60) DEF WriteEffect, RepType
<1>9. x.inode[op.inode].content = MergeReg(s.inode[op.inode].content, reg)
  BY <1>7, <1>8, Zenon DEF InodeRec
<1>10. RepType(x)
  BY <1>1, WriteType, Zenon
<1>11. x.inode[op.inode] # None
  <2>1. MergeReg(s.inode[op.inode].content, reg) \in Register
    <3>1. FileNode(op) \in Node
      BY Zenon DEF FileNode, Node, Op
    <3>2. reg \in Register
      BY <3>1, KeyType, SMTT(60) DEF Register
    <3> QED
      BY <1>7, <3>2, Zenon DEF MergeReg, InodeRec
  <2>2. x.inode[op.inode] \in InodeRec
    BY <1>7, <1>8, <2>1, SMTT(40) DEF InodeRec
  <2> QED
    BY <2>2, NoneAssumption, Zenon
<1> HIDE DEF x
<1>12. \A i \in Inode : x.inode[i] # None <=> i \in Abstract!Made(B)
  BY <1>1, <1>2, <1>5, <1>8, <1>11, SMTT(60) DEF ViewOK
<1>13. \A o \in B : Abstract!Touches(o) \subseteq Abstract!Made(B)
  BY <1>2, <1>3, <1>5, SMTT(60) DEF ViewOK
<1>14. \A d \in Inode : /\ NamesOf(x.dir[d]) = Abstract!NamesIn(B, d)
                        /\ x.dir[d].removes = Abstract!RemovedFrom(B, d)
  BY <1>6, <1>8, Zenon DEF ViewOK
<1>15. ASSUME NEW i \in Inode \ {Root}, x.inode[i] # None
       PROVE  \E o \in B : Latest(B, i, o) /\ x.inode[i].content = Abstract!ContentSetBy(o)
  <2>1. s.inode[i] # None
    BY <1>1, <1>8, <1>15, SMTT(60)
  <2>2. PICK m \in A : Latest(A, i, m) /\ s.inode[i].content = Abstract!ContentSetBy(m)
    BY <2>1, Zenon DEF ViewOK
  <2>3. CASE i # op.inode
    <3>1. Abstract!ContentOps(B, i) = Abstract!ContentOps(A, i)
      BY <2>3, ContentAdd, SMTT(60)
    <3>2. Latest(B, i, m)
      BY <2>2, <3>1, Zenon DEF Latest
    <3> QED
      BY <1>8, <2>2, <2>3, <3>2, SMTT(60)
  <2>4. CASE i = op.inode
    <3>1. Abstract!ContentOps(B, i) = Abstract!ContentOps(A, i) \cup {op}
      BY <2>4, ContentAdd, SMTT(60)
    <3>2. s.inode[i].content.key = OpKey(m)
      BY <2>2, Shared, SMTT(60) DEF Abstract!ContentSetBy
    <3>3. /\ Abstract!ContentOps(A, i) \subseteq A
          /\ \A o \in A : OpKey(o) \in Nat \X Nat \X Nat
          /\ OpKey(op) \in Nat \X Nat \X Nat
      BY KeyType, Zenon DEF Abstract!ContentOps, Abstract!Creates
    <3>4. OpKey(m) # OpKey(op)
      <4>1. m.id # op.id
        BY <2>2, Zenon DEF IdsOf
      <4>2. m.id = <<m.id[1], m.id[2]>> /\ op.id = <<op.id[1], op.id[2]>>
        BY <2>2, IdType, Zenon DEF Op
      <4> QED
        BY <4>1, <4>2, Zenon DEF OpKey
    <3>5. x.inode[i].content = IF KeyLess(OpKey(m), OpKey(op)) THEN reg ELSE s.inode[i].content
      BY <1>9, <2>4, <3>2, Zenon DEF MergeReg
    <3>6. CASE KeyLess(OpKey(m), OpKey(op))
      <4>1. ASSUME NEW o \in Abstract!ContentOps(B, i)
            PROVE  o = op \/ KeyLess(OpKey(o), OpKey(op))
        <5>1. CASE o = op
          BY <5>1, Zenon
        <5>2. CASE o \in Abstract!ContentOps(A, i)
          <6>1. o = m \/ KeyLess(OpKey(o), OpKey(m))
            BY <2>2, <5>2, SMTT(60) DEF Latest
          <6>2. OpKey(o) \in Nat \X Nat \X Nat /\ OpKey(m) \in Nat \X Nat \X Nat
            BY <2>2, <3>3, <5>2, SMTT(40)
          <6> QED
            BY <3>3, <3>6, <6>1, <6>2, KeyOrder, SMTT(40)
        <5> QED
          BY <3>1, <5>1, <5>2, SMTT(60)
      <4>2. Latest(B, i, op)
        BY <3>1, <4>1, SMTT(60) DEF Latest
      <4>3. Abstract!ContentSetBy(op) = reg
        BY Shared, SMTT(40) DEF Abstract!ContentSetBy
      <4> QED
        BY <3>5, <3>6, <4>2, <4>3, SMTT(40)
    <3>7. CASE ~KeyLess(OpKey(m), OpKey(op))
      <4>1. KeyLess(OpKey(op), OpKey(m))
        BY <2>2, <3>3, <3>4, <3>7, KeyOrder, SMTT(40)
      <4>2. Latest(B, i, m)
        BY <2>2, <3>1, <4>1, SMTT(40) DEF Latest
      <4> QED
        BY <2>2, <3>5, <3>7, <4>2, SMTT(40)
    <3> QED
      BY <3>6, <3>7, Zenon
  <2> QED
    BY <2>3, <2>4, Zenon
<1> QED
  BY <1>4, <1>12, <1>13, <1>14, <1>15, Zenon DEF ViewOK, x

\* An operation that only changes directories leaves inodes and contents alone.
LEMMA DirsOnlyView ==
  ASSUME NEW s, NEW A, ViewOK(s, A), NEW op, op.kind \in {"Rename", "Unlink"},
         Abstract!Touches(op) \subseteq Abstract!Made(A), NEW x, x.inode = s.inode,
         \A d \in Inode : /\ NamesOf(x.dir[d]) = Abstract!NamesIn(A \cup {op}, d)
                          /\ x.dir[d].removes = Abstract!RemovedFrom(A \cup {op}, d)
  PROVE  ViewOK(x, A \cup {op})
<1> DEFINE B == A \cup {op}
<1>1. Abstract!Made(B) = Abstract!Made(A)
  BY MadeAdd, Zenon
<1>2. \A i \in Inode : Abstract!ContentOps(B, i) = Abstract!ContentOps(A, i)
  BY ContentAdd, ZenonT(60)
<1>3. ASSUME NEW i \in Inode \ {Root}, x.inode[i] # None
      PROVE  \E o \in B : Latest(B, i, o) /\ x.inode[i].content = Abstract!ContentSetBy(o)
  <2>1. PICK o \in A : Latest(A, i, o) /\ s.inode[i].content = Abstract!ContentSetBy(o)
    BY <1>3, Zenon DEF ViewOK
  <2>2. Latest(B, i, o)
    BY <1>2, <2>1, Zenon DEF Latest
  <2> QED
    BY <2>1, <2>2, Zenon
<1>4. \A o \in B : Abstract!Touches(o) \subseteq Abstract!Made(B)
  BY <1>1, Zenon DEF ViewOK
<1>5. \A i \in Inode : x.inode[i] # None <=> i \in Abstract!Made(B)
  BY <1>1, Zenon DEF ViewOK
<1> QED
  BY <1>3, <1>4, <1>5, Zenon DEF ViewOK

\* mutate_unlink
LEMMA UnlinkView ==
  ASSUME NEW s, RepType(s), NEW A, A \subseteq Op, ViewOK(s, A),
         NEW op \in Op, op.kind = "Unlink", CanApply(s, op)
  PROVE  ViewOK(UnlinkEffect(s, op), A \cup {op}) /\ Abstract!Needs(A, op)
<1> DEFINE x == UnlinkEffect(s, op)
           B == A \cup {op}
<1>1. op.parent \in Inode /\ op.parent \in Abstract!Made(A)
  BY Zenon DEF CanApply, Unmet, UnlinkUnmet, IsDir, ViewOK, Op
<1>2. Abstract!Touches(op) = {op.parent}
  BY Zenon DEF Abstract!Touches
<1>3. Abstract!Needs(A, op)
  BY <1>1, <1>2, Zenon DEF Abstract!Needs
<1>4. /\ x.inode = s.inode
      /\ \A d \in Inode : x.dir[d] = IF d = op.parent
                                       THEN RemoveDots(s.dir[d], op.name, op.observed)
                                       ELSE s.dir[d]
  BY <1>1, SMTT(60) DEF UnlinkEffect, RepType
<1>5. ASSUME NEW d \in Inode
      PROVE  /\ NamesOf(x.dir[d]) = Abstract!NamesIn(B, d)
             /\ x.dir[d].removes = Abstract!RemovedFrom(B, d)
  <2> HIDE DEF x
  <2>1. /\ s.dir[d] \in DirMap
        /\ NamesOf(s.dir[d]) = Abstract!NamesIn(A, d)
        /\ s.dir[d].removes = Abstract!RemovedFrom(A, d)
    BY Zenon DEF ViewOK, RepType
  <2>2. Abstract!NamesIn(B, d) = Abstract!NamesIn(A, d)
    <3>1. ASSUME NEW z
          PROVE  z \in Abstract!NamesIn(B, d) <=> z \in Abstract!NamesIn(A, d)
      BY NamesAdd, Zenon
    <3> QED
      BY <3>1, Zenon
  <2>3. CASE d = op.parent
    <3>1. Abstract!RemovedFrom(B, d) =
            Abstract!RemovedFrom(A, d) \cup {<<op.name, dot>> : dot \in op.observed}
      BY <2>3, RemovedAdd, ZenonT(60)
    <3>2. x.dir[d] = RemoveDots(s.dir[d], op.name, op.observed)
      BY <1>4, <2>3, Zenon
    <3>3. /\ NamesOf(x.dir[d]) = NamesOf(s.dir[d])
          /\ x.dir[d].removes = s.dir[d].removes \cup {<<op.name, dot>> : dot \in op.observed}
      BY <2>1, <3>2, RemoveNames
    <3> QED
      BY <2>1, <2>2, <3>1, <3>3, SMTT(40)
  <2>4. CASE d # op.parent
    <3>1. Abstract!RemovedFrom(B, d) = Abstract!RemovedFrom(A, d)
      BY <2>4, RemovedAdd, ZenonT(60)
    <3> QED
      BY <1>4, <2>1, <2>2, <2>4, <3>1, Zenon
  <2> QED
    BY <2>3, <2>4, SMTT(60)
<1> HIDE DEF x
<1>6. ViewOK(x, B)
  BY <1>1, <1>2, <1>4, <1>5, DirsOnlyView, SMTT(60)
<1> QED
  BY <1>3, <1>6, SMTT(40) DEF x

\* mutate_rename
LEMMA RenameView ==
  ASSUME NEW s, RepType(s), NEW A, A \subseteq Op, ViewOK(s, A),
         NEW op \in Op, op.id \notin IdsOf(A), op.kind = "Rename", CanApply(s, op)
  PROVE  ViewOK(RenameEffect(s, op), A \cup {op}) /\ Abstract!Needs(A, op)
<1> DEFINE x == RenameEffect(s, op)
           B == A \cup {op}
<1>1. /\ op.parent \in Inode /\ op.parent \in Abstract!Made(A)
      /\ op.newParent \in Inode /\ op.newParent \in Abstract!Made(A)
      /\ op.observed # {} => Observed(s, op) # {}
  BY Zenon DEF CanApply, Unmet, RenameUnmet, IsDir, ViewOK, Op
<1>2. Abstract!Touches(op) = {op.parent, op.newParent}
  BY Zenon DEF Abstract!Touches
<1>3. Observed(s, op) # {} => op.observed # {} /\ op.observed \cap IdsOf(A) # {}
  <2>1. \A d \in Inode : \A e \in s.dir[d].adds : e.dot \in IdsOf(A) /\ e.dot # op.id
    BY FreshId, SMTT(60)
  <2>2. \A e \in Observed(s, op) : e \in s.dir[op.parent].adds /\ e.dot \in op.observed
    BY SMTT(40) DEF Observed, GetAll, Live
  <2> QED
    BY <1>1, <2>1, <2>2, SMTT(40)
<1>4. Abstract!Needs(A, op)
  BY <1>1, <1>2, <1>3, Shared, SMTT(40) DEF Abstract!Needs
<1>5. CASE Observed(s, op) = {}
  <2>1. x = s /\ op.observed = {}
    BY <1>1, <1>5, SMTT(40) DEF RenameEffect
  <2> HIDE DEF x
  <2>2. ASSUME NEW d \in Inode
        PROVE  /\ NamesOf(x.dir[d]) = Abstract!NamesIn(B, d)
               /\ x.dir[d].removes = Abstract!RemovedFrom(B, d)
    <3>1. ASSUME NEW z
          PROVE  z \in Abstract!NamesIn(B, d) <=> z \in Abstract!NamesIn(A, d)
      BY <2>1, NamesAdd, ZenonT(60)
    <3>2. {<<op.name, dot>> : dot \in op.observed} = {}
      BY <2>1, Zenon
    <3>3. Abstract!RemovedFrom(B, d) = Abstract!RemovedFrom(A, d)
      <4>1. CASE op.parent = d
        <5>1. Abstract!RemovedFrom(B, d) =
                Abstract!RemovedFrom(A, d) \cup {<<op.name, dot>> : dot \in op.observed}
          BY <4>1, RemovedAdd, SMTT(40)
        <5> QED
          BY <3>2, <5>1, SMTT(60)
      <4>2. CASE op.parent # d
        BY <4>2, RemovedAdd, ZenonT(60)
      <4> QED
        BY <4>1, <4>2, SMTT(60)
    <3> QED
      BY <2>1, <3>1, <3>3, Zenon DEF ViewOK
  <2>3. ViewOK(x, B)
    BY <1>1, <1>2, <2>1, <2>2, DirsOnlyView, SMTT(40)
  <2> QED
    BY <1>4, <2>3, SMTT(60) DEF x
<1>6. CASE Observed(s, op) # {}
  <2> DEFINE e == MovedEntry(s, op)
             ent == DirEntry(op, e.inode, e.kind, op.newName)
             left == [d \in Inode |-> IF d = op.parent
                                        THEN RemoveDots(s.dir[d], op.name, op.observed)
                                        ELSE s.dir[d]]
  <2>1. e \in Entry
    BY <1>6, MovedEntryIn, SMTT(40)
  <2> HIDE DEF e
  <2>2. ent \in Entry /\ ent.dot = op.id /\ ent.name = op.newName /\ ent.time = op.time
    BY <2>1, SMTT(40) DEF DirEntry, Entry, Op
  <2>3. /\ x.inode = s.inode
        /\ \A d \in Inode : x.dir[d] = IF d = op.newParent THEN Add(left[d], ent) ELSE left[d]
    <3>1. x = [s EXCEPT !.parent[e.inode]   = op.newParent,
                        !.dir[op.parent]    = RemoveDots(@, op.name, op.observed),
                        !.dir[op.newParent] = Add(@, ent)]
      BY <1>6, Zenon DEF RenameEffect, e
    <3> HIDE DEF x, ent
    <3>2. s.dir \in [Inode -> DirMap]
      BY Zenon DEF RepType
    <3>3. x.inode = s.inode
      BY <3>1, SMTT(60) DEF RepType
    <3>4. x.dir = [s.dir EXCEPT ![op.parent]    = RemoveDots(@, op.name, op.observed),
                                ![op.newParent] = Add(@, ent)]
      BY <3>1, Zenon DEF RepType
    <3>5. left = [s.dir EXCEPT ![op.parent] = RemoveDots(@, op.name, op.observed)]
      BY <1>1, <3>2, SMTT(60)
    <3> HIDE DEF left
    <3>6. x.dir = [left EXCEPT ![op.newParent] = Add(@, ent)]
      BY <3>4, <3>5, SMTT(40)
    <3> QED
      BY <1>1, <3>2, <3>3, <3>5, <3>6, SMTT(40)
  <2>4. ASSUME NEW d \in Inode
        PROVE  /\ left[d] \in DirMap
               /\ left[d].adds = s.dir[d].adds
               /\ NamesOf(left[d]) = Abstract!NamesIn(A, d)
               /\ left[d].removes = Abstract!RemovedFrom(B, d)
    <3>1. /\ s.dir[d] \in DirMap
          /\ NamesOf(s.dir[d]) = Abstract!NamesIn(A, d)
          /\ s.dir[d].removes = Abstract!RemovedFrom(A, d)
      BY SMTT(40) DEF ViewOK, RepType
    <3>2. CASE d = op.parent
      <4>1. left[d] = RemoveDots(s.dir[d], op.name, op.observed)
        BY <3>2, SMTT(60)
      <4>2. left[d] \in DirMap /\ left[d].adds = s.dir[d].adds
        BY <3>1, <4>1, SMTT(40) DEF RemoveDots, DirMap, Op
      <4>3. /\ NamesOf(left[d]) = NamesOf(s.dir[d])
            /\ left[d].removes = s.dir[d].removes \cup {<<op.name, dot>> : dot \in op.observed}
        BY <3>1, <4>1, RemoveNames, SMTT(40)
      <4>4. Abstract!RemovedFrom(B, d) =
              Abstract!RemovedFrom(A, d) \cup {<<op.name, dot>> : dot \in op.observed}
        BY <3>2, RemovedAdd, ZenonT(60)
      <4> QED
        BY <3>1, <4>2, <4>3, <4>4, ZenonT(60)
    <3>3. CASE d # op.parent
      <4>1. Abstract!RemovedFrom(B, d) = Abstract!RemovedFrom(A, d)
        BY <3>3, RemovedAdd, ZenonT(60)
      <4> QED
        BY <3>1, <3>3, <4>1, Zenon
    <3> QED
      BY <3>2, <3>3, SMTT(40)
  <2> HIDE DEF left, x, ent
  <2>5. ASSUME NEW d \in Inode
        PROVE  /\ NamesOf(x.dir[d]) = Abstract!NamesIn(B, d)
               /\ x.dir[d].removes = Abstract!RemovedFrom(B, d)
    <3>1. ASSUME NEW z
          PROVE  z \in Abstract!NamesIn(B, d) <=>
                   \/ z \in Abstract!NamesIn(A, d)
                   \/ op.newParent = d /\ z = <<op.newName, op.id, op.time>>
      BY <1>3, <1>6, NamesAdd, Zenon
    <3>2. CASE d = op.newParent
      <4>1. \A y \in left[d].adds : y.dot # ent.dot
        BY <2>2, <2>4, FreshId, SMTT(60)
      <4>2. x.dir[d] = Add(left[d], ent)
        BY <2>3, <3>2, SMTT(40)
      <4>3. /\ NamesOf(x.dir[d]) = NamesOf(left[d]) \cup {<<op.newName, op.id, op.time>>}
            /\ x.dir[d].removes = left[d].removes
        BY <2>2, <2>4, <4>1, <4>2, AddNames, SMTT(40)
      <4>4. Abstract!NamesIn(B, d) =
              Abstract!NamesIn(A, d) \cup {<<op.newName, op.id, op.time>>}
        BY <3>1, <3>2, SMTT(40)
      <4> QED
        BY <2>4, <4>3, <4>4, ZenonT(60)
    <3>3. CASE d # op.newParent
      <4>1. Abstract!NamesIn(B, d) = Abstract!NamesIn(A, d)
        BY <3>1, <3>3, SMTT(40)
      <4>2. x.dir[d] = left[d]
        BY <2>3, <3>3, SMTT(40)
      <4> QED
        BY <2>4, <4>1, <4>2, Zenon
    <3> QED
      BY <3>2, <3>3, SMTT(40)
  <2>6. Abstract!Touches(op) \subseteq Abstract!Made(A) /\ x.inode = s.inode
    BY <1>1, <1>2, <2>3, SMTT(40)
  <2>7. ViewOK(x, B)
    BY <2>5, <2>6, DirsOnlyView, SMTT(40)
  <2> QED
    BY <1>4, <2>7, Zenon DEF x
<1> QED
  BY <1>5, <1>6, SMTT(40)

\* mutate, whatever the operation.
LEMMA EffectView ==
  ASSUME NEW s, RepType(s), NEW A, A \subseteq Op, ViewOK(s, A),
         NEW op \in Op, op.id \notin IdsOf(A), CanApply(s, op)
  PROVE  ViewOK(Effect(s, op), A \cup {op}) /\ Abstract!Needs(A, op)
<1>1. CASE op.kind \in {"Mkdir", "CreateFile"}
  <2>1. Effect(s, op) = CreateEffect(s, op)
    BY <1>1, Zenon DEF Effect
  <2> QED
    BY <1>1, <2>1, CreateView, SMTT(40)
<1>2. CASE op.kind = "Write"
  <2>1. Effect(s, op) = WriteEffect(s, op)
    BY <1>2, Zenon DEF Effect
  <2> QED
    BY <1>2, <2>1, WriteView, SMTT(40)
<1>3. CASE op.kind = "Rename"
  <2>1. Effect(s, op) = RenameEffect(s, op)
    BY <1>3, Zenon DEF Effect
  <2> QED
    BY <1>3, <2>1, RenameView, SMTT(60)
<1>4. CASE op.kind = "Unlink"
  <2>1. Effect(s, op) = UnlinkEffect(s, op)
    BY <1>4, SMTT(40) DEF Effect
  <2> QED
    BY <1>4, <2>1, UnlinkView, SMTT(40)
<1> QED
  BY <1>1, <1>2, <1>3, <1>4, SMTT(40) DEF Op, Kind

\* The tables ViewOK looks at are the inodes and the directories.
LEMMA SameView ==
  ASSUME NEW x, NEW y, SameNamespace(x, y)
  PROVE  /\ \A A : ViewOK(y, A) => ViewOK(x, A)
         /\ ViewOf(x) = ViewOf(y)
  BY SMTT(40) DEF SameNamespace, ViewOK, ViewOf

-----------------------------------------------------------------------------
(* Steps *)

\* A step applies one operation, or none and leaves the namespace alone.
LEMMA ViewStep ==
  ASSUME TypeInv, LogInv, ViewInv, NEW r \in Device, NEW x, NEW t, Step(r, x, t)
  PROVE  LET A == AppliedOps(rep[r]) IN
         /\ ViewOK(x, AppliedOps(x))
         /\ \/ AppliedOps(x) = A /\ SameNamespace(x, rep[r])
            \/ \E op \in Op : /\ op.id \notin IdsOf(A)
                              /\ Abstract!Needs(A, op)
                              /\ AppliedOps(x) = A \cup {op}
<1> DEFINE s == rep[r]
           A == AppliedOps(s)
<1>1. RepType(s) /\ RepType(x) /\ A \subseteq Op /\ ViewOK(s, A)
  BY Zenon DEF TypeInv, Step, Becomes, ViewInv, AppliedOps, RepType
<1>2. \A a, b \in x.oplog : a.id = b.id => a = b
  <2>1. \A p, q \in Device : \A a \in rep'[p].oplog, b \in rep'[q].oplog : a.id = b.id => a = b
    BY IdsStep, Zenon
  <2>2. rep'[r] = x
    BY Zenon DEF TypeInv, Step, Becomes
  <2> QED
    BY <2>1, <2>2, SMTT(60)
<1>3. \A id \in IdsOf(A) : id \in s.applied
  BY Zenon DEF IdsOf, AppliedOps
<1>4. ASSUME AppliedOps(x) = A, SameNamespace(x, s)
      PROVE  ViewOK(x, AppliedOps(x))
  BY <1>1, <1>4, SameView, SMTT(40)
<1>5. ASSUME NEW op \in Op, op.id \notin s.applied, x.oplog = s.oplog \cup {op},
             Applies(s, x, op)
      PROVE  /\ op.id \notin IdsOf(A) /\ Abstract!Needs(A, op)
             /\ AppliedOps(x) = A \cup {op} /\ ViewOK(x, AppliedOps(x))
  <2>1. op.id \notin IdsOf(A)
    BY <1>3, <1>5, SMTT(60)
  <2>2. AppliedOps(x) = A \cup {op}
    <3>1. x.applied = s.applied \cup {op.id}
      BY <1>5, Zenon DEF Applies
    <3>2. \A o \in x.oplog : o.id = op.id => o = op
      BY <1>2, <1>5, SMTT(40)
    <3> QED
      BY <1>5, <3>1, <3>2, SMTT(40) DEF AppliedOps
  <2>3. PICK k : /\ RepType(k) /\ SameNamespace(k, s)
                 /\ CanApply(k, op) /\ SameNamespace(x, Effect(k, op))
    BY <1>5, Zenon DEF Applies
  <2> HIDE DEF A
  <2>4. ViewOK(k, A)
    BY <1>1, <2>3, SameView, SMTT(40)
  <2>5. ViewOK(Effect(k, op), A \cup {op}) /\ Abstract!Needs(A, op)
    BY <1>1, <2>1, <2>3, <2>4, EffectView, SMTT(40)
  <2>6. ViewOK(x, A \cup {op})
    BY <2>3, <2>5, SameView, SMTT(40)
  <2> QED
    BY <2>1, <2>2, <2>5, <2>6, SMTT(40)
<1>6. CASE Quiet(s, x)
  <2>1. AppliedOps(x) = A /\ SameNamespace(x, s)
    BY <1>6, SMTT(40) DEF Quiet, AppliedOps
  <2> QED
    BY <1>4, <2>1, SMTT(60)
<1>7. CASE \E op \in Op : Takes(s, x, op)
  <2>1. PICK op \in Op : Takes(s, x, op)
    BY <1>7, Zenon
  <2>2. op.id \notin s.applied /\ x.oplog = s.oplog \cup {op}
    BY <2>1, Zenon DEF Takes
  <2>3. CASE Keeps(s, x, op)
    <3>1. AppliedOps(x) = A /\ SameNamespace(x, s)
      BY <2>2, <2>3, SMTT(40) DEF Keeps, AppliedOps
    <3> QED
      BY <1>4, <3>1, SMTT(60)
  <2>4. CASE Applies(s, x, op)
    BY <1>5, <2>2, <2>4, SMTT(40)
  <2> QED
    BY <2>1, <2>3, <2>4, SMTT(60) DEF Takes
<1>8. CASE \E op \in Op : Resumes(s, x, op)
  <2>1. PICK op \in Op : Resumes(s, x, op)
    BY <1>8, Zenon
  <2>2. s.pending \subseteq s.oplog
    BY Zenon DEF LogInv, LogWellFormed
  <2>3. op.id \notin s.applied /\ x.oplog = s.oplog \cup {op} /\ Applies(s, x, op)
    BY <2>1, <2>2, SMTT(40) DEF Resumes
  <2> QED
    BY <1>5, <2>3, SMTT(40)
<1>9. Quiet(s, x) \/ (\E op \in Op : Takes(s, x, op)) \/ (\E op \in Op : Resumes(s, x, op))
  BY Zenon DEF Step
<1> QED
  BY <1>6, <1>7, <1>8, <1>9, Zenon

\* The tables ViewOK describes are those of the abstract view.
LEMMA ViewDetermined ==
  ASSUME NEW s, RepType(s), NEW A, A \subseteq Op, ViewOK(s, A)
  PROVE  ViewOf(s) = Abstract!View(A)
<1>1. ASSUME NEW i \in Inode \ {Root}, s.inode[i] = None
      PROVE  Abstract!ContentOps(A, i) = {}
  <2>1. i \notin Abstract!Made(A)
    BY <1>1, Zenon DEF ViewOK
  <2>2. \A o \in Abstract!Creates(A) : o.id # i
    BY <2>1, Shared, Zenon DEF Abstract!Made
  <2>3. \A o \in A : o.kind = "Write" => o.inode # i
    BY <2>1, Zenon DEF ViewOK, Abstract!Touches
  <2> QED
    BY <2>2, <2>3, Shared, SMTT(40) DEF Abstract!ContentOps
<1>2. ASSUME NEW i \in Inode \ {Root}, s.inode[i] # None
      PROVE  s.inode[i].content = Abstract!ContentOf(A, i)
  <2>1. PICK m \in A : Latest(A, i, m) /\ s.inode[i].content = Abstract!ContentSetBy(m)
    BY <1>2, Zenon DEF ViewOK
  <2>2. Abstract!ContentOps(A, i) \subseteq Op
    BY Zenon DEF Abstract!ContentOps, Abstract!Creates
  <2>3. ASSUME NEW o \in Abstract!ContentOps(A, i),
               \A p \in Abstract!ContentOps(A, i) : p = o \/ KeyLess(OpKey(p), OpKey(o))
        PROVE  o = m
    <3>1. m \in Abstract!ContentOps(A, i) /\ (o = m \/ KeyLess(OpKey(o), OpKey(m)))
      BY <2>1, Zenon DEF Latest
    <3>2. m = o \/ KeyLess(OpKey(m), OpKey(o))
      BY <2>3, <3>1, SMTT(60)
    <3>3. OpKey(m) \in Nat \X Nat \X Nat /\ OpKey(o) \in Nat \X Nat \X Nat
      BY <2>2, <3>1, KeyType, SMTT(40)
    <3>4. ~(KeyLess(OpKey(m), OpKey(o)) /\ KeyLess(OpKey(o), OpKey(m)))
      BY <3>3, KeyOrder, Zenon
    <3> QED
      BY <3>1, <3>2, <3>4, SMTT(60)
  <2>4. m \in Abstract!ContentOps(A, i)
          /\ \A p \in Abstract!ContentOps(A, i) : p = m \/ KeyLess(OpKey(p), OpKey(m))
    BY <2>1, Zenon DEF Latest
  <2>5. m = CHOOSE op \in Abstract!ContentOps(A, i) :
              \A o \in Abstract!ContentOps(A, i) : o = op \/ KeyLess(OpKey(o), OpKey(op))
    BY <2>3, <2>4, SMTT(40)
  <2> QED
    BY <2>1, <2>4, <2>5, Shared, ZenonT(60) DEF Abstract!ContentOf
<1>3. [d \in Inode |-> NamesOf(s.dir[d])] = [d \in Inode |-> Abstract!NamesIn(A, d)]
  BY Zenon DEF ViewOK
<1>4. [d \in Inode |-> s.dir[d].removes] = [d \in Inode |-> Abstract!RemovedFrom(A, d)]
  BY Zenon DEF ViewOK
<1>5. [i \in Inode \ {Root} |-> IF s.inode[i] = None THEN None ELSE s.inode[i].content]
        = [i \in Inode \ {Root} |-> Abstract!ContentOf(A, i)]
  <2>1. \A i \in Inode \ {Root} :
          (IF s.inode[i] = None THEN None ELSE s.inode[i].content) = Abstract!ContentOf(A, i)
    BY <1>1, <1>2, SMTT(40) DEF Abstract!ContentOf
  <2> QED
    BY <2>1, SMTT(60)
<1> QED
  BY <1>3, <1>4, <1>5, Shared, SMTT(40) DEF ViewOf, Abstract!View

\* A bootstrapped repository is the view of no operation.
LEMMA BootstrappedView == AppliedOps(Bootstrapped) = {} /\ ViewOK(Bootstrapped, {})
<1>1. AppliedOps(Bootstrapped) = {}
  BY BootstrappedEmpty, Zenon DEF AppliedOps
<1>2. /\ Abstract!Creates({}) = {} /\ Abstract!Moves({}) = {} /\ Abstract!Removals({}) = {}
      /\ Abstract!Made({}) = {Root}
  BY Shared, Zenon DEF Abstract!Creates, Abstract!Moves, Abstract!Removals, Abstract!Made
<1>3. \A d \in Inode : Abstract!NamesIn({}, d) = {} /\ Abstract!RemovedFrom({}, d) = {}
  BY <1>2, Zenon DEF Abstract!NamesIn, Abstract!RemovedFrom
<1>4. NamesOf(EmptyMap) = {} /\ EmptyMap.removes = {}
  BY Zenon DEF NamesOf, EmptyMap
<1>5. GenesisRoot # None
  BY NoneAssumption, SMTT(60) DEF GenesisRoot, InodeRec, Register
<1>6. \A i \in Inode : Bootstrapped.inode[i] # None <=> i \in Abstract!Made({})
  BY <1>2, <1>5, BootstrappedEmpty, Zenon
<1>7. \A d \in Inode : Bootstrapped.dir[d] = EmptyMap
  BY BootstrappedEmpty, Zenon
<1> QED
  BY <1>1, <1>2, <1>3, <1>4, <1>6, <1>7, SMTT(40) DEF ViewOK

\* A bootstrapped repository has applied nothing and lists nothing (bootstrap_if_needed).
LEMMA ViewInvInit == Init => ViewInv
  BY BootstrappedView, Zenon DEF Init, ViewInv

\* Every step keeps every repository the view of what it applied.
LEMMA ViewInvNext == TypeInv /\ LogInv /\ ViewInv /\ [Next]_vars => ViewInv'
<1>1. CASE UNCHANGED vars
  BY <1>1, Zenon DEF vars, ViewInv
<1>2. ASSUME TypeInv, LogInv, ViewInv, Next PROVE ViewInv'
  <2>1. PICK r \in Device : \E x, t : Step(r, x, t)
    BY <1>2, StepShape, Zenon
  <2>2. PICK x, t : Step(r, x, t)
    BY <2>1, SMTT(60)
  <2>3. ViewOK(x, AppliedOps(x))
    BY <1>2, <2>2, ViewStep, SMTT(40)
  <2>4. \A q \in Device : rep'[q] = IF q = r THEN x ELSE rep[q]
    BY <1>2, <2>2, ZenonT(60) DEF TypeInv, Step, Becomes
  <2> QED
    BY <1>2, <2>3, <2>4, Zenon DEF ViewInv
<1> QED
  BY <1>1, <1>2, Zenon

\* Every repository shows the view of the operations it applied.
LEMMA ViewIsView ==
  ASSUME TypeInv, ViewInv, NEW r \in Device
  PROVE  ViewOf(rep[r]) = Abstract!View(AppliedOps(rep[r]))
<1>1. RepType(rep[r]) /\ ViewOK(rep[r], AppliedOps(rep[r]))
  BY Zenon DEF TypeInv, ViewInv
<1>2. AppliedOps(rep[r]) \subseteq Op
  BY <1>1, Zenon DEF AppliedOps, RepType
<1> QED
  BY <1>1, <1>2, ViewDetermined, SMTT(60)

\* Two repositories that applied the same operations, in whatever order and
\* through whatever parking and retrying, list the same names in every
\* directory and hold the same contents (apply_op, drain_pending, import).
THEOREM ViewDependsOnAppliedOnly == Spec => []SameAppliedSameView
<1>1. Init => TypeInv /\ LogInv /\ ViewInv
  BY TypeInvInit, LogInvInit, ViewInvInit, SMTT(40)
<1>2. TypeInv /\ LogInv /\ ViewInv /\ [Next]_vars => (TypeInv /\ LogInv /\ ViewInv)'
  BY TypeInvNext, LogInvNext, ViewInvNext, SMTT(60)
<1>3. TypeInv /\ LogInv /\ ViewInv => SameAppliedSameView
  <2> SUFFICES ASSUME TypeInv, LogInv, ViewInv, NEW r \in Device, NEW q \in Device,
                      rep[r].applied = rep[q].applied
               PROVE  ViewOf(rep[r]) = ViewOf(rep[q])
    BY Zenon DEF SameAppliedSameView
  <2>1. AppliedOps(rep[r]) = AppliedOps(rep[q])
    <3>1. /\ \A a \in rep[r].oplog, b \in rep[q].oplog : a.id = b.id => a = b
          /\ rep[r].applied \subseteq IdsOf(rep[r].oplog)
          /\ rep[q].applied \subseteq IdsOf(rep[q].oplog)
      BY Zenon DEF LogInv, LogWellFormed
    <3> QED
      BY <3>1, SMTT(60) DEF AppliedOps, IdsOf
  <2> QED
    BY <2>1, ViewIsView, SMTT(60)
<1> QED
  BY <1>1, <1>2, <1>3, PTL DEF Spec

\* A step of Core is a step of NamespaceView, or changes nothing of it.
LEMMA ViewRefined ==
  ASSUME TypeInv, LogInv, ViewInv, TypeInv', ViewInv', Next
  PROVE  [Abstract!ViewNext]_(Abstract!viewVars)
<1>1. PICK r \in Device : \E x, t : Step(r, x, t)
  BY StepShape, Zenon
<1>2. PICK x, t : Step(r, x, t)
  BY <1>1, Zenon
<1>3. \A q \in Device : rep'[q] = IF q = r THEN x ELSE rep[q]
  BY <1>2, ZenonT(60) DEF TypeInv, Step, Becomes
<1> DEFINE seen == [q \in Device |-> AppliedOps(rep[q])]
           view == [q \in Device |-> ViewOf(rep[q])]
           A == AppliedOps(rep[r])
<1>4. CASE AppliedOps(x) = A /\ SameNamespace(x, rep[r])
  <2>1. ViewOf(x) = ViewOf(rep[r])
    BY <1>4, SameView, Zenon
  <2>2. seen' = seen /\ view' = view
    BY <1>3, <1>4, <2>1, Zenon
  <2> QED
    BY <2>2, Zenon DEF Abstract!viewVars
<1>5. CASE \E op \in Op : /\ op.id \notin IdsOf(A)
                          /\ Abstract!Needs(A, op)
                          /\ AppliedOps(x) = A \cup {op}
  <2>1. PICK op \in Op : /\ op.id \notin IdsOf(A)
                         /\ Abstract!Needs(A, op)
                         /\ AppliedOps(x) = A \cup {op}
    BY <1>5, Zenon
  <2>2. ViewOf(x) = Abstract!View(A \cup {op})
    <3>1. rep'[r] = x
      BY <1>3, Zenon
    <3>2. RepType(x) /\ ViewOK(x, AppliedOps(x))
      BY <3>1, Zenon DEF TypeInv, ViewInv
    <3>3. AppliedOps(x) \subseteq Op
      BY <3>2, Zenon DEF AppliedOps, RepType
    <3> QED
      BY <2>1, <3>2, <3>3, ViewDetermined, SMTT(40)
  <2>3. seen' = [seen EXCEPT ![r] = A \cup {op}]
    BY <1>3, <2>1, Zenon
  <2>4. view' = [view EXCEPT ![r] = Abstract!View(A \cup {op})]
    BY <1>3, <2>2, ZenonT(60)
  <2>5. \A q \in Device : \A o \in AppliedOps(rep[q]) : o.id = op.id => o = op
    <3>1. \A a, b : \A p, q \in Device :
             a \in rep'[p].oplog /\ b \in rep'[q].oplog /\ a.id = b.id => a = b
      BY <1>2, IdsStep, SMTT(40)
    <3>2. op \in rep'[r].oplog
      BY <1>3, <2>1, SMTT(40) DEF AppliedOps
    <3>3. \A q \in Device : AppliedOps(rep[q]) \subseteq rep'[q].oplog
      <4>1. A \subseteq x.oplog
        BY <2>1, SMTT(40) DEF AppliedOps
      <4> QED
        BY <1>3, <4>1, SMTT(40) DEF AppliedOps
    <3> QED
      BY <3>1, <3>2, <3>3, SMTT(60)
  <2>6. seen[r] = A /\ op \in seen'[r] \ seen[r] /\ \A q \in Device : seen[q] = AppliedOps(rep[q])
    BY <2>1, <2>3, SMTT(40) DEF IdsOf
  <2>7. Abstract!Apply(r, op)
    BY <2>1, <2>3, <2>4, <2>5, <2>6, Shared, SMTT(40) DEF Abstract!Apply
  <2> QED
    BY <2>6, <2>7, SMTT(60) DEF Abstract!ViewNext
<1> QED
  BY <1>2, <1>4, <1>5, ViewStep, SMTT(40)

\* Core implements NamespaceView: every step of every handler applies at most
\* one operation, once and after the ones it needs, and what the repository
\* shows is the view of the set it applied.
THEOREM CoreImplementsView == Spec => ImplementsView
<1>1. Init => TypeInv /\ LogInv /\ ViewInv
  BY TypeInvInit, LogInvInit, ViewInvInit
<1>2. TypeInv /\ LogInv /\ ViewInv /\ [Next]_vars => (TypeInv /\ LogInv /\ ViewInv)'
  BY TypeInvNext, LogInvNext, ViewInvNext, Zenon
<1>3. Init => Abstract!ViewInit
  <2> SUFFICES ASSUME Init PROVE Abstract!ViewInit
    BY Zenon
  <2>1. \A r \in Device : rep[r] = Bootstrapped
    BY Zenon DEF Init
  <2>2. ViewOf(Bootstrapped) = Abstract!View({})
    BY BootstrappedType, BootstrappedView, ViewDetermined, SMTT(60)
  <2> QED
    BY <2>1, <2>2, BootstrappedView, SMTT(60) DEF Abstract!ViewInit
<1>4. /\ TypeInv /\ LogInv /\ ViewInv /\ (TypeInv /\ LogInv /\ ViewInv)' /\ [Next]_vars
      => [Abstract!ViewNext]_(Abstract!viewVars)
  <2>1. CASE UNCHANGED vars
    BY <2>1, Zenon DEF vars, Abstract!viewVars
  <2>2. CASE Next
    BY <2>2, ViewRefined, Zenon
  <2> QED
    BY <2>1, <2>2, SMTT(60)
<1> QED
  BY <1>1, <1>2, <1>3, <1>4, PTL DEF Spec, ImplementsView, Abstract!ViewSpec

-----------------------------------------------------------------------------
(* What a repository shows can be read and does not go back: a file names    *)
(* only chunks that are held, entries and removals are only added, and a     *)
(* register only moves to later keys.                                        *)

\* The files of s name only chunks of blobs.
Readable(s, blobs) ==
  \A i \in Inode : s.inode[i] # None /\ s.inode[i].content.value # None
                     => s.inode[i].content.value.chunks \subseteq blobs

\* From s to x nothing comes back.
Onward(s, x) ==
  \A i \in Inode :
    /\ s.dir[i].removes \subseteq x.dir[i].removes
    /\ s.dir[i].adds \subseteq x.dir[i].adds
    /\ s.inode[i] # None => ~KeyLess(x.inode[i].content.key, s.inode[i].content.key)

\* What an effect does to the inodes: a creation sets one, empty, that was not
\* there; a write merges into one; the others leave them alone.
LEMMA CreateInodes ==
  ASSUME NEW s, RepType(s), NEW op \in Op, op.kind \in {"Mkdir", "CreateFile"}
  PROVE  /\ op.id \in Inode
         /\ \A i \in Inode \ {op.id} : Effect(s, op).inode[i] = s.inode[i]
         /\ Effect(s, op).inode[op.id].content.value = None
<1>1. op.id \in Inode
  BY InodeTypes, Zenon DEF Op, InodeForOp
<1>2. Effect(s, op) = CreateEffect(s, op)
  BY Zenon DEF Effect
<1>3. CreateEffect(s, op).inode = [s.inode EXCEPT ![op.id] = InodeRecord(op)]
  BY Zenon DEF CreateEffect, RepType, InodeForOp
<1>4. s.inode \in [Inode -> InodeRec \cup {None}]
  BY Zenon DEF RepType
<1>5. InodeRecord(op).content.value = None
  BY SMTT(40) DEF InodeRecord
<1> QED
  BY <1>1, <1>2, <1>3, <1>4, <1>5, SMTT(60)

\* A write changes one inode; its content is the old one, or the write's when its
\* blobs are held.
LEMMA WriteInodes ==
  ASSUME NEW s, RepType(s), NEW op \in Op, op.kind = "Write", CanApply(s, op)
  PROVE  LET f == Effect(s, op) IN
         /\ op.inode \in Inode /\ s.inode[op.inode] \in InodeRec
         /\ \A i \in Inode \ {op.inode} : f.inode[i] = s.inode[i]
         /\ f.dir = s.dir
         /\ \/ f.inode[op.inode].content = s.inode[op.inode].content
            \/ /\ KeyLess(s.inode[op.inode].content.key, OpKey(op))
               /\ f.inode[op.inode].content = [key |-> OpKey(op), value |-> FileNode(op)]
               /\ op.chunks \subseteq s.blobs
<1> DEFINE reg == [key |-> OpKey(op), value |-> FileNode(op)]
           old == s.inode[op.inode]
<1>1. op.inode \in Inode /\ s.inode[op.inode] # None
  BY Zenon DEF CanApply, Unmet, WriteUnmet, Op
<1>2. s.inode \in [Inode -> InodeRec \cup {None}] /\ old \in InodeRec
  BY <1>1, Zenon DEF RepType
<1>3. Effect(s, op) = WriteEffect(s, op)
  BY Zenon DEF Effect
<1>4. /\ WriteEffect(s, op).dir = s.dir
      /\ WriteEffect(s, op).inode =
           [s.inode EXCEPT ![op.inode] = [old EXCEPT !.content = MergeReg(old.content, reg)]]
  BY <1>1, Zenon DEF WriteEffect, RepType
<1>5. WriteEffect(s, op).inode[op.inode].content = MergeReg(old.content, reg)
  BY <1>1, <1>2, <1>4, SMTT(60) DEF InodeRec
<1>6. \/ MergeReg(old.content, reg) = old.content
      \/ KeyLess(old.content.key, OpKey(op)) /\ MergeReg(old.content, reg) = reg
  BY Zenon DEF MergeReg
<1>7. KeyLess(old.content.key, OpKey(op)) => op.chunks \subseteq s.blobs
  BY <1>1, Zenon DEF CanApply, Unmet, Fails, WriteUnmet, WriteFails, WriteCanWin
<1> QED
  BY <1>1, <1>2, <1>3, <1>4, <1>5, <1>6, <1>7, SMTT(40)

\* A rename and an unlink touch no inode.
LEMMA OtherInodes ==
  ASSUME NEW s, RepType(s), NEW op \in Op, op.kind \in {"Rename", "Unlink"}
  PROVE  Effect(s, op).inode = s.inode
<1>1. CASE op.kind = "Rename"
  <2>1. Effect(s, op) = RenameEffect(s, op)
    BY <1>1, Zenon DEF Effect
  <2> QED
    BY <2>1, Zenon DEF RenameEffect, RepType
<1>2. CASE op.kind = "Unlink"
  <2>1. Effect(s, op) = UnlinkEffect(s, op)
    BY <1>2, SMTT(60) DEF Effect
  <2> QED
    BY <2>1, Zenon DEF UnlinkEffect, RepType
<1> QED
  BY <1>1, <1>2, SMTT(60)

-----------------------------------------------------------------------------
(* No torn file *)

\* An operation that can be applied leaves the files readable: mutate_write
\* checks its chunks when it is about to win, and at no other time.
LEMMA EffectReadable ==
  ASSUME NEW s, RepType(s), NEW op \in Op, CanApply(s, op), Readable(s, s.blobs)
  PROVE  Readable(Effect(s, op), s.blobs)
<1>1. CASE op.kind \in {"Mkdir", "CreateFile"}
  <2>1. /\ \A i \in Inode \ {op.id} : Effect(s, op).inode[i] = s.inode[i]
        /\ Effect(s, op).inode[op.id].content.value = None
    BY <1>1, CreateInodes, SMTT(40)
  <2> QED
    BY <2>1, SMTT(60) DEF Readable
<1>2. CASE op.kind = "Write"
  <2> DEFINE f == Effect(s, op)
  <2>1. /\ \A i \in Inode \ {op.inode} : f.inode[i] = s.inode[i]
        /\ s.inode[op.inode] \in InodeRec
        /\ \/ f.inode[op.inode].content = s.inode[op.inode].content
           \/ /\ f.inode[op.inode].content = [key |-> OpKey(op), value |-> FileNode(op)]
              /\ op.chunks \subseteq s.blobs
    BY <1>2, WriteInodes, SMTT(60)
  <2>2. s.inode[op.inode] # None
    BY <2>1, NoneAssumption, SMTT(60)
  <2>3. FileNode(op).chunks = op.chunks
    BY Zenon DEF FileNode
  <2> HIDE DEF f
  <2> SUFFICES ASSUME NEW i \in Inode, f.inode[i] # None, f.inode[i].content.value # None
               PROVE  f.inode[i].content.value.chunks \subseteq s.blobs
    BY Zenon DEF Readable, f
  <2>4. CASE f.inode[i].content = s.inode[i].content /\ s.inode[i] # None
    BY <2>4, Zenon DEF Readable
  <2>5. CASE /\ f.inode[i].content = [key |-> OpKey(op), value |-> FileNode(op)]
             /\ op.chunks \subseteq s.blobs
    <3>1. f.inode[i].content.value = FileNode(op)
      BY <2>5, SMTT(60)
    <3> QED
      BY <2>3, <2>5, <3>1, Zenon
  <2> QED
    BY <2>1, <2>2, <2>4, <2>5, Zenon
<1>3. CASE op.kind \in {"Rename", "Unlink"}
  BY <1>3, OtherInodes, SMTT(60) DEF Readable
<1> QED
  BY <1>1, <1>2, <1>3, SMTT(40) DEF Op, Kind

\* A step keeps the files of the repository it changes readable.
LEMMA ReadableStep ==
  ASSUME TypeInv, NEW r \in Device, NEW x, NEW t, Step(r, x, t), Readable(rep[r], rep[r].blobs)
  PROVE  Readable(x, x.blobs)
<1> DEFINE s == rep[r]
<1>1. ASSUME SameNamespace(x, s), s.blobs \subseteq x.blobs PROVE Readable(x, x.blobs)
  BY <1>1, Zenon DEF SameNamespace, Readable
<1>2. ASSUME NEW op \in Op, Applies(s, x, op), s.blobs \subseteq x.blobs PROVE Readable(x, x.blobs)
  <2>1. PICK k : /\ RepType(k) /\ SameNamespace(k, s) /\ k.blobs = x.blobs
                 /\ CanApply(k, op) /\ SameNamespace(x, Effect(k, op))
    BY <1>2, Zenon DEF Applies
  <2>2. Readable(k, k.blobs)
    BY <1>2, <2>1, SMTT(60) DEF SameNamespace, Readable
  <2>3. Readable(Effect(k, op), k.blobs)
    BY <2>1, <2>2, EffectReadable, SMTT(60)
  <2> QED
    BY <2>1, <2>3, SMTT(60) DEF SameNamespace, Readable
<1> QED
  BY <1>1, <1>2, StepCases, Zenon

\* No file names a chunk its repository does not hold, at any step of any
\* handler (mutate_write, store_content, drain_pending, import).
THEOREM FilesWhole == Spec => []NoTornFile
<1>1. Init => NoTornFile
  <2>1. GenesisRoot.content.value = None
    BY Zenon DEF GenesisRoot
  <2> QED
    BY <2>1, BootstrappedEmpty, SMTT(60) DEF Init, NoTornFile
<1>2. TypeInv /\ NoTornFile /\ [Next]_vars => NoTornFile'
  <2>1. CASE UNCHANGED vars
    BY <2>1, Zenon DEF vars, NoTornFile
  <2>2. ASSUME TypeInv, NoTornFile, Next PROVE NoTornFile'
    <3>1. PICK r \in Device : \E x, t : Step(r, x, t)
      BY <2>2, StepShape, Zenon
    <3>2. PICK x, t : Step(r, x, t)
      BY <3>1, Zenon
    <3>3. Readable(x, x.blobs)
      <4>1. Readable(rep[r], rep[r].blobs)
        BY <2>2, Zenon DEF NoTornFile, Readable
      <4> QED
        BY <2>2, <3>2, <4>1, ReadableStep, SMTT(40)
    <3>4. \A q \in Device : rep'[q] = IF q = r THEN x ELSE rep[q]
      BY <2>2, <3>2, ZenonT(60) DEF TypeInv, Step, Becomes
    <3> QED
      BY <2>2, <3>3, <3>4, Zenon DEF NoTornFile, Readable
  <2> QED
    BY <2>1, <2>2, Zenon
<1> QED
  BY <1>1, <1>2, TypeInvInit, TypeInvNext, PTL DEF Spec

-----------------------------------------------------------------------------
(* Nothing comes back *)

\* An add under a new dot, and any removal, only add to a map.
LEMMA AddGrows ==
  ASSUME NEW m \in DirMap, NEW e, \A y \in m.adds : y.dot # e.dot
  PROVE  m.adds \subseteq Add(m, e).adds /\ Add(m, e).removes = m.removes
  BY Zenon DEF Add, DirMap

\* A removal adds tombstones and takes nothing out.
LEMMA RemoveGrows ==
  ASSUME NEW m \in DirMap, NEW n, NEW dots
  PROVE  /\ RemoveDots(m, n, dots) = [m EXCEPT !.removes = m.removes \cup {<<n, d>> : d \in dots}]
         /\ RemoveDots(m, n, dots).adds = m.adds
         /\ m.removes \subseteq RemoveDots(m, n, dots).removes
  BY Zenon DEF RemoveDots, DirMap

\* A record that is the same has the same key, and no key is less than itself.
LEMMA KeptKey ==
  ASSUME NEW s, RepType(s), NEW i \in Inode, s.inode[i] # None
  PROVE  /\ s.inode[i].content.key \in Nat \X Nat \X Nat
         /\ ~KeyLess(s.inode[i].content.key, s.inode[i].content.key)
<1>1. s.inode[i].content.key \in Nat \X Nat \X Nat
  BY Zenon DEF RepType, InodeRec, Register
<1> QED
  BY <1>1, KeyOrder, Zenon

\* Nothing comes back where nothing changes.
LEMMA OnwardSame ==
  ASSUME NEW s, RepType(s)
  PROVE  Onward(s, s)
BY KeptKey, Zenon DEF Onward

\* A creation is of an inode that does not exist, has no directory map and whose
\* dot no entry carries, so mutate_create replaces nothing.
LEMMA CreateOnward ==
  ASSUME NEW s, RepType(s), NEW A, A \subseteq Op, ViewOK(s, A),
         NEW op \in Op, op.id \notin IdsOf(A), op.kind \in {"Mkdir", "CreateFile"},
         CanApply(s, op)
  PROVE  Onward(s, Effect(s, op))
<1> DEFINE x == Effect(s, op)
           ent == DirEntry(op, op.id, EntryTypeOf(op), op.name)
<1>1. /\ op.id \notin Abstract!Made(A)
      /\ Abstract!NamesIn(A, op.id) = {}
      /\ Abstract!RemovedFrom(A, op.id) = {}
      /\ \A d \in Inode : \A e \in s.dir[d].adds : e.dot # op.id
  BY FreshId, Zenon
<1>2. op.parent \in Inode /\ op.id \in Inode
  BY InodeTypes, Zenon DEF Op, InodeForOp
<1>3. op.parent # op.id
  BY <1>1, <1>2, SMTT(60) DEF CanApply, Unmet, CreateUnmet, IsDir, ViewOK
<1>4. s.inode[op.id] = None
  BY <1>1, <1>2, SMTT(60) DEF ViewOK
<1>5. s.dir[op.id].adds = {} /\ s.dir[op.id].removes = {}
  <2>1. NamesOf(s.dir[op.id]) = {}
    BY <1>1, <1>2, SMTT(60) DEF ViewOK
  <2>2. s.dir[op.id].adds = {}
    BY <2>1, Zenon DEF NamesOf
  <2> QED
    BY <1>1, <1>2, <2>2, SMTT(60) DEF ViewOK
<1>6. x = CreateEffect(s, op)
  BY Zenon DEF Effect
<1>7. \A d \in Inode : x.dir[d] = IF d = op.parent THEN Add(s.dir[d], ent)
                                   ELSE IF d = op.id /\ op.kind = "Mkdir" THEN EmptyMap
                                   ELSE s.dir[d]
  BY <1>2, <1>3, <1>6, SMTT(60) DEF CreateEffect, RepType, InodeForOp
<1>8. \A i \in Inode \ {op.id} : x.inode[i] = s.inode[i]
  BY CreateInodes, Zenon
<1>9. ent.dot = op.id
  BY Zenon DEF DirEntry
<1> HIDE DEF x, ent
<1>10. ASSUME NEW i \in Inode
       PROVE  s.dir[i].removes \subseteq x.dir[i].removes /\ s.dir[i].adds \subseteq x.dir[i].adds
  <2>1. CASE i = op.parent
    <3>1. s.dir[i] \in DirMap /\ \A y \in s.dir[i].adds : y.dot # ent.dot
      BY <1>1, <1>9, Zenon DEF RepType
    <3>2. x.dir[i] = Add(s.dir[i], ent)
      BY <1>7, <2>1, Zenon
    <3> QED
      BY <3>1, <3>2, AddGrows, SMTT(60)
  <2>2. CASE i = op.id
    BY <1>5, <2>2, Zenon
  <2>3. CASE i # op.parent /\ i # op.id
    BY <1>7, <2>3, SMTT(60)
  <2> QED
    BY <2>1, <2>2, <2>3, Zenon
<1>11. ASSUME NEW i \in Inode, s.inode[i] # None
       PROVE  ~KeyLess(x.inode[i].content.key, s.inode[i].content.key)
  BY <1>4, <1>8, <1>11, KeptKey, SMTT(40)
<1> QED
  BY <1>10, <1>11, SMTT(60) DEF Onward, x

\* mutate_write changes one register, to a greater key or not at all.
LEMMA WriteOnward ==
  ASSUME NEW s, RepType(s), NEW op \in Op, op.kind = "Write", CanApply(s, op)
  PROVE  Onward(s, Effect(s, op))
<1> DEFINE f == Effect(s, op)
           old == s.inode[op.inode].content
<1>1. /\ op.inode \in Inode
      /\ \A i \in Inode \ {op.inode} : f.inode[i] = s.inode[i]
      /\ f.dir = s.dir
      /\ \/ f.inode[op.inode].content = old
         \/ /\ KeyLess(old.key, OpKey(op))
            /\ f.inode[op.inode].content = [key |-> OpKey(op), value |-> FileNode(op)]
  BY WriteInodes, Zenon
<1> HIDE DEF f
<1>2. ASSUME NEW i \in Inode, s.inode[i] # None
      PROVE  ~KeyLess(f.inode[i].content.key, s.inode[i].content.key)
  <2>1. /\ s.inode[i].content.key \in Nat \X Nat \X Nat
        /\ ~KeyLess(s.inode[i].content.key, s.inode[i].content.key)
    BY <1>2, KeptKey, Zenon
  <2>2. CASE i # op.inode \/ f.inode[op.inode].content = old
    <3>1. f.inode[i].content = s.inode[i].content
      BY <1>1, <2>2, Zenon
    <3> QED
      BY <2>1, <3>1, Zenon
  <2>3. CASE i = op.inode /\ KeyLess(old.key, OpKey(op)) /\ f.inode[i].content.key = OpKey(op)
    <3>1. OpKey(op) \in Nat \X Nat \X Nat
      BY KeyType, Zenon
    <3> QED
      BY <2>1, <2>3, <3>1, KeyOrder, Zenon
  <2> QED
    BY <1>1, <2>2, <2>3, SMTT(60)
<1> QED
  BY <1>1, <1>2, Zenon DEF Onward, f

\* mutate_rename removes the dots it observed and adds its own, which is new.
LEMMA RenameOnward ==
  ASSUME NEW s, RepType(s), NEW A, A \subseteq Op, ViewOK(s, A),
         NEW op \in Op, op.id \notin IdsOf(A), op.kind = "Rename"
  PROVE  Onward(s, Effect(s, op))
<1> DEFINE x == RenameEffect(s, op)
<1>1. Effect(s, op) = x /\ x.inode = s.inode
  <2>1. Effect(s, op) = x
    BY Zenon DEF Effect
  <2> QED
    BY <2>1, OtherInodes, SMTT(60)
<1>2. \A i \in Inode : s.inode[i] # None =>
        ~KeyLess(x.inode[i].content.key, s.inode[i].content.key)
  BY <1>1, KeptKey, SMTT(60)
<1>3. CASE Observed(s, op) = {}
  <2>1. x = s
    BY <1>3, Zenon DEF RenameEffect
  <2> HIDE DEF x
  <2> QED
    BY <1>1, <1>2, <2>1, SMTT(60) DEF Onward
<1>4. CASE Observed(s, op) # {}
  <2> DEFINE e == MovedEntry(s, op)
             ent == DirEntry(op, e.inode, e.kind, op.newName)
  <2>1. op.parent \in Inode /\ op.newParent \in Inode
    BY Zenon DEF Op
  <2>2. s.dir \in [Inode -> DirMap]
    BY Zenon DEF RepType
  <2>3. x.dir = [s.dir EXCEPT ![op.parent]    = RemoveDots(@, op.name, op.observed),
                              ![op.newParent] = Add(@, ent)]
    <3> HIDE DEF e, ent
    <3>1. x = [s EXCEPT !.parent[e.inode]   = op.newParent,
                        !.dir[op.parent]    = RemoveDots(@, op.name, op.observed),
                        !.dir[op.newParent] = Add(@, ent)]
      BY <1>4, Zenon DEF RenameEffect, e, ent
    <3> HIDE DEF x
    <3> QED
      BY <3>1, Zenon DEF RepType
  <2>4. ent.dot = op.id
    BY Zenon DEF DirEntry
  <2>5. \A d \in Inode : \A y \in s.dir[d].adds : y.dot # op.id
    BY FreshId, Zenon
  <2> HIDE DEF x, e, ent
  <2>6. ASSUME NEW d \in Inode
        PROVE  s.dir[d].removes \subseteq x.dir[d].removes /\ s.dir[d].adds \subseteq x.dir[d].adds
    <3> DEFINE left == IF d = op.parent THEN RemoveDots(s.dir[d], op.name, op.observed)
                                        ELSE s.dir[d]
    <3>1. x.dir[d] = IF d = op.newParent THEN Add(left, ent) ELSE left
      <4> DEFINE mid == [s.dir EXCEPT ![op.parent] = RemoveDots(@, op.name, op.observed)]
      <4>1. x.dir = [mid EXCEPT ![op.newParent] = Add(@, ent)]
        BY <2>3, SMTT(60)
      <4>2. DOMAIN mid = Inode /\ mid[d] = left
        BY <2>1, <2>2, SMTT(40)
      <4> HIDE DEF mid, left
      <4> QED
        BY <4>1, <4>2, SMTT(60)
    <3>2. left \in DirMap /\ left.adds = s.dir[d].adds /\ s.dir[d].removes \subseteq left.removes
      <4>1. s.dir[d] \in DirMap
        BY <2>2, Zenon
      <4>2. CASE d = op.parent
        <5>1. RemoveDots(s.dir[d], op.name, op.observed) \in DirMap
          BY <4>1, SMTT(60) DEF RemoveDots, DirMap, Op
        <5> QED
          BY <4>1, <4>2, <5>1, RemoveGrows, SMTT(40)
      <4>3. CASE d # op.parent
        BY <4>1, <4>3, Zenon
      <4> QED
        BY <4>2, <4>3, Zenon
    <3> HIDE DEF left
    <3>3. left.adds \subseteq Add(left, ent).adds /\ Add(left, ent).removes = left.removes
      BY <2>4, <2>5, <3>2, AddGrows, SMTT(40)
    <3> QED
      BY <3>1, <3>2, <3>3, SMTT(60)
  <2> QED
    BY <1>1, <1>2, <2>6, SMTT(60) DEF Onward
<1> QED
  BY <1>3, <1>4, SMTT(60)

\* mutate_unlink adds removals.
LEMMA UnlinkOnward ==
  ASSUME NEW s, RepType(s), NEW op \in Op, op.kind = "Unlink"
  PROVE  Onward(s, Effect(s, op))
<1> DEFINE x == UnlinkEffect(s, op)
<1>1. Effect(s, op) = x /\ x.inode = s.inode
  <2>1. Effect(s, op) = x
    BY Zenon DEF Effect
  <2> QED
    BY <2>1, OtherInodes, Zenon
<1>2. \A d \in Inode : /\ s.dir[d] \in DirMap
                       /\ x.dir[d] = IF d = op.parent
                                       THEN RemoveDots(s.dir[d], op.name, op.observed)
                                       ELSE s.dir[d]
  BY Zenon DEF UnlinkEffect, RepType, Op
<1> HIDE DEF x
<1>3. \A d \in Inode : /\ s.dir[d].removes \subseteq x.dir[d].removes
                       /\ s.dir[d].adds \subseteq x.dir[d].adds
  BY <1>2, RemoveGrows, SMTT(40)
<1> QED
  BY <1>1, <1>3, KeptKey, Zenon DEF Onward

\* mutate, whatever the operation.
LEMMA EffectOnward ==
  ASSUME NEW s, RepType(s), NEW A, A \subseteq Op, ViewOK(s, A),
         NEW op \in Op, op.id \notin IdsOf(A), CanApply(s, op)
  PROVE  Onward(s, Effect(s, op))
  BY CreateOnward, WriteOnward, RenameOnward, UnlinkOnward, SMTT(40) DEF Op, Kind

\* A step of a handler takes the repository it runs in onward.
LEMMA OnwardStep ==
  ASSUME TypeInv, ViewInv, NEW r \in Device, NEW x, NEW t, Step(r, x, t)
  PROVE  Onward(rep[r], x)
<1> DEFINE s == rep[r]
           A == AppliedOps(s)
<1>1. RepType(s) /\ A \subseteq Op /\ ViewOK(s, A)
  BY SMTT(60) DEF TypeInv, ViewInv, AppliedOps, RepType
<1>2. ASSUME SameNamespace(x, s) PROVE Onward(s, x)
  <2>1. Onward(s, s)
    BY <1>1, OnwardSame, Zenon
  <2> QED
    BY <1>2, <2>1, Zenon DEF SameNamespace, Onward
<1>3. ASSUME NEW op \in Op, op.id \notin s.applied, Applies(s, x, op) PROVE Onward(s, x)
  <2>1. op.id \notin IdsOf(A)
    BY <1>3, Zenon DEF IdsOf, AppliedOps
  <2>2. PICK k : /\ RepType(k) /\ SameNamespace(k, s)
                 /\ CanApply(k, op) /\ SameNamespace(x, Effect(k, op))
    BY <1>3, SMTT(60) DEF Applies
  <2> HIDE DEF A
  <2>3. ViewOK(k, A)
    BY <1>1, <2>2, SameView, SMTT(40)
  <2>4. Onward(k, Effect(k, op))
    BY <1>1, <2>1, <2>2, <2>3, EffectOnward, SMTT(40)
  <2> QED
    BY <2>2, <2>4, SMTT(60) DEF SameNamespace, Onward
<1> QED
  BY <1>2, <1>3, StepCases, Zenon

\* A removed entry never comes back, an entry is never lost from the map, and a
\* register never takes an older key (or_map.rs, lww.rs, apply.rs), whatever is
\* delivered, parked, retried or imported, in whatever order.
THEOREM NothingComesBack == Spec => NoResurrection
<1> DEFINE I == TypeInv /\ LogInv /\ ViewInv
           OnwardAll == \A r \in Device : \A i \in Inode :
             /\ rep[r].dir[i].removes \subseteq rep'[r].dir[i].removes
             /\ rep[r].dir[i].adds \subseteq rep'[r].dir[i].adds
             /\ rep[r].inode[i] # None =>
                  ~KeyLess(rep'[r].inode[i].content.key, rep[r].inode[i].content.key)
<1>1. Init => I
  BY TypeInvInit, LogInvInit, ViewInvInit, SMTT(60)
<1>2. I /\ [Next]_vars => I'
  BY TypeInvNext, LogInvNext, ViewInvNext, SMTT(40)
<1>3. I /\ [Next]_vars => [OnwardAll]_vars
  <2> SUFFICES ASSUME I, Next PROVE OnwardAll
    BY Zenon
  <2>1. PICK r \in Device : \E x, t : Step(r, x, t)
    BY StepShape, Zenon
  <2>2. PICK x, t : Step(r, x, t)
    BY <2>1, Zenon
  <2>3. Onward(rep[r], x)
    BY <2>2, OnwardStep, SMTT(60)
  <2>4. \A q \in Device : rep'[q] = IF q = r THEN x ELSE rep[q]
    BY <2>2, Zenon DEF TypeInv, Step, Becomes
  <2>5. \A q \in Device : Onward(rep[q], rep[q])
    <3>1. \A q \in Device : RepType(rep[q])
      BY Zenon DEF TypeInv
    <3> QED
      BY <3>1, OnwardSame, Zenon
  <2>6. \A q \in Device : Onward(rep[q], rep'[q])
    BY <2>3, <2>4, <2>5, Zenon
  <2> QED
    BY <2>6, Zenon DEF Onward
<1>4. NoResurrection <=> [][OnwardAll]_vars
  BY PTL DEF NoResurrection
<1> HIDE DEF I, OnwardAll
<1> QED
  BY <1>1, <1>2, <1>3, <1>4, PTL DEF Spec

-----------------------------------------------------------------------------
(* The order of what was applied *)

\* What was applied can be put in an order in which nothing comes before what
\* it works on.
Grounded(s) ==
  \A D \in SUBSET AppliedOps(s) :
    D # {} => \E op \in D : Abstract!Touches(op) \cap IdsOf(D) = {}

\* The operation applied last works on nothing that is made later, and nothing
\* before it works on what it makes.
LEMMA GroundedMore ==
  ASSUME NEW s, RepType(s), Grounded(s), ViewOK(s, AppliedOps(s)), NEW op \in Op,
         op.id \notin IdsOf(AppliedOps(s)), Abstract!Needs(AppliedOps(s), op),
         NEW x, AppliedOps(x) = AppliedOps(s) \cup {op}
  PROVE  Grounded(x)
<1> DEFINE A == AppliedOps(s)
<1>1. A \subseteq Op
  BY Zenon DEF AppliedOps, RepType
<1>2. op.id \notin Abstract!Made(A)
  BY <1>1, FreshId, SMTT(60)
<1>3. Abstract!Touches(op) \subseteq Abstract!Made(A) /\ \A o \in A : Abstract!Touches(o) \subseteq Abstract!Made(A)
  BY Zenon DEF Abstract!Needs, ViewOK
<1> SUFFICES ASSUME NEW D \in SUBSET (A \cup {op}), D # {}
             PROVE  \E o \in D : Abstract!Touches(o) \cap IdsOf(D) = {}
  BY Zenon DEF Grounded
<1>4. CASE D = {op}
  BY <1>2, <1>3, <1>4, SMTT(60) DEF IdsOf
<1>5. CASE D # {op}
  <2> DEFINE E == D \ {op}
  <2>1. E \in SUBSET A /\ E # {}
    BY <1>5, Zenon
  <2>2. PICK o \in E : Abstract!Touches(o) \cap IdsOf(E) = {}
    BY <2>1, SMTT(60) DEF Grounded
  <2>3. op.id \notin Abstract!Touches(o)
    BY <1>2, <1>3, <2>1, SMTT(60)
  <2> QED
    BY <2>2, <2>3, SMTT(60) DEF IdsOf
<1> QED
  BY <1>4, <1>5, SMTT(60)
=============================================================================
