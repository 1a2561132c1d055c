---------------------------- MODULE SettleProofs ----------------------------
(***************************************************************************)
(* Records, times and links come from the operations applied.  Then what   *)
(* holds of repositories at rest while nobody renames: the published root  *)
(* is current, the queue is settled, no device parks an operation of its   *)
(* own, and two repositories with the same log publish the same root.      *)
(* With renames all of these fail, as the runs poisoned_queue and          *)
(* rename_convergence show.                                                *)
(***************************************************************************)
EXTENDS TreeProofs, ViewProofs

-----------------------------------------------------------------------------
(* What the tables say of the operations applied, with renames too.          *)

\* Of every repository; and what is in a log is in the log of its author.
OriginInv ==
  /\ \A r \in Device : Minted(rep[r]) /\ Timed(rep[r]) /\ Grounded(rep[r])
  /\ \A q \in Device : \A op \in rep[q].oplog : op \in rep[op.id[1]].oplog

\* The empty repositories, before any operation.
LEMMA OriginInvInit == Init => OriginInv
<1> SUFFICES ASSUME Init PROVE OriginInv
  BY Zenon
<1>1. \A r \in Device : rep[r] = Bootstrapped
  BY Zenon DEF Init
<1>2. AppliedOps(Bootstrapped) = {} /\ Bootstrapped.oplog = {}
  BY BootstrappedEmpty, SMTT(60) DEF AppliedOps
<1>3. /\ Bootstrapped.time = 0 /\ Bootstrapped.inode[Root] = GenesisRoot
      /\ \A i \in Inode \ {Root} : Bootstrapped.inode[i] = None
  BY InodeTypes, BootstrappedEmpty, SMTT(60)
<1> QED
  BY <1>1, <1>2, <1>3, SMTT(60) DEF OriginInv, Minted, Timed, Grounded

\* Every step keeps the tables true to the operations applied.
LEMMA OriginInvNext == TypeInv /\ LogInv /\ TreeInv /\ ViewInv /\ OriginInv /\ [Next]_vars => OriginInv'
<1> SUFFICES ASSUME TypeInv, LogInv, TreeInv, ViewInv, OriginInv, [Next]_vars PROVE OriginInv'
  BY Zenon
<1>1. CASE UNCHANGED vars
  <2>1. rep' = rep
    BY <1>1, SMTT(60) DEF vars
  <2> QED
    BY <2>1, SMTT(60) DEF OriginInv
<1>2. CASE Next
  <2>0. PICK r \in Device : \E x, t : Step(r, x, t)
    BY <1>2, StepShape, SMTT(60)
  <2>1. PICK x, t : Step(r, x, t)
    BY <2>0, SMTT(60)
  <2> DEFINE s == rep[r]
  <2>2. /\ RepType(s) /\ RepType(x) /\ s.oplog \subseteq x.oplog
        /\ \A q \in Device : rep'[q] = IF q = r THEN x ELSE rep[q]
        /\ Rests(s, x) \/ \E op \in Op : \E k : Lands(s, k, x, op)
    BY <2>1, LandsOrRests, SMTT(60)
  <2>3. Minted(s) /\ Timed(s) /\ Grounded(s) /\ ViewOK(s, AppliedOps(s))
    BY Zenon DEF OriginInv, ViewInv
  <2>4. Minted(x) /\ Timed(x) /\ Grounded(x)
    <3>1. CASE Rests(s, x)
      <4>1. Minted(x)
        BY <2>2, <2>3, <3>1, SMTT(60) DEF Rests, Minted, MadeBy, SameNamespace
      <4>2. Timed(x) /\ Grounded(x)
        BY <2>3, <3>1, SMTT(60) DEF Rests, Timed, Grounded, SameIndex
      <4> QED
        BY <4>1, <4>2, SMTT(60)
    <3>2. CASE \E op \in Op : \E k : Lands(s, k, x, op)
      <4>1a. PICK op \in Op : \E k : Lands(s, k, x, op)
        BY <3>2, SMTT(60)
      <4>1. PICK k : Lands(s, k, x, op)
        BY <4>1a, SMTT(60)
      <4>2. Minted(x) /\ Timed(x)
        BY <2>2, <2>3, <4>1, MintedLands, TimedLands, SMTT(60)
      <4>3. /\ op.id \notin IdsOf(AppliedOps(s)) /\ RepType(k) /\ CanApply(k, op)
            /\ SameNamespace(k, s) /\ AppliedOps(x) = AppliedOps(s) \cup {op}
        BY <4>1, SMTT(60) DEF Lands, AppliedOps, IdsOf
      <4>4. AppliedOps(s) \subseteq Op /\ ViewOK(k, AppliedOps(s))
        BY <2>2, <2>3, <4>3, SameView, SMTT(60) DEF AppliedOps, RepType
      <4>5. Abstract!Needs(AppliedOps(s), op)
        BY <4>3, <4>4, EffectView, Zenon
      <4> QED
        BY <2>2, <2>3, <4>2, <4>3, <4>5, GroundedMore, SMTT(60)
    <3> QED
      BY <2>2, <3>1, <3>2, SMTT(60)
  <2>5. \A q \in Device : \A op \in rep'[q].oplog : op.id[1] \in Device /\ op \in rep'[op.id[1]].oplog
    <3>1. \A op \in Op : op.id[1] \in Device
      BY Zenon DEF Op, Id
    <3>2. \A q \in Device : rep[q].oplog \subseteq Op /\ rep[q].oplog \subseteq rep'[q].oplog
      BY <2>2, SMTT(60) DEF TypeInv, RepType
    <3>3. \A op : Logged(op) => op.id[1] \in Device /\ op \in rep'[op.id[1]].oplog
      BY <3>1, <3>2, SMTT(60) DEF Logged, OriginInv
    <3>4. \/ x.oplog = s.oplog
          \/ \E op \in Op : /\ x.oplog = s.oplog \cup {op}
                            /\ Logged(op) \/ op.id = <<r, s.next + 1>>
      BY <2>1, LogStep, SMTT(60)
    <3>5. \A q \in Device : \A op \in rep'[q].oplog : Logged(op) \/ (op \in rep'[r].oplog /\ op.id[1] = r)
      BY <2>2, <3>4, SMTT(60) DEF Logged
    <3> QED
      BY <3>3, <3>5, Zenon
  <2>6. \A q \in Device : Minted(rep'[q]) /\ Timed(rep'[q]) /\ Grounded(rep'[q])
    BY <2>2, <2>4, SMTT(60) DEF OriginInv
  <2> QED
    BY <2>5, <2>6, SMTT(60) DEF OriginInv
<1> QED
  BY <1>1, <1>2, SMTT(60)

-----------------------------------------------------------------------------
(* Without renames *)

NoRename == "Rename" \notin Calls

\* What an operation works on is made by an operation of the right kind, which
\* some device holds.
Aimed(op) ==
  /\ op.kind # "Rename"
  /\ op.kind = "Write" => \E c : Logged(c) /\ c.id = op.inode /\ c.kind = "CreateFile"
  /\ op.kind # "Write" =>
       op.parent = Root \/ \E c : Logged(c) /\ c.id = op.parent /\ c.kind = "Mkdir"

\* The file a handler is to write to is there.
WriteThen(s, t) ==
  t.then # None /\ t.then.at = "write" =>
    \E c \in AppliedOps(s) : c.id = t.then.inode /\ c.kind = "CreateFile"

SettleInv ==
  /\ \A op : Logged(op) => Aimed(op)
  /\ \A r \in Device : HeadOK(rep[r], task[r]) /\ DrainOK(rep[r], task[r]) /\ Covered(rep[r])
  /\ \A r \in Device : WriteThen(rep[r], task[r])
  /\ LocalNeverParks

BaseInv == TypeInv /\ LogInv /\ TreeInv /\ ViewInv /\ OriginInv

\* Logs and applied sets only grow.
LEMMA Grows ==
  ASSUME BaseInv, Next, NEW q \in Device
  PROVE  rep[q].oplog \subseteq rep'[q].oplog /\ AppliedOps(rep[q]) \subseteq AppliedOps(rep'[q])
<1>1. TypeInv /\ LogInv /\ TreeInv
  BY Zenon DEF BaseInv
<1>2a. PICK r \in Device : \E x, t : Step(r, x, t)
  BY <1>1, StepShape, SMTT(60)
<1>2. PICK x, t : Step(r, x, t)
  BY <1>2a, SMTT(60)
<1>3. /\ rep[r].oplog \subseteq x.oplog
      /\ rep'[q] = IF q = r THEN x ELSE rep[q]
      /\ Rests(rep[r], x) \/ \E op \in Op : \E k : Lands(rep[r], k, x, op)
  BY <1>1, <1>2, LandsOrRests, SMTT(60)
<1>4. AppliedOps(rep[r]) \subseteq AppliedOps(x)
  BY <1>3, SMTT(60) DEF Rests, Lands
<1> QED
  BY <1>3, <1>4, SMTT(60)

\* The kind of an inode is that of the operation of its id, wherever it is held.
LEMMA KindOf ==
  ASSUME BaseInv, NEW r \in Device, NEW c, Logged(c), rep[r].inode[c.id] # None
  PROVE  c.kind \in {"Mkdir", "CreateFile"} /\ rep[r].inode[c.id].kind = EntryTypeOf(c)
<1>1. c.id \in Inode \ {Root}
  BY InodeTypes, SMTT(60) DEF BaseInv, TypeInv, RepType, Logged, Op, InodeForOp
<1>2. PICK op : MadeBy(rep[r], c.id, op)
  BY <1>1, SMTT(60) DEF BaseInv, OriginInv, Minted
<1>3. op = c
  BY <1>2, SMTT(60) DEF MadeBy, Logged, BaseInv, LogInv, LogWellFormed
<1> QED
  BY <1>2, <1>3, SMTT(60) DEF MadeBy

\* mutate never returns an error.
LEMMA NeverFails ==
  ASSUME BaseInv, NEW r \in Device, NEW op, Aimed(op)
  PROVE  ~Fails(rep[r], op)
  BY KindOf, SMTT(60) DEF Aimed, Fails, WriteFails, EntryTypeOf

\* What a user issues is aimed at what its repository has, and is not parked.
LEMMA IssuedFits ==
  ASSUME BaseInv, SettleInv, NoRename, NEW r \in Device, NEW s, NEW op, NEW done,
         Like(s, rep[r]), Issued(r, s, op, done)
  PROVE  Aimed(op) /\ ~Unmet(s, op) /\ op.id \notin s.applied
<1> DEFINE y == rep[r]
<1>1. RepType(y) /\ EntriesOK(y) /\ Minted(y) /\ ViewOK(y, AppliedOps(y)) /\ WriteThen(y, task[r])
  BY Zenon DEF BaseInv, TypeInv, TreeInv, OriginInv, ViewInv, SettleInv
<1>2. op \in Op /\ op.kind # "Rename" /\ op.chunks \subseteq s.blobs
  BY Zenon DEF Issued, NoRename
<1>3. s.inode = y.inode /\ s.applied = y.applied /\ \A i : IsDir(s, i) <=> IsDir(y, i)
  BY Zenon DEF Like, SameNamespace, IsDir
<1>4. op.id \notin s.applied
  <2>1. y.applied \subseteq IdsOf(y.oplog) /\ \A a \in y.oplog : a.id[1] = r => a.id[2] <= y.next
    BY SMTT(60) DEF BaseInv, LogInv, LogWellFormed
  <2>2. y.next \in Nat /\ op.id = <<r, y.next + 1>>
    BY <1>1, BoundAssumption, SMTT(60) DEF RepType, Issued
  <2> QED
    BY <1>3, <2>1, <2>2, SMTT(60) DEF IdsOf
<1>5. \A i \in Inode \ {Root} : y.inode[i] # None => \E c : Logged(c) /\ MadeBy(y, i, c)
  BY <1>1, ZenonT(60) DEF Minted, MadeBy, Logged
<1>6. CASE op.kind # "Write"
  <2>1. op.parent \in Inode /\ IsDir(y, op.parent)
    BY <1>1, <1>6, TreeKinds, ZenonT(60) DEF Issued
  <2>2. op.parent = Root \/ \E c : Logged(c) /\ c.id = op.parent /\ c.kind = "Mkdir"
    BY <1>5, <2>1, SMTT(60) DEF IsDir, MadeBy, EntryTypeOf
  <2>3. ~Unmet(s, op)
    BY <1>2, <1>3, <1>6, <2>1, Zenon DEF Unmet, CreateUnmet, UnlinkUnmet
  <2> QED
    BY <1>2, <1>4, <1>6, <2>2, <2>3, SMTT(60) DEF Aimed
<1>7. CASE op.kind = "Write"
  <2>1. y.inode[op.inode] # None /\ \E c : Logged(c) /\ c.id = op.inode /\ c.kind = "CreateFile"
    <3>1. CASE op.inode \in LiveFiles(y)
      <4>1. op.inode \in Inode /\ ~IsDir(y, op.inode) /\ y.inode[op.inode] # None
        BY <1>1, <3>1, TreeKinds, Zenon
      <4>2. op.inode # Root
        BY <1>1, <4>1, Zenon DEF EntriesOK
      <4> QED
        BY <1>5, <4>1, <4>2, SMTT(60) DEF IsDir, MadeBy, EntryTypeOf
    <3>2. CASE task[r].at = "write" /\ op.inode = task[r].then.inode
      <4>1. task[r].then # None /\ task[r].then.at = "write"
        BY <3>2, TaskFacts, ZenonT(60) DEF TaskOK, BaseInv
      <4>2. PICK c \in AppliedOps(y) : c.id = op.inode /\ c.kind = "CreateFile"
        BY <1>1, <3>2, <4>1, SMTT(60) DEF WriteThen
      <4>3. Logged(c) /\ c.id \in Inode
        BY <1>1, InodeTypes, ZenonT(60) DEF AppliedOps, Logged, RepType, Op, InodeForOp
      <4>4. c.id \in Abstract!Made(AppliedOps(y))
        BY <4>2, Shared, ZenonT(60) DEF Abstract!Made, Abstract!Creates
      <4> QED
        BY <1>1, <4>2, <4>3, <4>4, ZenonT(60) DEF ViewOK
    <3> QED
      BY <1>7, <3>1, <3>2, SMTT(60) DEF Issued
  <2>2. ~Unmet(s, op)
    BY <1>2, <1>3, <1>7, <2>1, SMTT(60) DEF Unmet, WriteUnmet
  <2> QED
    BY <1>2, <1>4, <1>7, <2>1, <2>2, SMTT(60) DEF Aimed
<1> QED
  BY <1>6, <1>7, Zenon

\* What a turn of r leaves.
Kept(r) ==
  /\ HeadOK(rep'[r], task'[r]) /\ DrainOK(rep'[r], task'[r]) /\ Covered(rep'[r])
  /\ WriteThen(rep'[r], task'[r])
  /\ \A p \in rep'[r].pending : p.id[1] # r
  /\ \A op \in rep'[r].oplog : Aimed(op)
  /\ \A q \in Device \ {r} : rep'[q] = rep[q] /\ task'[q] = task[q]

\* The repository a handler starts from has the queue and the root of the one
\* it found.
LEMMA LikeKeeps ==
  ASSUME BaseInv, SettleInv, NEW r \in Device, NEW s, Like(s, rep[r]), task[r].at # "drain"
  PROVE  /\ RepType(s) /\ Published(s) /\ Covered(s)
         /\ \A op \in s.oplog : Aimed(op)
         /\ \A p \in s.pending : p.id[1] # r
  BY Zenon DEF SettleInv, Like, SameIndex, HeadOK, Published, Covered, Logged, LocalNeverParks

\* An operation of a user, applied at once.
LEMMA IssuesKeep ==
  ASSUME BaseInv, SettleInv, NoRename, NEW r \in Device, Issues(r), Next
  PROVE  Kept(r)
<1>1. PICK s, op, done : /\ Like(s, rep[r]) /\ task[r].at # "drain" /\ Issued(r, s, op, done)
                         /\ ApplyOp(r, s, op, done, None)
  BY Zenon DEF Issues
<1>2. Aimed(op) /\ ~Unmet(s, op) /\ op.id \notin s.applied
  BY <1>1, IssuedFits, SMTT(60)
<1>3. /\ RepType(s) /\ Published(s) /\ Covered(s)
      /\ \A o \in s.oplog : Aimed(o)
      /\ \A p \in s.pending : p.id[1] # r
  BY <1>1, LikeKeeps, SMTT(60)
<1>4. op \in Op /\ (done # None => op.kind = "CreateFile" /\ done.at = "write" /\ done.inode = op.id)
  BY <1>1, SMTT(60) DEF Issued
<1>5. ~Fails(s, op)
  <2>1. op.kind = "Write" => ~WriteFails(s, op)
    BY <1>1, <1>2, NeverFails, SMTT(60) DEF Fails, WriteFails, Like, SameNamespace
  <2> QED
    BY <1>2, <2>1, SMTT(60) DEF Fails, Aimed
<1>6. TypeInv
  BY Zenon DEF BaseInv
<1>7. TakenBy(r, s, op, done, None)
  BY <1>1, <1>2, <1>3, <1>4, <1>5, <1>6, ApplyOpTakes, SMTT(60)
<1>8. WriteThen(rep'[r], task'[r])
  BY <1>2, <1>4, <1>7, SMTT(60) DEF TakenBy, WriteThen
<1> QED
  BY <1>2, <1>3, <1>7, <1>8, SMTT(60) DEF TakenBy, Kept

\* An operation taken over, applied or parked; it is not one of the device's own.
LEMMA RelaysKeep ==
  ASSUME BaseInv, SettleInv, NoRename, NEW r \in Device, Relays(r), Next
  PROVE  Kept(r)
<1>1. PICK op, then : Relayed(r, op, then) /\ ApplyOp(r, rep[r], op, then, then)
  BY Zenon DEF Relays
<1> DEFINE s == rep[r]
<1>2. op \in Op /\ op \in Known(r) /\ task[r].at # "drain" /\ (then = None \/ then.at = "import")
  BY <1>1, SMTT(60) DEF Relayed
<1>3. Logged(op) /\ Aimed(op)
  BY <1>2, SMTT(60) DEF Known, BaseInv, LogInv, Logged, SettleInv
<1>4. TypeInv /\ RepType(s)
  BY Zenon DEF BaseInv, TypeInv
<1>5. Like(s, s)
  BY <1>4, LikeMore, ZenonT(60)
<1>6. /\ Published(s) /\ Covered(s)
      /\ \A o \in s.oplog : Aimed(o)
      /\ \A p \in s.pending : p.id[1] # r
  BY <1>2, <1>5, LikeKeeps, SMTT(60)
<1>7. ~Fails(s, op)
  BY <1>3, NeverFails, SMTT(60)
<1>8. op.id \notin s.applied \/ then # None
  BY <1>1, SMTT(60) DEF Relayed, BaseInv, LogInv, LogWellFormed
<1>9. TakenBy(r, s, op, then, then)
  BY <1>1, <1>2, <1>4, <1>6, <1>7, <1>8, ApplyOpTakes, ZenonT(60)
<1>10. op.id[1] = r => op.id \in s.applied \/ op.id \in IdsOf(s.pending)
  BY <1>3, <1>6, SMTT(60) DEF Logged, BaseInv, OriginInv, Covered, IdsOf
<1>11. \A p \in rep'[r].pending : p.id[1] # r
  BY <1>6, <1>9, <1>10, ZenonT(60) DEF TakenBy, IdsOf
<1>12. WriteThen(rep'[r], task'[r])
  BY <1>2, <1>9, Zenon DEF TakenBy, WriteThen
<1> QED
  BY <1>3, <1>6, <1>9, <1>11, <1>12, ZenonT(60) DEF TakenBy, Kept

\* A retry, and the beginning of an import.
LEMMA RetriesKeep ==
  ASSUME BaseInv, SettleInv, NEW r \in Device, Retries(r) \/ Imports(r), Next
  PROVE  Kept(r)
<1>1. TypeInv
  BY Zenon DEF BaseInv
<1>2. CASE Retries(r)
  <2>1. PICK s : Like(s, rep[r]) /\ task[r].at # "drain" /\ BeginPass(r, s, FALSE, None)
    BY <1>2, ZenonT(60) DEF Retries
  <2>2. /\ RepType(s) /\ Published(s) /\ Covered(s)
        /\ \A o \in s.oplog : Aimed(o)
        /\ \A p \in s.pending : p.id[1] # r
    BY <2>1, LikeKeeps, Zenon
  <2>3. LeftBy(r, s, None)
    BY <1>1, <2>1, <2>2, BeginPassLeaves, ZenonT(60)
  <2> QED
    BY <2>2, <2>3, SMTT(60) DEF LeftBy, Kept, SameTables, Covered, WriteThen
<1>3. CASE Imports(r)
  <2>1. PICK s, then : /\ Like(s, rep[r]) /\ task[r].at = "idle" /\ then # None /\ then.at = "import"
                       /\ rep' = [rep EXCEPT ![r] = s] /\ task' = [task EXCEPT ![r] = Resume(then)]
    BY <1>3, ZenonT(60) DEF Imports
  <2>2. /\ Published(s) /\ Covered(s)
        /\ \A o \in s.oplog : Aimed(o)
        /\ \A p \in s.pending : p.id[1] # r
    BY <2>1, LikeKeeps, SMTT(60)
  <2>3. rep'[r] = s /\ task'[r] = Resume(then)
          /\ \A q \in Device \ {r} : rep'[q] = rep[q] /\ task'[q] = task[q]
    BY <1>1, <2>1, SMTT(60) DEF TypeInv
  <2>4. Resume(then).at = "import" /\ Resume(then).then = then
    BY <2>1, SMTT(60) DEF Resume, Idle
  <2> QED
    BY <2>1, <2>2, <2>3, <2>4, Zenon DEF Kept, HeadOK, DrainOK, WriteThen
<1> QED
  BY <1>2, <1>3, SMTT(60)

\* The steps of a drain.
LEMMA DrainKeeps ==
  ASSUME BaseInv, SettleInv, NEW r \in Device, DrainRow(r) \/ DrainPass(r), Next
  PROVE  Kept(r)
<1>1. TypeInv /\ LogInv
  BY Zenon DEF BaseInv
<1>2. /\ HeadOK(rep[r], task[r]) /\ DrainOK(rep[r], task[r]) /\ Covered(rep[r])
      /\ WriteThen(rep[r], task[r])
      /\ \A o \in rep[r].oplog : Aimed(o)
      /\ \A p \in rep[r].pending : p.id[1] # r
  BY Zenon DEF SettleInv, Logged, LocalNeverParks
<1>3. \A op \in rep[r].pending : ~Fails(rep[r], op)
  BY <1>1, <1>2, NeverFails, ZenonT(60) DEF LogInv, LogWellFormed
<1>4. DrainedBy(r)
  BY <1>1, <1>2, <1>3, DrainRowLeaves, DrainPassLeaves, SMTT(60)
<1>5. AppliedOps(rep[r]) \subseteq AppliedOps(rep'[r])
  BY Grows, SMTT(60)
<1> QED
  BY <1>2, <1>4, <1>5, SMTT(60) DEF DrainedBy, Kept, WriteThen

\* The first state is at rest and nothing is parked.
LEMMA SettleInvInit == Init => SettleInv
<1> SUFFICES ASSUME Init PROVE SettleInv
  BY Zenon
<1>1. \A r \in Device : rep[r] = Bootstrapped /\ task[r] = Idle
  BY Zenon DEF Init
<1>2. Bootstrapped.oplog = {} /\ Bootstrapped.applied = {} /\ Bootstrapped.pending = {}
  BY BootstrappedEmpty, SMTT(60)
<1>3. Published(Bootstrapped)
  BY Zenon DEF Bootstrapped, BuildSnapshot, Published
<1>4. Idle.at = "idle" /\ Idle.then = None
  BY Zenon DEF Idle
<1>5. \A op : ~Logged(op)
  BY <1>1, <1>2, SMTT(60) DEF Logged
<1>6. /\ HeadOK(Bootstrapped, Idle) /\ DrainOK(Bootstrapped, Idle) /\ Covered(Bootstrapped)
      /\ WriteThen(Bootstrapped, Idle)
  BY <1>2, <1>3, <1>4, SMTT(60) DEF HeadOK, DrainOK, Settled, Covered, WriteThen, IdsOf
<1> QED
  BY <1>1, <1>2, <1>5, <1>6, SMTT(60) DEF SettleInv, LocalNeverParks

\* Every turn keeps the queue settled and the root current.
LEMMA SettleInvNext ==
  ASSUME NoRename
  PROVE  BaseInv /\ SettleInv /\ [Next]_vars => SettleInv'
<1> SUFFICES ASSUME BaseInv, SettleInv, [Next]_vars PROVE SettleInv'
  BY Zenon
<1>1. CASE UNCHANGED vars
  <2>1. rep' = rep /\ task' = task
    BY <1>1, Zenon DEF vars
  <2> QED
    BY <2>1, SMTT(60) DEF SettleInv, Logged, Aimed, LocalNeverParks
<1>2. CASE Next
  <2>1. PICK r \in Device : Turn(r)
    BY <1>2, NextTurn, Zenon DEF BaseInv
  <2>2. Kept(r)
    BY <1>2, <2>1, IssuesKeep, RelaysKeep, RetriesKeep, DrainKeeps, Zenon DEF Turn
  <2>3. \A op : Logged(op) => Logged(op)'
    BY <1>2, Grows, SMTT(60) DEF Logged
  <2>4. \A op : Aimed(op) => Aimed(op)'
    BY <2>3, SMTT(60) DEF Aimed
  <2>5. \A op : Logged(op)' => Aimed(op)
    BY <2>2, SMTT(60) DEF Kept, Logged, SettleInv
  <2>6. \A q \in Device : /\ HeadOK(rep'[q], task'[q]) /\ DrainOK(rep'[q], task'[q]) /\ Covered(rep'[q])
                          /\ WriteThen(rep'[q], task'[q])
                          /\ \A p \in rep'[q].pending : p.id[1] # q
    BY <2>2, SMTT(60) DEF Kept, SettleInv, LocalNeverParks
  <2> QED
    BY <2>4, <2>5, <2>6, Zenon DEF SettleInv, LocalNeverParks
<1> QED
  BY <1>1, <1>2, SMTT(60)

\* The invariants that hold with renames too, together.
LEMMA BaseInvHolds == Spec => []BaseInv
<1>1. Init => BaseInv
  BY TypeInvInit, LogInvInit, TreeInvInit, ViewInvInit, OriginInvInit, SMTT(60) DEF BaseInv
<1>2. BaseInv /\ [Next]_vars => BaseInv'
  BY TypeInvNext, LogInvNext, TreeInvNext, ViewInvNext, OriginInvNext, SMTT(60) DEF BaseInv
<1> QED
  BY <1>1, <1>2, PTL DEF Spec

\* Nobody renames: the queue is settled and the root current at every rest.
LEMMA SettleInvHolds ==
  ASSUME NoRename
  PROVE  Spec => []SettleInv
<1>1. BaseInv /\ SettleInv /\ [Next]_vars => SettleInv'
  BY SettleInvNext, SMTT(60)
<1> QED
  BY <1>1, SettleInvInit, BaseInvHolds, PTL DEF Spec

\* Between the drains of a repository its published root commits to its map and
\* its latest time, when nobody renames (build_snapshot at the end of
\* apply_op_inner and retry_pending).
THEOREM RootIsCurrent ==
  ASSUME NoRename
  PROVE  Spec => []RootCurrent
<1>1. SettleInv => RootCurrent
  BY SMTT(60) DEF SettleInv, HeadOK, Published, RootCurrent
<1> QED
  BY <1>1, SettleInvHolds, PTL

\* At rest nothing is parked that could be applied, and every logged operation
\* is applied or parked, when nobody renames (drain_pending's passes).
THEOREM QueueIsSettled ==
  ASSUME NoRename
  PROVE  Spec => []QueueSettled
<1>1. SettleInv => QueueSettled
  BY SMTT(60) DEF SettleInv, DrainOK, Settled, Covered, QueueSettled
<1> QED
  BY <1>1, SettleInvHolds, PTL

\* A device parks no operation of its own, when nobody renames (apply_local).
THEOREM OwnNeverParked ==
  ASSUME NoRename
  PROVE  Spec => []LocalNeverParks
<1>1. SettleInv => LocalNeverParks
  BY Zenon DEF SettleInv
<1> QED
  BY <1>1, SettleInvHolds, PTL

-----------------------------------------------------------------------------
(* Convergence *)

\* Without renames an entry lists the inode its own operation made.
OwnInodes(s) == \A d \in Inode : \A e \in s.dir[d].adds : e.inode = e.dot

EntryInv == \A r \in Device : OwnInodes(rep[r])

\* The empty directories have no entries.
LEMMA EntryInvInit == Init => EntryInv
  BY BootstrappedEmpty, SMTT(60) DEF Init, EntryInv, OwnInodes, EmptyMap

\* Only a create adds an entry.
LEMMA EntryInvNext ==
  BaseInv /\ SettleInv' /\ EntryInv /\ [Next]_vars => EntryInv'
<1> SUFFICES ASSUME BaseInv, SettleInv', EntryInv, [Next]_vars PROVE EntryInv'
  BY Zenon
<1>1. CASE UNCHANGED vars
  <2>1. rep' = rep
    BY <1>1, Zenon DEF vars
  <2> QED
    BY <2>1, Zenon DEF EntryInv
<1>2. CASE Next
  <2>1. TypeInv /\ LogInv /\ TreeInv
    BY Zenon DEF BaseInv
  <2>2a. PICK r \in Device : \E x, t : Step(r, x, t)
    BY <1>2, <2>1, StepShape, SMTT(60)
  <2>2. PICK x, t : Step(r, x, t)
    BY <2>2a, SMTT(60)
  <2>3. /\ \A q \in Device : rep'[q] = IF q = r THEN x ELSE rep[q]
        /\ Rests(rep[r], x) \/ \E op \in Op : \E k : Lands(rep[r], k, x, op)
    BY <2>1, <2>2, LandsOrRests, SMTT(60)
  <2>4. OwnInodes(rep[r])
    BY Zenon DEF EntryInv
  <2>5. CASE Rests(rep[r], x)
    <3>1. x.dir = rep[r].dir
      BY <2>5, SMTT(60) DEF Rests, SameNamespace
    <3> QED
      BY <2>3, <2>4, <3>1, SMTT(60) DEF EntryInv, OwnInodes
  <2>6. CASE \E op \in Op : \E k : Lands(rep[r], k, x, op)
    <3>1a. PICK op \in Op : \E k : Lands(rep[r], k, x, op)
      BY <2>6, SMTT(60)
    <3>1. PICK k : Lands(rep[r], k, x, op)
      BY <3>1a, SMTT(60)
    <3>2. /\ RepType(k) /\ EntriesOK(k) /\ k.dir = rep[r].dir /\ op.id \notin k.applied
          /\ CanApply(k, op) /\ SameNamespace(x, Effect(k, op)) /\ op \in x.oplog
      BY <3>1, SMTT(60) DEF Lands, SameNamespace
    <3>3. op.kind # "Rename"
      BY <2>3, <3>2, ZenonT(60) DEF SettleInv, Logged, Aimed
    <3>4. OwnInodes(x)
      <4>1. CASE op.kind \in {"Mkdir", "CreateFile"}
        <5>1. Hangs(k, x, op)
          BY <3>2, <4>1, CreateShape, Zenon
        <5> DEFINE ne == DirEntry(op, op.id, EntryTypeOf(op), op.name)
        <5>2. /\ \A d \in Inode \ {op.parent} : x.dir[d].adds = k.dir[d].adds
              /\ x.dir[op.parent].adds = k.dir[op.parent].adds \cup {ne}
          BY <5>1, Zenon DEF Hangs
        <5>3. ne.inode = ne.dot
          BY Zenon DEF DirEntry
        <5> HIDE DEF ne
        <5> SUFFICES ASSUME NEW d \in Inode, NEW e \in x.dir[d].adds PROVE e.inode = e.dot
          BY Zenon DEF OwnInodes
        <5>4. e = ne \/ e \in k.dir[d].adds
          BY <5>2, Zenon
        <5> QED
          BY <2>4, <3>2, <5>3, <5>4, Zenon DEF OwnInodes
      <4>2. CASE op.kind = "Write"
        BY <2>4, <3>2, <4>2, WriteShape, SMTT(60) DEF OwnInodes
      <4>3. CASE op.kind = "Unlink"
        BY <2>4, <3>2, <4>3, UnlinkShape, SMTT(60) DEF OwnInodes
      <4> QED
        BY <3>3, <4>1, <4>2, <4>3, SMTT(60) DEF Op, Kind
    <3> QED
      BY <2>3, <3>4, SMTT(60) DEF EntryInv
  <2> QED
    BY <2>3, <2>5, <2>6, Zenon
<1> QED
  BY <1>1, <1>2, Zenon

\* Of two repositories with the same log, one that is at rest and lacks no
\* content has applied whatever the other has.
LEMMA AppliesAll ==
  ASSUME BaseInv, SettleInv, NEW r \in Device, NEW q \in Device, task[r].at = "idle",
         rep[r].oplog = rep[q].oplog, MissingChunks(rep[r]) = {}
  PROVE  AppliedOps(rep[q]) \subseteq AppliedOps(rep[r])
<1> DEFINE A == AppliedOps(rep[r])
           B == AppliedOps(rep[q])
           D == B \ A
<1>1. /\ RepType(rep[r]) /\ EntriesOK(rep[r]) /\ ViewOK(rep[r], A) /\ ViewOK(rep[q], B)
      /\ Grounded(rep[q]) /\ Covered(rep[r]) /\ Settled(rep[r])
  BY Zenon DEF BaseInv, TypeInv, TreeInv, ViewInv, OriginInv, SettleInv, DrainOK
<1> SUFFICES ASSUME D # {} PROVE FALSE
  BY Zenon
<1>2. PICK m \in D : Abstract!Touches(m) \cap IdsOf(D) = {}
  BY <1>1, SMTT(60) DEF Grounded
<1>3. m \in rep[r].oplog /\ m.id \notin rep[r].applied /\ m \in B /\ Logged(m) /\ m \in Op
  BY <1>1, ZenonT(60) DEF AppliedOps, Logged, RepType
<1>4. m \in rep[r].pending
  <2>1. PICK p \in rep[r].pending : p.id = m.id
    BY <1>1, <1>3, SMTT(60) DEF Covered, IdsOf
  <2>2. p = m
    BY <1>3, <2>1, SMTT(60) DEF BaseInv, LogInv, LogWellFormed
  <2> QED
    BY <2>1, <2>2, SMTT(60)
<1>5. Aimed(m)
  BY <1>3, SMTT(60) DEF SettleInv
<1>6. Unmet(rep[r], m)
  BY <1>1, <1>4, <1>5, NeverFails, SMTT(60) DEF Settled, CanApply
<1>7. \A i \in Abstract!Touches(m) : i \in Abstract!Made(A)
  <2> SUFFICES ASSUME NEW i \in Abstract!Touches(m), i # Root
               PROVE  i \in Abstract!Made(A)
    BY Shared, SMTT(60) DEF Abstract!Made
  <2>1. i \in Abstract!Made(B)
    BY <1>1, <1>3, ZenonT(60) DEF ViewOK
  <2>2. PICK c \in Abstract!Creates(B) : c.id = i
    BY <2>1, Shared, SMTT(60) DEF Abstract!Made
  <2>3. c \in B /\ c \notin D
    BY <1>2, <2>2, SMTT(60) DEF IdsOf, Abstract!Creates
  <2>4. c \in Abstract!Creates(A)
    BY <2>2, <2>3, SMTT(60) DEF Abstract!Creates
  <2> QED
    BY <2>2, <2>4, Shared, ZenonT(60) DEF Abstract!Made
<1>8. CASE m.kind = "Write"
  <2>1. m.inode \in Inode /\ m.inode \in Abstract!Touches(m)
    BY <1>3, <1>8, SMTT(60) DEF Op, Abstract!Touches
  <2>2. rep[r].inode[m.inode] # None
    BY <1>1, <1>7, <2>1, ZenonT(60) DEF ViewOK
  <2>3. m.chunks \subseteq rep[r].blobs
    <3> DEFINE U == UNION {op.chunks : op \in rep[r].pending}
    <3>1. m.chunks \in {op.chunks : op \in rep[r].pending}
      BY <1>4, SMTT(60)
    <3>2. m.chunks \subseteq U
      BY <3>1, Zenon
    <3>3. U \ rep[r].blobs = {}
      BY Zenon DEF MissingChunks
    <3> HIDE DEF U
    <3> QED
      BY <3>2, <3>3, SMTT(60)
  <2> QED
    BY <1>6, <1>8, <2>2, <2>3, ZenonT(60) DEF Unmet, WriteUnmet
<1>9. CASE m.kind # "Write"
  <2>1. m.parent \in Inode /\ m.parent \in Abstract!Touches(m)
    BY <1>3, <1>5, <1>9, SMTT(60) DEF Op, Abstract!Touches, Aimed
  <2>2. rep[r].inode[m.parent] # None
    BY <1>1, <1>7, <2>1, ZenonT(60) DEF ViewOK
  <2>3. IsDir(rep[r], m.parent)
    <3>1. CASE m.parent = Root
      BY <1>1, <3>1, SMTT(60) DEF EntriesOK
    <3>2. CASE \E c : Logged(c) /\ c.id = m.parent /\ c.kind = "Mkdir"
      BY <2>2, <3>2, KindOf, SMTT(60) DEF IsDir, EntryTypeOf
    <3> QED
      BY <1>5, <1>9, <3>1, <3>2, ZenonT(60) DEF Aimed
  <2> QED
    BY <1>5, <1>6, <1>9, <2>3, SMTT(60) DEF Unmet, CreateUnmet, UnlinkUnmet, Aimed
<1> QED
  BY <1>8, <1>9, Zenon

\* Without renames the inodes and the directories follow from the operations
\* applied, not just the names and contents.
LEMMA SameOpsSameTables ==
  ASSUME BaseInv, EntryInv, NEW r \in Device, NEW q \in Device,
         AppliedOps(rep[r]) = AppliedOps(rep[q])
  PROVE  rep[r].inode = rep[q].inode /\ rep[r].dir = rep[q].dir
<1> DEFINE s == rep[r]
           y == rep[q]
           A == AppliedOps(s)
<1>1. /\ RepType(s) /\ Minted(s) /\ EntriesOK(s) /\ OwnInodes(s) /\ ViewOK(s, A)
      /\ RepType(y) /\ Minted(y) /\ EntriesOK(y) /\ OwnInodes(y) /\ ViewOK(y, A)
  BY Zenon DEF BaseInv, TypeInv, TreeInv, ViewInv, OriginInv, EntryInv
<1>2. \A a \in s.oplog, b \in y.oplog : a.id = b.id => a = b
  BY Zenon DEF BaseInv, LogInv, LogWellFormed
<1>3. ViewOf(s) = ViewOf(y)
  BY ViewIsView, SMTT(60) DEF BaseInv
<1>4. /\ \A d \in Inode : NamesOf(s.dir[d]) = NamesOf(y.dir[d]) /\ s.dir[d].removes = y.dir[d].removes
      /\ \A i \in Inode \ {Root} : /\ s.inode[i] # None <=> y.inode[i] # None
                                   /\ s.inode[i] # None => s.inode[i].content = y.inode[i].content
  <2>1. \A i \in Inode : s.inode[i] # None <=> y.inode[i] # None
    BY <1>1, ZenonT(60) DEF ViewOK
  <2>2. \A d \in Inode : ViewOf(s).names[d] = NamesOf(s.dir[d]) /\ ViewOf(y).names[d] = NamesOf(y.dir[d])
    BY ZenonT(60) DEF ViewOf
  <2>3. \A d \in Inode : ViewOf(s).removes[d] = s.dir[d].removes /\ ViewOf(y).removes[d] = y.dir[d].removes
    BY Zenon DEF ViewOf
  <2>4. \A i \in Inode \ {Root} :
          /\ s.inode[i] # None => ViewOf(s).content[i] = s.inode[i].content
          /\ y.inode[i] # None => ViewOf(y).content[i] = y.inode[i].content
    BY Zenon DEF ViewOf
  <2> HIDE DEF s, y
  <2> QED
    BY <1>3, <2>1, <2>2, <2>3, <2>4, SMTT(60)
<1>5. ASSUME NEW i \in Inode PROVE s.inode[i] = y.inode[i]
  <2>1. CASE i = Root
    BY <1>1, <2>1, SMTT(60) DEF Minted
  <2>2. CASE i # Root /\ s.inode[i] = None
    BY <1>4, <2>2, SMTT(60)
  <2>3. CASE i # Root /\ s.inode[i] # None
    <3>1. y.inode[i] # None /\ s.inode[i].content = y.inode[i].content
      BY <1>4, <2>3, Zenon
    <3>2. PICK a : MadeBy(s, i, a)
      BY <1>1, <2>3, Zenon DEF Minted
    <3>3. PICK b : MadeBy(y, i, b)
      BY <1>1, <2>3, <3>1, Zenon DEF Minted
    <3>4. a = b
      BY <1>2, <3>2, <3>3, SMTT(60) DEF MadeBy
    <3>5. s.inode[i].kind = y.inode[i].kind /\ s.inode[i].ctime = y.inode[i].ctime
      BY <3>2, <3>3, <3>4, SMTT(60) DEF MadeBy
    <3>6. s.inode[i] \in InodeRec /\ y.inode[i] \in InodeRec
      BY <1>1, <2>3, <3>1, ZenonT(60) DEF RepType
    <3> HIDE DEF s, y
    <3> QED
      BY <3>1, <3>5, <3>6, SMTT(60) DEF InodeRec
  <2> QED
    BY <2>1, <2>2, <2>3, SMTT(60)
<1>6. s.inode = y.inode
  BY <1>1, <1>5, SMTT(60) DEF RepType
<1>7. ASSUME NEW u, NEW v, u \in {s, y}, v \in {s, y}, NEW d \in Inode, NEW e \in u.dir[d].adds
      PROVE  e \in v.dir[d].adds
  <2>1. NamesOf(u.dir[d]) = NamesOf(v.dir[d]) /\ u.inode = v.inode
    BY <1>4, <1>6, <1>7, SMTT(60)
  <2>a. <<e.name, e.dot, e.time>> \in NamesOf(u.dir[d])
    BY <1>7, SMTT(60) DEF NamesOf
  <2>b. <<e.name, e.dot, e.time>> \in NamesOf(v.dir[d])
    BY <2>1, <2>a, SMTT(60)
  <2>2. PICK g \in v.dir[d].adds : <<e.name, e.dot, e.time>> = <<g.name, g.dot, g.time>>
    BY <2>b, SMTT(60) DEF NamesOf
  <2>3. e.name = g.name /\ e.dot = g.dot /\ e.time = g.time
    BY <2>2, SMTT(60)
  <2>4. e.inode = e.dot /\ g.inode = g.dot
    BY <1>1, <1>7, SMTT(60) DEF OwnInodes
  <2>5. e.kind = u.inode[e.inode].kind /\ g.kind = v.inode[g.inode].kind
    BY <1>1, <1>7, ZenonT(60) DEF EntriesOK
  <2>6. e \in Entry /\ g \in Entry
    BY <1>1, <1>7, ZenonT(60) DEF RepType, DirMap
  <2>7. e = g
    BY <2>1, <2>3, <2>4, <2>5, <2>6, SMTT(60) DEF Entry
  <2> QED
    BY <2>7, SMTT(60)
<1>8. ASSUME NEW d \in Inode PROVE s.dir[d] = y.dir[d]
  <2>a. s \in {s, y} /\ y \in {s, y}
    BY Zenon
  <2>b. \A e \in s.dir[d].adds : e \in y.dir[d].adds
    BY <1>7, <2>a, Zenon
  <2>c. \A e \in y.dir[d].adds : e \in s.dir[d].adds
    BY <1>7, <2>a, SMTT(60)
  <2>1. s.dir[d].adds = y.dir[d].adds /\ s.dir[d].removes = y.dir[d].removes
    BY <1>4, <2>b, <2>c, ZenonT(60)
  <2>2. s.dir[d] \in DirMap /\ y.dir[d] \in DirMap
    BY <1>1, Zenon DEF RepType
  <2> HIDE DEF s, y
  <2> QED
    BY <2>1, <2>2, SMTT(60) DEF DirMap
<1>9. s.dir = y.dir
  BY <1>1, <1>8, SMTT(60) DEF RepType
<1> QED
  BY <1>6, <1>9, SMTT(60)

\* Two repositories at rest that hold the same operations and lack no content
\* have applied the same operations and publish the same root and time, when
\* nobody renames (namespace.rs, snapshot.rs: the root hash of equal sets).
THEOREM RepositoriesConverge ==
  ASSUME NoRename
  PROVE  Spec => []Convergence
<1>1. BaseInv /\ SettleInv /\ EntryInv /\ ImapIsWalk => Convergence
  <2> SUFFICES ASSUME BaseInv, SettleInv, EntryInv, ImapIsWalk, NEW r \in Device, NEW q \in Device,
                      task[r].at = "idle", task[q].at = "idle", rep[r].oplog = rep[q].oplog,
                      MissingChunks(rep[r]) = {}, MissingChunks(rep[q]) = {}
               PROVE  rep[r].applied = rep[q].applied /\ rep[r].head = rep[q].head
    BY Zenon DEF Convergence
  <2>1. AppliedOps(rep[r]) = AppliedOps(rep[q])
    <3>1. AppliedOps(rep[q]) \subseteq AppliedOps(rep[r])
      BY AppliesAll, SMTT(60)
    <3>2. AppliedOps(rep[r]) \subseteq AppliedOps(rep[q])
      BY AppliesAll, SMTT(60)
    <3> QED
      BY <3>1, <3>2, ZenonT(60)
  <2>2. rep[r].applied = rep[q].applied
    <3>1. \A p \in Device : rep[p].applied = IdsOf(AppliedOps(rep[p]))
      BY SMTT(60) DEF BaseInv, LogInv, LogWellFormed, AppliedOps, IdsOf
    <3> QED
      BY <2>1, <3>1, SMTT(60)
  <2>3. rep[r].imap = rep[q].imap
    <3>1. rep[r].inode = rep[q].inode /\ rep[r].dir = rep[q].dir
      BY <2>1, SameOpsSameTables, Zenon
    <3>2. WalkedMap(rep[r]) = WalkedMap(rep[q])
      <4>1. DirsFrom(rep[r], Root) = DirsFrom(rep[q], Root)
        BY <2>2, <3>1, SMTT(60) DEF DirsFrom, DirLinks
      <4>2. LiveFiles(rep[r]) = LiveFiles(rep[q])
        BY <3>1, <4>1, Zenon DEF LiveFiles
      <4>3. \A i \in Inode : /\ DirObject(rep[r], i) = DirObject(rep[q], i)
                             /\ FileObject(rep[r], i) = FileObject(rep[q], i)
        BY <3>1, Zenon DEF DirObject, FileObject
      <4> QED
        BY <4>1, <4>2, <4>3, Zenon DEF WalkedMap
    <3> QED
      BY <3>2, Zenon DEF ImapIsWalk
  <2>4. rep[r].time = rep[q].time
    <3>1. /\ rep[r].time \in Nat /\ rep[q].time \in Nat
          /\ \A op \in AppliedOps(rep[r]) : op.time \in Nat
      BY KeyType, SMTT(60) DEF BaseInv, TypeInv, RepType, AppliedOps
    <3>2. Timed(rep[r]) /\ Timed(rep[q])
      BY Zenon DEF BaseInv, OriginInv
    <3> QED
      BY <2>1, <3>1, <3>2, SMTT(60) DEF Timed
  <2>5. Published(rep[r]) /\ Published(rep[q])
    BY ZenonT(60) DEF SettleInv, HeadOK
  <2> QED
    BY <2>2, <2>3, <2>4, <2>5, SMTT(60) DEF Published
<1>2. BaseInv /\ SettleInv' /\ EntryInv /\ [Next]_vars => EntryInv'
  BY EntryInvNext, SMTT(60)
<1>3. Spec => []SettleInv
  BY SettleInvHolds, SMTT(60)
<1>4. Spec => []EntryInv
  BY <1>2, <1>3, BaseInvHolds, EntryInvInit, PTL DEF Spec
<1> QED
  BY <1>1, <1>3, <1>4, BaseInvHolds, MapIsMaintained, PTL
=============================================================================
