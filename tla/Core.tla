-------------------------------- MODULE Core --------------------------------
(***************************************************************************)
(* A set of repositories that issue operations, replicate them and apply   *)
(* them (crates/core: apply.rs, ops.rs).                                   *)
(*                                                                         *)
(* One handler runs at a time in a repository (the CLI and the browser     *)
(* build work this way); repositories interleave freely.  A handler that   *)
(* finds parked operations retries them one row per step.                  *)
(***************************************************************************)
EXTENDS Namespace

CONSTANTS
  Issuer,   \* bound: devices whose users issue operations
  Calls,    \* bound: the calls they make, among the Local... actions below
  Browser   \* devices that exchange exports by hand; the others pull from peers

ASSUME IssuerAssumption == Issuer \subseteq Device /\ Browser \subseteq Device

VARIABLES
  rep,      \* rep[r]: the repository of device r
  task      \* task[r]: what its running handler has still to do

vars == <<rep, task>>

-----------------------------------------------------------------------------
(* What one operation needs, and what it does (apply.rs, mutate and below) *)

WriteCanWin(s, op) == KeyLess(s.inode[op.inode].content.key, OpKey(op))

\* The surviving entries a rename observed; it moves the one of greatest dot.
Observed(s, op) == {e \in GetAll(s.dir[op.parent], op.name) : e.dot \in op.observed}

MovedEntry(s, op) ==
  CHOOSE e \in Observed(s, op) : e.dot = GreatestDot(DotsOf(Observed(s, op)))

\* mutate_create
CreateUnmet(s, op) == ~IsDir(s, op.parent)

\* Mutant: a write does not wait for its content.
WriteUnmetNoContent(s, op) == s.inode[op.inode] = None

\* A write that cannot win the register is satisfied whatever it lacks.
WriteUnmet(s, op) ==
  \/ s.inode[op.inode] = None
  \/ /\ s.inode[op.inode].kind = "File"
     /\ WriteCanWin(s, op)
     /\ ~(op.chunks \subseteq s.blobs)

WriteFails(s, op) == s.inode[op.inode] # None /\ s.inode[op.inode].kind # "File"

RenameUnmet(s, op) ==
  \/ ~IsDir(s, op.parent)
  \/ ~IsDir(s, op.newParent)
  \/ op.observed # {} /\ Observed(s, op) = {}

\* Mutant: no check for a move into the own subtree.
RenameFailsNever(s, op) == FALSE

RenameFails(s, op) ==
  /\ ~RenameUnmet(s, op)
  /\ Observed(s, op) # {}
  /\ MovedEntry(s, op).kind = "Dir"
  /\ SubtreeContains(s, MovedEntry(s, op).inode, op.newParent)

UnlinkUnmet(s, op) == ~IsDir(s, op.parent)

\* mutate returns Unmet: the operation is parked.
Unmet(s, op) ==
  \/ op.kind \in {"Mkdir", "CreateFile"} /\ CreateUnmet(s, op)
  \/ op.kind = "Write"  /\ WriteUnmet(s, op)
  \/ op.kind = "Rename" /\ RenameUnmet(s, op)
  \/ op.kind = "Unlink" /\ UnlinkUnmet(s, op)

\* mutate returns an error: the handler stops where it is.
Fails(s, op) ==
  \/ op.kind = "Write"  /\ WriteFails(s, op)
  \/ op.kind = "Rename" /\ RenameFails(s, op)

\* mutate returns Done.
CanApply(s, op) == ~Unmet(s, op) /\ ~Fails(s, op)

CreateEffect(s, op) ==
  LET new == InodeForOp(op.id) IN
  [s EXCEPT !.inode[new]      = InodeRecord(op),
            !.parent[new]     = op.parent,
            !.dir[new]        = IF op.kind = "Mkdir" THEN EmptyMap ELSE @,
            !.dir[op.parent]  = Add(@, DirEntry(op, new, EntryTypeOf(op), op.name))]

\* Mutant: assign rather than merge.
WriteEffectAssign(s, op) ==
  [s EXCEPT !.inode[op.inode].content = [key |-> OpKey(op), value |-> FileNode(op)]]

WriteEffect(s, op) ==
  [s EXCEPT !.inode[op.inode].content =
     MergeReg(@, [key |-> OpKey(op), value |-> FileNode(op)])]

\* Mutant: only the moved entry leaves its old name.
RenameEffectMovedOnly(s, op) ==
  IF Observed(s, op) = {}
    THEN s
    ELSE LET e == MovedEntry(s, op) IN
         [s EXCEPT
            !.parent[e.inode]   = op.newParent,
            !.dir[op.parent]    = RemoveDots(@, op.name, {e.dot}),
            !.dir[op.newParent] = Add(@, DirEntry(op, e.inode, e.kind, op.newName))]

\* With nothing observed there is nothing to move, and the rename is done.
RenameEffect(s, op) ==
  IF Observed(s, op) = {}
    THEN s
    ELSE LET e == MovedEntry(s, op) IN
         [s EXCEPT
            !.parent[e.inode]   = op.newParent,
            !.dir[op.parent]    = RemoveDots(@, op.name, op.observed),
            !.dir[op.newParent] = Add(@, DirEntry(op, e.inode, e.kind, op.newName))]

UnlinkEffect(s, op) ==
  [s EXCEPT !.dir[op.parent] = RemoveDots(@, op.name, op.observed)]

Effect(s, op) ==
  CASE op.kind \in {"Mkdir", "CreateFile"} -> CreateEffect(s, op)
    [] op.kind = "Write"                   -> WriteEffect(s, op)
    [] op.kind = "Rename"                  -> RenameEffect(s, op)
    [] op.kind = "Unlink"                  -> UnlinkEffect(s, op)

\* Mutant: a removal patches the directory it removes from.
MaintainByPatch(s, op) ==
  CASE op.kind \in {"Mkdir", "CreateFile"} ->
         RefreshMapEntry(RefreshMapEntry(s, op.parent), InodeForOp(op.id))
    [] op.kind = "Write" -> RefreshMapEntry(s, op.inode)
    [] OTHER             -> RefreshMapEntry(s, op.parent)

MaintainInodeMap(s, op) ==
  CASE op.kind \in {"Mkdir", "CreateFile"} ->
         RefreshMapEntry(RefreshMapEntry(s, op.parent), InodeForOp(op.id))
    [] op.kind = "Write" -> RefreshMapEntry(s, op.inode)
    [] OTHER             -> [s EXCEPT !.imap = WalkedMap(s)]

\* Mutant: the parked row stays.
MarkAppliedOnly(s, op) == [s EXCEPT !.applied = @ \cup {op.id}]

\* mark_op_applied and clear_pending.
MarkApplied(s, op) ==
  [s EXCEPT !.applied = @ \cup {op.id}, !.pending = {p \in @ : p.id # op.id}]

ObserveTime(s, op) == [s EXCEPT !.time = IF op.time > @ THEN op.time ELSE @]

\* The Done branch of apply_op_inner and of drain_pending.
Commit(s, op) == MaintainInodeMap(ObserveTime(MarkApplied(Effect(s, op), op), op), op)

-----------------------------------------------------------------------------
(* Handlers.  at is "idle", "drain" (inside drain_pending), "write" (in     *)
(* write_file, between the create and the write) or "import" (in the        *)
(* browser's import, between two operations).  then is what the handler     *)
(* goes on with after a drain.                                              *)

Idle == [at |-> "idle", todo |-> {}, progressed |-> FALSE, snap |-> FALSE, then |-> None]

Resume(then) == IF then = None THEN Idle ELSE [Idle EXCEPT !.at = then.at, !.then = then]

\* Mutant: no trailing snapshot.
EndDrainNoSnapshot(r, s, snap, then) ==
  /\ rep' = [rep EXCEPT ![r] = s]
  /\ task' = [task EXCEPT ![r] = Resume(then)]

\* drain_pending returned: snapshot if anything was applied, and flush.
EndDrain(r, s, snap, then) ==
  /\ rep' = [rep EXCEPT ![r] = IF snap THEN BuildSnapshot(s) ELSE s]
  /\ task' = [task EXCEPT ![r] = Resume(then)]

\* Mutant: parked operations are not retried.
BeginPassNever(r, s, snap, then) == EndDrain(r, s, snap, then)

\* One pass of drain_pending reads the parked rows once; none ends the drain.
BeginPass(r, s, snap, then) ==
  IF s.pending = {}
    THEN EndDrain(r, s, snap, then)
    ELSE /\ rep' = [rep EXCEPT ![r] = s]
         /\ task' = [task EXCEPT ![r] =
                      [at |-> "drain", todo |-> IdsOf(s.pending), progressed |-> FALSE,
                       snap |-> snap, then |-> then]]

\* An error leaves the handler with what it wrote so far.
Abort(r, s) ==
  /\ rep' = [rep EXCEPT ![r] = s]
  /\ task' = [task EXCEPT ![r] = Idle]

AppendOp(s, op) == [s EXCEPT !.oplog = @ \cup {op}]

StorePending(s, op) == [s EXCEPT !.pending = @ \cup {op}]

\* apply_op_inner on a verified operation, which its caller follows with done
\* or, when the operation was parked, with parked.
ApplyOp(r, s, op, done, parked) ==
  LET kept == AppendOp(s, op) IN
  IF op.id \in s.applied THEN EndDrain(r, s, FALSE, done)
  ELSE IF Fails(kept, op) THEN Abort(r, kept)
  ELSE IF Unmet(kept, op) THEN BeginPass(r, StorePending(kept, op), FALSE, parked)
  ELSE BeginPass(r, Commit(kept, op), TRUE, done)

\* One row of a pass, in key order.
DrainRow(r) ==
  /\ task[r].at = "drain"
  /\ task[r].todo # {}
  /\ LET s   == rep[r]
         id  == LeastDot(task[r].todo)
         op  == CHOOSE o \in s.pending : o.id = id
         row == [task[r] EXCEPT !.todo = @ \ {id}]
     IN  IF id \in s.applied
           THEN /\ rep' = [rep EXCEPT ![r].pending = {p \in @ : p.id # id}]
                /\ task' = [task EXCEPT ![r] = [row EXCEPT !.progressed = TRUE]]
         ELSE IF Fails(s, op) THEN Abort(r, s)
         ELSE IF Unmet(s, op)
           THEN UNCHANGED rep /\ task' = [task EXCEPT ![r] = row]
           ELSE /\ rep' = [rep EXCEPT ![r] = Commit(s, op)]
                /\ task' = [task EXCEPT ![r] = [row EXCEPT !.progressed = TRUE, !.snap = TRUE]]

\* The end of a pass: another one after progress, else the end of the drain.
DrainPass(r) ==
  /\ task[r].at = "drain"
  /\ task[r].todo = {}
  /\ IF task[r].progressed
       THEN BeginPass(r, rep[r], task[r].snap, task[r].then)
       ELSE EndDrain(r, rep[r], task[r].snap, task[r].then)

-----------------------------------------------------------------------------
(* Local calls (ops.rs).  A user reaches the directories of the live tree. *)

\* make_op: the next counter of this device, the clock reading, the kind.
NewOp(r, kind, time) ==
  [id |-> <<r, rep[r].next + 1>>, time |-> time, kind |-> kind, parent |-> Root,
   name |-> None, newParent |-> Root, newName |-> None, observed |-> {},
   inode |-> Root, chunks |-> {}]

\* apply_local, with room for n operations below the bound.
MayCall(r, call, n) ==
  /\ r \in Issuer
  /\ call \in Calls
  /\ task[r].at = "idle"
  /\ rep[r].next + n <= MaxOps

\* Mutant: the counter is bumped twice.
ApplyLocalTwice(r, op, done) == ApplyOp(r, [rep[r] EXCEPT !.next = @ + 2], op, done, None)

\* apply_local reports a parked operation as an error, which ends the call.
ApplyLocal(r, op, done) == ApplyOp(r, [rep[r] EXCEPT !.next = @ + 1], op, done, None)

\* mkdir_p makes one directory per missing component.
LocalMkdir(r) ==
  /\ MayCall(r, "Mkdir", 1)
  /\ \E d \in DirsFrom(rep[r], Root), n \in Name, t \in Times :
       /\ GetAll(rep[r].dir[d], n) = {}
       /\ ApplyLocal(r, [NewOp(r, "Mkdir", t) EXCEPT !.parent = d, !.name = n], None)

\* write_file where no entry has the name: create, then write.
LocalCreate(r) ==
  /\ MayCall(r, "Create", 2)
  /\ \E d \in DirsFrom(rep[r], Root), n \in Name, t \in Times, c \in Contents :
       /\ GetAll(rep[r].dir[d], n) = {}
       /\ LET op == [NewOp(r, "CreateFile", t) EXCEPT !.parent = d, !.name = n]
          IN  ApplyLocal(r, op, [at |-> "write", inode |-> InodeForOp(op.id),
                                 chunks |-> c, time |-> t, ops |-> {}])

\* Mutant: the write is applied before its content is stored.
WriteOpFirst(r, inode, chunks, t) ==
  ApplyLocal(r, [NewOp(r, "Write", t) EXCEPT !.inode = inode, !.chunks = chunks], None)

\* store_content puts the chunks first, then the write is applied.
WriteOp(r, inode, chunks, t) ==
  ApplyOp(r, [rep[r] EXCEPT !.next = @ + 1, !.blobs = @ \cup chunks],
          [NewOp(r, "Write", t) EXCEPT !.inode = inode, !.chunks = chunks], None, None)

ContinueWrite(r) ==
  /\ task[r].at = "write"
  /\ WriteOp(r, task[r].then.inode, task[r].then.chunks, task[r].then.time)

\* write_file on an existing file.
LocalOverwrite(r) ==
  /\ MayCall(r, "Overwrite", 1)
  /\ \E i \in LiveFiles(rep[r]), t \in Times, c \in Contents : WriteOp(r, i, c, t)

\* observed_entry_ops asks the map for the name the user gave.  An entry shown
\* under a conflict name has no key of that name, and nothing is observed.
ObservedEntryOps(map, e) ==
  IF ShownName(map, e) = <<e.name>> THEN DotsOf(GetAll(map, e.name)) ELSE {}

\* remove_path
LocalUnlink(r) ==
  /\ MayCall(r, "Unlink", 1)
  /\ \E d \in DirsFrom(rep[r], Root), t \in Times : \E e \in Live(rep[r].dir[d]) :
       ApplyLocal(r, [NewOp(r, "Unlink", t) EXCEPT
                        !.parent = d, !.name = e.name,
                        !.observed = ObservedEntryOps(rep[r].dir[d], e)], None)

\* rename_path looks up the source and the destination's parent, no more.
LocalRename(r) ==
  /\ MayCall(r, "Rename", 1)
  /\ \E d, to \in DirsFrom(rep[r], Root), n \in Name, t \in Times :
       \E e \in Live(rep[r].dir[d]) :
         ApplyLocal(r, [NewOp(r, "Rename", t) EXCEPT
                          !.parent = d, !.name = e.name, !.newParent = to, !.newName = n,
                          !.observed = ObservedEntryOps(rep[r].dir[d], e)], None)

-----------------------------------------------------------------------------
(* Replication, as the pull session drives it (net/session.rs).  A batch of *)
(* operations is one operation here: applying one reads nothing of the peer,*)
(* so the rest of a batch can as well be asked for afterwards.              *)

MissingFor(r, src) == {op \in rep[src].oplog : op.id \notin IdsOf(rep[r].oplog)}

\* The peer offers what r lacks in key order.
Deliver(r, src) ==
  /\ r \notin Browser
  /\ task[r].at = "idle"
  /\ MissingFor(r, src) # {}
  /\ LET id == LeastDot(IdsOf(MissingFor(r, src)))
     IN  ApplyOp(r, rep[r], CHOOSE op \in MissingFor(r, src) : op.id = id, None, None)

MissingChunks(s) == (UNION {op.chunks : op \in s.pending}) \ s.blobs

\* Mutant: no retry after content arrives.
FetchBlobsNoRetry(r, src) ==
  /\ r \notin Browser
  /\ task[r].at = "idle"
  /\ \E batch \in SUBSET (MissingChunks(rep[r]) \cap rep[src].blobs) :
       /\ batch # {}
       /\ EndDrain(r, [rep[r] EXCEPT !.blobs = @ \cup batch], FALSE, None)

\* A batch of the content that parked writes lack, then retry_pending.
FetchBlobs(r, src) ==
  /\ r \notin Browser
  /\ task[r].at = "idle"
  /\ \E batch \in SUBSET (MissingChunks(rep[r]) \cap rep[src].blobs) :
       /\ batch # {}
       /\ BeginPass(r, [rep[r] EXCEPT !.blobs = @ \cup batch], FALSE, None)

\* The browser build takes in a peer's whole export: the blobs, then every
\* operation, whether or not it is already held, until one fails.
Import(r, src) ==
  /\ r \in Browser
  /\ task[r].at = "idle"
  /\ rep' = [rep EXCEPT ![r].blobs = @ \cup rep[src].blobs]
  /\ task' = [task EXCEPT ![r] = Resume([at |-> "import", inode |-> Root, chunks |-> {},
                                         time |-> 0, ops |-> rep[src].oplog])]

ContinueImport(r) ==
  /\ task[r].at = "import"
  /\ LET then == task[r].then
         op   == CHOOSE o \in then.ops : o.id = LeastDot(IdsOf(then.ops))
         rest == [then EXCEPT !.ops = @ \ {op}]
     IN  IF then.ops = {}
           THEN BeginPass(r, rep[r], FALSE, None)
           ELSE ApplyOp(r, rep[r], op, rest, rest)

-----------------------------------------------------------------------------

Init ==
  /\ rep = [r \in Device |-> Bootstrapped]
  /\ task = [r \in Device |-> Idle]

Local(r) ==
  \/ LocalMkdir(r)
  \/ LocalCreate(r)
  \/ LocalOverwrite(r)
  \/ LocalUnlink(r)
  \/ LocalRename(r)

\* Steps of a handler that has started.
Work(r) == DrainRow(r) \/ DrainPass(r) \/ ContinueWrite(r) \/ ContinueImport(r)

Sync(r, src) == Deliver(r, src) \/ FetchBlobs(r, src)

Next ==
  \E r \in Device :
    \/ Local(r)
    \/ Work(r)
    \/ \E src \in Device \ {r} : Sync(r, src) \/ Import(r, src)

Spec == Init /\ [][Next]_vars

\* When a step of a handler or of a pull is enabled at r.
Busy(r) ==
  \/ task[r].at # "idle"
  \/ /\ r \notin Browser
     /\ \E src \in Device \ {r} : \/ MissingFor(r, src) # {}
                                  \/ MissingChunks(rep[r]) \cap rep[src].blobs # {}

\* Weak fairness of those steps, with their enabling condition spelt out: a
\* started handler runs on, and sync_loop keeps coming back to every peer.
\* Users owe nothing.
Fairness ==
  \A r \in Device :
    \/ []<>~Busy(r)
    \/ []<><<Work(r) \/ \E src \in Device \ {r} : Sync(r, src)>>_vars

FairSpec == Spec /\ Fairness

-----------------------------------------------------------------------------
(* Properties *)

Entry == [name : Name \cup {None}, dot : Id, inode : Inode, kind : {"Dir", "File"},
          time : Times]

DirMap == [adds : SUBSET Entry, removes : SUBSET ((Name \cup {None}) \X Id)]

Node == [chunks : SUBSET Chunk, mtime : Times]

Register == [key : Nat \X Nat \X Nat, value : Node \cup {None}]

InodeRec == [kind : {"Dir", "File"}, ctime : Nat, content : Register]

\* The object hashes in imap and head are not typed: ImapIsWalk and RootCurrent
\* say what they are.
RepType(s) ==
  s \in [oplog : SUBSET Op, applied : SUBSET Id, pending : SUBSET Op,
         inode : [Inode -> InodeRec \cup {None}], parent : [Inode -> Inode \cup {None}],
         dir : [Inode -> DirMap], imap : {s.imap}, head : {s.head}, time : Nat,
         blobs : SUBSET Chunk, next : 0 .. MaxOps]

Then == [at : {"write", "import"}, inode : Inode, chunks : SUBSET Chunk, time : Nat,
         ops : SUBSET Op]

ASSUME NoneAssumption == None \notin InodeRec /\ None \notin Inode /\ None \notin Then

Task == [at : {"idle", "drain", "write", "import"}, todo : SUBSET Id,
         progressed : BOOLEAN, snap : BOOLEAN, then : Then \cup {None}]

\* Every table a repository keeps, and its handler, has its type; no device
\* allocates a counter beyond the bound.
TypeOK ==
  /\ rep = [r \in Device |-> rep[r]]
  /\ \A r \in Device : RepType(rep[r])
  /\ task \in [Device -> Task]

\* An id names one operation everywhere, no repository numbers an operation
\* past its counter, and a parked operation is a logged one that carries no
\* applied marker (append_op, store_pending, mark_op_applied, next_op_counter).
LogWellFormed ==
  /\ \A r, q \in Device : \A x \in rep[r].oplog, y \in rep[q].oplog : x.id = y.id => x = y
  /\ \A r, q \in Device : \A x \in rep[q].oplog : x.id[1] = r => x.id[2] <= rep[r].next
  /\ \A r \in Device :
       /\ rep[r].applied \subseteq IdsOf(rep[r].oplog)
       /\ rep[r].pending \subseteq rep[r].oplog
       /\ IdsOf(rep[r].pending) \cap rep[r].applied = {}

\* The links of the live entries of a repository: <<directory, inode, dot>>.
Links(s) == UNION {{<<d, e.inode, e.dot>> : e \in Live(s.dir[d])} : d \in Inode}

\* Every inode has at most one live entry, and no directory is below itself:
\* no rename, in whatever order it is applied, makes materialize_tree meet a
\* directory twice ("cycle detected") or a file appear under two names.
TreeShaped ==
  \A r \in Device :
    /\ \A x, y \in Links(rep[r]) : x[2] = y[2] => x = y
    /\ \A i \in Inode \ {Root} : \A d \in DirsFrom(rep[r], i) : ~Lists(rep[r].dir[d], i)
    /\ \A x \in Links(rep[r]) : x[2] # Root

\* The map patched one entry at a time by maintain_inode_map is the map a full
\* walk of the live tree computes, also half way through a drain.
ImapIsWalk == \A r \in Device : rep[r].imap = WalkedMap(rep[r])

\* Between handlers the published root commits to the current tree and the
\* latest time applied (the trailing build_snapshot of apply_op_inner and
\* retry_pending).
RootCurrent ==
  \A r \in Device :
    task[r].at # "drain" => rep[r].head = [root |-> rep[r].imap, time |-> rep[r].time]

\* A file never names a chunk the repository does not hold: mutate_write parks
\* a write until its chunks are there.
NoTornFile ==
  \A r \in Device : \A i \in Inode :
    rep[r].inode[i] # None /\ rep[r].inode[i].content.value # None
      => rep[r].inode[i].content.value.chunks \subseteq rep[r].blobs

\* Between handlers nothing is parked that could be applied, a superseded write
\* whose content never came included, and every logged operation is applied or
\* parked (drain_pending runs to a fixed point).
QueueSettled ==
  \A r \in Device : task[r].at = "idle" =>
    /\ \A op \in rep[r].pending : ~CanApply(rep[r], op)
    /\ IdsOf(rep[r].oplog) = rep[r].applied \cup IdsOf(rep[r].pending)

\* A caller's own operation is never parked: what lookup finds is enough for
\* what mutate asks (apply_local: "a local caller has no such excuse").
LocalNeverParks == \A r \in Device : \A op \in rep[r].pending : op.id[1] # r

\* Two repositories at rest that hold the same operations and lack no content
\* have applied the same operations and publish the same root and time.
Convergence ==
  \A r, q \in Device :
    /\ task[r].at = "idle" /\ task[q].at = "idle"
    /\ rep[r].oplog = rep[q].oplog
    /\ MissingChunks(rep[r]) = {} /\ MissingChunks(rep[q]) = {}
    => rep[r].applied = rep[q].applied /\ rep[r].head = rep[q].head

\* What a directory's listing is made of, without the inodes behind the names.
NamesOf(map) == {<<e.name, e.dot, e.time>> : e \in map.adds}

AppliedOps(s) == {op \in s.oplog : op.id \in s.applied}

ViewOf(s) ==
  [names   |-> [d \in Inode |-> NamesOf(s.dir[d])],
   removes |-> [d \in Inode |-> s.dir[d].removes],
   content |-> [i \in Inode \ {Root} |-> IF s.inode[i] = None THEN None
                                                             ELSE s.inode[i].content]]

\* Two repositories that applied the same operations, in whatever order, list
\* the same names in every directory and hold the same contents, renames
\* included (namespace.rs: "byte-identical", as far as the names go).
SameAppliedSameView ==
  \A r, q \in Device :
    rep[r].applied = rep[q].applied => ViewOf(rep[r]) = ViewOf(rep[q])

Abstract == INSTANCE NamespaceView WITH
  seen <- [r \in Device |-> AppliedOps(rep[r])],
  view <- [r \in Device |-> ViewOf(rep[r])]

\* Core implements NamespaceView: after every step of every handler the names
\* and contents are those of the set of operations applied, and an operation is
\* applied once, after what it names.
ImplementsView == Abstract!ViewSpec

\* A removed entry never comes back, and a register never goes back to an older
\* write, however operations are ordered or repeated.
NoResurrection ==
  [][\A r \in Device : \A i \in Inode :
       /\ rep[r].dir[i].removes \subseteq rep'[r].dir[i].removes
       /\ rep[r].dir[i].adds \subseteq rep'[r].dir[i].adds
       /\ rep[r].inode[i] # None =>
            ~KeyLess(rep'[r].inode[i].content.key, rep[r].inode[i].content.key)]_vars

\* Once users stop, every repository ends with nothing parked and the same root.
EventuallyConverged ==
  <>[](\A r, q \in Device : rep[r].pending = {} /\ rep[r].head = rep[q].head
                             /\ rep[r].applied = rep[q].applied)

-----------------------------------------------------------------------------
(* What the repository says of renames and removals *)

\* Every repository that applied a rename moved the same inode by it (apply.rs,
\* mutate_rename: picking the entry locally "would move a different inode on
\* each replica").
RenameMovesOneInode ==
  \A r, q \in Device : \A d \in Inode :
    \A x \in rep[r].dir[d].adds, y \in rep[q].dir[d].adds : x.dot = y.dot => x.inode = y.inode

\* A removal that succeeds removes the entry at the path it was given (ops.rs,
\* remove_path: "Unlink `path` from its parent directory").
RemovalRemoves ==
  \A r \in Device : \A op \in rep[r].oplog :
    op.kind = "Unlink" /\ op.id \in rep[r].applied => op.observed # {}
=============================================================================
