----------------------------- MODULE Repository -----------------------------
(***************************************************************************)
(* One repository on disk: opening and migrating it, calls that write to   *)
(* it, collection, enrolment, resealing and rotation, with a crash at any  *)
(* write (core: format.rs, state.rs, ops.rs, gc.rs, peers.rs, share.rs).   *)
(*                                                                         *)
(* A command is a chain of store writes; a session record p carries the    *)
(* store it has reached.  One process has the store open, so states inside *)
(* a command matter only to a crash.  The backend's log is one sequence: a *)
(* crash keeps everything up to the last flush, and any prefix after it.   *)
(*                                                                         *)
(* The namespace is the root directory alone and a file has one chunk;     *)
(* Core has trees, several chunks and the inode map.  A record stands for  *)
(* what is kept per inode.  This device's clock is Now, and no operation   *)
(* of a peer in Script is later: make_op does not guard against that.      *)
(***************************************************************************)
EXTENDS Naturals, FiniteSets

CONSTANTS Self,      \* this device
          Peer,      \* devices that may be enrolled
          Key,       \* keys they present, for signing and for sealing
          Script,    \* operations of peers that may arrive
          Now,       \* reading of this device's clock
          Policy,    \* proofs.mode: "none", "transparent", "required" or "commit"
          Stores,    \* what may be on the disk at the start
          MaxOps,    \* bound: operations of this device
          MaxChunks, \* bound: chunks it encrypts
          MaxCrashes, \* bound: crashes
          None

VARIABLES st,      \* the store as the process sees it
          tail,    \* the stores a crash may leave now
          crashes, \* crashes so far
          open,    \* a process has the repository open
          fresh,   \* this build created it
          acked,   \* operations whose call returned
          minted,  \* chunks encrypted so far, each under a key of its own
          barred,  \* devices revoked, and not enrolled for sealing since
          known,   \* chunks each of them had envelopes for when revoked
          rotated  \* those of them with a whole rotation since

vars == <<st, tail, crashes, open, fresh, acked, minted, barred, known, rotated>>

hist == <<fresh, barred, known, rotated>>

-----------------------------------------------------------------------------
(* Stores, operations, and the session of a command *)

\* An operation or a chunk: the device it comes from, and a number of its own.
Id == Nat \X Nat

\* inode is the id of the operation that created it; a create is its own.
Ops == [id : Id, time : Nat, kind : {"CreateFile", "Write", "Unlink"}, inode : Id,
        chunk : Id \cup {None}, to : SUBSET Nat, format : 0 .. 3,
        proof : {"none", "transparent", "commit"}]

Op(id, kind, inode, chunk, to, proof) ==
  [id |-> id, time |-> Now, kind |-> kind, inode |-> inode, chunk |-> chunk,
   to |-> to, format |-> 3, proof |-> proof]

Empty == [ver |-> 0, root |-> FALSE, head |-> "none", ctr |-> 0, log |-> {},
          applied |-> {}, pending |-> {}, rec |-> <<>>, live |-> {}, gone |-> {},
          blobs |-> {}, pin |-> [d \in Peer |-> None], seal |-> [d \in Peer |-> None]]

Session == [s |-> st, mid |-> {}, tail |-> tail, acked |-> acked, minted |-> minted]

Put(p, s) == [p EXCEPT !.s = s, !.mid = @ \cup {s}, !.tail = @ \cup {s}]

\* Variant: nothing is synced.
no_flush(p) == p

flush(p) == [p EXCEPT !.tail = {p.s}]

KeyOf(op) == <<op.time, op.id[1], op.id[2]>>

Less(a, b) ==
  \/ a[1] < b[1]
  \/ a[1] = b[1] /\ (a[2] < b[2] \/ (a[2] = b[2] /\ a[3] < b[3]))

LeastOp(ops) == CHOOSE x \in ops : \A y \in ops \ {x} : Less(<<0, x.id[1], x.id[2]>>, <<0, y.id[1], y.id[2]>>)

IdsOf(ops) == {x.id : x \in ops}

\* An operation without its proof.
Bare(op) == [op EXCEPT !.proof = "none"]

\* Live files with content; rec holds the write that won the register.
Files(s) == {f \in s.live \cap DOMAIN s.rec : s.rec[f] # None}

NodeOf(op) == <<"node", op.id>>

ChunkOf(op) == <<"chunk", op.chunk>>

-----------------------------------------------------------------------------
(* apply.rs *)

write_can_win(s, op) ==
  s.rec[op.inode] = None \/ Less(KeyOf(s.rec[op.inode]), KeyOf(op))

Unmet(s, op) ==
  \/ ~s.root
  \/ /\ op.kind = "Write"
     /\ \/ op.inode \notin DOMAIN s.rec
        \/ write_can_win(s, op) /\ ChunkOf(op) \notin s.blobs

NewRecord(s, f) ==
  [s EXCEPT !.rec = [g \in DOMAIN @ \cup {f} |-> IF g = f THEN None ELSE @[g]]]

\* The writes of mutate, when nothing it needs is missing.
mutate(p, op) ==
  CASE op.kind = "CreateFile" ->
         LET q == Put(p, NewRecord(p.s, op.id)) IN
         Put(q, [q.s EXCEPT !.live = (@ \cup {op.id}) \ q.s.gone])
    [] op.kind = "Write" /\ write_can_win(p.s, op) ->
         LET q == Put(p, [p.s EXCEPT !.blobs = @ \cup {NodeOf(op)}]) IN
         Put(q, [q.s EXCEPT !.rec[op.inode] = op])
    [] op.kind = "Unlink" ->
         Put(p, [p.s EXCEPT !.live = @ \ {op.inode}, !.gone = @ \cup {op.inode}])
    [] OTHER -> p

clear_pending(p, op) == Put(p, [p.s EXCEPT !.pending = @ \ {op.id}])

\* mutate, the applied marker, and out of the queue.
Effect(p, op) ==
  LET q == mutate(p, op) IN
  clear_pending(Put(q, [q.s EXCEPT !.applied = @ \cup {op.id}]), op)

PendingOps(s) == {x \in s.log : x.id \in s.pending}

Retry(p, op) ==
  CASE op.id \in p.s.applied -> clear_pending(p, op)
    [] op.id \notin p.s.applied /\ ~Unmet(p.s, op) -> Effect(p, op)
    [] OTHER -> p

\* The next row of a pass over the queue, in the order of ids; after the last
\* row another pass, if this one progressed.
Turn(x) ==
  IF x.rows # {}
    THEN LET op == LeastOp(x.rows)
             q  == Retry(x.p, op) IN
         [p |-> q, rows |-> x.rows \ {op},
          progressed |-> x.progressed \/ q.s.pending # x.p.s.pending]
    ELSE IF x.progressed THEN [p |-> x.p, rows |-> PendingOps(x.p.s), progressed |-> FALSE]
    ELSE x

\* Every pass but the last takes a row out of the queue.
drain_pending(p) ==
  LET n == Cardinality(p.s.pending) + 1
      run[k \in Nat] ==
        IF k = 0 THEN [p |-> p, rows |-> PendingOps(p.s), progressed |-> FALSE]
                 ELSE Turn(run[k - 1]) IN
  run[n * n].p

build_snapshot(s) == [s EXCEPT !.head = "merkle"]

append_op(s, op) == [s EXCEPT !.log = {x \in @ : x.id # op.id} \cup {op}]

\* Applied, or parked.
Place(p, op) ==
  IF Unmet(p.s, op) THEN Put(p, [p.s EXCEPT !.pending = @ \cup {op.id}])
                    ELSE Effect(p, op)

\* A new head when anything was applied.
Snapshot(p, before) == IF p.s.applied # before THEN Put(p, build_snapshot(p.s)) ELSE p

\* apply_op_inner, past the checks.
apply_op(p, op) ==
  IF op.id \in p.s.applied THEN p
  ELSE flush(Snapshot(drain_pending(Place(Put(p, append_op(p.s, op)), op)), p.s.applied))

retry_pending(p) == Snapshot(drain_pending(p), p.s.applied)

-----------------------------------------------------------------------------
(* peers.rs, state.rs: recipients, and content under a fresh key *)

sealing_recipients(s) == {Self} \cup {d \in Peer : s.pin[d] # None /\ s.seal[d] # None}

\* An envelope is part of the write that carries it.
EnvelopesFor(s, d) == {x.chunk : x \in {y \in s.log : y.id[1] = Self /\ d \in y.to}}

\* The chunk is in the store before an operation names it.
store_content(p) ==
  LET c == <<Self, p.minted + 1>> IN
  [Put(p, [p.s EXCEPT !.blobs = @ \cup {<<"chunk", c>>}]) EXCEPT !.minted = @ + 1]

-----------------------------------------------------------------------------
(* ops.rs, proof.rs: a local operation *)

check_proof(op) == ~(Policy = "required" /\ op.proof = "none")

\* finish_commit_proof falls back when the subject is not in the live map.
ModeOf(s, op) ==
  IF Policy = "commit" /\ op.kind # "Unlink" /\ op.inode \in Files(s)
    THEN "commit" ELSE "transparent"

\* The proven copy replaces the provisional one after the flush.
Prove(p, op) ==
  IF Policy = "none" THEN p
  ELSE Put(p, append_op(p.s, [op EXCEPT !.proof = ModeOf(p.s, op)]))

Issue(p, op) ==
  [Prove(apply_op(Put(p, [p.s EXCEPT !.ctr = @ + 1]), op), op) EXCEPT !.acked = @ \cup {op}]

NextId(s) == <<Self, s.ctr + 1>>

\* A local operation that parks is an error; here its needs are always met.
apply_local(p, kind, inode, chunk, to) ==
  Issue(p, Op(NextId(p.s), kind, inode, chunk, to, "none"))

WriteChunk(p, f) ==
  apply_local(p, "Write", f, <<Self, p.minted>>, sealing_recipients(p.s))

WriteContent(p, f) == WriteChunk(store_content(p), f)

\* write_file to a new name, which creates it first, or to a live file.
write_file(p, f) ==
  IF f = None
    THEN WriteContent(apply_local(p, "CreateFile", NextId(p.s), None, {}), NextId(p.s))
    ELSE WriteContent(p, f)

-----------------------------------------------------------------------------
(* share.rs *)

\* Files this device can open: it is among the recipients.
Readable(s) == {f \in Files(s) : Self \in s.rec[f].to}

\* The list a pass works from, taken at its start: each file with the write
\* whose file node it is going to read.
Encrypted(s) == {<<f, s.rec[f]>> : f \in {g \in Readable(s) : s.rec[g].to # {}}}

\* Same chunk, new envelopes, unless the file is addressed to these already.
Reseal(p, f, op) ==
  LET to == sealing_recipients(p.s) IN
  IF op.to = to THEN p ELSE apply_local(p, "Write", f, op.chunk, to)

\* The next file of a pass.
NextFile(x) ==
  IF x.files = {} THEN x
  ELSE LET e == CHOOSE e \in x.files : TRUE IN
       [p |-> IF x.rotate THEN WriteContent(x.p, e[1]) ELSE Reseal(x.p, e[1], e[2]),
        files |-> x.files \ {e}, rotate |-> x.rotate]

AllFiles(p, rotate) ==
  LET run[k \in Nat] ==
        IF k = 0 THEN [p |-> p, files |-> Encrypted(p.s), rotate |-> rotate]
                 ELSE NextFile(run[k - 1]) IN
  run[Cardinality(Encrypted(p.s))].p

reseal_to_recipients(p) == AllFiles(p, FALSE)

rotate_content(p) == AllFiles(p, TRUE)

-----------------------------------------------------------------------------
(* gc.rs *)

\* Variant: parked operations are no roots.
reachable_hashes_live(s) ==
  UNION {{NodeOf(s.rec[f]), ChunkOf(s.rec[f])} : f \in Files(s)}

reachable_hashes(s) ==
  (UNION {{NodeOf(s.rec[f])}
          \cup (IF NodeOf(s.rec[f]) \in s.blobs THEN {ChunkOf(s.rec[f])} ELSE {}) : f \in Files(s)})
  \cup {ChunkOf(x) : x \in {y \in PendingOps(s) : y.kind = "Write"}}

\* Variant: the inodes of the map, which leaves out a file without content.
reachable_inodes_mapped(s) == Files(s)

reachable_inodes(s) ==
  s.live \cup {x.inode : x \in {y \in PendingOps(s) : y.kind = "Write"}}

sweep_blocked(s) == s.head = "none" \/ ~s.root

Without(s, blobs, recs) ==
  [s EXCEPT !.blobs = @ \ blobs, !.rec = [f \in DOMAIN @ \ recs |-> @[f]]]

\* Blobs go first, then records.  Blobs go in the order of their hashes, which
\* is any order.
collect_garbage(p) ==
  LET g == p.s.blobs \ reachable_hashes(p.s)
      r == DOMAIN p.s.rec \ reachable_inodes(p.s)
      m == {Without(p.s, x, {}) : x \in SUBSET g} \cup {Without(p.s, g, x) : x \in SUBSET r} IN
  IF sweep_blocked(p.s) THEN p
  ELSE flush([p EXCEPT !.s = Without(p.s, g, r), !.mid = @ \cup m])

-----------------------------------------------------------------------------
(* peers.rs: trust *)

\* The sealing key first, on every path; then the signing key.
enrol_peer(p, d, key, seal, rotate) ==
  LET clash == seal # None /\ p.s.seal[d] \notin {None, seal} /\ ~rotate
      q == IF seal = None \/ p.s.seal[d] = seal THEN p
           ELSE flush(Put(p, [p.s EXCEPT !.seal[d] = seal])) IN
  IF clash THEN p
  ELSE IF q.s.pin[d] = key \/ (q.s.pin[d] # None /\ ~rotate) THEN q
  ELSE flush(Put(q, [q.s EXCEPT !.pin[d] = key]))

\* Variant: only the signing key is forgotten.
revoke_pin_only(p, d) ==
  IF p.s.pin[d] = None /\ p.s.seal[d] = None THEN p
  ELSE flush(Put(p, [p.s EXCEPT !.pin[d] = None]))

revoke_peer(p, d) ==
  IF p.s.pin[d] = None /\ p.s.seal[d] = None THEN p
  ELSE LET q == Put(p, [p.s EXCEPT !.pin[d] = None]) IN
       flush(Put(q, [q.s EXCEPT !.seal[d] = None]))

-----------------------------------------------------------------------------
(* format.rs, and bootstrap in state.rs *)

set_format_version(p, v) == flush(Put(p, [p.s EXCEPT !.ver = v]))

\* A head tells an old repository from a directory never written to.
check_format(p) ==
  IF p.s.ver # 0 THEN p
  ELSE set_format_version(p, IF p.s.head = "none" THEN 3 ELSE 1)

bootstrap_if_needed(p) ==
  IF p.s.head # "none" THEN p
  ELSE LET q == Put(p, [p.s EXCEPT !.root = TRUE]) IN
       flush(set_format_version(Put(q, build_snapshot(q.s)), 3))

migrate_v1_to_v2(p) == set_format_version(Put(p, build_snapshot(p.s)), 2)

\* Variant: only live files are looked at.
migrate_live_only(p) ==
  IF \E f \in Files(p.s) : p.s.rec[f].format < 3 THEN p ELSE set_format_version(p, 3)

\* Live files and logged operations must decode, or the stamp stays.
migrate_v2_to_v3(p) ==
  IF \/ \E f \in Files(p.s) : p.s.rec[f].format < 3
     \/ \E x \in p.s.log : x.format < 3
    THEN p ELSE set_format_version(p, 3)

migrate(p) ==
  LET a == check_format(p)
      b == IF a.s.ver = 1 THEN migrate_v1_to_v2(a) ELSE a IN
  IF b.s.ver = 2 THEN migrate_v2_to_v3(b) ELSE b

-----------------------------------------------------------------------------
(* A command runs to its end, or the process dies in it *)

Finish(p) ==
  /\ st' = p.s /\ tail' = p.tail
  /\ acked' = p.acked /\ minted' = p.minted
  /\ UNCHANGED crashes

Die(p) ==
  /\ crashes < MaxCrashes
  /\ crashes' = crashes + 1
  /\ st' \in tail \cup p.mid
  /\ tail' = {st'}
  /\ open' = FALSE
  /\ minted' = p.minted
  /\ UNCHANGED acked

Command(p) ==
  /\ open
  /\ (Finish(p) /\ open' = TRUE) \/ Die(p)
  /\ UNCHANGED hist

\* require_current_format, then bootstrap.
Open ==
  LET a == check_format(Session)
      b == IF a.s.ver = 3 THEN bootstrap_if_needed(a) ELSE a IN
  /\ ~open
  /\ (Finish(b) /\ open' = (b.s.ver = 3)) \/ Die(b)
  /\ UNCHANGED hist

Migrate ==
  LET p == migrate(Session) IN
  /\ ~open
  /\ (Finish(p) /\ UNCHANGED open) \/ Die(p)
  /\ UNCHANGED hist

\* The backend syncs when it is dropped.
Close ==
  /\ open
  /\ open' = FALSE
  /\ tail' = {st}
  /\ UNCHANGED <<st, crashes, acked, minted, hist>>

Crash == open /\ Die(Session) /\ UNCHANGED hist

Room(ops, chunks) == st.ctr + ops <= MaxOps /\ minted + chunks <= MaxChunks

Write == \E f \in {None} \cup (st.live \cap DOMAIN st.rec) :
           /\ Room(IF f = None THEN 2 ELSE 1, 1)
           /\ Command(write_file(Session, f))

RemovePath == \E f \in st.live :
            /\ Room(1, 0)
            /\ Command(apply_local(Session, "Unlink", f, None, {}))

\* A peer offers what the log does not hold.
Receive == \E op \in {x \in Script : x.id \notin IdsOf(st.log)} :
             /\ check_proof(op)
             /\ Command(apply_op(Session, op))

\* missing_chunk_hashes, then the fetch and the retry of session.rs.
Fetch == \E op \in {x \in PendingOps(st) : x.kind = "Write" /\ ChunkOf(x) \notin st.blobs} :
           Command(retry_pending(Put(Session, [st EXCEPT !.blobs = @ \cup {ChunkOf(op)}])))

Collect == Command(collect_garbage(Session))

Share ==
  /\ Room(Cardinality(Encrypted(st)), 0)
  /\ Command(reseal_to_recipients(Session))

RotateAll ==
  LET p == rotate_content(Session) IN
  /\ open
  /\ Room(Cardinality(Encrypted(st)), Cardinality(Encrypted(st)))
  /\ \/ Finish(p) /\ open' = TRUE /\ rotated' = barred
     \/ Die(p) /\ UNCHANGED rotated
  /\ UNCHANGED <<fresh, barred, known>>

\* By the operator, or without a sealing key by a first connection.
Enrol(d, key, seal, rotate) ==
  LET p == enrol_peer(Session, d, key, seal, rotate) IN
  /\ open
  /\ (Finish(p) /\ open' = TRUE) \/ Die(p)
  /\ barred' = IF seal = None THEN barred ELSE barred \ {d}
  /\ rotated' = rotated \cap barred'
  /\ UNCHANGED <<fresh, known>>

Revoke(d) ==
  LET p == revoke_peer(Session, d) IN
  /\ open
  /\ \/ /\ Finish(p) /\ open' = TRUE
        /\ barred' = barred \cup {d}
        /\ known' = [known EXCEPT ![d] = EnvelopesFor(st, d)]
        /\ rotated' = rotated \ {d}
     \/ Die(p) /\ UNCHANGED <<barred, known, rotated>>
  /\ UNCHANGED fresh

-----------------------------------------------------------------------------
(* What is on the disk at the start, and what may arrive *)

IsStore(s) ==
  /\ s \in [ver : 0 .. 3, root : BOOLEAN, head : {"none", "flat", "merkle"}, ctr : Nat,
            log : SUBSET Ops, applied : SUBSET Id, pending : SUBSET Id, rec : {s.rec},
            live : SUBSET Id, gone : SUBSET Id, blobs : {s.blobs},
            pin : [Peer -> Key \cup {None}], seal : [Peer -> Key \cup {None}]]
  /\ s.rec \in [DOMAIN s.rec -> Ops \cup {None}]
  /\ IsFiniteSet(DOMAIN s.rec) /\ IsFiniteSet(s.pending)

\* Numbers are used once, and this device's next operation is the latest.
Numbered(s) ==
  \A x \in s.log : /\ x.id[1] = Self => x.id[2] <= s.ctr
                  /\ Less(KeyOf(x), <<Now, Self, s.ctr + 1>>)
                  /\ \A y \in s.log : x.id = y.id => x = y

\* What is kept was logged first, and only writes wait.
LoggedFirst(s) ==
  /\ s.applied \cup s.pending \cup DOMAIN s.rec \subseteq IdsOf(s.log)
  /\ \A x \in PendingOps(s) : x.kind = "Write"
  /\ \A f \in DOMAIN s.rec :
       s.rec[f] # None => s.rec[f].inode = f /\ \E x \in s.log : Bare(x) = Bare(s.rec[f])

\* A record for every entry, and the file node and chunk of its content.
ListedWhole(s) ==
  \A f \in s.live :
    /\ f \in DOMAIN s.rec
    /\ s.rec[f] # None => {NodeOf(s.rec[f]), ChunkOf(s.rec[f])} \subseteq s.blobs

\* The stamp and the head.
Stamped(s) ==
  /\ IF s.head = "none" THEN s.log = {} ELSE s.root
  /\ s.ver \in {1, 2} => s.head # "none"
  /\ s.ver \in {2, 3} => s.head # "flat"
  /\ s.ver = 3 => \A x \in s.log : x.format = 3

\* A repository that some build left on the disk.
OnDisk(s) == IsStore(s) /\ Numbered(s) /\ LoggedFirst(s) /\ ListedWhole(s) /\ Stamped(s)

ASSUME RepositoryAssumption ==
  /\ Self \in Nat /\ Peer \subseteq Nat \ {Self} /\ Now \in Nat
  /\ None \notin Key /\ None \notin Ops
  /\ {MaxOps, MaxChunks, MaxCrashes} \subseteq Nat

\* Operations of other devices, in the present format and from the past.
ASSUME ScriptAssumption ==
  /\ Script \subseteq Ops
  /\ \A x \in Script : x.id[1] # Self /\ x.format = 3 /\ Less(KeyOf(x), <<Now, Self, 1>>)

\* Peers write chunks encrypted on their side, each for one file, and address
\* them to this device: a rotation leaves out what it cannot open.
ASSUME WritesAssumption ==
  \A x \in {z \in Script : z.kind = "Write"} :
    /\ Self \in x.to /\ x.chunk \in Id /\ x.chunk[1] # Self
    /\ \A y \in Script : y.kind = "Write" /\ x.chunk = y.chunk => x.inode = y.inode

\* Older repositories have no envelopes, and nothing parked.
ASSUME StoresAssumption ==
  \A s \in Stores : OnDisk(s) /\ s.pending = {} /\ \A x \in s.log : x.to = {}

-----------------------------------------------------------------------------
(* The specification *)

Init ==
  /\ st \in Stores
  /\ tail = {st}
  /\ crashes = 0 /\ open = FALSE
  /\ fresh = (st = Empty)
  /\ acked = {} /\ minted = 0
  /\ barred = {} /\ known = [d \in Peer |-> {}] /\ rotated = {}

Next ==
  \/ Open \/ Migrate \/ Close \/ Crash
  \/ Write \/ RemovePath \/ Receive \/ Fetch \/ Collect \/ Share \/ RotateAll
  \/ \E d \in Peer, key \in Key, seal \in Key \cup {None}, rotate \in BOOLEAN :
       Enrol(d, key, seal, rotate)
  \/ \E d \in Peer : Revoke(d)

Spec == Init /\ [][Next]_vars

-----------------------------------------------------------------------------
(* Properties *)

\* An operation whose call returned is in the log, as issued, and applied,
\* whatever crashes follow: the flush at the end of apply_op_inner comes
\* before the return, and a counter is not issued twice.
ReturnedSurvives ==
  \A op \in acked : /\ \E x \in st.log : Bare(x) = op
                    /\ op.id \in st.applied

\* The stamp says what is on the disk, also after an interrupted bootstrap or
\* migration: version 3 means that every record decodes and that a head
\* commits by the Merkle root, and a repository this build made is never taken
\* for an older one, or for one whose root is lost (check_format, migrate,
\* bootstrap_if_needed, sweep_blocker).
StampHonest ==
  /\ st.ver = 3 => st.head # "flat" /\ \A x \in st.log : x.format = 3
  /\ fresh => st.ver \in {0, 3} /\ (st.head # "none" => st.ver = 3 /\ st.root)

\* What a listing shows exists: a record for every entry, and the file node
\* and chunk of its content.  Neither a collection nor a crash inside it, or
\* inside any write, leaves an entry without them.
LiveWhole == ListedWhole(st)

\* A parked write loses nothing it was waiting with while the process lives:
\* collecting content that arrived, or its inode, would strand it (gc.rs).
ParkedKeepsIts ==
  [][open' => \A x \in PendingOps(st) :
       x.kind = "Write" /\ x.id \in st'.pending =>
         /\ ChunkOf(x) \in st.blobs => ChunkOf(x) \in st'.blobs
         /\ x.inode \in DOMAIN st.rec => x.inode \in DOMAIN st'.rec]_vars

\* Revocation: once revoke_peer has returned, no content is sealed to the
\* device, also if it is pinned again on first use; once a rotation has
\* returned after that, no file is kept under a key the device ever had.
RevocationHolds ==
  \A d \in barred :
    /\ EnvelopesFor(st, d) \subseteq known[d]
    /\ d \in rotated => \A f \in Readable(st) : st.rec[f].chunk \notin known[d]
=============================================================================
