# A TLA+ specification of NexusFS

NexusFS keeps a filesystem as a log of signed operations. A device appends what its user
does, pulls what other devices did, and applies every operation to a state built from
conflict-free data types, so that devices that hold the same operations show the same
tree and publish the same state root. The modules here specify that machinery, TLC checks
it on small instances, and TLAPS proves part of it for every instance.

Paths below are relative to `src/crates/`.

## The system

| part | code | what it keeps and does |
|---|---|---|
| replicated types | `crdt` | the observed-remove map of a directory, the last-writer-wins register of a file's content, conflict names |
| namespace, snapshot | `core/src/namespace.rs`, `snapshot.rs`, `inode.rs` | inode records, directory maps, the maintained inode map, the state root over it |
| application | `core/src/apply.rs` | apply an operation, park it, drain what is parked |
| local calls | `core/src/ops.rs` | mkdir, write, remove and rename by path; each signs operations and applies them |
| repository state | `core/src/state.rs` | operation log, applied markers, counters, clock summaries, bootstrap, flush |
| pull session | `net/src/session.rs` | a puller says what it has, takes operations in batches, then the content they lack |
| sync loop, daemon | `net/src/peers.rs`, `nexusfs/src/daemon.rs` | polls peers, wakes on notifications, obeys an energy budget |
| browser replica | `wasm/src/replica.rs` | whole export, whole import, by hand |
| collection | `core/src/gc.rs` | marks reachable blobs and records, deletes the others |
| sharing, trust, format | `core/src/share.rs`, `peers.rs`, `format.rs`, `net/src/trust.rs` | recipients of content keys, pinned peers, on-disk versions |
| proofs | `zk`, `core/src/proof.rs` | Merkle commitment, inclusion and absence proofs, which operations a policy accepts |
| energy | `energy` | telemetry and the budget rules |
| surfaces | `s3`, `admin`, `nexusfs`, `fs_posix`, `privacy` | facades over the calls above |

The parts meet in one place, `apply_op_inner`. Local calls, pull sessions and imports all
end there. It logs the operation, mutates the state or parks the operation, patches the
inode map, drains the queue, builds a snapshot and flushes.

## Modules

| module | models |
|---|---|
| `Crdt` | OR-map and register as operators on records |
| `Namespace` | the record of one repository; listing, reachability, inode map, snapshot |
| `Core` | repositories that issue, replicate and apply operations |
| `NamespaceView` | what a repository promises: its names and contents are a function of the set of operations it applied |
| `ClockSummary` | what a repository says of its log, with gaps and the cap, and what a peer concludes |
| `Replication` | pull sessions step by step, from both sides: handshake and trust, operation phase, content phase, broken connections |
| `Exchange` | what replication promises about logs |
| `Energy` | readings of a device and the budget the scheduler gives for them |
| `Daemon` | announcement, notification, naps and passes of the sync loop under the energy gate |
| `Repository` | one repository on disk: formats, writes, collection, enrolment, resealing, rotation, with a crash at any write |
| `Merkle` | commitment, inclusion, batched and absence proofs and their checks |
| `Surfaces` | S3 writes and paged listings, and the routes and commands that serve proofs, beside a writer |
| `MCCore`, `MCReplication`, `MCDaemon`, `MCRepository`, `MCSurfaces` | values of constants for TLC |
| `CoreProofs` | dots and keys are totally ordered; types of `Core`; its logs are well formed; what each handler leaves behind |
| `ViewProofs` | `Core` implements `NamespaceView`; its files are whole, and nothing comes back; what was applied has an order |
| `TreeProofs` | what `Reach` computes; the directories of `Core` stay a tree; the maintained inode map is the walk; where records and times come from |
| `SettleProofs` | `Core` without renames: root, queue, local calls, convergence |
| `ReplicationProofs` | summaries, finished pulls, pins, types, the content budget; `Replication` implements `Exchange` |
| `EnergyProofs` | the order of the scheduler's ladder, and probes that fail |
| `SessionProofs` | what the writes, operations, drains and local calls of `Repository` keep of a store |
| `RepositoryProofs` | its commands, crashes and restarts: returned calls, stamps, listings, revocation, parked writes |

The modules look at one system at different grains, because one model of all of it is
beyond a model checker. `Core` takes one operation at a time from a peer; `Replication`
has the session that brings it, and `Exchange` is what the first assumes of the second.
`Daemon` takes a whole session as one step and adds the tasks around it. `Repository`
shrinks the tree to one directory and adds the order of writes to the disk.

### `Core`: state

`rep[r]` is the store of device `r`, a record whose fields are the tables of the code:
`oplog`, `applied`, `pending`, `inode`, `parent`, `dir`, `imap`, `head`, `time`, `blobs`,
`next`. `task[r]` is what its running handler has still to do: idle, draining the queue,
about to write the content of the file it created, or importing.

Hashes are modelled by what they commit to, so an inode is the id of the operation that
made it and the state root is the inode map. A file is its set of chunks. Signatures are
not modelled: an operation in the model is one its author signed.

### `Core`: actions

| action | code |
|---|---|
| `LocalMkdir`, `LocalCreate`, `ContinueWrite`, `LocalOverwrite` | `mkdir_p`, the two operations of `write_file` |
| `LocalUnlink`, `LocalRename` | `remove_path`, `rename_path` |
| `Deliver` | one operation of the pull session's operation phase |
| `FetchBlobs` | a batch of its content phase, with the `retry_pending` that follows |
| `Import`, `ContinueImport` | `Replica::import` |
| `DrainRow`, `DrainPass` | one row, and the end of one pass, of `drain_pending` |

An action that applies an operation is all of `apply_op_inner` up to the drain. The drain
is a step per row, so an invariant is also checked half way through it, and other
repositories may pull from one that is draining. Snapshot and return are the last step.
A local call that parks or fails leaves the operation where the code leaves it.

Within one repository a single handler runs at a time. This is how the CLI and the browser
build work. A daemon runs its S3 facade beside its sync loop without a lock; see "Not
modelled".

`Deliver` takes the least missing operation, since `ops_missing_for` sends operations in
log order. Batches differ from single operations only in what the puller does between
them, and it does nothing. Operations of one device arrive in the order of their counters;
those of different devices arrive in either order, since a repository may pull from one
source before another.

### `Replication`

An operation is its id, and what matters of it besides is given by constants: who refuses
it (`Refused`: proof policy, signature, size) and which blobs it waits for (`Needs`).
`sess[n]` is the pull `n` is making: its stage, the summary it sent, the reply it is
working on, and what it took so far.

| action | code |
|---|---|
| `Dial`, `AcceptHello`, `RefuseHello`, `TakeAck`, `RejectAck` | connection, `Hello` and `HelloAck`, versions, `authorize` on each side; `Tofu` and pins as in `net/src/trust.rs` |
| `SendHave`, `AnswerHave`, `TakeBatch`, `ApplyNext`, `EndBatch` | one round of the operation phase: `clock_summary`, `ops_missing_for`, the operations of the reply one by one, and how the phase ends |
| `AskContent`, `AnswerWant`, `TakeBlobs` | one round of the content phase, with both tests of the byte budget |
| `Bye`, `Break` | the end of a session; a connection lost anywhere in it |
| `Issue`, `NewIdentity`, `Rotate`, `Revoke` | local writes, a reinstalled peer, and the operator, between any two steps |

### `Daemon` and `Energy`

`chan` is the channel of capacity one between a local write and the task that tells peers.
`teller` is that task: receive, debounce, drain, summarise, one peer after another. `loop`
is `sync_loop`: decide, nap, pass. A notification wakes a loop that naps and is lost on any
other, as `notify_waiters` stores no permit. `host` is what the probes see; it changes at
any time, also between the decision and the pass that uses it.

### `Repository`

A command is a chain of store writes and flushes, built by operators that take and return
the state of a session (`apply_op`, `apply_local`, `write_file`, `collect_garbage`,
`reseal_to_recipients`, `rotate_content`, `enrol_peer`, `revoke_peer`, the migrations). Its action
publishes the end of the chain. `tail` is the set of stores a crash may leave: everything
since the last flush, in the order written, cut anywhere. `Crash` picks one of them, or one
inside the command that was running.

A drain is a function from the number of rows tried to the session (`Turn`), and a pass of
`reseal_to_recipients` or `rotate_content` one from the number of files done (`NextFile`).
Such a pass works on the list it took at its start (`Encrypted`, `share.rs:116`), so a
reseal writes the chunk the file had then. An envelope is the recipient in an operation
that is in the log; nothing else records whom a chunk is sealed to.

### `Merkle` and `Surfaces`

A hash is the term it is computed from. `Surfaces` lets a writer make and remove keys, and
beside it a client that pages through the bucket and a request that reads a proof and then
the root. The maps that come up have three to eight leaves, odd and even, so every shape of
the promotion of a lone node is met.

## Runs

All bounds are constants of the `.cfg` or of the MC module. In `Core`: `MaxOps` operations
per device, `Name`, `Contents`, `Times` (clock readings, which may run backwards), `Issuer`
(devices with a user) and `Calls` (the calls those users make). Users may stop at any time,
and stop at their bound, so a state with nothing left to do is legal, and deadlock is not
checked where one comes up.

| run | instance | shows |
|---|---|---|
| `core_order` | 3 devices, 2 users, 2 operations each, no renames | logs well formed, the patched map is the walk, the root is current, nothing applicable stays parked, no local operation parks, convergence, and eventual convergence under fairness |
| `core_clocks` | 2 devices, one a browser, 3 operations each, 2 contents that share a chunk, 2 clock readings | no torn file, nothing comes back, convergence under clocks that tie and run backwards and under repeated imports |
| `core_rename` | 3 devices, 2 users, mkdir, unlink and rename | the tree stays a tree, the patched map is the walk, applied sets determine the view, `Core` implements `NamespaceView` (types are checked in `core_order` and proved) |
| `replication` | a puller and a responder, a third author with 3 operations above a gap, one operation refused by each, 5 blobs, one of them corrupt and one longer than a batch, 2 keys, 1 broken connection | summaries are sound, a pull that ends is whole, a dismissed notification brought nothing new, the byte budget is exceeded by less than one blob, pins are kept, operations flow whatever the budget, `Replication` implements `Exchange` |
| `daemon` | 2 daemons, 2 writes, a peer that is gone; power, link, heat and disk that change | the ladder is ordered and unknown readings do not narrow it, writes return and are announced, operations and content arrive although wake-ups are lost |
| `repository` | 9 disks (empty, versions 1 and 2 with and without old envelopes, file live or removed), 3 operations, 1 crash | what returned survives, stamps are honest, live files are whole, revocation holds, parked writes keep what they wait with |
| `surfaces` | maps of 3 to 8 leaves, pages of 1 and 2 keys, common prefixes | proofs match the root they are checked against, absence proofs hold only for what is absent, listings cover and end |
| `rename_convergence` | 2 users rename one entry | `Convergence` fails |
| `rename_inode` | a rename that saw two entries, a removal of one | `RenameMovesOneInode` fails |
| `poisoned_queue` | a parked rename into its own subtree | `RootCurrent` fails |
| `conflict_unlink` | a removal of an entry shown under a conflict name | `RemovalRemoves` fails |
| `summary_cap` | 4 operations above a gap and a cap of 1 | `OpsFlow` fails |

Why the bounds are enough for the question:

* `Core`. Two operations per device give a directory and an entry in it, a file and its
  write, or an entry and its removal or move, on each of two sides that do not know of each
  other. The third device receives both sides in either order and, in between, hands them
  on. One name makes every concurrent creation a conflict. Three operations and two clock
  readings give a create, a write and an overwrite with equal or decreasing times.
* `Replication`. A batch of two and four operations give a full batch, a rest, and a batch
  that is in part refused; the gap below them makes the list above the watermark matter.
  Blobs of one and three bytes under a batch of two and a ceiling of three meet each test
  of the budget at, below and above its limit. One break is enough because a session keeps
  nothing from an earlier one.
* `Daemon`. The second write falls into every step of the announcement of the first. A
  peer that is gone stands before the one that answers, so a pass has to go on.
* `Repository`. One crash is enough for a property of what a crash leaves, as the restart
  is part of the run. Three operations are a create, a write and a reseal or rotation.
* `Surfaces`. Eight leaves are the first size with three full levels, seven and five those
  with a lone node on two levels.

The properties of the renaming run are weaker on purpose. `Convergence`, `QueueSettled`
and `RootCurrent` hold without renames and fail with them.

### Where the code and its own statements differ

* **Concurrent renames** (`core/src/apply.rs:559`). The rename that arrives second finds its
  source dot removed. The code cannot tell this from a source that has not arrived, and
  parks it for ever. Each device keeps the rename it saw first.
* **Which inode a rename moves** (`core/src/apply.rs:549`). The greatest observed dot still
  alive is moved. If a removal of that dot came first, another inode is moved under the
  same new name. Names converge (`SameAppliedSameView` is proved) and inodes do not, which
  is why the view of `NamespaceView` holds names, dots and times and not inodes.
* **A queue that stops** (`core/src/apply.rs:291`). A parked rename that can only fail makes
  `drain_pending` return an error. The handler leaves before `build_snapshot` and `flush`,
  and so does every later one.
* **Removing a conflict name** (`core/src/ops.rs:227`). The path is found in the listing, the
  observed dots are looked up under the shown name, and there are none.
* **The cap of a summary** (`core/src/state.rs:402`). A device that holds more operations
  above a gap than the cap is sent some it holds. If they fill the batch, the summary does
  not change, the phase ends, and the next session is answered with the same batch.

Smaller ones, without a run:

* A common prefix may be on two pages of a listing, because the test for a full page comes
  before the prefix is folded (`s3/src/routes.rs:304`). `PagesCover` speaks of keys.
* A crash inside `apply_op` may leave an operation that is logged and neither applied nor
  parked; it is not lost whole. `ReturnedSurvives` is about calls that returned.
* A rotation passes over a file this device cannot open (`core/src/share.rs:231`), and says
  so in its report. `RevocationHolds` speaks of the files it can open.
* The shape of a Merkle path does not fix its index for every length a prover may state
  (`zk/src/merkle.rs:703`). `AbsenceSound` holds all the same, as the neighbours still have
  to reach the root.
* Heat and a metered link are graded before the battery (`energy/src/scheduler.rs:272`). A
  device at its critical charge that is hot or tethered goes on pulling operations, and
  would pause if the probe for heat or link failed. `UnknownNeverNarrows` excepts this case.

## Fairness

`Core`'s `FairSpec` asks that a started handler runs on, and that a repository that lacks an
operation or a chunk some peer holds eventually takes a step of a pull.
The first is ordinary scheduling. The second is what `sync_loop` does: it polls all
configured peers for ever, and `pull_from_peer` asks for what is missing. It assumes that
peers are reachable again and again and that the energy gate does not pause for ever.
Users owe nothing. The enabling condition is written out as `Busy` because evaluating
`ENABLED` on these actions is slow.

`Replication` asks for `WF_vars(Step(n))`: a session that is open goes on, to its next
message or to its end. `SF_vars(Dial(n, m))` is the loop again: a peer that can be called
again and again is called. `OpsFlow` is about devices that end up trusting each other; the
operator owes nothing.

`Daemon` has the tasks themselves. The teller and the loop run on and their sleeps end
(`WF_vars(Teller(n))`, `WF_vars(sync_loop(n))`), and a write that was applied goes on to
announce itself. A peer that is asked in pass after pass answers in one of them
(`SF_vars(sync_once(n, m))`). Writes, the surroundings and notifications are not fair: every
notification may be lost, and only the poll is relied on. `Arrives` and `ContentArrives`
assume that the gate ends up allowing operations, or some content.

`Surfaces` has `WF_client(list_objects)`: the client asks for the next page. The writer may
run for ever.

## Proofs

The proofs hold for any finite set of devices, and any names, contents, clock readings,
batch sizes, caps, thresholds and bounds. They assume what the modules state: device ids are
positive numbers, bounds are natural numbers, issuers and browsers are devices, `None` and
`Unknown` are not values of the type they stand beside (`NoneAssumption` in `Core`: the code
has `Option`). `ReplicationAssumption` adds what is
true of logs that came about by the protocol: a device holds all it issued, nobody holds
more of it, and nobody starts with what it refuses. In `Repository` the stores at the start
are those a build may leave (`OnDisk`, `StoresAssumption`), of any size and of any version.
What peers send is in the present format and not later than this device's clock
(`ScriptAssumption`), under chunks of their own, each for one file, and addressed to this
device (`WritesAssumption`: a rotation passes over what it cannot open).

| theorem | statement | argument |
|---|---|---|
| `TypeCorrect` | `Spec => []TypeOK` | `TypeInv`. `TypeOK` alone is not inductive: the drain picks a parked operation by its id, so the ids still to do must be ids of parked operations, and a call that is to write after its create must have room for one more counter |
| `LogsCorrect` | `Spec => []LogWellFormed` | `LogInv` adds that the operations an import still has to apply are in some log; otherwise an import could bring in a second operation under an id |
| `ViewDependsOnAppliedOnly` | `Spec => []SameAppliedSameView` | `ViewInv`: every repository's names, removals and contents are those `NamespaceView` computes from the set of operations it applied. One lemma per operation kind shows that the effect adds exactly what one more operation adds to the set |
| `CoreImplementsView` | `Spec => ImplementsView` | `ViewInv` before and after a step; a step that applies an operation is an `Apply` step, any other leaves set and view alone |
| `FilesWhole` | `Spec => []NoTornFile` | inductive with `TypeInv`. A write that wins has passed the test for its chunks, one that loses changes nothing, and no step of `Core` takes a chunk away |
| `NothingComesBack` | `Spec => NoResurrection` | from `ViewInv`: an operation that was not applied has left no inode, no directory map and no entry, so that a creation replaces nothing |
| `TreesStayTrees` | `Spec => []TreeShaped` | `TreeInv`: entries name inodes that exist and are of the entry's kind, a live entry is in the recorded parent of its inode and is the only one there, and no directory is below itself |
| `MapIsMaintained` | `Spec => []ImapIsWalk` | `WalkInv` with `TreeInv`: `is_reachable` climbs recorded parents, and these are the live ones; so the entries a creation or a write patches are the entries in which the walks before and after differ |
| `RootIsCurrent` | `"Rename" \notin Calls`, `Spec => []RootCurrent` | `SettleInv`: a drain that owes a snapshot is running, or the root is published; no parked operation can fail |
| `QueueIsSettled` | `"Rename" \notin Calls`, `Spec => []QueueSettled` | `SettleInv`: what a pass has visited and left cannot be applied, or the pass made progress and is followed by another |
| `OwnNeverParked` | `"Rename" \notin Calls`, `Spec => []LocalNeverParks` | `SettleInv` and `TreeInv`: what a lookup finds is in the live tree, so it was made here, by an operation of the right kind |
| `RepositoriesConverge` | `"Rename" \notin Calls`, `Spec => []Convergence` | see below |
| `SummariesSound` | `Spec => []SummarySound` | `ReplInv` |
| `PullsWhole` | `Spec => []PullWhole` | `ReplInv`, and that a batch that is cut is a full one, so that a reply without `more` is all there is |
| `DismissedRightly` | `Spec => []NotBehindHoldsAll` | what a watermark and a list above it claim, against the counters of the other log |
| `PinsKept` | `Spec => PinKept` | step by step; only `authorize`, at either end of a handshake, and the operator touch pins, and `authorize` writes one only where there was none or the same |
| `TypesHold` | `Spec => []TypeOK` (`Replication`) | `TypeInv`, with `ReplInv` for what a session asks for |
| `BudgetsHold` | `Spec => []BudgetHeld` | `BudgetInv`: a session asks for content only below its ceiling, and what is on its way exceeds the rest of the budget by less than one blob |
| `SessionsExchange` | `Spec => ImplementsExchange` | `ReplInv` before a step: what is applied is in the peer's log, and what is issued is in no log |
| `ReturnedIsDurable` | `Spec => []ReturnedSurvives` | `RepositoryInv`: what returned is in every store a crash may leave, as the last write of a call is followed by a flush, or replaces an operation by its proven copy |
| `StampIsHonest` | `Spec => []StampHonest` | `RepositoryInv`, along the order of writes: a head only over a root, a stamp only after the head it speaks of |
| `ListingIsWhole` | `Spec => []LiveWhole` | `RepositoryInv`: blobs before the record that names them, a record before its entry; a collection, cut at any blob or record, keeps the roots |
| `RevocationIsFinal` | `Spec => []RevocationHolds` | `RepositoryInv`; see below |
| `ParkedIsKept` | `Spec => ParkedKeepsIts` | `RepositoryInv`, and one step at a time what it keeps (`Keeps`) |
| `LadderHolds` | `Spec => []LadderOrdered` | the critical threshold is at most the low one for every setting; the grade follows the charge; the limit of the disk is monotone |
| `UnknownHarmless` | `Spec => []UnknownNeverNarrows` | a blind probe leaves the grade or raises it, unless it uncovers the battery; the limit of the disk again |

The second half of `ViewInv` is that what exists was made by an applied operation. It is
needed because a creation overwrites its inode and its dot: only when both are new does
the creation add and not replace. That an id names one operation (`LogInv`) makes the
content register a function of the set.

`TreeInv` speaks of paths of any length, and induction over paths is not at hand. `TreeProofs`
goes round it. `Reach` is a recursive function of the number of rounds; the least number of
a set of numbers exists (`LeastNatural`, from the well-foundedness of the naturals), and
arguments by a least counterexample show that the rounds only grow, stay inside every closed
set, and have closed up after as many rounds as there are directories. From there on
`DirsFrom` is the least set of directories closed under the live entries, and a proof about
it gives a closed set. For a rename this is the heart: the moved directory is not above its
new parent (`subtree_contains`), so the directories below any other one, with the moved
subtree added, are closed, and no cycle comes up.

The four theorems of `SettleProofs` assume that no user renames, as an instance without
`"Rename"` in `Calls` does. With renames `RootCurrent`, `QueueSettled` and `Convergence` are
false (`poisoned_queue`, `rename_convergence`); `LocalNeverParks` rests on the same invariant
and is not claimed there. The hypothesis holds in the runs `core_order` and `core_clocks`,
which check the same properties.

`RepositoriesConverge` has two halves. Two repositories at rest with one log applied the same
operations: otherwise, of the operations one applied and the other parked, take one that
works on nothing made by another of them (`Grounded`, kept as an invariant because it is about
the order of application, which is not in the state); all it needs has been applied at the
other, no content is missing, so it could be applied there, against `QueueSettled`. And the
same applied operations give the same root: `ViewInv` fixes names, removals and contents,
`OriginInv` kinds and times of inodes and the time of the repository, `EntryInv` the inode of
every entry, and `WalkInv` makes the map a function of these.

`ReplInv` says of each session, by its stage, that its summary claims only what is held,
that the operations of a reply are in the responder's log, and that a reply without `more`
together with what is held and refused is all the responder held. The last makes `PullWhole`
inductive: between the reply and the end of the phase operations are applied one by one. Its
part about logs (`OwnWhole`) says that a device's own counters have no gap and that nobody
is ahead of it, so that the next counter is new everywhere.

`RepositoryInv` (theorem `RepositorySound`) is about `tail`, every store a crash may leave,
and the lemmas of `SessionProofs` follow a session from write to write, because a crash inside
a command leaves one of the stores in between. Most of it is one predicate per store,
`Sound`: it is a repository (`OnDisk`), it holds what returned, and only operations of peers
wait. Three parts are there for the revocation. A write of a peer may arrive, or be drained,
long after a rotation, and name a chunk the revoked device has an envelope for, because this
device resealed that chunk before. `Settled` says that the file of such a chunk is then known
here, with a write this device can open; `Turned`, that after a rotation its register is
later than any write that could bring the chunk back, or that the file is still to be rotated
in the pass; `Tied`, that the stores of `tail` differ from the present one in no envelope and
show no more files, so that a revocation or a rotation that has returned holds for all of
them. The counter and the clock make this device's next write the latest (`Numbered`).

The lemmas that count rows or files take the facts about counting they use as a hypothesis
(`Counting`). `CountingHolds` derives these from the library's theorems beside the theorems of
`RepositoryProofs`, so no theorem has the hypothesis left.

Only model-checked:

* Liveness (`EventuallyConverged`, `OpsFlow`, `Announced`, `WritesReturn`, `Arrives`,
  `ContentArrives`, `ListingEnds`): out of the prover's reach here.
* `Merkle` and `Surfaces` (`ProofsMatchRoot`, `AbsenceSound`, `PagesCover`): commitments,
  proofs and checks are recursive operators over trees of any depth, and what they compute
  needs induction over data. `PagesCover` does not speak of them, but `Surfaces` extends
  `Merkle`, and the prover cannot work in a module that reaches a recursive operator.

## Not modelled

* **Two tasks in one repository.** A daemon's S3 requests, sync loop and collection work on
  the same tables without a lock. `Core` and `Repository` run one handler at a time;
  `Surfaces` has one writer. Lost updates of a directory map, one counter for two
  operations, and a sweep beside a writer are hazards in `PROJECT.json` without a property.
* **A crash together with peers.** `Repository` has crashes and `Replication` has peers. A
  counter that is issued again after a peer pulled its first use needs both.
* **Content on demand** (`core/src/fetch.rs`, `fetch_chunks`): the content phase without its
  budget, started by a reader.
* `SetAttr` and partial writes, which no caller emits; reads, which change nothing, except
  where a reader takes several steps (`Surfaces`).
* Byte-level encoding and chunking, cryptographic primitives, QUIC, the files and commands
  the probes read (the macOS ones altogether), authentication and XML of the S3 facade,
  argument parsing, the JavaScript bindings, and the parts that are stubs or that nothing
  calls (`fs_posix`, `privacy`, `rocks_store`).
