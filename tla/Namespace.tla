------------------------------ MODULE Namespace ------------------------------
(***************************************************************************)
(* The state of one repository and the views computed from it              *)
(* (crates/core: namespace.rs, snapshot.rs).                               *)
(*                                                                         *)
(* A repository s is a record:                                             *)
(*   oplog    operations held (rows op/<device>/<counter>)                 *)
(*   applied  ids carrying an applied marker                               *)
(*   pending  operations parked until their preconditions hold             *)
(*   inode    inode -> record, or None                                     *)
(*   parent   inode -> the directory it was last linked into, or None      *)
(*   dir      inode -> the directory's OR-map (an absent map reads empty)  *)
(*   imap     the maintained inode map: inode -> object hash, or None      *)
(*   head     the snapshot: the state root and the state time in it        *)
(*   time     the highest operation time applied (state_time)              *)
(*   blobs    content chunks held                                          *)
(*   next     the last operation counter allocated                         *)
(*                                                                         *)
(* Hashes are modelled by what they commit to, so an object hash is the    *)
(* object and the state root is the inode map.  Modes, owners and sizes    *)
(* are left out: nothing in the repository emits a SetAttr operation.      *)
(***************************************************************************)
EXTENDS Crdt, FiniteSets

CONSTANTS
  Device,   \* device ids, one repository each; their order breaks ties
  MaxOps,   \* bound: operations one device may issue
  Name,     \* entry names (all accepted by validate_name)
  Contents, \* what a file may be written with, each a set of chunks
  Times,    \* wall-clock readings a device may stamp an operation with
  None      \* what Option::None is here

ASSUME DeviceAssumption == Device \subseteq Nat \ {0} /\ IsFiniteSet(Device)
ASSUME BoundAssumption == MaxOps \in Nat /\ Times \subseteq Nat

Chunk == UNION Contents

Id == Device \X (1 .. MaxOps)

\* ROOT_INODE; no operation id is equal to it.
Root == <<0, 0>>

Inode == {Root} \cup Id

\* inode_for_op hashes the id; all that is used of the hash is that it is
\* injective and never the root.
InodeForOp(id) == id

Kind == {"Mkdir", "CreateFile", "Write", "Rename", "Unlink"}

\* FsOp.  A field the kind does not have keeps the value NewOp gives it.
Op == [id : Id, time : Times, kind : Kind, parent : Inode, name : Name \cup {None},
       newParent : Inode, newName : Name \cup {None}, observed : SUBSET Id,
       inode : Inode, chunks : SUBSET Chunk]

IdsOf(ops) == {op.id : op \in ops}

\* The LWW order key of an operation.
OpKey(op) == <<op.time, op.id[1], op.id[2]>>

-----------------------------------------------------------------------------
(* Records *)

FileNode(op) == [chunks |-> op.chunks, mtime |-> op.time]

EntryTypeOf(op) == IF op.kind = "Mkdir" THEN "Dir" ELSE "File"

\* InodeRecord::new: the content register starts at the creating operation's key.
InodeRecord(op) ==
  [kind    |-> EntryTypeOf(op),
   ctime   |-> op.time,
   content |-> [key |-> OpKey(op), value |-> None]]

DirEntry(op, inode, kind, name) ==
  [name |-> name, dot |-> op.id, inode |-> inode, kind |-> kind, time |-> op.time]

IsDir(s, i) == s.inode[i] # None /\ s.inode[i].kind = "Dir"

-----------------------------------------------------------------------------
(* Views *)

\* The name an entry is shown under: the lowest surviving dot of a key keeps
\* the plain name, the others are renamed after their device and time.
ShownName(map, e) ==
  IF e.dot = LeastDot(DotsOf(GetAll(map, e.name)))
    THEN <<e.name>>
    ELSE <<e.name, e.dot[1], e.time>>

MaterializeDir(map) ==
  {[name |-> ShownName(map, e), inode |-> e.inode, kind |-> e.kind] : e \in Live(map)}

Lists(map, i) == \E e \in Live(map) : e.inode = i

\* What n rounds over links, a set of <<from, to>> pairs, reach from a set.
Reach(links, from, n) ==
  LET walk[k \in Nat] ==
        IF k = 0
          THEN from
          ELSE LET met == walk[k - 1] IN met \cup {x[2] : x \in {y \in links : y[1] \in met}}
  IN  walk[n]

DirLinks(s) ==
  UNION {{<<d, e.inode>> : e \in {x \in Live(s.dir[d]) : x.kind = "Dir"}} : d \in Inode}

\* Directories met by a walk of live entries that starts at directory d.  A
\* directory below the root was made by an applied operation, so no path is
\* longer than the number of them.
DirsFrom(s, d) == Inode \cap Reach(DirLinks(s), {d}, Cardinality(s.applied))

SubtreeContains(s, d, target) ==
  \/ d = target
  \/ \E i \in DirsFrom(s, d) : Lists(s.dir[i], target)

\* Files linked from a directory of the live tree.
LiveFiles(s) ==
  {e.inode : e \in {x \in UNION {Live(s.dir[i]) : i \in DirsFrom(s, Root)} :
                      x.kind = "File"}}

-----------------------------------------------------------------------------
(* The inode map *)

DirObject(s, i) ==
  [entries |-> MaterializeDir(s.dir[i]),
   ctime   |-> IF s.inode[i] = None THEN 0 ELSE s.inode[i].ctime]

FileObject(s, i) == IF s.inode[i] = None THEN None ELSE s.inode[i].content.value

\* rebuild_inode_map / materialize_tree: the map a full walk computes.
WalkedMap(s) ==
  LET dirs == DirsFrom(s, Root) IN
  LET files == LiveFiles(s) IN
  [i \in Inode |-> IF i \in dirs THEN DirObject(s, i)
                   ELSE IF i \in files THEN FileObject(s, i)
                   ELSE None]

\* The recorded parents that still list the child.
ParentLinks(s) ==
  {<<s.parent[i], i>> : i \in {j \in Inode : s.parent[j] # None /\ Lists(s.dir[s.parent[j]], j)}}

\* is_reachable: climb recorded parents until the root or an inode the map
\* already holds.
IsReachable(s, i) ==
  i \in Reach(ParentLinks(s), {j \in Inode : j = Root \/ s.imap[j] # None},
             Cardinality(s.applied))

RefreshMapEntry(s, i) ==
  [s EXCEPT !.imap[i] =
     IF ~IsReachable(s, i) \/ s.inode[i] = None THEN None
     ELSE IF IsDir(s, i) THEN DirObject(s, i)
     ELSE FileObject(s, i)]

\* build_snapshot: commit to the maintained map.
BuildSnapshot(s) == [s EXCEPT !.head = [root |-> s.imap, time |-> s.time]]

\* bootstrap_if_needed: the root directory, its map and its snapshot.
GenesisRoot ==
  [kind |-> "Dir", ctime |-> 0, content |-> [key |-> <<0, 0, 0>>, value |-> None]]

Bootstrapped ==
  LET bare == [oplog   |-> {}, applied |-> {}, pending |-> {},
               inode   |-> [i \in Inode |-> IF i = Root THEN GenesisRoot ELSE None],
               parent  |-> [i \in Inode |-> None],
               dir     |-> [i \in Inode |-> EmptyMap],
               imap    |-> [i \in Inode |-> None],
               head    |-> None,
               time    |-> 0, blobs |-> {}, next |-> 0]
  IN  BuildSnapshot([bare EXCEPT !.imap = WalkedMap(bare)])
=============================================================================
