---------------------------- MODULE MCRepository ----------------------------
(* An instance of Repository for TLC.  Peers 2 and 3 made a file and wrote *)
(* to it; the write may come first.  The disk is empty, or holds an older  *)
(* repository with a file whose content was sealed the old way or not at   *)
(* all, and which may have been removed since.                             *)
EXTENDS Repository, TLC

PeerOp(id, kind, to) ==
  [id |-> id, time |-> 0, kind |-> kind, inode |-> <<2, 1>>, chunk |-> <<3, 1>>, to |-> to,
   format |-> 3, proof |-> "transparent"]

PeerOps == {PeerOp(<<2, 1>>, "CreateFile", {}), PeerOp(<<3, 1>>, "Write", {Self})}

OldOp(n, kind, fmt) ==
  [Op(<<Self, n>>, kind, <<Self, 1>>, IF kind = "Write" THEN <<Self, 0>> ELSE None, {}, "none")
     EXCEPT !.time = 0, !.format = fmt]

\* A repository of version 1 or 2 after a create and a write.
OldStore(version, fmt) ==
  LET w == OldOp(2, "Write", fmt) IN
  [Empty EXCEPT
     !.ver = IF version = 1 THEN 0 ELSE version, !.root = TRUE,
     !.head = IF version = 1 THEN "flat" ELSE "merkle", !.ctr = 2,
     !.log = {OldOp(1, "CreateFile", 3), w}, !.applied = {<<Self, 1>>, <<Self, 2>>},
     !.rec = <<Self, 1>> :> w, !.live = {<<Self, 1>>}, !.blobs = {NodeOf(w), ChunkOf(w)}]

Unlinked(s) ==
  [s EXCEPT !.live = {}, !.gone = {<<Self, 1>>}, !.ctr = 3,
            !.log = @ \cup {OldOp(3, "Unlink", 3)}, !.applied = @ \cup {<<Self, 3>>}]

OldStores == {OldStore(v, f) : v \in {1, 2}, f \in {2, 3}}

Disks == {Empty} \cup OldStores \cup {Unlinked(s) : s \in OldStores}
=============================================================================
