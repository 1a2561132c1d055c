------------------------------- MODULE Merkle -------------------------------
(***************************************************************************)
(* The commitment over the inode map and the proofs about it               *)
(* (zk/src/merkle.rs).  A map is a sequence of <<inode, value>> in the     *)
(* order of inodes.  A hash is the term it is computed from: equal terms   *)
(* are equal hashes and no others are.                                     *)
(***************************************************************************)
EXTENDS Naturals, SequencesExt

CONSTANTS MAX_STEPS, \* longest path a check looks at
          Absent     \* Option::None

empty_root == <<"empty">>

leaf_hash(inode, value) == <<"leaf", inode, value>>

node_hash(left, right) == <<"node", left, right>>

Leaves(entries) == [i \in 1 .. Len(entries) |-> leaf_hash(entries[i][1], entries[i][2])]

\* Variant: a lone trailing node is paired with itself.
fold_doubling(level) ==
  [i \in 1 .. (Len(level) + 1) \div 2 |->
     node_hash(level[2 * i - 1], level[IF 2 * i <= Len(level) THEN 2 * i ELSE 2 * i - 1])]

\* A lone trailing node moves up as it is.
fold(level) ==
  [i \in 1 .. (Len(level) + 1) \div 2 |->
     IF 2 * i <= Len(level) THEN node_hash(level[2 * i - 1], level[2 * i]) ELSE level[2 * i - 1]]

RECURSIVE Levels(_)
Levels(level) == IF Len(level) <= 1 THEN <<level>> ELSE <<level>> \o Levels(fold(level))

commit(entries) ==
  IF entries = <<>> THEN empty_root ELSE Last(Levels(Leaves(entries)))[1]

-----------------------------------------------------------------------------
(* Inclusion.  Positions count from 0, as in the code. *)

PositionOf(entries, inode) == {i \in 0 .. Len(entries) - 1 : entries[i + 1][1] = inode}

\* A promoted node has no sibling at its level and adds no step.
StepAt(level, pos) ==
  IF pos % 2 = 1 THEN <<[sibling |-> level[pos], sibling_is_left |-> TRUE]>>
  ELSE IF pos + 1 < Len(level) THEN <<[sibling |-> level[pos + 2], sibling_is_left |-> FALSE]>>
  ELSE <<>>

PathIn(levels, pos) ==
  FlattenSeq([l \in 1 .. Len(levels) - 1 |-> StepAt(levels[l], pos \div 2^(l - 1))])

ProofAt(entries, levels, pos) ==
  [inode |-> entries[pos + 1][1], value |-> entries[pos + 1][2], steps |-> PathIn(levels, pos)]

prove(entries, inode) ==
  IF PositionOf(entries, inode) = {} THEN Absent
  ELSE ProofAt(entries, Levels(Leaves(entries)), CHOOSE i \in PositionOf(entries, inode) : TRUE)

\* One traversal for several inodes; those not in the map are left out.
prove_many(entries, inodes) ==
  LET levels == Levels(Leaves(entries)) IN
  FlattenSeq([k \in 1 .. Len(inodes) |->
    LET at == PositionOf(entries, inodes[k]) IN
    IF at = {} THEN <<>> ELSE <<ProofAt(entries, levels, CHOOSE i \in at : TRUE)>>])

compute_root(proof) ==
  FoldLeft(LAMBDA running, step : IF step.sibling_is_left THEN node_hash(step.sibling, running)
                                  ELSE node_hash(running, step.sibling),
           leaf_hash(proof.inode, proof.value), proof.steps)

check(proof, root) == Len(proof.steps) <= MAX_STEPS /\ compute_root(proof) = root

-----------------------------------------------------------------------------
(* Absence *)

\* The sides of the siblings on the path of leaf pos among n.
RECURSIVE Shape(_, _)
Shape(n, pos) ==
  IF n <= 1 THEN <<>>
  ELSE (IF pos % 2 = 1 THEN <<TRUE>> ELSE IF pos + 1 < n THEN <<FALSE>> ELSE <<>>)
       \o Shape((n + 1) \div 2, pos \div 2)

expected_shape(len, index) == IF index >= len THEN Absent ELSE Shape(len, index)

Neighbour(entries, i) ==
  [index |-> i, proof |-> ProofAt(entries, Levels(Leaves(entries)), i)]

prove_absent(entries, inode) ==
  IF PositionOf(entries, inode) # {} THEN Absent
  ELSE LET below == {i \in 0 .. Len(entries) - 1 : entries[i + 1][1] < inode}
           above == (0 .. Len(entries) - 1) \ below IN
       [inode |-> inode, len |-> Len(entries),
        left  |-> IF below = {} THEN Absent ELSE Neighbour(entries, Max(below)),
        right |-> IF above = {} THEN Absent ELSE Neighbour(entries, Min(above))]

\* Variant: the path need not fit the stated position.
check_neighbour_root(n, root, len) == check(n.proof, root)

check_neighbour(n, root, len) ==
  /\ check(n.proof, root)
  /\ n.index < len
  /\ [i \in 1 .. Len(n.proof.steps) |-> n.proof.steps[i].sibling_is_left]
       = expected_shape(len, n.index)

check_absent(p, root) ==
  \/ p.len = 0 /\ root = empty_root
  \/ /\ p.len > 0 /\ p.left # Absent /\ p.right # Absent
     /\ check_neighbour(p.left, root, p.len) /\ check_neighbour(p.right, root, p.len)
     /\ p.left.proof.inode < p.inode /\ p.inode < p.right.proof.inode
     /\ p.right.index = p.left.index + 1
  \/ /\ p.len > 0 /\ p.left # Absent /\ p.right = Absent
     /\ check_neighbour(p.left, root, p.len)
     /\ p.left.proof.inode < p.inode
     /\ p.left.index + 1 = p.len
  \/ /\ p.len > 0 /\ p.left = Absent /\ p.right # Absent
     /\ check_neighbour(p.right, root, p.len)
     /\ p.right.proof.inode > p.inode
     /\ p.right.index = 0
=============================================================================
