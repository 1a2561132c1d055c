---------------------------- MODULE NamespaceView ----------------------------
(***************************************************************************)
(* What a repository promises: the names it lists and the content of its   *)
(* files are a function of the SET of operations applied, never of the     *)
(* order they arrived in (crates/core: namespace.rs).  Each step adds one  *)
(* operation to what a repository has seen, once what it names is there.   *)
(***************************************************************************)
EXTENDS Namespace

VARIABLES
  seen,     \* seen[r]: the operations repository r has applied
  view      \* view[r]: its names and contents

viewVars == <<seen, view>>

Creates(ops) == {op \in ops : op.kind \in {"Mkdir", "CreateFile"}}

Moves(ops) == {op \in ops : op.kind = "Rename" /\ op.observed # {}}

Removals(ops) == Moves(ops) \cup {op \in ops : op.kind = "Unlink"}

\* The names added to directory d, each with its dot and time.
NamesIn(ops, d) ==
  {<<op.name, op.id, op.time>> : op \in {c \in Creates(ops) : c.parent = d}}
    \cup {<<op.newName, op.id, op.time>> : op \in {m \in Moves(ops) : m.newParent = d}}

\* The <<name, dot>> pairs removed from directory d.
RemovedFrom(ops, d) ==
  UNION {{<<op.name, dot>> : dot \in op.observed} : op \in {x \in Removals(ops) : x.parent = d}}

\* The operations that set the content of inode i, and what each sets it to.
ContentOps(ops, i) ==
  {op \in Creates(ops) : InodeForOp(op.id) = i} \cup
  {op \in ops : op.kind = "Write" /\ op.inode = i}

ContentSetBy(op) ==
  [key |-> OpKey(op), value |-> IF op.kind = "Write" THEN FileNode(op) ELSE None]

\* The content of inode i: that of the greatest key.
ContentOf(ops, i) ==
  IF ContentOps(ops, i) = {}
    THEN None
    ELSE ContentSetBy(CHOOSE op \in ContentOps(ops, i) :
                        \A o \in ContentOps(ops, i) : o = op \/ KeyLess(OpKey(o), OpKey(op)))

View(ops) ==
  [names   |-> [d \in Inode |-> NamesIn(ops, d)],
   removes |-> [d \in Inode |-> RemovedFrom(ops, d)],
   content |-> [i \in Inode \ {Root} |-> ContentOf(ops, i)]]

\* The inodes there are once these operations are applied.
Made(ops) == {Root} \cup {InodeForOp(op.id) : op \in Creates(ops)}

\* The inodes an operation works on.
Touches(op) ==
  CASE op.kind = "Write"  -> {op.inode}
    [] op.kind = "Rename" -> {op.parent, op.newParent}
    [] OTHER              -> {op.parent}

\* What the operation works on was made, and what a rename moves was added, by
\* operations seen before.
Needs(ops, op) ==
  /\ Touches(op) \subseteq Made(ops)
  /\ op.kind = "Rename" /\ op.observed # {} => op.observed \cap IdsOf(ops) # {}

ViewInit ==
  /\ seen = [r \in Device |-> {}]
  /\ view = [r \in Device |-> View({})]

Apply(r, op) ==
  /\ op.id \notin IdsOf(seen[r])
  /\ \A q \in Device : \A o \in seen[q] : o.id = op.id => o = op
  /\ Needs(seen[r], op)
  /\ seen' = [seen EXCEPT ![r] = @ \cup {op}]
  /\ view' = [view EXCEPT ![r] = View(seen[r] \cup {op})]

ViewNext == \E r \in Device : \E op \in seen'[r] \ seen[r] : Apply(r, op)

ViewSpec == ViewInit /\ [][ViewNext]_viewVars
=============================================================================
