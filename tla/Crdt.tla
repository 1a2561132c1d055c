-------------------------------- MODULE Crdt --------------------------------
(***************************************************************************)
(* The two replicated data types of crates/crdt: the observed-remove map   *)
(* that holds a directory (or_map.rs) and the last-writer-wins register    *)
(* that holds a file's content (lww.rs).                                   *)
(*                                                                         *)
(* A dot is the pair <<device, counter>>.  A map is a record with a set    *)
(* adds of entries, each carrying the name and the dot it was added under, *)
(* and a set removes of <<name, dot>> pairs.                               *)
(***************************************************************************)
EXTENDS Naturals

\* The derived Ord of Dot: device first, then counter.
DotLess(a, b) ==
  \/ a[1] < b[1]
  \/ a[1] = b[1] /\ a[2] < b[2]

LeastDot(dots) == CHOOSE d \in dots : \A e \in dots : e = d \/ DotLess(d, e)

GreatestDot(dots) == CHOOSE d \in dots : \A e \in dots : e = d \/ DotLess(e, d)

-----------------------------------------------------------------------------
(* OrMap *)

EmptyMap == [adds |-> {}, removes |-> {}]

\* An insert under a dot that is already there replaces its value.
Add(map, entry) ==
  [map EXCEPT !.adds =
     {e \in @ : e.name # entry.name \/ e.dot # entry.dot} \cup {entry}]

\* Mutant: only what is present is removed.
RemoveDotsPresent(map, name, dots) ==
  [map EXCEPT !.removes = @ \cup {<<name, d>> : d \in dots \cap {e.dot : e \in map.adds}}]

\* The dots need not be present: a removal may come before what it removes.
RemoveDots(map, name, dots) ==
  [map EXCEPT !.removes = @ \cup {<<name, d>> : d \in dots}]

\* The survivors of every key; get_all is the restriction to one of them.
Live(map) == {e \in map.adds : <<e.name, e.dot>> \notin map.removes}

GetAll(map, name) == {e \in Live(map) : e.name = name}

DotsOf(entries) == {e.dot : e \in entries}

-----------------------------------------------------------------------------
(* LwwReg: a value with its order key <<ts, writer_id, seq>> *)

\* Mutant: no tie-break.
KeyLessByTime(a, b) == a[1] < b[1]

KeyLess(a, b) ==
  \/ a[1] < b[1]
  \/ a[1] = b[1] /\ DotLess(<<a[2], a[3]>>, <<b[2], b[3]>>)

\* Only a strictly greater key replaces the value.
MergeReg(reg, incoming) == IF KeyLess(reg.key, incoming.key) THEN incoming ELSE reg
=============================================================================
