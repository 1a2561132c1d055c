------------------------------ MODULE Surfaces ------------------------------
(***************************************************************************)
(* What a daemon answers while it is written to: listings of a bucket page *)
(* by page (s3/src/routes.rs), proofs about an inode (admin/src/routes.rs) *)
(* and, with the daemon stopped, proofs from the command line              *)
(* (nexusfs/src/fsops.rs).                                                 *)
(*                                                                         *)
(* A key is its rank in the order of keys, and also its inode.  Group      *)
(* names the common prefix a delimiter gives it.  Content is one value.    *)
(* A writer and one reader at a time share the store without a lock, and   *)
(* the inode map is stored before the root that commits to it.             *)
(***************************************************************************)
EXTENDS Merkle, FiniteSets

CONSTANTS Keys,      \* keys of the bucket, positive numbers
          Group,     \* Group[k]: prefix it folds into, 0 when it has none
          PageSizes, \* max-keys a client asks for
          Limit,     \* MAX_KEYS_LIMIT
          Others     \* inodes outside the bucket, above its keys

ASSUME SurfacesAssumption ==
  /\ Keys \subseteq Nat \ {0} /\ Limit \in Nat \ {0} /\ PageSizes \subseteq Nat
  /\ \A i, j, k \in Keys : i < j /\ j < k /\ Group[i] = Group[k] /\ Group[i] # 0
                             => Group[j] = Group[i]

VARIABLES map,    \* listed: names in the bucket; filled: those with content
          root,   \* the map that the stored state root commits to
          writer, \* the request that writes
          client, \* the listing
          admin   \* the request for a proof

vars == <<map, root, writer, client, admin>>

Bucket == 0

Sorted(S) ==
  [i \in 1 .. Cardinality(S) |-> CHOOSE x \in S : Cardinality({y \in S : y < x}) = i - 1]

Inodes(m) == {Bucket} \cup m.filled \cup Others

\* inode_map: the bucket's directory node, files with content, the others.
inode_map(m) ==
  LET sorted == Sorted(Inodes(m)) IN
  [i \in 1 .. Len(sorted) |->
     <<sorted[i], IF sorted[i] = Bucket THEN m.listed ELSE {sorted[i]}>>]

NoListing == [at |-> "idle", max |-> 0, token |-> 0, shown |-> <<>>, prefixes |-> {}, stable |-> {}]

NoProof == [at |-> "idle", inode |-> 0, seen |-> [listed |-> {}, filled |-> {}]]

Init ==
  /\ map = [listed |-> {}, filled |-> {}]
  /\ root = map
  /\ writer = [at |-> "idle", key |-> 0]
  /\ client = NoListing
  /\ admin = NoProof

-----------------------------------------------------------------------------
(* put_object and delete_object.  A put to a new key is two operations,    *)
(* each of which stores the map and then the root.                         *)

put_object(k) ==
  /\ writer.at = "idle"
  /\ k \notin map.listed
  /\ map' = [map EXCEPT !.listed = @ \cup {k}]
  /\ writer' = [at |-> "created", key |-> k]
  /\ UNCHANGED <<root, client, admin>>

PutContent ==
  /\ writer.at = "content"
  /\ map' = [map EXCEPT !.filled = @ \cup {writer.key}]
  /\ writer' = [writer EXCEPT !.at = "stored"]
  /\ UNCHANGED <<root, client, admin>>

\* A key that is not there is no error, and nothing to do.
delete_object(k) ==
  /\ writer.at = "idle"
  /\ k \in map.listed
  /\ map' = [listed |-> map.listed \ {k}, filled |-> map.filled \ {k}]
  /\ writer' = [at |-> "stored", key |-> k]
  /\ client' = [client EXCEPT !.stable = @ \ {k}]
  /\ UNCHANGED <<root, admin>>

\* build_snapshot
Snapshot ==
  /\ writer.at \in {"created", "stored"}
  /\ root' = map
  /\ writer' = IF writer.at = "created" THEN [writer EXCEPT !.at = "content"]
               ELSE [at |-> "idle", key |-> 0]
  /\ UNCHANGED <<map, client, admin>>

-----------------------------------------------------------------------------
(* list_objects *)

clamp(n) == IF n < 1 THEN 1 ELSE IF n > Limit THEN Limit ELSE n

Plain(ks) == {k \in ks : Group[k] = 0}

Folded(ks) == {Group[k] : k \in ks \ Plain(ks)}

Rows(ks) == Cardinality(Plain(ks)) + Cardinality(Folded(ks))

\* The keys a page looks at, by rank: one more as long as it is not full.
Consumed(keys, max) ==
  LET first(n) == {keys[i] : i \in 1 .. n} IN
  Cardinality({n \in 1 .. Len(keys) : Rows(first(n - 1)) < max})

\* Variant: the token names the last object of the page.
TokenOfLastObject(keys, n) ==
  LET plain == {i \in 1 .. n : Group[keys[i]] = 0} IN
  IF plain = {} THEN 0 ELSE keys[CHOOSE i \in plain : \A j \in plain : j <= i]

\* Variant: the token names the key that did not fit.
TokenOfNextKey(keys, n) == keys[n + 1]

\* The last key the page looked at.
NextToken(keys, n) == keys[n]

Start ==
  /\ client.at = "idle" /\ admin.at = "idle"
  /\ \E n \in PageSizes :
       client' = [NoListing EXCEPT !.at = "paging", !.max = clamp(n), !.stable = map.listed]
  /\ UNCHANGED <<map, root, writer, admin>>

list_objects ==
  LET keys == Sorted({k \in map.listed : k > client.token})
      n    == Consumed(keys, client.max)
      page == {keys[i] : i \in 1 .. n} IN
  /\ client.at = "paging"
  /\ client' = [client EXCEPT
       !.at = IF n < Len(keys) THEN "paging" ELSE "done",
       !.token = IF n < Len(keys) THEN NextToken(keys, n) ELSE @,
       !.shown = @ \o Sorted(Plain(page)),
       !.prefixes = @ \cup Folded(page)]
  /\ UNCHANGED <<map, root, writer, admin>>

Done ==
  /\ client.at = "done"
  /\ client' = NoListing
  /\ UNCHANGED <<map, root, writer, admin>>

-----------------------------------------------------------------------------
(* fs_proof: the proof is read, then the root *)

ReadProof(i) ==
  /\ client.at = "idle" /\ admin.at = "idle"
  /\ prove(inode_map(map), i) # Absent
  /\ admin' = [at |-> "read", inode |-> i, seen |-> map]
  /\ UNCHANGED <<map, root, writer, client>>

Answer ==
  /\ admin.at = "read"
  /\ admin' = NoProof
  /\ UNCHANGED <<map, root, writer, client>>

Inode == {Bucket} \cup Keys \cup Others

Next ==
  \/ \E k \in Keys : put_object(k) \/ delete_object(k)
  \/ PutContent \/ Snapshot
  \/ Start \/ list_objects \/ Done
  \/ \E i \in Inode : ReadProof(i)
  \/ Answer

Spec == Init /\ [][Next]_vars /\ WF_client(list_objects)

-----------------------------------------------------------------------------
(* Properties *)

Resting == writer.at = "idle" /\ client.at = "idle" /\ admin.at = "idle"

\* run_prove, with the repository to itself, proves every inode present or
\* absent, never both, and run_check_proof accepts what it wrote against the
\* stored root; a proof of many gives each its own.  fs_proof reads proof and
\* root one after the other beside a writer: a pair that was torn apart is
\* refused, so an accepted proof is true of the map its root commits to.
ProofsMatchRoot ==
  LET e == inode_map(map)
      r == commit(inode_map(root)) IN
  /\ Resting =>
       \A i \in Inode :
         IF i \in Inodes(map)
           THEN /\ check(prove(e, i), r) /\ prove_absent(e, i) = Absent
                /\ prove_many(e, <<i, 0>>) = <<prove(e, i), prove(e, 0)>>
           ELSE prove(e, i) = Absent /\ check_absent(prove_absent(e, i), r)
  /\ admin.at = "read" =>
       (check(prove(inode_map(admin.seen), admin.inode), r)
          <=> inode_map(admin.seen) = inode_map(root))

\* An absence proof made of paths that reach the root holds only for inodes
\* that are absent, whatever length and positions it states: the shape of a
\* path has to fix its neighbours as adjacent (check_neighbour, check_absent).
AbsenceSound ==
  Resting =>
    LET e == inode_map(map)
        r == commit(e)
        N == 1 .. Len(e)
        paths == [n \in N |-> prove(e, e[n][1])]
        claim(i, len, left, right) ==
          check_absent([inode |-> i, len |-> len, left |-> left, right |-> right], r)
        at(n, k) == [index |-> k, proof |-> paths[n]] IN
    \A n \in N, len \in 0 .. Len(e) + 2 :
      /\ \A k \in 0 .. len, i \in {e[m][1] : m \in N} :
           ~claim(i, len, at(n, k), Absent) /\ ~claim(i, len, Absent, at(n, k))
      /\ \A m \in N, k \in 0 .. len :
           m > n + 1 => ~claim(e[n + 1][1], len, at(n, k), at(m, k + 1))

\* A listing that ends has shown every key that was there throughout, by
\* itself or by its prefix, and no key on two pages, whatever is put and
\* deleted between the pages.
PagesCover ==
  /\ \A i, j \in 1 .. Len(client.shown) : i < j => client.shown[i] < client.shown[j]
  /\ client.at = "done" =>
       \A k \in client.stable : k \in {client.shown[i] : i \in 1 .. Len(client.shown)}
                                \/ Group[k] \in client.prefixes

\* A client that asks for the next page as long as there is one comes to the
\* last, for any page size and also while keys are added.
ListingEnds == client.at = "paging" ~> client.at = "done"
=============================================================================
