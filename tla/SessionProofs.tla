---------------------------- MODULE SessionProofs ---------------------------
(***************************************************************************)
(* What a session keeps of the store it works on: the invariant of a       *)
(* store, the writes that sessions are made of, and the operations.  The   *)
(* invariant speaks of every store a crash may leave, so the lemmas follow *)
(* a session from write to write.                                          *)
(***************************************************************************)
EXTENDS Repository, Sequences, TLAPS

-----------------------------------------------------------------------------
(* Numbers and finite sets *)

\* What is used of counting.  The lemmas that need it carry it as a
\* hypothesis; it is proved, from the library, where the theorems are.
Counting ==
  /\ \A T : T \subseteq Nat /\ T # {} => \E m \in T : \A n \in T : m <= n
  /\ \A S : IsFiniteSet(S) =>
       /\ Cardinality(S) \in Nat /\ (Cardinality(S) = 0 <=> S = {})
       /\ \A x \in S : Cardinality(S \ {x}) = Cardinality(S) - 1

\* Finite sets, their images, their subsets, and with one more element.
LEMMA Finite ==
  /\ IsFiniteSet({})
  /\ \A S : IsFiniteSet(S) =>
       /\ \A f : IsFiniteSet({f[x] : x \in S})
       /\ \A T \in SUBSET S : IsFiniteSet(T)
       /\ \A x : IsFiniteSet(S \cup {x})
<1>1. ASSUME NEW S, IsFiniteSet(S), NEW f, NEW T, T = {f[x] : x \in S}
      PROVE  IsFiniteSet(T)
  <2>1. PICK q \in Seq(S) : \A x \in S : \E n \in 1 .. Len(q) : q[n] = x
    BY <1>1, Zenon DEF IsFiniteSet
  <2> DEFINE r == [n \in 1 .. Len(q) |-> f[q[n]]]
  <2>2. r \in Seq(T) /\ Len(r) = Len(q)
    BY <1>1
  <2>3. \A y \in T : \E n \in 1 .. Len(r) : r[n] = y
    BY <1>1, <2>1, <2>2
  <2> QED
    BY <2>2, <2>3, Zenon DEF IsFiniteSet
<1>2. IsFiniteSet({})
  <2>1. << >> \in Seq({})
    OBVIOUS
  <2> QED
    BY <2>1, Zenon DEF IsFiniteSet
<1>3. ASSUME NEW S, IsFiniteSet(S), NEW T \in SUBSET S
      PROVE  IsFiniteSet(T)
  <2>1. ASSUME NEW t \in T PROVE IsFiniteSet(T)
    <3> DEFINE f == [x \in S |-> IF x \in T THEN x ELSE t]
    <3>1. T = {f[x] : x \in S}
      BY Zenon
    <3> HIDE DEF f
    <3> QED
      BY <1>1, <1>3, <3>1, Zenon
  <2> QED
    BY <1>2, <2>1, Zenon
<1>4. ASSUME NEW S, IsFiniteSet(S), NEW x
      PROVE  IsFiniteSet(S \cup {x})
  <2> DEFINE T == S \cup {x}
  <2>1. PICK q \in Seq(S) : \A y \in S : \E n \in 1 .. Len(q) : q[n] = y
    BY <1>4, Zenon DEF IsFiniteSet
  <2> DEFINE r == Append(q, x)
  <2>2. q \in Seq(T)
    OBVIOUS
  <2>3. /\ r \in Seq(T) /\ Len(r) = Len(q) + 1 /\ r[Len(q) + 1] = x /\ Len(q) \in Nat
        /\ \A n \in 1 .. Len(q) : r[n] = q[n]
    BY <2>2
  <2> HIDE DEF r
  <2>4. \A y \in T : \E n \in 1 .. Len(r) : r[n] = y
    BY <2>1, <2>3
  <2> QED
    BY <2>3, <2>4, Zenon DEF IsFiniteSet
<1>5. \A S : IsFiniteSet(S) => \A f : IsFiniteSet({f[x] : x \in S})
  BY <1>1, Zenon
<1> QED
  BY <1>2, <1>3, <1>4, <1>5, Zenon

-----------------------------------------------------------------------------
(* The invariant of a store *)

Own(x) == x.id[1] = Self

PeerWrites == {x \in Script : x.kind = "Write"}

\* This device's operations that carry envelopes.
Given(s) == {y \in s.log : Own(y) /\ y.to # {}}

Addressed(s, f) == s.rec[f] # None /\ Self \in s.rec[f].to

\* A peer's chunk that was resealed here belongs to a file whose create is
\* logged, and whose register holds a write that this device can open.
Settled(s) ==
  \A y \in Given(s), x \in PeerWrites :
    x.chunk = y.chunk =>
      /\ x.inode \in IdsOf(s.log)
      /\ x.inode \in DOMAIN s.rec => Addressed(s, x.inode)

\* Chunks encrypted here are numbered.
Made(s, m) == \A y \in Given(s), n \in Nat : y.chunk = <<Self, n>> => n <= m

\* Only operations of peers wait.
Parked(s) == PendingOps(s) \subseteq Script

Recs(s) ==
  \A f \in DOMAIN s.rec : Addressed(s, f) => s.rec[f] \in PeerWrites \/ Own(s.rec[f])

\* Operations whose call returned.
Returned(s, A) == \A op \in A : (\E x \in s.log : Bare(x) = op) /\ op.id \in s.applied

Sound(s, A, m) ==
  OnDisk(s) /\ Settled(s) /\ Made(s, m) /\ Parked(s) /\ Recs(s) /\ Returned(s, A)

\* Devices B are not recipients, and K is what they have envelopes for.
Shut(s, B, K) == \A d \in B : s.seal[d] = None /\ EnvelopesFor(s, d) = K[d]

\* Outside T no file is kept under a chunk that a device of D has an envelope
\* for, and no write of a peer can bring one back.
Turned(s, D, K, T) ==
  \A d \in D :
    /\ \A f \in Readable(s) : s.rec[f].chunk \in K[d] => f \in T
    /\ \A x \in PeerWrites :
         x.chunk \in K[d] /\ x.inode \in s.live =>
           x.inode \in T \/ ~Less(KeyOf(s.rec[x.inode]), KeyOf(x))

\* A repository this build made is not taken for an older one.
Stamp(s, new) == new => s.ver \in {0, 3} /\ (s.head # "none" => s.ver = 3)

-----------------------------------------------------------------------------
(* The order of operations *)

Keys == Nat \X Nat \X Nat

\* The order of register keys, and of ids: strict, total and transitive.
LEMMA LessOrder ==
  /\ \A a \in Keys : ~Less(a, a)
  /\ \A a, b \in Keys : Less(a, b) => ~Less(b, a)
  /\ \A a, b, c \in Keys : Less(a, b) /\ Less(b, c) => Less(a, c)
  /\ \A a, b, c \in Keys : ~Less(a, b) /\ Less(a, c) => ~Less(c, b)
BY DEF Keys, Less

\* The key of an operation is one.
LEMMA KeyType == \A x \in Ops : KeyOf(x) \in Keys
BY Zenon DEF Ops, KeyOf, Keys, Id

\* A nonempty set of operations with different ids has a least one.
LEMMA LeastOpIn ==
  ASSUME Counting, NEW R, R \subseteq Ops, R # {}, \A x, y \in R : x.id = y.id => x = y
  PROVE  LeastOp(R) \in R
<1> DEFINE T == {x.id[1] : x \in R}
<1>1. T \subseteq Nat /\ T # {}
  BY DEF Ops, Id
<1>2. PICK d \in T : \A e \in T : d <= e
  <2> HIDE DEF T
  <2> QED BY <1>1, Zenon DEF Counting
<1> DEFINE U == {x.id[2] : x \in {y \in R : y.id[1] = d}}
<1>3. U \subseteq Nat /\ U # {}
  BY <1>2 DEF Ops, Id
<1>4. PICK n \in U : \A k \in U : n <= k
  <2> HIDE DEF U
  <2> QED BY <1>3, Zenon DEF Counting
<1>5. PICK x \in R : x.id[1] = d /\ x.id[2] = n
  BY <1>4, Zenon
<1>6. ASSUME NEW y \in R \ {x}
      PROVE  Less(<<0, x.id[1], x.id[2]>>, <<0, y.id[1], y.id[2]>>)
  <2>1. x.id \in Nat \X Nat /\ y.id \in Nat \X Nat /\ x.id # y.id
    BY <1>6, Zenon DEF Ops, Id
  <2>2. d <= y.id[1] /\ (y.id[1] = d => n <= y.id[2])
    BY <1>2, <1>4, <1>6
  <2>3. y.id[1] # d \/ y.id[2] # n
    BY <1>5, <2>1
  <2> QED
    BY <1>5, <2>1, <2>2, <2>3 DEF Less
<1>7. \E z \in R : \A y \in R \ {z} : Less(<<0, z.id[1], z.id[2]>>, <<0, y.id[1], y.id[2]>>)
  BY <1>6, Zenon
<1> QED
  BY <1>7, Zenon DEF LeastOp

-----------------------------------------------------------------------------
(* Stores: what a write leaves as it was *)

\* A write that keeps the log, the records and what exists.
Frame(s, t) ==
  /\ t.log = s.log /\ t.rec = s.rec /\ t.live \subseteq s.live
  /\ s.blobs \subseteq t.blobs
  /\ s.applied \subseteq t.applied /\ t.applied \subseteq IdsOf(s.log)
  /\ t.pending \subseteq s.pending
  /\ s.ctr <= t.ctr

\* The bound of Numbered moves with the counter.
LEMMA BoundMoves ==
  ASSUME NEW k \in Keys, NEW a \in Nat, NEW b \in Nat, a <= b, Self \in Nat, Now \in Nat,
         Less(k, <<Now, Self, a + 1>>)
  PROVE  Less(k, <<Now, Self, b + 1>>)
BY DEF Keys, Less

\* Such a write keeps the invariant, if the stamp is right.
LEMMA FrameSound ==
  ASSUME NEW s, NEW t, NEW A, NEW m, Sound(s, A, m), IsStore(t), Frame(s, t), Stamped(t)
  PROVE  Sound(t, A, m)
<1>1. s.ctr \in Nat /\ t.ctr \in Nat /\ s.log \subseteq Ops
  BY Zenon DEF Sound, OnDisk, IsStore
<1>2. Numbered(t)
  <2> SUFFICES ASSUME NEW x \in t.log
               PROVE  /\ x.id[1] = Self => x.id[2] <= t.ctr
                      /\ Less(KeyOf(x), <<Now, Self, t.ctr + 1>>)
                      /\ \A y \in t.log : x.id = y.id => x = y
    BY Zenon DEF Numbered
  <2>1. x \in s.log /\ x \in Ops /\ t.log = s.log /\ s.ctr <= t.ctr
    BY <1>1, Zenon DEF Frame
  <2>2. /\ x.id[1] = Self => x.id[2] <= s.ctr
        /\ Less(KeyOf(x), <<Now, Self, s.ctr + 1>>)
        /\ \A y \in s.log : x.id = y.id => x = y
    BY <2>1, Zenon DEF Sound, OnDisk, Numbered
  <2>3. Less(KeyOf(x), <<Now, Self, t.ctr + 1>>)
    BY <1>1, <2>1, <2>2, BoundMoves, KeyType, RepositoryAssumption, Zenon
  <2>4. x.id[2] \in Nat
    BY <2>1, Zenon DEF Ops, Id
  <2> QED
    BY <1>1, <2>1, <2>2, <2>3, <2>4
<1>3. PendingOps(t) \subseteq PendingOps(s)
  BY Zenon DEF Frame, PendingOps
<1>4. LoggedFirst(t)
  BY <1>3, Zenon DEF Sound, OnDisk, LoggedFirst, Frame
<1>5. ListedWhole(t)
  BY Zenon DEF Sound, OnDisk, ListedWhole, Frame
<1>6. Settled(t) /\ Made(t, m)
  BY Zenon DEF Sound, Settled, Made, Given, Addressed, Frame
<1>7. Parked(t)
  BY <1>3, Zenon DEF Sound, Parked
<1>8. Recs(t)
  BY Zenon DEF Sound, Recs, Addressed, Frame
<1>9. Returned(t, A)
  BY Zenon DEF Sound, Returned, Frame
<1> QED
  BY <1>2, <1>4, <1>5, <1>6, <1>7, <1>8, <1>9, Zenon DEF Sound, OnDisk

\* It keeps who is shut out, if the recipients stay.
LEMMA FrameShut ==
  ASSUME NEW s, NEW t, NEW B, NEW K, Shut(s, B, K), t.log = s.log,
         \A d \in B : t.seal[d] = s.seal[d]
  PROVE  Shut(t, B, K)
BY Zenon DEF Shut, EnvelopesFor

\* And what was turned.
LEMMA FrameTurned ==
  ASSUME NEW s, NEW t, NEW D, NEW K, NEW T, Turned(s, D, K, T), t.rec = s.rec,
         t.live \subseteq s.live
  PROVE  Turned(t, D, K, T)
BY Zenon DEF Turned, Readable, Files

-----------------------------------------------------------------------------
(* Stores: the writes of an operation *)

\* What lets the write of a peer's chunk be resealed.
Backed(s, op) ==
  \A x \in PeerWrites :
    x.chunk = op.chunk =>
      /\ x.inode \in IdsOf(s.log)
      /\ x.inode \in DOMAIN s.rec => Addressed(s, x.inode)

\* An operation that may be logged: a number not used yet, and envelopes
\* only for a chunk made here or one resealed.
Loggable(s, m, op) ==
  /\ op \in Ops /\ op.format = 3 /\ op.id \notin IdsOf(s.log)
  /\ Less(KeyOf(op), <<Now, Self, s.ctr + 1>>)
  /\ Own(op) => op.id[2] <= s.ctr
  /\ Own(op) /\ op.to # {} => Backed(s, op) /\ \A n \in Nat : op.chunk = <<Self, n>> => n <= m

\* append_op adds an operation with a new number.
LEMMA AppendIs ==
  ASSUME NEW s, IsStore(s), NEW op \in Ops, op.id \notin IdsOf(s.log)
  PROVE  /\ IsStore(append_op(s, op))
         /\ append_op(s, op) = [s EXCEPT !.log = s.log \cup {op}]
         /\ append_op(s, op).log = s.log \cup {op}
         /\ IdsOf(append_op(s, op).log) = IdsOf(s.log) \cup {op.id}
<1>1. {x \in s.log : x.id # op.id} = s.log
  BY Zenon DEF IdsOf
<1>2. append_op(s, op) = [s EXCEPT !.log = s.log \cup {op}]
  BY <1>1, Zenon DEF append_op, IsStore
<1>3. append_op(s, op).log = s.log \cup {op}
  BY <1>2, Zenon DEF IsStore
<1>4. IsStore(append_op(s, op))
  BY <1>2 DEF IsStore
<1> QED
  BY <1>2, <1>3, <1>4, Zenon DEF IdsOf

\* Logging it keeps the invariant.
LEMMA AppendSound ==
  ASSUME NEW s, NEW A, NEW m, NEW op, Sound(s, A, m), Loggable(s, m, op), s.head # "none"
  PROVE  Sound(append_op(s, op), A, m)
<1> DEFINE t == append_op(s, op)
<1>1. IsStore(s) /\ op \in Ops /\ op.id \notin IdsOf(s.log) /\ s.ctr \in Nat /\ s.log \subseteq Ops
  BY Zenon DEF Sound, OnDisk, Loggable, IsStore
<1>2. /\ IsStore(t) /\ t = [s EXCEPT !.log = s.log \cup {op}]
      /\ t.log = s.log \cup {op} /\ IdsOf(t.log) = IdsOf(s.log) \cup {op.id}
  BY <1>1, AppendIs, Zenon
<1>3. /\ t.ver = s.ver /\ t.root = s.root /\ t.head = s.head /\ t.ctr = s.ctr
      /\ t.applied = s.applied /\ t.pending = s.pending /\ t.rec = s.rec
      /\ t.live = s.live /\ t.blobs = s.blobs
  BY <1>1, <1>2, Zenon DEF IsStore
<1> HIDE DEF t
<1>4. Numbered(t)
  <2>1. Numbered(s)
    BY Zenon DEF Sound, OnDisk
  <2>2. \A x \in s.log : x.id # op.id
    BY <1>1, Zenon DEF IdsOf
  <2> QED
    BY <1>2, <1>3, <2>1, <2>2 DEF Numbered, Loggable, Own
<1>5. PendingOps(t) = PendingOps(s)
  <2>1. op.id \notin s.pending
    BY <1>1, Zenon DEF Sound, OnDisk, LoggedFirst
  <2> QED
    BY <1>2, <1>3, <2>1, Zenon DEF PendingOps
<1>6. LoggedFirst(t)
  <2>1. LoggedFirst(s)
    BY Zenon DEF Sound, OnDisk
  <2>2. t.applied \cup t.pending \cup DOMAIN t.rec \subseteq IdsOf(t.log)
    BY <1>2, <1>3, <2>1, Zenon DEF LoggedFirst
  <2>3. \A f \in DOMAIN t.rec :
          t.rec[f] # None => t.rec[f].inode = f /\ \E x \in t.log : Bare(x) = Bare(t.rec[f])
    BY <1>2, <1>3, <2>1 DEF LoggedFirst
  <2> QED
    BY <1>5, <2>1, <2>2, <2>3, Zenon DEF LoggedFirst
<1>7. ListedWhole(t)
  BY <1>3 DEF Sound, OnDisk, ListedWhole
<1>8. Stamped(t)
  BY <1>2, <1>3, Zenon DEF Sound, OnDisk, Stamped, Loggable
<1>9. Given(t) \subseteq Given(s) \cup (IF Own(op) /\ op.to # {} THEN {op} ELSE {})
  BY <1>2, Zenon DEF Given
<1>10. Settled(t)
  <2> SUFFICES ASSUME NEW y \in Given(t), NEW x \in PeerWrites, x.chunk = y.chunk
               PROVE  /\ x.inode \in IdsOf(s.log)
                      /\ x.inode \in DOMAIN s.rec => Addressed(s, x.inode)
    BY <1>2, <1>3, ZenonT(60) DEF Settled, Addressed
  <2>1. CASE y \in Given(s)
    BY <2>1, Zenon DEF Sound, Settled
  <2>2. CASE y = op /\ Own(op) /\ op.to # {}
    BY <2>2, Zenon DEF Loggable, Backed
  <2> QED
    BY <1>9, <2>1, <2>2, Zenon
<1>11. Made(t, m)
  BY <1>9, Zenon DEF Sound, Made, Loggable
<1>12. Parked(t) /\ Recs(t)
  BY <1>3, <1>5, Zenon DEF Sound, Parked, Recs, Addressed
<1>13. Returned(t, A)
  BY <1>2, <1>3, Zenon DEF Sound, Returned
<1> QED
  BY <1>2, <1>4, <1>6, <1>7, <1>8, <1>10, <1>11, <1>12, <1>13, Zenon DEF Sound, OnDisk, t

\* Logging an operation that is not for them keeps devices shut out.
LEMMA AppendShut ==
  ASSUME NEW s, NEW op \in Ops, NEW B, NEW K, IsStore(s), op.id \notin IdsOf(s.log),
         Shut(s, B, K), Own(op) => \A d \in B : d \notin op.to
  PROVE  Shut(append_op(s, op), B, K)
<1> DEFINE t == append_op(s, op)
<1>1. t = [s EXCEPT !.log = s.log \cup {op}] /\ t.log = s.log \cup {op}
  BY AppendIs, Zenon
<1>2. t.seal = s.seal
  BY <1>1, Zenon DEF IsStore
<1> HIDE DEF t
<1>3. ASSUME NEW d \in B PROVE EnvelopesFor(t, d) = EnvelopesFor(s, d)
  BY <1>1, Zenon DEF EnvelopesFor, Own
<1> QED
  BY <1>2, <1>3, Zenon DEF Shut, t

\* The forms a proof takes, and the operations a device issues.
ProofModes == {"none", "transparent", "commit"}

LocalKinds == {"CreateFile", "Write", "Unlink"}

Proven(op, q) == [op EXCEPT !.proof = q]

\* t has x where s has op, and is else the same.
Replaced(s, op, x, t) ==
  /\ x \in Ops /\ Bare(x) = Bare(op) /\ x.id = op.id /\ x.to = op.to
  /\ x.chunk = op.chunk /\ x.time = op.time /\ x.format = op.format /\ x.kind = op.kind
  /\ IsStore(t) /\ t.ver = s.ver /\ t.root = s.root /\ t.head = s.head /\ t.ctr = s.ctr
  /\ t.applied = s.applied /\ t.pending = s.pending /\ t.rec = s.rec
  /\ t.live = s.live /\ t.blobs = s.blobs /\ t.pin = s.pin /\ t.seal = s.seal
  /\ t.log = (s.log \ {op}) \cup {x} /\ IdsOf(t.log) = IdsOf(s.log)

\* The operation with its proof takes the place of the provisional one.
LEMMA ReplaceIs ==
  ASSUME NEW s, NEW op \in s.log, NEW q \in ProofModes, OnDisk(s)
  PROVE  Replaced(s, op, Proven(op, q), append_op(s, Proven(op, q)))
<1> DEFINE x == Proven(op, q)
           t == append_op(s, x)
<1>1. op \in Ops /\ IsStore(s) /\ s.log \subseteq Ops
  BY Zenon DEF OnDisk, IsStore
<1>2. /\ x \in Ops /\ Bare(x) = Bare(op) /\ x.id = op.id /\ x.to = op.to
      /\ x.chunk = op.chunk /\ x.time = op.time /\ x.format = op.format /\ x.kind = op.kind
  BY <1>1, Zenon DEF Ops, Bare, Proven, ProofModes
<1> HIDE DEF x
<1>3. {y \in s.log : y.id # x.id} = s.log \ {op}
  BY <1>2, Zenon DEF OnDisk, Numbered
<1>4. t = [s EXCEPT !.log = (s.log \ {op}) \cup {x}]
  BY <1>1, <1>3, Zenon DEF append_op, IsStore
<1>5. t.log = (s.log \ {op}) \cup {x}
  BY <1>1, <1>4, Zenon DEF IsStore
<1>6. IsStore(t)
  BY <1>1, <1>2, <1>4 DEF IsStore
<1>7. IdsOf(t.log) = IdsOf(s.log)
  BY <1>2, <1>5, Zenon DEF IdsOf
<1>8. /\ t.ver = s.ver /\ t.root = s.root /\ t.head = s.head /\ t.ctr = s.ctr
      /\ t.applied = s.applied /\ t.pending = s.pending /\ t.rec = s.rec
      /\ t.live = s.live /\ t.blobs = s.blobs /\ t.pin = s.pin /\ t.seal = s.seal
  BY <1>1, <1>4, Zenon DEF IsStore
<1> QED
  BY <1>2, <1>5, <1>6, <1>7, <1>8, Zenon DEF x, Replaced

SameEnvelopes(s, t) == \A d : EnvelopesFor(t, d) = EnvelopesFor(s, d)

\* Which keeps the invariant, and the envelopes.
LEMMA ReplaceSound ==
  ASSUME NEW s, NEW A, NEW m, NEW op \in s.log, NEW q \in ProofModes,
         Sound(s, A, m), op \notin PendingOps(s)
  PROVE  /\ Sound(append_op(s, Proven(op, q)), A, m)
         /\ SameEnvelopes(s, append_op(s, Proven(op, q)))
<1> DEFINE x == Proven(op, q)
           t == append_op(s, x)
<1>1. OnDisk(s) /\ IsStore(s) /\ s.log \subseteq Ops /\ s.ctr \in Nat
  BY Zenon DEF Sound, OnDisk, IsStore
<1>2. /\ x \in Ops /\ Bare(x) = Bare(op) /\ x.id = op.id /\ x.to = op.to
      /\ x.chunk = op.chunk /\ x.time = op.time /\ x.format = op.format /\ x.kind = op.kind
      /\ IsStore(t)
      /\ t.log = (s.log \ {op}) \cup {x} /\ IdsOf(t.log) = IdsOf(s.log)
  <2>1. Replaced(s, op, x, t)
    BY <1>1, ReplaceIs, Zenon
  <2> HIDE DEF x, t
  <2> QED
    BY <2>1, Zenon DEF Replaced
<1>3. /\ t.ver = s.ver /\ t.root = s.root /\ t.head = s.head /\ t.ctr = s.ctr
      /\ t.applied = s.applied /\ t.pending = s.pending /\ t.rec = s.rec
      /\ t.live = s.live /\ t.blobs = s.blobs
  <2>1. Replaced(s, op, x, t)
    BY <1>1, ReplaceIs, Zenon
  <2> HIDE DEF x, t
  <2> QED
    BY <2>1, Zenon DEF Replaced
<1> HIDE DEF t, x
<1>4. Numbered(t)
  <2>1. Numbered(s) /\ KeyOf(x) = KeyOf(op)
    BY <1>2, Zenon DEF Sound, OnDisk, KeyOf
  <2> QED
    BY <1>2, <1>3, <2>1 DEF Numbered
<1>5. PendingOps(t) = PendingOps(s)
  <2>1. op.id \notin s.pending
    BY Zenon DEF PendingOps
  <2> QED
    BY <1>2, <1>3, <2>1, Zenon DEF PendingOps
<1>6. LoggedFirst(t)
  <2>1. LoggedFirst(s)
    BY Zenon DEF Sound, OnDisk
  <2>2. t.applied \cup t.pending \cup DOMAIN t.rec \subseteq IdsOf(t.log)
    BY <1>2, <1>3, <2>1, Zenon DEF LoggedFirst
  <2>3. ASSUME NEW f \in DOMAIN t.rec, t.rec[f] # None
        PROVE  t.rec[f].inode = f /\ \E z \in t.log : Bare(z) = Bare(t.rec[f])
    <3>1. PICK z \in s.log : Bare(z) = Bare(t.rec[f])
      BY <1>3, <2>1, <2>3 DEF LoggedFirst
    <3>2. IF z = op THEN x \in t.log /\ Bare(x) = Bare(t.rec[f]) ELSE z \in t.log
      BY <1>2, <3>1, Zenon
    <3> QED
      BY <1>3, <2>1, <2>3, <3>1, <3>2, Zenon DEF LoggedFirst
  <2> QED
    BY <1>5, <2>1, <2>2, <2>3, Zenon DEF LoggedFirst
<1>7. ListedWhole(t)
  BY <1>3, Zenon DEF Sound, OnDisk, ListedWhole
<1>8. Stamped(t)
  BY <1>2, <1>3, Zenon DEF Sound, OnDisk, Stamped
<1>9. \A y \in Given(t) : \E z \in Given(s) : y.chunk = z.chunk
  BY <1>2, Zenon DEF Given, Own
<1>10. Settled(t) /\ Made(t, m)
  <2>1. Settled(s) /\ Made(s, m)
    BY Zenon DEF Sound
  <2>2. ASSUME NEW y \in Given(t), NEW w \in PeerWrites, w.chunk = y.chunk
        PROVE  /\ w.inode \in IdsOf(t.log)
               /\ w.inode \in DOMAIN t.rec => Addressed(t, w.inode)
    <3>1. PICK z \in Given(s) : y.chunk = z.chunk
      BY <1>9, Zenon
    <3> QED
      BY <1>2, <1>3, <2>1, <2>2, <3>1, Zenon DEF Settled, Addressed
  <2> QED
    BY <1>9, <2>1, <2>2, Zenon DEF Settled, Made
<1>11. Parked(t) /\ Recs(t)
  BY <1>3, <1>5, Zenon DEF Sound, Parked, Recs, Addressed
<1>12. Returned(t, A)
  <2> SUFFICES ASSUME NEW a \in A PROVE (\E z \in t.log : Bare(z) = a) /\ a.id \in t.applied
    BY Zenon DEF Returned
  <2>1. PICK z \in s.log : Bare(z) = a
    BY Zenon DEF Sound, Returned
  <2>2. IF z = op THEN x \in t.log /\ Bare(x) = a ELSE z \in t.log
    BY <1>2, <2>1, Zenon
  <2> QED
    BY <1>3, <2>1, <2>2, Zenon DEF Sound, Returned
<1>13. ASSUME NEW d PROVE EnvelopesFor(t, d) = EnvelopesFor(s, d)
  <2> DEFINE F(r) == {y \in r.log : y.id[1] = Self /\ d \in y.to}
  <2>1. \A c : (\E y \in F(t) : c = y.chunk) <=> (\E y \in F(s) : c = y.chunk)
    BY <1>2, Zenon
  <2> QED
    BY <2>1 DEF EnvelopesFor
<1> QED
  BY <1>2, <1>4, <1>6, <1>7, <1>8, <1>10, <1>11, <1>12, <1>13, Zenon DEF Sound, OnDisk, SameEnvelopes, t, x

\* A write of a peer is parked.
LEMMA ParkSound ==
  ASSUME NEW s, NEW A, NEW m, NEW op \in s.log, op \in PeerWrites, Sound(s, A, m)
  PROVE  Sound([s EXCEPT !.pending = @ \cup {op.id}], A, m)
<1> DEFINE t == [s EXCEPT !.pending = @ \cup {op.id}]
<1>1. IsStore(s) /\ op \in Ops
  BY Zenon DEF Sound, OnDisk, IsStore
<1>2. /\ t.ver = s.ver /\ t.root = s.root /\ t.head = s.head /\ t.ctr = s.ctr /\ t.log = s.log
      /\ t.applied = s.applied /\ t.pending = s.pending \cup {op.id} /\ t.rec = s.rec
      /\ t.live = s.live /\ t.blobs = s.blobs
  BY <1>1, Zenon DEF IsStore
<1>3. IsStore(t)
  <2>1. IsFiniteSet(s.pending \cup {op.id})
    BY <1>1, Finite, Zenon DEF IsStore
  <2> QED
    BY <1>1, <2>1 DEF IsStore, Ops
<1> HIDE DEF t
<1>4. PendingOps(t) \subseteq PendingOps(s) \cup {op}
  BY <1>2, Zenon DEF Sound, OnDisk, Numbered, PendingOps
<1>5. LoggedFirst(t)
  BY <1>2, <1>4 DEF Sound, OnDisk, LoggedFirst, PeerWrites, IdsOf
<1>6. Numbered(t) /\ ListedWhole(t) /\ Stamped(t)
  BY <1>2 DEF Sound, OnDisk, Numbered, ListedWhole, Stamped
<1>7. Settled(t) /\ Made(t, m)
  BY <1>2 DEF Sound, Settled, Made, Given, Addressed
<1>8. Parked(t)
  BY <1>4, Zenon DEF Sound, Parked, PeerWrites
<1>9. Recs(t) /\ Returned(t, A)
  BY <1>2, Zenon DEF Sound, Recs, Addressed, Returned
<1> QED
  BY <1>3, <1>5, <1>6, <1>7, <1>8, <1>9, Zenon DEF Sound, OnDisk, t

\* The record of a file that is new.
LEMMA NewRecordIs ==
  ASSUME NEW s, NEW f \in Id, IsStore(s)
  PROVE  LET t == NewRecord(s, f) IN
         /\ IsStore(t) /\ DOMAIN t.rec = DOMAIN s.rec \cup {f} /\ t.rec[f] = None
         /\ \A g \in DOMAIN s.rec : g # f => t.rec[g] = s.rec[g]
         /\ t.ver = s.ver /\ t.root = s.root /\ t.head = s.head /\ t.ctr = s.ctr
         /\ t.log = s.log /\ t.applied = s.applied /\ t.pending = s.pending
         /\ t.live = s.live /\ t.gone = s.gone /\ t.blobs = s.blobs
         /\ t.pin = s.pin /\ t.seal = s.seal
<1> DEFINE r == [g \in DOMAIN s.rec \cup {f} |-> IF g = f THEN None ELSE s.rec[g]]
           t == NewRecord(s, f)
<1>1. t = [s EXCEPT !.rec = r]
  BY Zenon DEF NewRecord, IsStore
<1>2. r \in [DOMAIN r -> Ops \cup {None}] /\ DOMAIN r = DOMAIN s.rec \cup {f}
  BY Zenon DEF IsStore
<1>3. IsFiniteSet(DOMAIN r)
  BY <1>2, Finite, Zenon DEF IsStore
<1>4. r[f] = None /\ \A g \in DOMAIN s.rec : g # f => r[g] = s.rec[g]
  BY Zenon
<1> HIDE DEF r
<1>5. IsStore(t) /\ t.rec = r
  BY <1>1, <1>2, <1>3, Zenon DEF IsStore
<1> QED
  BY <1>1, <1>2, <1>4, <1>5 DEF IsStore

\* No chunk sealed here belongs to this file.
Unsealed(s, f) ==
  \A y \in Given(s), x \in PeerWrites : x.chunk = y.chunk => x.inode # f

\* The operation that creates a file finds nothing of it.
LEMMA NewIsUnsealed ==
  ASSUME NEW s, NEW A, NEW m, NEW op \in Ops, Sound(s, A, m), op.id \notin IdsOf(s.log),
         Own(op) => op.to = {}
  PROVE  Unsealed(append_op(s, op), op.id)
<1>1. IsStore(s)
  BY Zenon DEF Sound, OnDisk
<1>2. append_op(s, op).log = s.log \cup {op}
  BY <1>1, AppendIs, Zenon
<1>3. Given(append_op(s, op)) \subseteq Given(s)
  BY <1>2, Zenon DEF Given
<1> QED
  BY <1>3, Zenon DEF Unsealed, Sound, Settled

\* Its record keeps the invariant.
LEMMA NewRecordSound ==
  ASSUME NEW s, NEW A, NEW m, NEW f \in Id, Sound(s, A, m), f \in IdsOf(s.log),
         f \notin DOMAIN s.rec, Unsealed(s, f)
  PROVE  Sound(NewRecord(s, f), A, m)
<1> DEFINE t == NewRecord(s, f)
<1>1. /\ IsStore(t) /\ DOMAIN t.rec = DOMAIN s.rec \cup {f} /\ t.rec[f] = None
      /\ \A g \in DOMAIN s.rec : g # f => t.rec[g] = s.rec[g]
      /\ t.ver = s.ver /\ t.root = s.root /\ t.head = s.head /\ t.ctr = s.ctr
      /\ t.log = s.log /\ t.applied = s.applied /\ t.pending = s.pending
      /\ t.live = s.live /\ t.gone = s.gone /\ t.blobs = s.blobs
  BY NewRecordIs DEF Sound, OnDisk
<1> HIDE DEF t
<1>2. PendingOps(t) = PendingOps(s)
  BY <1>1, Zenon DEF PendingOps
<1>3. LoggedFirst(t)
  <2>1. LoggedFirst(s)
    BY Zenon DEF Sound, OnDisk
  <2>2. t.applied \cup t.pending \cup DOMAIN t.rec \subseteq IdsOf(t.log)
    BY <1>1, <2>1, Zenon DEF LoggedFirst
  <2>3. \A g \in DOMAIN t.rec :
          t.rec[g] # None => t.rec[g].inode = g /\ \E x \in t.log : Bare(x) = Bare(t.rec[g])
    BY <1>1, <2>1 DEF LoggedFirst
  <2> QED
    BY <1>2, <2>1, <2>2, <2>3, Zenon DEF LoggedFirst
<1>4. Numbered(t) /\ Stamped(t)
  BY <1>1, Zenon DEF Sound, OnDisk, Numbered, Stamped
<1>5. ListedWhole(t)
  BY <1>1 DEF Sound, OnDisk, ListedWhole
<1>6. Settled(t) /\ Made(t, m)
  <2>1. Given(t) = Given(s)
    BY <1>1, Zenon DEF Given
  <2> QED
    BY <1>1, <2>1 DEF Sound, Settled, Made, Addressed, Unsealed
<1>7. Parked(t) /\ Recs(t) /\ Returned(t, A)
  BY <1>1, <1>2, Zenon DEF Sound, Parked, Recs, Returned, Addressed
<1> QED
  BY <1>1, <1>3, <1>4, <1>5, <1>6, <1>7, Zenon DEF Sound, OnDisk, t

\* And it turns nothing back.
LEMMA NewRecordTurned ==
  ASSUME NEW s, NEW A, NEW m, NEW f \in Id, Sound(s, A, m), f \notin DOMAIN s.rec,
         NEW D, NEW K, NEW T, Turned(s, D, K, T)
  PROVE  Turned(NewRecord(s, f), D, K, T)
<1> DEFINE t == NewRecord(s, f)
<1>1. /\ DOMAIN t.rec = DOMAIN s.rec \cup {f} /\ t.rec[f] = None
      /\ \A g \in DOMAIN s.rec : g # f => t.rec[g] = s.rec[g]
      /\ t.live = s.live
  BY NewRecordIs DEF Sound, OnDisk
<1> HIDE DEF t
<1>2. s.live \subseteq DOMAIN s.rec
  BY Zenon DEF Sound, OnDisk, ListedWhole
<1>3. \A g \in s.live : t.rec[g] = s.rec[g]
  BY <1>1, <1>2, Zenon
<1>4. Readable(t) \subseteq Readable(s)
  BY <1>1, <1>2, <1>3, Zenon DEF Readable, Files
<1>5. \A g \in Readable(t) : g \in s.live
  BY <1>1, Zenon DEF Readable, Files
<1> QED
  BY <1>1, <1>3, <1>4, <1>5, Zenon DEF Turned, t

\* It is listed.
LEMMA ListSound ==
  ASSUME NEW s, NEW A, NEW m, NEW f \in Id, Sound(s, A, m), f \in DOMAIN s.rec,
         s.rec[f] = None
  PROVE  Sound([s EXCEPT !.live = (@ \cup {f}) \ s.gone], A, m)
<1> DEFINE t == [s EXCEPT !.live = (@ \cup {f}) \ s.gone]
<1>1. IsStore(s)
  BY Zenon DEF Sound, OnDisk
<1>2. /\ t.ver = s.ver /\ t.root = s.root /\ t.head = s.head /\ t.ctr = s.ctr /\ t.log = s.log
      /\ t.applied = s.applied /\ t.pending = s.pending /\ t.rec = s.rec
      /\ t.live = (s.live \cup {f}) \ s.gone /\ t.blobs = s.blobs
  BY <1>1, Zenon DEF IsStore
<1>3. IsStore(t)
  BY <1>1, ZenonT(60) DEF IsStore
<1> HIDE DEF t
<1>4. Numbered(t) /\ Stamped(t) /\ LoggedFirst(t)
  BY <1>2 DEF Sound, OnDisk, Numbered, Stamped, LoggedFirst, PendingOps
<1>5. ListedWhole(t)
  BY <1>2, Zenon DEF Sound, OnDisk, ListedWhole
<1>6. Settled(t) /\ Made(t, m)
  BY <1>2 DEF Sound, Settled, Made, Given, Addressed
<1>7. Parked(t) /\ Recs(t) /\ Returned(t, A)
  BY <1>2, Zenon DEF Sound, Parked, Recs, Returned, Addressed, PendingOps
<1> QED
  BY <1>3, <1>4, <1>5, <1>6, <1>7, Zenon DEF Sound, OnDisk, t

\* An envelope is in an operation of this device.
LEMMA EnvelopeGiven ==
  ASSUME NEW s, NEW d, NEW c \in EnvelopesFor(s, d)
  PROVE  \E y \in Given(s) : y.chunk = c
BY Zenon DEF EnvelopesFor, Given, Own

\* What a device shut out has an envelope for, of a peer's chunks, is settled.
LEMMA ShutSettled ==
  ASSUME NEW s, NEW A, NEW m, Sound(s, A, m), NEW B, NEW K, Shut(s, B, K), NEW d \in B,
         NEW x \in PeerWrites, x.chunk \in K[d]
  PROVE  /\ x.inode \in IdsOf(s.log)
         /\ x.inode \in DOMAIN s.rec => Addressed(s, x.inode)
<1>1. x.chunk \in EnvelopesFor(s, d)
  BY Zenon DEF Shut
<1>2. PICK y \in Given(s) : y.chunk = x.chunk
  BY <1>1, EnvelopeGiven, Zenon
<1> QED
  BY <1>2, Zenon DEF Sound, Settled

\* Listing a new file turns nothing back.
LEMMA ListTurned ==
  ASSUME NEW s, NEW A, NEW m, NEW f \in Id, Sound(s, A, m), f \in DOMAIN s.rec,
         s.rec[f] = None, NEW B, NEW D \in SUBSET B, NEW K, NEW T, Shut(s, B, K),
         Turned(s, D, K, T)
  PROVE  Turned([s EXCEPT !.live = (@ \cup {f}) \ s.gone], D, K, T)
<1> DEFINE t == [s EXCEPT !.live = (@ \cup {f}) \ s.gone]
<1>1. t.rec = s.rec /\ t.live \subseteq s.live \cup {f}
  BY Zenon DEF Sound, OnDisk, IsStore
<1> HIDE DEF t
<1>2. Readable(t) \subseteq Readable(s)
  BY <1>1, Zenon DEF Readable, Files
<1>3. ASSUME NEW d \in D, NEW x \in PeerWrites, x.chunk \in K[d] PROVE x.inode # f
  BY <1>3, ShutSettled, Zenon DEF Addressed
<1> QED
  BY <1>1, <1>2, <1>3, Zenon DEF Turned, t

\* A write this device can open, by a peer or its own.
Opens(op) == op.kind = "Write" /\ Self \in op.to /\ (op \in PeerWrites \/ Own(op))

\* Peers address their writes to this device.
LEMMA PeersOpen == \A x \in PeerWrites : Opens(x)
BY WritesAssumption, Zenon DEF PeerWrites, Opens

\* A write takes the register.
LEMMA WinIs ==
  ASSUME NEW s, NEW op \in Ops, IsStore(s), op.inode \in DOMAIN s.rec
  PROVE  LET t == [s EXCEPT !.rec[op.inode] = op] IN
         /\ IsStore(t) /\ DOMAIN t.rec = DOMAIN s.rec /\ t.rec[op.inode] = op
         /\ \A g \in DOMAIN s.rec : g # op.inode => t.rec[g] = s.rec[g]
         /\ t.ver = s.ver /\ t.root = s.root /\ t.head = s.head /\ t.ctr = s.ctr
         /\ t.log = s.log /\ t.applied = s.applied /\ t.pending = s.pending
         /\ t.live = s.live /\ t.gone = s.gone /\ t.blobs = s.blobs
         /\ t.pin = s.pin /\ t.seal = s.seal
<1> DEFINE r == [s.rec EXCEPT ![op.inode] = op]
           t == [s EXCEPT !.rec[op.inode] = op]
<1>1. t = [s EXCEPT !.rec = r]
  BY Zenon DEF IsStore
<1>2. r \in [DOMAIN r -> Ops \cup {None}] /\ DOMAIN r = DOMAIN s.rec
  BY Zenon DEF IsStore
<1>3. r[op.inode] = op /\ \A g \in DOMAIN s.rec : g # op.inode => r[g] = s.rec[g]
  BY Zenon DEF IsStore
<1> HIDE DEF r
<1>4. IsFiniteSet(DOMAIN r)
  BY <1>2, Zenon DEF IsStore
<1>5. IsStore(t) /\ t.rec = r
  BY <1>1, <1>2, <1>4, Zenon DEF IsStore
<1> QED
  BY <1>1, <1>2, <1>3, <1>5, Zenon DEF IsStore

\* Which keeps the invariant when its content is there.
LEMMA WinSound ==
  ASSUME NEW s, NEW A, NEW m, NEW op \in s.log, Sound(s, A, m), op.inode \in DOMAIN s.rec,
         Opens(op), {NodeOf(op), ChunkOf(op)} \subseteq s.blobs
  PROVE  Sound([s EXCEPT !.rec[op.inode] = op], A, m)
<1> DEFINE t == [s EXCEPT !.rec[op.inode] = op]
<1>1. op \in Ops /\ op # None
  BY RepositoryAssumption, Zenon DEF Sound, OnDisk, IsStore
<1>2. /\ IsStore(t) /\ DOMAIN t.rec = DOMAIN s.rec /\ t.rec[op.inode] = op
      /\ \A g \in DOMAIN s.rec : g # op.inode => t.rec[g] = s.rec[g]
      /\ t.ver = s.ver /\ t.root = s.root /\ t.head = s.head /\ t.ctr = s.ctr
      /\ t.log = s.log /\ t.applied = s.applied /\ t.pending = s.pending
      /\ t.live = s.live /\ t.gone = s.gone /\ t.blobs = s.blobs
  BY <1>1, WinIs DEF Sound, OnDisk
<1> HIDE DEF t
<1>3. PendingOps(t) = PendingOps(s)
  BY <1>2, Zenon DEF PendingOps
<1>4. LoggedFirst(t)
  <2>1. LoggedFirst(s)
    BY Zenon DEF Sound, OnDisk
  <2>2. \A g \in DOMAIN t.rec :
          t.rec[g] # None => t.rec[g].inode = g /\ \E x \in t.log : Bare(x) = Bare(t.rec[g])
    BY <1>2, <2>1 DEF LoggedFirst
  <2> QED
    BY <1>2, <1>3, <2>1, <2>2, Zenon DEF LoggedFirst
<1>5. Numbered(t) /\ Stamped(t)
  BY <1>2, Zenon DEF Sound, OnDisk, Numbered, Stamped
<1>6. ListedWhole(t)
  BY <1>2 DEF Sound, OnDisk, ListedWhole
<1>7. Settled(t) /\ Made(t, m)
  <2>1. Given(t) = Given(s)
    BY <1>2, Zenon DEF Given
  <2> QED
    BY <1>1, <1>2, <2>1, Zenon DEF Sound, Settled, Made, Addressed, Opens
<1>8. Parked(t) /\ Returned(t, A)
  BY <1>2, <1>3, Zenon DEF Sound, Parked, Returned
<1>9. Recs(t)
  BY <1>2, Zenon DEF Sound, Recs, Addressed, Opens
<1> QED
  BY <1>2, <1>4, <1>5, <1>6, <1>7, <1>8, <1>9, Zenon DEF Sound, OnDisk, t

\* And turns nothing back: a peer's write under a chunk that a device of D
\* has cannot win where one of this device's holds the register.
LEMMA WinTurned ==
  ASSUME NEW s, NEW A, NEW m, NEW op \in s.log, Sound(s, A, m), op.inode \in DOMAIN s.rec,
         Opens(op), write_can_win(s, op),
         NEW B, NEW D \in SUBSET B, NEW K, NEW T, Shut(s, B, K), Turned(s, D, K, T),
         op \in PeerWrites \/ \A d \in D : op.chunk \notin K[d]
  PROVE  Turned([s EXCEPT !.rec[op.inode] = op], D, K, T)
<1> DEFINE t == [s EXCEPT !.rec[op.inode] = op]
           f == op.inode
<1>1. op \in Ops /\ op # None /\ s.log \subseteq Ops /\ Script \subseteq Ops
  BY RepositoryAssumption, ScriptAssumption DEF Sound, OnDisk, IsStore
<1>2. /\ DOMAIN t.rec = DOMAIN s.rec /\ t.rec[f] = op /\ t.live = s.live
      /\ \A g \in DOMAIN s.rec : g # f => t.rec[g] = s.rec[g]
  BY <1>1, WinIs DEF Sound, OnDisk
<1> HIDE DEF t
<1>3. s.live \subseteq DOMAIN s.rec /\ s.rec[f] \in Ops \cup {None}
  BY Zenon DEF Sound, OnDisk, ListedWhole, IsStore
<1>4. ASSUME NEW d \in D, NEW x \in PeerWrites, x.chunk \in K[d], x.inode = f, f \in s.live
      PROVE  f \in T \/ (Less(KeyOf(s.rec[f]), KeyOf(op)) /\ ~Less(KeyOf(s.rec[f]), KeyOf(x)))
  <2>1. Addressed(s, f)
    BY <1>3, <1>4, ShutSettled, Zenon
  <2>2. Less(KeyOf(s.rec[f]), KeyOf(op))
    BY <2>1, Zenon DEF write_can_win, Addressed
  <2> QED
    BY <1>4, <2>2, Zenon DEF Turned
<1>5. ASSUME NEW d \in D, NEW x \in PeerWrites, x.chunk \in K[d], x.inode \in t.live
      PROVE  x.inode \in T \/ ~Less(KeyOf(t.rec[x.inode]), KeyOf(x))
  <2>1. CASE x.inode # f
    BY <1>2, <1>3, <1>5, <2>1, Zenon DEF Turned
  <2>2. CASE x.inode = f
    <3>1. f \in T \/ (Less(KeyOf(s.rec[f]), KeyOf(op)) /\ ~Less(KeyOf(s.rec[f]), KeyOf(x)))
      BY <1>2, <1>4, <1>5, <2>2, Zenon
    <3>2. CASE f \in T
      BY <2>2, <3>2, Zenon
    <3>3. CASE f \notin T
      <4>1. s.rec[f] # None
        BY <1>2, <1>3, <1>5, <2>2, ShutSettled DEF Addressed
      <4>2. KeyOf(s.rec[f]) \in Keys /\ KeyOf(op) \in Keys /\ KeyOf(x) \in Keys
        BY <1>1, <1>3, <4>1, KeyType, Zenon DEF PeerWrites
      <4>3. ~Less(KeyOf(op), KeyOf(x))
        BY <3>1, <3>3, <4>2, LessOrder, Zenon
      <4> QED
        BY <1>2, <2>2, <4>3, Zenon
    <3> QED
      BY <3>2, <3>3, Zenon
  <2> QED
    BY <2>1, <2>2, Zenon
<1>6. ASSUME NEW d \in D, NEW g \in Readable(t), t.rec[g].chunk \in K[d]
      PROVE  g \in T
  <2>1. g \in s.live /\ g \in DOMAIN s.rec
    BY <1>2, Zenon DEF Readable, Files
  <2>2. CASE g # f
    <3>1. g \in Readable(s) /\ s.rec[g].chunk \in K[d]
      BY <1>2, <1>6, <2>1, <2>2, Zenon DEF Readable, Files
    <3> QED
      BY <3>1, Zenon DEF Turned
  <2>3. CASE g = f
    <3>1. op \in PeerWrites /\ op.chunk \in K[d]
      BY <1>2, <1>6, <2>3, Zenon
    <3>2. KeyOf(op) \in Keys
      BY <1>1, KeyType, Zenon
    <3>3. f \in T \/ ~Less(KeyOf(s.rec[f]), KeyOf(op))
      BY <1>4, <2>1, <2>3, <3>1, Zenon
    <3>4. f \in T \/ Less(KeyOf(s.rec[f]), KeyOf(op))
      BY <1>4, <2>1, <2>3, <3>1, Zenon
    <3> QED
      BY <2>3, <3>3, <3>4, Zenon
  <2> QED
    BY <2>2, <2>3, Zenon
<1> QED
  BY <1>5, <1>6, Zenon DEF Turned, t

\* A write of this device, later than every peer's and under a chunk that no
\* device of D has, turns its file.
LEMMA TurnedDrop ==
  ASSUME NEW s, NEW D, NEW K, NEW T, Turned(s, D, K, T), NEW f, s.rec[f] \in Ops,
         \A d \in D : s.rec[f].chunk \notin K[d],
         \A x \in PeerWrites : Less(KeyOf(x), KeyOf(s.rec[f]))
  PROVE  Turned(s, D, K, T \ {f})
<1>1. ASSUME NEW x \in PeerWrites PROVE ~Less(KeyOf(s.rec[f]), KeyOf(x))
  <2>1. KeyOf(x) \in Keys /\ KeyOf(s.rec[f]) \in Keys
    BY KeyType, ScriptAssumption, Zenon DEF PeerWrites
  <2> QED
    BY <2>1, LessOrder, Zenon
<1> QED
  BY <1>1, Zenon DEF Turned

-----------------------------------------------------------------------------
(* Stores: collection *)

\* What a collection takes is nothing that a listing shows.
LEMMA WithoutIs ==
  ASSUME NEW s, NEW b, NEW r, IsStore(s)
  PROVE  LET t == Without(s, b, r) IN
         /\ IsStore(t) /\ DOMAIN t.rec = DOMAIN s.rec \ r /\ t.blobs = s.blobs \ b
         /\ \A g \in DOMAIN s.rec \ r : t.rec[g] = s.rec[g]
         /\ t.ver = s.ver /\ t.root = s.root /\ t.head = s.head /\ t.ctr = s.ctr
         /\ t.log = s.log /\ t.applied = s.applied /\ t.pending = s.pending
         /\ t.live = s.live /\ t.gone = s.gone /\ t.pin = s.pin /\ t.seal = s.seal
<1> DEFINE q == [g \in DOMAIN s.rec \ r |-> s.rec[g]]
           c == s.blobs \ b
           t == Without(s, b, r)
<1>1. t = [s EXCEPT !.blobs = c, !.rec = q]
  BY Zenon DEF Without, IsStore
<1>2. q \in [DOMAIN q -> Ops \cup {None}] /\ DOMAIN q = DOMAIN s.rec \ r
  BY Zenon DEF IsStore
<1>3. IsFiniteSet(DOMAIN q)
  BY <1>2, Finite, Zenon DEF IsStore
<1>4. \A g \in DOMAIN s.rec \ r : q[g] = s.rec[g]
  BY Zenon
<1> HIDE DEF q, c
<1>5. IsStore(t) /\ t.rec = q /\ t.blobs = c
  BY <1>1, <1>2, <1>3, Zenon DEF IsStore
<1> QED
  BY <1>1, <1>2, <1>4, <1>5, Zenon DEF IsStore, c

\* So the invariant holds after every part of it.
LEMMA WithoutSound ==
  ASSUME NEW s, NEW A, NEW m, Sound(s, A, m),
         NEW b \in SUBSET (s.blobs \ reachable_hashes(s)),
         NEW r \in SUBSET (DOMAIN s.rec \ reachable_inodes(s))
  PROVE  Sound(Without(s, b, r), A, m)
<1> DEFINE t == Without(s, b, r)
<1>1. /\ IsStore(t) /\ DOMAIN t.rec = DOMAIN s.rec \ r /\ t.blobs = s.blobs \ b
      /\ \A g \in DOMAIN s.rec \ r : t.rec[g] = s.rec[g]
      /\ t.ver = s.ver /\ t.root = s.root /\ t.head = s.head /\ t.ctr = s.ctr
      /\ t.log = s.log /\ t.applied = s.applied /\ t.pending = s.pending /\ t.live = s.live
  <2>1. IsStore(s)
    BY Zenon DEF Sound, OnDisk
  <2> QED
    BY <2>1, WithoutIs
<1> HIDE DEF t
<1>2. PendingOps(t) = PendingOps(s)
  BY <1>1, Zenon DEF PendingOps
<1>3. s.live \cap r = {}
  BY Zenon DEF reachable_inodes
<1>4. ListedWhole(t)
  <2> SUFFICES ASSUME NEW f \in s.live
               PROVE  /\ f \in DOMAIN t.rec
                      /\ t.rec[f] # None =>
                           {NodeOf(t.rec[f]), ChunkOf(t.rec[f])} \subseteq t.blobs
    BY <1>1, Zenon DEF ListedWhole
  <2>1. /\ f \in DOMAIN s.rec
        /\ s.rec[f] # None => {NodeOf(s.rec[f]), ChunkOf(s.rec[f])} \subseteq s.blobs
    BY Zenon DEF Sound, OnDisk, ListedWhole
  <2>2. f \in DOMAIN t.rec /\ t.rec[f] = s.rec[f]
    BY <1>1, <1>3, <2>1, Zenon
  <2>3. ASSUME s.rec[f] # None
        PROVE  {NodeOf(s.rec[f]), ChunkOf(s.rec[f])} \subseteq reachable_hashes(s)
    <3>1. f \in Files(s)
      BY <2>1, <2>3, Zenon DEF Files
    <3> DEFINE Kept(g) == {NodeOf(s.rec[g])}
                          \cup (IF NodeOf(s.rec[g]) \in s.blobs THEN {ChunkOf(s.rec[g])} ELSE {})
    <3>2. {NodeOf(s.rec[f]), ChunkOf(s.rec[f])} = Kept(f)
      BY <2>1, <2>3, Zenon
    <3>3. reachable_hashes(s) = (UNION {Kept(g) : g \in Files(s)})
            \cup {ChunkOf(x) : x \in {y \in PendingOps(s) : y.kind = "Write"}}
      BY Zenon DEF reachable_hashes
    <3> HIDE DEF Kept
    <3>4. Kept(f) \subseteq reachable_hashes(s)
      BY <3>1, <3>3, Zenon
    <3> QED
      BY <3>2, <3>4, Zenon
  <2> QED
    BY <1>1, <2>1, <2>2, <2>3
<1>5. LoggedFirst(t)
  <2>1. LoggedFirst(s)
    BY Zenon DEF Sound, OnDisk
  <2>2. \A g \in DOMAIN t.rec :
          t.rec[g] # None => t.rec[g].inode = g /\ \E x \in t.log : Bare(x) = Bare(t.rec[g])
    BY <1>1, <2>1 DEF LoggedFirst
  <2> QED
    BY <1>1, <1>2, <2>1, <2>2, Zenon DEF LoggedFirst
<1>6. Numbered(t) /\ Stamped(t)
  BY <1>1, Zenon DEF Sound, OnDisk, Numbered, Stamped
<1>7. Settled(t) /\ Made(t, m)
  <2>1. Given(t) = Given(s)
    BY <1>1, Zenon DEF Given
  <2> QED
    BY <1>1, <2>1, Zenon DEF Sound, Settled, Made, Addressed
<1>8. Parked(t) /\ Recs(t) /\ Returned(t, A)
  BY <1>1, <1>2, Zenon DEF Sound, Parked, Recs, Returned, Addressed
<1> QED
  BY <1>1, <1>4, <1>5, <1>6, <1>7, <1>8, Zenon DEF Sound, OnDisk, t

\* And nothing is turned back.
LEMMA WithoutTurned ==
  ASSUME NEW s, NEW A, NEW m, Sound(s, A, m), NEW b,
         NEW r \in SUBSET (DOMAIN s.rec \ reachable_inodes(s)),
         NEW D, NEW K, NEW T, Turned(s, D, K, T)
  PROVE  Turned(Without(s, b, r), D, K, T)
<1> DEFINE t == Without(s, b, r)
<1>1. /\ DOMAIN t.rec = DOMAIN s.rec \ r /\ t.live = s.live
      /\ \A g \in DOMAIN s.rec \ r : t.rec[g] = s.rec[g]
  <2>1. IsStore(s)
    BY Zenon DEF Sound, OnDisk
  <2> QED
    BY <2>1, WithoutIs
<1> HIDE DEF t
<1>2. s.live \subseteq DOMAIN s.rec \ r
  BY Zenon DEF Sound, OnDisk, ListedWhole, reachable_inodes
<1>3. Readable(t) \subseteq Readable(s) /\ Readable(s) \subseteq s.live
  BY <1>1, <1>2, Zenon DEF Readable, Files
<1> QED
  BY <1>1, <1>2, <1>3, Zenon DEF Turned, t

-----------------------------------------------------------------------------
(* Sessions *)

\* A store that a crash may leave.
Fine(s, A, m) ==
  /\ Sound(s, A, m) /\ Stamp(s, fresh)
  /\ Shut(s, barred, known) /\ Turned(s, rotated, known, {})

IsSession(p) ==
  /\ p \in [s : {p.s}, mid : {p.mid}, tail : {p.tail}, acked : {p.acked}, minted : Nat]
  /\ acked \subseteq p.acked /\ minted \in Nat /\ minted <= p.minted

\* A command that has gone well so far.  A rotation is turning the files of T
\* for the devices D; other commands turn nothing, D = T = {}.
OK(p, D, T) ==
  /\ IsSession(p)
  /\ Fine(p.s, p.acked, p.minted) /\ Turned(p.s, D, known, T)
  /\ \A s \in p.tail : Fine(s, p.acked, p.minted)
  /\ \A s \in p.mid : Fine(s, acked, p.minted)

History == rotated \subseteq barred /\ barred \subseteq Peer

\* What the process sees before a flush and what is on the disk differ in no
\* envelope, and nothing on the disk can be read that the process does not see.
Tied(p) ==
  \A s \in p.tail :
    /\ Readable(s) \subseteq Readable(p.s) /\ s.seal = p.s.seal
    /\ \A d \in Peer : EnvelopesFor(s, d) = EnvelopesFor(p.s, d)

\* A repository that is open.
Up(s) == s.ver = 3 /\ s.head # "none"

\* Fewer returned, more encrypted.
LEMMA FineMore ==
  ASSUME NEW s, NEW A, NEW B \in SUBSET A, NEW m \in Nat, NEW n \in Nat, m <= n, Fine(s, A, m)
  PROVE  Fine(s, B, n)
<1>1. Made(s, n)
  BY DEF Fine, Sound, Made
<1>2. Returned(s, B)
  BY Zenon DEF Fine, Sound, Returned
<1> QED
  BY <1>1, <1>2, Zenon DEF Fine, Sound

\* A store write.
LEMMA PutIs ==
  ASSUME NEW p, NEW t, IsSession(p)
  PROVE  /\ IsSession(Put(p, t)) /\ Put(p, t).s = t
         /\ Put(p, t).mid = p.mid \cup {t} /\ Put(p, t).tail = p.tail \cup {t}
         /\ Put(p, t).acked = p.acked /\ Put(p, t).minted = p.minted
<1> DEFINE a == p.mid \cup {t}
           b == p.tail \cup {t}
<1>1. Put(p, t) = [p EXCEPT !.s = t, !.mid = a, !.tail = b]
  BY Zenon DEF IsSession, Put
<1> HIDE DEF a, b
<1>2. Put(p, t) = [s |-> t, mid |-> a, tail |-> b, acked |-> p.acked, minted |-> p.minted]
  BY <1>1, Zenon DEF IsSession
<1> USE DEF a, b
<1> QED
  BY <1>2 DEF IsSession

\* It keeps the session well if the store is.
LEMMA PutOK ==
  ASSUME NEW p, NEW t, NEW D, NEW T, NEW E, NEW U, OK(p, D, T),
         Fine(t, p.acked, p.minted), Turned(t, E, known, U)
  PROVE  /\ OK(Put(p, t), E, U) /\ Put(p, t).s = t
         /\ Put(p, t).acked = p.acked /\ Put(p, t).minted = p.minted
<1>1. /\ IsSession(Put(p, t)) /\ Put(p, t).s = t
      /\ Put(p, t).mid = p.mid \cup {t} /\ Put(p, t).tail = p.tail \cup {t}
      /\ Put(p, t).acked = p.acked /\ Put(p, t).minted = p.minted
  BY PutIs, Zenon DEF OK
<1>2. Fine(t, acked, p.minted)
  <2>1. p.minted \in Nat /\ acked \subseteq p.acked
    BY Zenon DEF OK, IsSession
  <2> QED
    BY <2>1, FineMore
<1> QED
  BY <1>1, <1>2, Zenon DEF OK

\* And ties what is left to the disk.
LEMMA PutTied ==
  ASSUME NEW p, NEW t, IsSession(p), Tied(p), Readable(p.s) \subseteq Readable(t),
         t.seal = p.s.seal, \A d \in Peer : EnvelopesFor(t, d) = EnvelopesFor(p.s, d)
  PROVE  Tied(Put(p, t))
BY PutIs DEF Tied

\* A flush.
LEMMA FlushOK ==
  ASSUME NEW p, NEW D, NEW T, OK(p, D, T)
  PROVE  /\ OK(flush(p), D, T) /\ Tied(flush(p)) /\ flush(p).tail = {p.s}
         /\ flush(p).s = p.s /\ flush(p).acked = p.acked /\ flush(p).minted = p.minted
<1>1. flush(p) = [s |-> p.s, mid |-> p.mid, tail |-> {p.s}, acked |-> p.acked,
                  minted |-> p.minted]
  BY DEF OK, IsSession, flush
<1>2. /\ flush(p).s = p.s /\ flush(p).mid = p.mid /\ flush(p).tail = {p.s}
      /\ flush(p).acked = p.acked /\ flush(p).minted = p.minted
  BY <1>1
<1>3. IsSession(flush(p))
  BY <1>1 DEF OK, IsSession
<1>4. Tied(flush(p))
  BY <1>2, Zenon DEF Tied
<1> QED
  BY <1>2, <1>3, <1>4, Zenon DEF OK

\* A write that keeps what exists, in a session.
LEMMA FrameOK ==
  ASSUME NEW p, NEW t, NEW D, NEW T, OK(p, D, T), IsStore(t), Frame(p.s, t), Stamped(t),
         Stamp(t, fresh), \A d \in barred : t.seal[d] = p.s.seal[d]
  PROVE  /\ OK(Put(p, t), D, T) /\ Put(p, t).s = t
         /\ Put(p, t).acked = p.acked /\ Put(p, t).minted = p.minted
<1>1. Sound(t, p.acked, p.minted)
  BY FrameSound, Zenon DEF OK, Fine
<1>2. Shut(t, barred, known)
  BY FrameShut, Zenon DEF OK, Fine, Frame
<1>3. Turned(t, rotated, known, {}) /\ Turned(t, D, known, T)
  BY FrameTurned, Zenon DEF OK, Fine, Frame
<1>4. Fine(t, p.acked, p.minted)
  BY <1>1, <1>2, <1>3, Zenon DEF Fine
<1> QED
  BY <1>3, <1>4, PutOK, Zenon

\* What the writes of a pass over the queue leave as it was.
Calm(s, t) ==
  /\ t.ver = s.ver /\ t.root = s.root /\ t.head = s.head /\ t.ctr = s.ctr
  /\ t.log = s.log /\ t.live = s.live /\ t.pin = s.pin /\ t.seal = s.seal
  /\ s.blobs \subseteq t.blobs /\ s.applied \subseteq t.applied
  /\ DOMAIN t.rec = DOMAIN s.rec
  /\ \A f \in DOMAIN s.rec : Addressed(s, f) => Addressed(t, f)

Moves(p, q) ==
  Calm(p.s, q.s) /\ q.acked = p.acked /\ q.minted = p.minted /\ (Tied(p) => Tied(q))

\* One after the other.
LEMMA MovesOn ==
  /\ \A p : Moves(p, p)
  /\ \A p, q, r : Moves(p, q) /\ Moves(q, r) => Moves(p, r)
<1>1. \A s : Calm(s, s)
  BY Zenon DEF Calm
<1>2. \A s, t, u : Calm(s, t) /\ Calm(t, u) => Calm(s, u)
  BY DEF Calm
<1> QED
  BY <1>1, <1>2, Zenon DEF Moves

\* Such a write.
LEMMA PutMoves ==
  ASSUME NEW p, NEW t, IsSession(p), Calm(p.s, t)
  PROVE  Moves(p, Put(p, t))
<1>1. Readable(p.s) \subseteq Readable(t)
  BY Zenon DEF Calm, Readable, Files, Addressed
<1>2. t.seal = p.s.seal /\ \A d : EnvelopesFor(t, d) = EnvelopesFor(p.s, d)
  BY Zenon DEF Calm, EnvelopesFor
<1>3. Tied(p) => Tied(Put(p, t))
  BY <1>1, <1>2, PutTied, Zenon
<1> QED
  BY <1>3, PutIs DEF Moves

\* Out of the queue.
LEMMA ClearOK ==
  ASSUME NEW p, NEW D, NEW T, NEW op, OK(p, D, T)
  PROVE  LET q == clear_pending(p, op) IN
         OK(q, D, T) /\ Moves(p, q) /\ q.s.rec = p.s.rec /\ q.s.applied = p.s.applied
<1> DEFINE t == [p.s EXCEPT !.pending = @ \ {op.id}]
<1>1. OnDisk(p.s) /\ IsStore(p.s) /\ IsSession(p) /\ Stamp(p.s, fresh)
  BY Zenon DEF OK, Fine, Sound, OnDisk
<1>2. /\ t.ver = p.s.ver /\ t.root = p.s.root /\ t.head = p.s.head /\ t.ctr = p.s.ctr
      /\ t.log = p.s.log /\ t.applied = p.s.applied /\ t.pending \subseteq p.s.pending
      /\ t.rec = p.s.rec /\ t.live = p.s.live /\ t.blobs = p.s.blobs
      /\ t.pin = p.s.pin /\ t.seal = p.s.seal
  BY <1>1, Zenon DEF IsStore
<1>3. IsStore(t)
  <2>1. IsFiniteSet(p.s.pending \ {op.id})
    BY <1>1, Finite, Zenon DEF IsStore
  <2> QED
    BY <1>1, <2>1, Zenon DEF IsStore
<1> HIDE DEF t
<1>4. Frame(p.s, t)
  BY <1>1, <1>2 DEF Frame, OnDisk, LoggedFirst, IsStore
<1>5. Stamped(t) /\ Stamp(t, fresh)
  BY <1>1, <1>2, Zenon DEF OnDisk, Stamped, Stamp
<1>6. OK(Put(p, t), D, T) /\ Put(p, t).s = t
  BY <1>2, <1>3, <1>4, <1>5, FrameOK
<1>7. Moves(p, Put(p, t))
  <2>1. Calm(p.s, t)
    BY <1>2, Zenon DEF Calm, Addressed
  <2> QED
    BY <1>1, <2>1, PutMoves, Zenon
<1> QED
  BY <1>2, <1>6, <1>7, Zenon DEF clear_pending, t

\* The applied marker, and out of the queue.
LEMMA MarkOK ==
  ASSUME NEW p, NEW D, NEW T, NEW op \in p.s.log, OK(p, D, T)
  PROVE  LET q == clear_pending(Put(p, [p.s EXCEPT !.applied = @ \cup {op.id}]), op) IN
         OK(q, D, T) /\ Moves(p, q) /\ q.s.rec = p.s.rec /\ op.id \in q.s.applied
<1> DEFINE t == [p.s EXCEPT !.applied = @ \cup {op.id}]
<1>1. OnDisk(p.s) /\ IsStore(p.s) /\ IsSession(p) /\ Stamp(p.s, fresh) /\ op \in Ops
  BY Zenon DEF OK, Fine, Sound, OnDisk, IsStore
<1>2. /\ t.ver = p.s.ver /\ t.root = p.s.root /\ t.head = p.s.head /\ t.ctr = p.s.ctr
      /\ t.log = p.s.log /\ t.applied = p.s.applied \cup {op.id} /\ t.pending = p.s.pending
      /\ t.rec = p.s.rec /\ t.live = p.s.live /\ t.blobs = p.s.blobs
      /\ t.pin = p.s.pin /\ t.seal = p.s.seal
  BY <1>1, Zenon DEF IsStore
<1>3. IsStore(t)
  BY <1>1, ZenonT(60) DEF IsStore, Ops
<1> HIDE DEF t
<1>4. Frame(p.s, t)
  BY <1>1, <1>2 DEF Frame, OnDisk, LoggedFirst, IsStore, IdsOf
<1>5. Stamped(t) /\ Stamp(t, fresh)
  BY <1>1, <1>2, Zenon DEF OnDisk, Stamped, Stamp
<1>6. OK(Put(p, t), D, T) /\ Put(p, t).s = t
  BY <1>2, <1>3, <1>4, <1>5, FrameOK
<1>7. Moves(p, Put(p, t))
  <2>1. Calm(p.s, t)
    BY <1>2, Zenon DEF Calm, Addressed
  <2> QED
    BY <1>1, <2>1, PutMoves, Zenon
<1> DEFINE q == clear_pending(Put(p, t), op)
<1>8. OK(q, D, T) /\ Moves(Put(p, t), q) /\ q.s.rec = t.rec /\ q.s.applied = t.applied
  BY <1>6, ClearOK
<1>9. Moves(p, q)
  BY <1>7, <1>8, MovesOn, Zenon
<1> QED
  BY <1>2, <1>8, <1>9, Zenon DEF t

\* More content.
LEMMA BlobsOK ==
  ASSUME NEW p, NEW D, NEW T, NEW b, OK(p, D, T)
  PROVE  LET t == [p.s EXCEPT !.blobs = @ \cup b]
             q == Put(p, t) IN
         OK(q, D, T) /\ Moves(p, q) /\ q.s = t /\ t.blobs = p.s.blobs \cup b /\ t.rec = p.s.rec
<1> DEFINE c == p.s.blobs \cup b
           t == [p.s EXCEPT !.blobs = c]
<1>1. OnDisk(p.s) /\ IsStore(p.s) /\ IsSession(p) /\ Stamp(p.s, fresh)
  BY Zenon DEF OK, Fine, Sound, OnDisk
<1>2. t = [p.s EXCEPT !.blobs = @ \cup b]
  BY <1>1, Zenon DEF IsStore
<1> HIDE DEF c
<1>3. /\ t.ver = p.s.ver /\ t.root = p.s.root /\ t.head = p.s.head /\ t.ctr = p.s.ctr
      /\ t.log = p.s.log /\ t.applied = p.s.applied /\ t.pending = p.s.pending
      /\ t.rec = p.s.rec /\ t.live = p.s.live /\ t.blobs = c
      /\ t.pin = p.s.pin /\ t.seal = p.s.seal
  BY <1>1, Zenon DEF IsStore
<1>4. IsStore(t)
  BY <1>1, Zenon DEF IsStore
<1> HIDE DEF t
<1>5. Frame(p.s, t)
  BY <1>1, <1>3 DEF Frame, OnDisk, LoggedFirst, IsStore, c
<1>6. Stamped(t) /\ Stamp(t, fresh)
  BY <1>1, <1>3, Zenon DEF OnDisk, Stamped, Stamp
<1>7. OK(Put(p, t), D, T) /\ Put(p, t).s = t
  BY <1>3, <1>4, <1>5, <1>6, FrameOK
<1>8. Moves(p, Put(p, t))
  <2>1. Calm(p.s, t)
    BY <1>3, Zenon DEF Calm, Addressed, c
  <2> QED
    BY <1>1, <2>1, PutMoves, Zenon
<1> QED
  BY <1>2, <1>3, <1>7, <1>8, Zenon DEF c

\* A write that may be applied: logged, its file known, its content here if
\* it wins, and no device of D has the chunk, unless a peer wrote it.
Ready(s, op, D) ==
  /\ op \in s.log /\ Opens(op) /\ op.inode \in DOMAIN s.rec
  /\ write_can_win(s, op) => ChunkOf(op) \in s.blobs
  /\ op \in PeerWrites \/ \A d \in D \cup rotated : op.chunk \notin known[d]

\* The register and its file node.
LEMMA MutateWriteOK ==
  ASSUME NEW p, NEW D \in SUBSET barred, NEW T, NEW op, OK(p, D, T), History,
         Ready(p.s, op, D)
  PROVE  LET q == mutate(p, op) IN
         /\ OK(q, D, T) /\ Moves(p, q)
         /\ write_can_win(p.s, op) => q.s.rec[op.inode] = op
<1>1. op.kind = "Write" /\ op \in Ops /\ op # None /\ IsSession(p)
  BY RepositoryAssumption, Zenon DEF Ready, Opens, OK, Fine, Sound, OnDisk, IsStore
<1>2. CASE ~write_can_win(p.s, op)
  <2>1. mutate(p, op) = p
    BY <1>1, <1>2, Zenon DEF mutate
  <2> QED
    BY <1>2, <2>1, MovesOn, Zenon
<1>3. CASE write_can_win(p.s, op)
  <2> DEFINE s == [p.s EXCEPT !.blobs = @ \cup {NodeOf(op)}]
             q == Put(p, s)
             t == [q.s EXCEPT !.rec[op.inode] = op]
  <2>1. mutate(p, op) = Put(q, t)
    BY <1>1, <1>3, Zenon DEF mutate
  <2>2. /\ OK(q, D, T) /\ Moves(p, q) /\ q.s = s
        /\ s.blobs = p.s.blobs \cup {NodeOf(op)} /\ s.rec = p.s.rec
    BY BlobsOK
  <2> HIDE DEF s, q
  <2>3. /\ Sound(q.s, q.acked, q.minted) /\ Shut(q.s, barred, known) /\ IsSession(q)
        /\ Turned(q.s, rotated, known, {}) /\ Turned(q.s, D, known, T)
    BY <2>2, Zenon DEF OK, Fine
  <2>4. /\ op \in q.s.log /\ op.inode \in DOMAIN q.s.rec /\ Opens(op) /\ write_can_win(q.s, op)
        /\ {NodeOf(op), ChunkOf(op)} \subseteq q.s.blobs
    BY <1>3, <2>2, Zenon DEF Ready, Moves, Calm, write_can_win
  <2>5. Sound(t, q.acked, q.minted)
    BY <2>3, <2>4, WinSound, Zenon
  <2>6. /\ Turned(t, rotated, known, {}) /\ Turned(t, D, known, T)
    BY <2>3, <2>4, WinTurned, Zenon DEF Ready, History
  <2>7. /\ DOMAIN t.rec = DOMAIN q.s.rec /\ t.rec[op.inode] = op
        /\ \A g \in DOMAIN q.s.rec : g # op.inode => t.rec[g] = q.s.rec[g]
        /\ t.ver = q.s.ver /\ t.root = q.s.root /\ t.head = q.s.head /\ t.ctr = q.s.ctr
        /\ t.log = q.s.log /\ t.applied = q.s.applied /\ t.pending = q.s.pending
        /\ t.live = q.s.live /\ t.blobs = q.s.blobs /\ t.pin = q.s.pin /\ t.seal = q.s.seal
    BY <1>1, <2>3, <2>4, WinIs DEF Sound, OnDisk
  <2> HIDE DEF t
  <2>8. Fine(t, q.acked, q.minted)
    <3>1. Stamp(t, fresh)
      BY <2>2, <2>7, Zenon DEF OK, Fine, Stamp
    <3>2. Shut(t, barred, known)
      BY <2>3, <2>7, FrameShut, Zenon
    <3> QED
      BY <2>5, <2>6, <3>1, <3>2, Zenon DEF Fine
  <2>9. OK(Put(q, t), D, T) /\ Put(q, t).s = t
    BY <2>2, <2>6, <2>8, PutOK
  <2>10. Calm(q.s, t)
    BY <1>1, <2>4, <2>7, Zenon DEF Calm, Addressed, Opens
  <2>11. Moves(p, Put(q, t))
    BY <2>2, <2>3, <2>10, PutMoves, MovesOn, Zenon
  <2> QED
    BY <2>1, <2>7, <2>9, <2>11, Zenon
<1> QED
  BY <1>2, <1>3, Zenon

\* A write takes effect.
LEMMA WriteOK ==
  ASSUME NEW p, NEW D \in SUBSET barred, NEW T, NEW op, OK(p, D, T), History,
         Ready(p.s, op, D)
  PROVE  LET q == Effect(p, op) IN
         /\ OK(q, D, T) /\ Moves(p, q) /\ op.id \in q.s.applied
         /\ write_can_win(p.s, op) => q.s.rec[op.inode] = op
<1> DEFINE r == mutate(p, op)
<1>1. /\ OK(r, D, T) /\ Moves(p, r)
      /\ write_can_win(p.s, op) => r.s.rec[op.inode] = op
  BY MutateWriteOK, Zenon
<1>2. Effect(p, op) = clear_pending(Put(r, [r.s EXCEPT !.applied = @ \cup {op.id}]), op)
  BY Zenon DEF Effect
<1> HIDE DEF r
<1>3. op \in r.s.log
  BY <1>1, Zenon DEF Ready, Moves, Calm
<1> DEFINE q == clear_pending(Put(r, [r.s EXCEPT !.applied = @ \cup {op.id}]), op)
<1>4. OK(q, D, T) /\ Moves(r, q) /\ q.s.rec = r.s.rec /\ op.id \in q.s.applied
  BY <1>1, <1>3, MarkOK, Zenon
<1>5. Moves(p, q)
  BY <1>1, <1>4, MovesOn, Zenon
<1> QED
  BY <1>1, <1>2, <1>4, <1>5, Zenon

-----------------------------------------------------------------------------
(* The queue *)

\* A parked write is tried again.
LEMMA RetryOK ==
  ASSUME NEW p, NEW D \in SUBSET barred, NEW T, NEW op \in p.s.log, op \in PeerWrites,
         OK(p, D, T), History
  PROVE  OK(Retry(p, op), D, T) /\ Moves(p, Retry(p, op))
<1>1. CASE op.id \in p.s.applied
  <2>1. Retry(p, op) = clear_pending(p, op)
    BY <1>1, Zenon DEF Retry
  <2> QED
    BY <2>1, ClearOK, Zenon
<1>2. CASE op.id \notin p.s.applied /\ ~Unmet(p.s, op)
  <2>1. Retry(p, op) = Effect(p, op)
    BY <1>2, Zenon DEF Retry
  <2>2. Ready(p.s, op, D)
    BY <1>2, PeersOpen, Zenon DEF Ready, Unmet, PeerWrites
  <2> QED
    BY <2>1, <2>2, WriteOK
<1>3. CASE op.id \notin p.s.applied /\ Unmet(p.s, op)
  <2>1. Retry(p, op) = p
    BY <1>3, Zenon DEF Retry
  <2> QED
    BY <2>1, MovesOn, Zenon
<1> QED
  BY <1>1, <1>2, <1>3, Zenon

\* A pass under way, from the session p.
Passing(p, x, D, T) ==
  OK(x.p, D, T) /\ Moves(p, x.p) /\ x.rows \subseteq p.s.log \cap PeerWrites

\* What waits can be tried.
LEMMA RowsAre ==
  ASSUME NEW p, NEW D, NEW T, OK(p, D, T)
  PROVE  PendingOps(p.s) \subseteq p.s.log \cap PeerWrites
BY Zenon DEF OK, Fine, Sound, Parked, OnDisk, LoggedFirst, PendingOps, PeerWrites

\* A row, or the start of another pass.
LEMMA TurnOK ==
  ASSUME Counting, NEW p, NEW x, NEW D \in SUBSET barred, NEW T, History, Passing(p, x, D, T)
  PROVE  Passing(p, Turn(x), D, T)
<1>1. x.p.s.log = p.s.log
  BY Zenon DEF Passing, Moves, Calm
<1>2. CASE x.rows # {}
  <2> DEFINE op == LeastOp(x.rows)
             q  == Retry(x.p, op)
  <2>1. op \in x.rows
    <3>1. x.rows \subseteq Ops /\ \A y, z \in x.rows : y.id = z.id => y = z
      BY <1>1, Zenon DEF Passing, OK, Fine, Sound, OnDisk, IsStore, Numbered
    <3> QED
      BY <1>2, <3>1, LeastOpIn, Zenon
  <2> HIDE DEF op
  <2>2. OK(q, D, T) /\ Moves(x.p, q)
    BY <1>1, <2>1, RetryOK, Zenon DEF Passing
  <2> HIDE DEF q
  <2>3. Moves(p, q)
    BY <2>2, MovesOn, Zenon DEF Passing
  <2>4. Turn(x).p = q /\ Turn(x).rows = x.rows \ {op}
    BY <1>2, Zenon DEF Turn, q, op
  <2> QED
    BY <2>2, <2>3, <2>4, Zenon DEF Passing
<1>3. CASE x.rows = {} /\ x.progressed
  <2>1. Turn(x).p = x.p /\ Turn(x).rows = PendingOps(x.p.s)
    BY <1>3, Zenon DEF Turn
  <2> QED
    BY <1>1, <2>1, RowsAre, Zenon DEF Passing
<1>4. CASE x.rows = {} /\ ~x.progressed
  BY <1>4, Zenon DEF Turn
<1> QED
  BY <1>2, <1>3, <1>4, Zenon

\* The first n turns, as a function on 0 .. n.
Turns(x, n, g) == g = [k \in 0 .. n |-> IF k = 0 THEN x ELSE Turn(g[k - 1])]

\* There are n turns for every n.
LEMMA TurnsExist ==
  ASSUME Counting, NEW x, NEW n \in Nat
  PROVE  \E g : Turns(x, n, g)
<1> DEFINE Bad == {k \in Nat : ~\E g : Turns(x, k, g)}
<1> SUFFICES ASSUME Bad # {} PROVE FALSE
  BY Zenon
<1>1. PICK m \in Bad : \A k \in Bad : m <= k
  <2>1. Bad \subseteq Nat
    BY Zenon
  <2> HIDE DEF Bad
  <2> QED
    BY <2>1, Zenon DEF Counting
<1>2. CASE m = 0
  <2> DEFINE g == [k \in 0 .. 0 |-> x]
  <2>1. Turns(x, 0, g)
    BY DEF Turns
  <2> QED
    BY <1>1, <1>2, <2>1, Zenon
<1>3. CASE m # 0
  <2>1. m - 1 \in Nat /\ m - 1 \notin Bad
    BY <1>1, <1>3
  <2>2. PICK g : Turns(x, m - 1, g)
    BY <2>1, Zenon
  <2> DEFINE h == [k \in 0 .. m |-> IF k = m THEN Turn(g[m - 1]) ELSE g[k]]
  <2>3. ASSUME NEW k \in 0 .. m
        PROVE  h[k] = IF k = 0 THEN x ELSE Turn(h[k - 1])
    <3>1. CASE k = m
      <4>1. h[m - 1] = g[m - 1]
        BY <1>3, <2>1
      <4> QED
        BY <1>3, <3>1, <4>1, Zenon
    <3>2. CASE k # m
      <4>1. k \in 0 .. (m - 1) /\ (k # 0 => k - 1 \in 0 .. m /\ k - 1 # m)
        BY <2>1, <3>2
      <4>2. g[k] = IF k = 0 THEN x ELSE Turn(g[k - 1])
        BY <2>2, <4>1, Zenon DEF Turns
      <4> QED
        BY <3>2, <4>1, <4>2, Zenon
    <3> QED
      BY <3>1, <3>2, Zenon
  <2>4. h = [k \in 0 .. m |-> IF k = 0 THEN x ELSE Turn(h[k - 1])]
    BY <2>3, Zenon
  <2>5. Turns(x, m, h)
    BY <2>4, Zenon DEF Turns
  <2> QED
    BY <1>1, <2>5, Zenon
<1> QED
  BY <1>2, <1>3, Zenon

\* They do not depend on how many there are.
LEMMA TurnsAgree ==
  ASSUME Counting, NEW x, NEW m \in Nat, NEW n \in Nat, NEW g, NEW h, Turns(x, m, g), Turns(x, n, h)
  PROVE  \A k \in Nat : k <= m /\ k <= n => g[k] = h[k]
<1> DEFINE Bad == {k \in Nat : k <= m /\ k <= n /\ g[k] # h[k]}
<1> SUFFICES ASSUME Bad # {} PROVE FALSE
  BY Zenon
<1>1. PICK k \in Bad : \A j \in Bad : k <= j
  <2>1. Bad \subseteq Nat
    BY Zenon
  <2> HIDE DEF Bad
  <2> QED
    BY <2>1, Zenon DEF Counting
<1>2. k \in 0 .. m /\ k \in 0 .. n
  BY <1>1
<1>3. /\ g[k] = IF k = 0 THEN x ELSE Turn(g[k - 1])
      /\ h[k] = IF k = 0 THEN x ELSE Turn(h[k - 1])
  BY <1>2, Zenon DEF Turns
<1>4. CASE k = 0
  BY <1>1, <1>3, <1>4, Zenon
<1>5. CASE k # 0
  <2>1. k - 1 \in Nat /\ k - 1 \notin Bad /\ k - 1 <= m /\ k - 1 <= n
    BY <1>1, <1>5
  <2>2. g[k - 1] = h[k - 1]
    BY <2>1, Zenon
  <2> QED
    BY <1>1, <1>3, <1>5, <2>2, Zenon
<1> QED
  BY <1>4, <1>5, Zenon

\* The run that a drain takes its result from.
DrainRun(p) ==
  CHOOSE u : u = [k \in Nat |->
    IF k = 0 THEN [p |-> p, rows |-> PendingOps(p.s), progressed |-> FALSE] ELSE Turn(u[k - 1])]

\* It is its recursion.
LEMMA DrainSteps ==
  ASSUME Counting, NEW p
  PROVE  /\ DrainRun(p)[0] = [p |-> p, rows |-> PendingOps(p.s), progressed |-> FALSE]
         /\ \A n \in Nat : n # 0 => DrainRun(p)[n] = Turn(DrainRun(p)[n - 1])
<1> DEFINE x == [p |-> p, rows |-> PendingOps(p.s), progressed |-> FALSE]
<1> HIDE DEF x
<1> DEFINE R(u) == u = [k \in Nat |-> IF k = 0 THEN x ELSE Turn(u[k - 1])]
           G(n) == CHOOSE g : Turns(x, n, g)
           w == [n \in Nat |-> G(n)[n]]
<1>1. \A n \in Nat : Turns(x, n, G(n))
  BY TurnsExist, Zenon
<1>2. ASSUME NEW k \in Nat
      PROVE  w[k] = IF k = 0 THEN x ELSE Turn(w[k - 1])
  <2>1. G(k)[k] = IF k = 0 THEN x ELSE Turn(G(k)[k - 1])
    <3> DEFINE g == G(k)
    <3>1. Turns(x, k, g)
      BY <1>1, Zenon
    <3> HIDE DEF g
    <3>2. g = [j \in 0 .. k |-> IF j = 0 THEN x ELSE Turn(g[j - 1])]
      BY <3>1, Zenon DEF Turns
    <3>3. g[k] = IF k = 0 THEN x ELSE Turn(g[k - 1])
      BY <3>2
    <3> QED
      BY <3>3, Zenon DEF g
  <2>2. CASE k = 0
    BY <2>1, <2>2, Zenon
  <2>3. CASE k # 0
    <3>1. k - 1 \in Nat /\ k - 1 <= k
      BY <2>3
    <3>2. G(k)[k - 1] = G(k - 1)[k - 1]
      BY <1>1, <3>1, TurnsAgree
    <3> QED
      BY <2>1, <2>3, <3>1, <3>2
  <2> QED
    BY <2>2, <2>3, Zenon
<1>3. R(w)
  <2>1. w = [k \in Nat |-> w[k]]
    OBVIOUS
  <2> HIDE DEF w
  <2> QED
    BY <1>2, <2>1, ZenonT(60)
<1> HIDE DEF w
<1> DEFINE v == CHOOSE u : R(u)
<1>4. R(v)
  BY <1>3, Zenon
<1>5. DrainRun(p) = v
  BY Zenon DEF DrainRun, x
<1> HIDE DEF v
<1>6. \A n \in Nat : v[n] = IF n = 0 THEN x ELSE Turn(v[n - 1])
  BY <1>4, Zenon
<1> QED
  BY <1>5, <1>6, Zenon DEF x

\* What a drain leaves.
LEMMA DrainOK ==
  ASSUME Counting, NEW p, NEW D \in SUBSET barred, NEW T, OK(p, D, T), History
  PROVE  OK(drain_pending(p), D, T) /\ Moves(p, drain_pending(p))
<1> DEFINE run == DrainRun(p)
           n == Cardinality(p.s.pending) + 1
           Bad == {k \in Nat : ~Passing(p, run[k], D, T)}
<1>1. n * n \in Nat
  <2>1. Cardinality(p.s.pending) \in Nat
    BY Zenon DEF Counting, OK, Fine, Sound, OnDisk, IsStore
  <2> HIDE DEF n
  <2>2. n \in Nat
    BY <2>1 DEF n
  <2> QED
    BY <2>2
<1>2. drain_pending(p) = run[n * n].p
  BY Zenon DEF drain_pending, DrainRun
<1> HIDE DEF run, n
<1>3. /\ run[0] = [p |-> p, rows |-> PendingOps(p.s), progressed |-> FALSE]
      /\ \A k \in Nat : k # 0 => run[k] = Turn(run[k - 1])
  BY DrainSteps, Zenon DEF run
<1>4. Bad = {}
  <2> SUFFICES ASSUME Bad # {} PROVE FALSE
    BY Zenon
  <2>1. PICK m \in Bad : \A k \in Bad : m <= k
    <3>1. Bad \subseteq Nat
      BY Zenon
    <3> HIDE DEF Bad
    <3> QED
      BY <3>1, Zenon DEF Counting
  <2>2. Passing(p, run[0], D, T)
    BY <1>3, RowsAre, MovesOn DEF Passing
  <2>3. m # 0 /\ m - 1 \in Nat /\ m - 1 \notin Bad
    BY <2>1, <2>2
  <2>4. Passing(p, run[m - 1], D, T)
    BY <2>3, Zenon
  <2>5. Passing(p, Turn(run[m - 1]), D, T)
    BY <2>4, TurnOK, Zenon
  <2> QED
    BY <1>3, <2>1, <2>3, <2>5, Zenon
<1>5. Passing(p, run[n * n], D, T)
  BY <1>1, <1>4, Zenon
<1> QED
  BY <1>2, <1>5, Zenon DEF Passing

-----------------------------------------------------------------------------
(* An operation is applied *)

\* What an operation leaves as it was.
Onward(s, t) ==
  /\ t.ver = s.ver /\ t.head = s.head /\ t.pin = s.pin /\ t.seal = s.seal
  /\ s.blobs \subseteq t.blobs /\ s.applied \subseteq t.applied
  /\ DOMAIN s.rec \subseteq DOMAIN t.rec

\* One after the other, and for the writes of the queue.
LEMMA OnwardOn ==
  /\ \A s, t, u : Onward(s, t) /\ Onward(t, u) => Onward(s, u)
  /\ \A s, t : Calm(s, t) => Onward(s, t)
  /\ \A s, t : Onward(s, t) /\ Up(s) => Up(t)
BY DEF Onward, Calm, Up

\* An open repository has a root and a head of the present kind.
LEMMA UpIs ==
  ASSUME NEW s, OnDisk(s), Up(s)
  PROVE  s.root /\ s.head = "merkle" /\ build_snapshot(s) = s
<1>1. s.root /\ s.head = "merkle"
  BY Zenon DEF OnDisk, Stamped, Up, IsStore
<1> QED
  BY <1>1, Zenon DEF build_snapshot, OnDisk, IsStore

\* The head after the queue.
LEMMA SnapshotOK ==
  ASSUME NEW p, NEW D, NEW T, NEW b, OK(p, D, T), Up(p.s)
  PROVE  OK(Snapshot(p, b), D, T) /\ Moves(p, Snapshot(p, b))
<1>1. build_snapshot(p.s) = p.s /\ IsSession(p)
  BY UpIs, Zenon DEF OK, Fine, Sound
<1>2. OK(Put(p, p.s), D, T) /\ Moves(p, Put(p, p.s))
  <2>1. Calm(p.s, p.s)
    BY Zenon DEF Calm
  <2> QED
    BY <1>1, <2>1, PutOK, PutMoves, Zenon DEF OK
<1>3. CASE p.s.applied # b
  BY <1>1, <1>2, <1>3, Zenon DEF Snapshot
<1>4. CASE p.s.applied = b
  BY <1>4, MovesOn, Zenon DEF Snapshot
<1> QED
  BY <1>3, <1>4, Zenon

\* The queue, the head and the flush.
LEMMA AfterOK ==
  ASSUME Counting, NEW p, NEW D \in SUBSET barred, NEW T, NEW b, OK(p, D, T), Up(p.s), History
  PROVE  LET q == flush(Snapshot(drain_pending(p), b)) IN
         /\ OK(q, D, T) /\ Calm(p.s, q.s) /\ q.tail = {q.s} /\ Tied(q)
         /\ q.acked = p.acked /\ q.minted = p.minted
<1> DEFINE d == drain_pending(p)
           e == Snapshot(d, b)
<1>1. OK(d, D, T) /\ Moves(p, d)
  BY DrainOK, Zenon
<1> HIDE DEF d
<1>2. Up(d.s)
  BY <1>1, Zenon DEF Moves, Calm, Up
<1>3. OK(e, D, T) /\ Moves(d, e)
  BY <1>1, <1>2, SnapshotOK, Zenon
<1> HIDE DEF e
<1>4. Moves(p, e)
  BY <1>1, <1>3, MovesOn, Zenon
<1>5. /\ OK(flush(e), D, T) /\ Tied(flush(e)) /\ flush(e).tail = {e.s}
      /\ flush(e).s = e.s /\ flush(e).acked = e.acked /\ flush(e).minted = e.minted
  BY <1>3, FlushOK, Zenon
<1> QED
  BY <1>4, <1>5, Zenon DEF Moves, d, e

\* A session after op is logged: the store is t, and q the session.
Appended(p, q, t, op) ==
  /\ q.s = t /\ q.acked = p.acked /\ q.minted = p.minted
  /\ Onward(p.s, t) /\ t.rec = p.s.rec /\ t.live = p.s.live /\ t.blobs = p.s.blobs
  /\ t.ctr = p.s.ctr /\ t.log = p.s.log \cup {op}
  /\ op \in Ops /\ op.id \notin p.s.applied

\* An operation goes to the log.
LEMMA AppendOK ==
  ASSUME NEW p, NEW D, NEW T, NEW op, OK(p, D, T), Up(p.s),
         Loggable(p.s, p.minted, op), Own(op) => \A d \in barred : d \notin op.to
  PROVE  LET t == append_op(p.s, op)
             q == Put(p, t) IN
         OK(q, D, T) /\ Appended(p, q, t, op)
<1> DEFINE t == append_op(p.s, op)
<1>1. IsStore(p.s) /\ op \in Ops /\ op.id \notin IdsOf(p.s.log)
  BY Zenon DEF OK, Fine, Sound, OnDisk, Loggable
<1>2. /\ IsStore(t) /\ t = [p.s EXCEPT !.log = p.s.log \cup {op}]
      /\ t.log = p.s.log \cup {op}
  BY <1>1, AppendIs, Zenon
<1>3. /\ t.ver = p.s.ver /\ t.head = p.s.head /\ t.pin = p.s.pin /\ t.seal = p.s.seal
      /\ t.applied = p.s.applied /\ t.rec = p.s.rec /\ t.live = p.s.live
      /\ t.blobs = p.s.blobs /\ t.ctr = p.s.ctr
  BY <1>1, <1>2, Zenon DEF IsStore
<1>4. Sound(t, p.acked, p.minted)
  BY AppendSound, Zenon DEF OK, Fine, Up
<1>5. Shut(t, barred, known)
  BY <1>1, AppendShut, Zenon DEF OK, Fine
<1> HIDE DEF t
<1>6. Turned(t, rotated, known, {}) /\ Turned(t, D, known, T)
  BY <1>3, FrameTurned, Zenon DEF OK, Fine
<1>7. Fine(t, p.acked, p.minted)
  <2>1. Stamp(t, fresh)
    BY <1>3, Zenon DEF OK, Fine, Stamp
  <2> QED
    BY <1>4, <1>5, <1>6, <2>1, Zenon DEF Fine
<1>8. /\ OK(Put(p, t), D, T) /\ Put(p, t).s = t
      /\ Put(p, t).acked = p.acked /\ Put(p, t).minted = p.minted
  BY <1>6, <1>7, PutOK, Zenon
<1>9. Onward(p.s, t)
  BY <1>3, Zenon DEF Onward
<1>10. op.id \notin p.s.applied
  BY <1>1, Zenon DEF OK, Fine, Sound, OnDisk, LoggedFirst
<1> QED
  BY <1>1, <1>2, <1>3, <1>8, <1>9, <1>10, Zenon DEF t, Appended

\* A step of an operation, in a session.
Steps(p, q) ==
  /\ Onward(p.s, q.s) /\ q.s.log = p.s.log /\ q.s.ctr = p.s.ctr
  /\ q.acked = p.acked /\ q.minted = p.minted

\* One after the other.
LEMMA StepsOn ==
  /\ \A p, q, r : Steps(p, q) /\ Steps(q, r) => Steps(p, r)
  /\ \A p, q : Moves(p, q) => Steps(p, q)
<1>1. \A p, q, r : Steps(p, q) /\ Steps(q, r) => Onward(p.s, r.s)
  BY OnwardOn, Zenon DEF Steps
<1>2. \A p, q : Moves(p, q) => Onward(p.s, q.s)
  BY OnwardOn, Zenon DEF Moves
<1> QED
  BY <1>1, <1>2 DEF Steps, Moves, Calm

\* The create of a file takes effect.
LEMMA CreateOK ==
  ASSUME NEW p, NEW D \in SUBSET barred, NEW T, NEW op \in p.s.log, op.kind = "CreateFile",
         OK(p, D, T), History, op.id \notin DOMAIN p.s.rec, Unsealed(p.s, op.id)
  PROVE  LET q == Effect(p, op) IN
         OK(q, D, T) /\ Steps(p, q) /\ op.id \in DOMAIN q.s.rec /\ op.id \in q.s.applied
<1> DEFINE f == op.id
           s == NewRecord(p.s, f)
           a == Put(p, s)
           t == [a.s EXCEPT !.live = (@ \cup {f}) \ a.s.gone]
           b == Put(a, t)
<1>1. /\ op \in Ops /\ f \in Id /\ f \in IdsOf(p.s.log) /\ IsSession(p) /\ IsStore(p.s)
      /\ Sound(p.s, p.acked, p.minted) /\ Shut(p.s, barred, known) /\ Stamp(p.s, fresh)
      /\ Turned(p.s, rotated, known, {}) /\ Turned(p.s, D, known, T)
  BY Zenon DEF OK, Fine, Sound, OnDisk, IsStore, IdsOf, Ops
<1>2. mutate(p, op) = b
  BY Zenon DEF mutate
<1>3. /\ DOMAIN s.rec = DOMAIN p.s.rec \cup {f} /\ s.rec[f] = None
      /\ s.ver = p.s.ver /\ s.head = p.s.head /\ s.ctr = p.s.ctr /\ s.log = p.s.log
      /\ s.applied = p.s.applied /\ s.blobs = p.s.blobs /\ s.pin = p.s.pin /\ s.seal = p.s.seal
  BY <1>1, NewRecordIs
<1>4. Fine(s, p.acked, p.minted) /\ Turned(s, D, known, T)
  <2>1. Sound(s, p.acked, p.minted)
    BY <1>1, NewRecordSound, Zenon
  <2>2. Turned(s, rotated, known, {}) /\ Turned(s, D, known, T)
    BY <1>1, NewRecordTurned, Zenon
  <2> HIDE DEF s
  <2>3. Shut(s, barred, known)
    BY <1>1, <1>3, FrameShut, Zenon
  <2> QED
    BY <1>1, <1>3, <2>1, <2>2, <2>3, Zenon DEF Fine, Stamp
<1> HIDE DEF s
<1>5. OK(a, D, T) /\ a.s = s /\ a.acked = p.acked /\ a.minted = p.minted
  BY <1>4, PutOK, Zenon
<1> HIDE DEF a
<1>6. IsStore(s) /\ Sound(s, a.acked, a.minted) /\ Shut(s, barred, known)
  BY <1>4, <1>5, Zenon DEF Fine, Sound, OnDisk
<1>7. /\ t.ver = s.ver /\ t.head = s.head /\ t.ctr = s.ctr /\ t.log = s.log
      /\ t.applied = s.applied /\ t.rec = s.rec /\ t.blobs = s.blobs
      /\ t.pin = s.pin /\ t.seal = s.seal
  BY <1>5, <1>6, Zenon DEF IsStore
<1>8. Fine(t, a.acked, a.minted) /\ Turned(t, D, known, T)
  <2>1. Sound(t, a.acked, a.minted)
    BY <1>1, <1>3, <1>5, <1>6, ListSound, Zenon
  <2>2. Turned(t, rotated, known, {}) /\ Turned(t, D, known, T)
    BY <1>1, <1>3, <1>4, <1>5, <1>6, ListTurned, Zenon DEF Fine, History
  <2> HIDE DEF t
  <2>3. Shut(t, barred, known)
    BY <1>6, <1>7, FrameShut, Zenon
  <2> QED
    BY <1>1, <1>3, <1>7, <2>1, <2>2, <2>3, Zenon DEF Fine, Stamp
<1> HIDE DEF t
<1>9. OK(b, D, T) /\ b.s = t /\ b.acked = p.acked /\ b.minted = p.minted
  BY <1>5, <1>8, PutOK
<1>10. Steps(p, b) /\ f \in DOMAIN b.s.rec /\ op \in b.s.log
  BY <1>3, <1>5, <1>7, <1>9, Zenon DEF Steps, Onward
<1> HIDE DEF b
<1> DEFINE q == clear_pending(Put(b, [b.s EXCEPT !.applied = @ \cup {op.id}]), op)
<1>11. OK(q, D, T) /\ Moves(b, q) /\ q.s.rec = b.s.rec /\ op.id \in q.s.applied
  BY <1>9, <1>10, MarkOK, Zenon
<1>12. Effect(p, op) = q
  BY <1>2, Zenon DEF Effect
<1> HIDE DEF q
<1> QED
  BY <1>10, <1>11, <1>12, StepsOn, Zenon

\* The removal of an entry takes effect.
LEMMA UnlinkOK ==
  ASSUME NEW p, NEW D \in SUBSET barred, NEW T, NEW op \in p.s.log, op.kind = "Unlink",
         OK(p, D, T), History
  PROVE  LET q == Effect(p, op) IN
         OK(q, D, T) /\ Steps(p, q) /\ op.id \in q.s.applied
<1> DEFINE t == [p.s EXCEPT !.live = @ \ {op.inode}, !.gone = @ \cup {op.inode}]
           b == Put(p, t)
<1>1. /\ op \in Ops /\ op.inode \in Id /\ IsStore(p.s) /\ OnDisk(p.s) /\ Stamp(p.s, fresh)
  BY Zenon DEF OK, Fine, Sound, OnDisk, IsStore, Ops
<1>2. mutate(p, op) = b
  BY Zenon DEF mutate
<1>3. /\ t.ver = p.s.ver /\ t.root = p.s.root /\ t.head = p.s.head /\ t.ctr = p.s.ctr
      /\ t.log = p.s.log /\ t.applied = p.s.applied /\ t.pending = p.s.pending
      /\ t.rec = p.s.rec /\ t.live = p.s.live \ {op.inode} /\ t.blobs = p.s.blobs
      /\ t.pin = p.s.pin /\ t.seal = p.s.seal
  BY <1>1, Zenon DEF IsStore
<1>4. IsStore(t)
  BY <1>1, ZenonT(60) DEF IsStore
<1> HIDE DEF t
<1>5. Frame(p.s, t)
  BY <1>1, <1>3 DEF Frame, OnDisk, LoggedFirst, IsStore
<1>6. Stamped(t) /\ Stamp(t, fresh)
  BY <1>1, <1>3, Zenon DEF OnDisk, Stamped, Stamp
<1>7. OK(b, D, T) /\ b.s = t /\ b.acked = p.acked /\ b.minted = p.minted
  BY <1>3, <1>4, <1>5, <1>6, FrameOK
<1>8. Steps(p, b) /\ op \in b.s.log
  BY <1>3, <1>7, Zenon DEF Steps, Onward
<1> HIDE DEF b
<1> DEFINE q == clear_pending(Put(b, [b.s EXCEPT !.applied = @ \cup {op.id}]), op)
<1>9. OK(q, D, T) /\ Moves(b, q) /\ op.id \in q.s.applied
  BY <1>7, <1>8, MarkOK, Zenon
<1>10. Effect(p, op) = q
  BY <1>2, Zenon DEF Effect
<1> HIDE DEF q
<1> QED
  BY <1>8, <1>9, <1>10, StepsOn, Zenon

\* A write waits.
LEMMA ParkOK ==
  ASSUME NEW p, NEW D, NEW T, NEW op \in p.s.log, op \in PeerWrites, OK(p, D, T)
  PROVE  LET q == Put(p, [p.s EXCEPT !.pending = @ \cup {op.id}]) IN
         OK(q, D, T) /\ Steps(p, q)
<1> DEFINE t == [p.s EXCEPT !.pending = @ \cup {op.id}]
<1>1. /\ IsStore(p.s) /\ Sound(p.s, p.acked, p.minted) /\ Shut(p.s, barred, known)
      /\ Stamp(p.s, fresh)
  BY Zenon DEF OK, Fine, Sound, OnDisk
<1>2. /\ t.ver = p.s.ver /\ t.head = p.s.head /\ t.ctr = p.s.ctr /\ t.log = p.s.log
      /\ t.applied = p.s.applied /\ t.rec = p.s.rec /\ t.live = p.s.live
      /\ t.blobs = p.s.blobs /\ t.pin = p.s.pin /\ t.seal = p.s.seal
  BY <1>1, Zenon DEF IsStore
<1>3. Sound(t, p.acked, p.minted)
  BY <1>1, ParkSound, Zenon
<1> HIDE DEF t
<1>4. Shut(t, barred, known) /\ Turned(t, rotated, known, {}) /\ Turned(t, D, known, T)
  BY <1>1, <1>2, FrameShut, FrameTurned, Zenon DEF OK, Fine
<1>5. Fine(t, p.acked, p.minted)
  BY <1>1, <1>2, <1>3, <1>4, Zenon DEF Fine, Stamp
<1>6. /\ OK(Put(p, t), D, T) /\ Put(p, t).s = t
      /\ Put(p, t).acked = p.acked /\ Put(p, t).minted = p.minted
  BY <1>4, <1>5, PutOK, Zenon
<1> QED
  BY <1>2, <1>6, Zenon DEF Steps, Onward, t

\* An operation was applied, or parked, and is on the disk.
Applies(p, q, op) ==
  /\ Onward(p.s, q.s) /\ q.s.log = p.s.log \cup {op} /\ q.s.ctr = p.s.ctr
  /\ q.tail = {q.s} /\ Tied(q) /\ q.acked = p.acked /\ q.minted = p.minted

\* From the log to the flush.
LEMMA ApplyOK ==
  ASSUME Counting, NEW p, NEW D \in SUBSET barred, NEW T, NEW op, NEW r, NEW U, Up(p.s), History,
         op.id \notin p.s.applied, r = Place(Put(p, append_op(p.s, op)), op),
         OK(r, D, U), Onward(p.s, r.s), r.s.log = p.s.log \cup {op}, r.s.ctr = p.s.ctr,
         r.acked = p.acked, r.minted = p.minted
  PROVE  LET q == apply_op(p, op) IN
         OK(q, D, U) /\ Applies(p, q, op) /\ Calm(r.s, q.s)
<1> DEFINE q == flush(Snapshot(drain_pending(r), p.s.applied))
<1>1. apply_op(p, op) = q
  BY Zenon DEF apply_op
<1>2. Up(r.s)
  BY Zenon DEF Onward, Up
<1>3. /\ OK(q, D, U) /\ Calm(r.s, q.s) /\ q.tail = {q.s} /\ Tied(q)
      /\ q.acked = r.acked /\ q.minted = r.minted
  BY <1>2, AfterOK
<1> HIDE DEF q
<1>4. Onward(p.s, q.s)
  BY <1>3, OnwardOn, Zenon
<1> QED
  BY <1>1, <1>3, <1>4, Zenon DEF Applies, Calm

\* An operation of a peer is applied.
LEMMA ApplyPeerOK ==
  ASSUME Counting, NEW p, NEW D \in SUBSET barred, NEW T, NEW op \in Script, OK(p, D, T), Up(p.s),
         History, op.id \notin IdsOf(p.s.log)
  PROVE  OK(apply_op(p, op), D, T) /\ Applies(p, apply_op(p, op), op)
<1> DEFINE t == append_op(p.s, op)
           a == Put(p, t)
           r == Place(a, op)
<1>1. op \in Ops /\ ~Own(op) /\ Less(KeyOf(op), <<Now, Self, 1>>) /\ op.format = 3
  BY ScriptAssumption, Zenon DEF Own
<1>2. /\ Sound(p.s, p.acked, p.minted) /\ OnDisk(p.s) /\ p.s.ctr \in Nat
  BY Zenon DEF OK, Fine, Sound, OnDisk, IsStore
<1>3. Less(KeyOf(op), <<Now, Self, p.s.ctr + 1>>)
  <2>1. Less(KeyOf(op), <<Now, Self, 0 + 1>>) /\ KeyOf(op) \in Keys /\ 0 <= p.s.ctr
    BY <1>1, <1>2, KeyType
  <2> QED
    BY <1>2, <2>1, BoundMoves, RepositoryAssumption, Zenon
<1>4. Loggable(p.s, p.minted, op)
  BY <1>1, <1>3, Zenon DEF Loggable
<1>5. /\ OK(a, D, T) /\ a.s = t /\ a.acked = p.acked /\ a.minted = p.minted
      /\ Onward(p.s, t) /\ t.rec = p.s.rec /\ t.ctr = p.s.ctr /\ t.log = p.s.log \cup {op}
      /\ op.id \notin p.s.applied
  <2>1. OK(a, D, T) /\ Appended(p, a, t, op)
    BY <1>1, <1>4, AppendOK, Zenon
  <2> HIDE DEF a, t
  <2> QED
    BY <2>1, Zenon DEF Appended
<1>6. Unsealed(t, op.id) /\ op.id \notin DOMAIN t.rec
  BY <1>1, <1>2, <1>5, NewIsUnsealed, Zenon DEF OnDisk, LoggedFirst
<1> HIDE DEF a, t
<1>7. a.s.root
  <2>1. Up(a.s) /\ OnDisk(a.s)
    BY <1>5, Zenon DEF Up, Onward, OK, Fine, Sound
  <2> QED
    BY <2>1, UpIs, Zenon
<1>8. OK(r, D, T) /\ Steps(a, r)
  <2>1. CASE Unmet(a.s, op)
    <3>1. op \in PeerWrites /\ op \in a.s.log
      BY <1>5, <1>7, <2>1, Zenon DEF Unmet, PeerWrites
    <3>2. r = Put(a, [a.s EXCEPT !.pending = @ \cup {op.id}])
      BY <2>1, Zenon DEF Place
    <3> QED
      BY <1>5, <3>1, <3>2, ParkOK
  <2>2. CASE ~Unmet(a.s, op)
    <3>1. r = Effect(a, op) /\ op \in a.s.log
      BY <1>5, <2>2, Zenon DEF Place
    <3>2. CASE op.kind = "CreateFile"
      BY <1>5, <1>6, <3>1, <3>2, CreateOK
    <3>3. CASE op.kind = "Unlink"
      <4>1. OK(Effect(a, op), D, T) /\ Steps(a, Effect(a, op))
        BY <1>5, <3>1, <3>3, UnlinkOK, Zenon
      <4> QED
        BY <3>1, <4>1, Zenon
    <3>4. CASE op.kind = "Write"
      <4>1. op \in PeerWrites
        BY <3>4, Zenon DEF PeerWrites
      <4>2. Ready(a.s, op, D)
        BY <2>2, <3>1, <3>4, <4>1, PeersOpen, Zenon DEF Ready, Unmet
      <4> QED
        BY <1>5, <3>1, <4>2, WriteOK, StepsOn
    <3> QED
      BY <1>1, <3>2, <3>3, <3>4, Zenon DEF Ops
  <2> QED
    BY <2>1, <2>2, Zenon
<1> HIDE DEF r
<1>9. r = Place(Put(p, append_op(p.s, op)), op)
  BY Zenon DEF r, a, t
<1>10. /\ Onward(p.s, r.s) /\ r.s.log = p.s.log \cup {op} /\ r.s.ctr = p.s.ctr
       /\ r.acked = p.acked /\ r.minted = p.minted
  BY <1>5, <1>8, OnwardOn DEF Steps
<1> QED
  BY <1>5, <1>8, <1>9, <1>10, ApplyOK, Zenon

-----------------------------------------------------------------------------
(* A local operation *)

\* The counter moves first.
LEMMA CountOK ==
  ASSUME NEW p, NEW D, NEW T, OK(p, D, T)
  PROVE  LET t == [p.s EXCEPT !.ctr = @ + 1]
             q == Put(p, t) IN
         /\ OK(q, D, T) /\ q.s = t /\ q.acked = p.acked /\ q.minted = p.minted
         /\ Onward(p.s, t) /\ t.rec = p.s.rec /\ t.live = p.s.live /\ t.log = p.s.log
         /\ t.blobs = p.s.blobs /\ t.ctr = p.s.ctr + 1 /\ p.s.ctr \in Nat
<1> DEFINE t == [p.s EXCEPT !.ctr = @ + 1]
<1>1. OnDisk(p.s) /\ IsStore(p.s) /\ IsSession(p) /\ Stamp(p.s, fresh) /\ p.s.ctr \in Nat
  BY Zenon DEF OK, Fine, Sound, OnDisk, IsStore
<1>2. /\ t.ver = p.s.ver /\ t.root = p.s.root /\ t.head = p.s.head /\ t.ctr = p.s.ctr + 1
      /\ t.log = p.s.log /\ t.applied = p.s.applied /\ t.pending = p.s.pending
      /\ t.rec = p.s.rec /\ t.live = p.s.live /\ t.blobs = p.s.blobs
      /\ t.pin = p.s.pin /\ t.seal = p.s.seal
  BY <1>1, Zenon DEF IsStore
<1>3. IsStore(t)
  <2> DEFINE n == p.s.ctr + 1
  <2>1. n \in Nat
    BY <1>1
  <2>2. t = [p.s EXCEPT !.ctr = n]
    BY Zenon
  <2> HIDE DEF n, t
  <2> QED
    BY <1>1, <2>1, <2>2, Zenon DEF IsStore
<1> HIDE DEF t
<1>4. Frame(p.s, t)
  BY <1>1, <1>2 DEF Frame, OnDisk, LoggedFirst
<1>5. Stamped(t) /\ Stamp(t, fresh)
  BY <1>1, <1>2, Zenon DEF OnDisk, Stamped, Stamp
<1>6. /\ OK(Put(p, t), D, T) /\ Put(p, t).s = t
      /\ Put(p, t).acked = p.acked /\ Put(p, t).minted = p.minted
  BY <1>2, <1>3, <1>4, <1>5, FrameOK, Zenon
<1> QED
  BY <1>1, <1>2, <1>6, Zenon DEF Onward, t

\* The next operation of this device: new, and later than all there are.
Issued(s, op) ==
  /\ op \in Ops /\ Own(op) /\ op.id = NextId(s) /\ op.id \in Id /\ op.format = 3
  /\ op.id \notin IdsOf(s.log) /\ op.id[2] = s.ctr + 1 /\ Bare(op) = op /\ op \notin Script
  /\ KeyOf(op) = <<Now, Self, s.ctr + 1>>
  /\ Less(KeyOf(op), <<Now, Self, (s.ctr + 1) + 1>>)
  /\ \A x \in s.log \cup Script : Less(KeyOf(x), KeyOf(op))

\* And is what was asked for.
IssuedAs(s, op, kind, inode, chunk, to) ==
  /\ Issued(s, op) /\ op.kind = kind /\ op.inode = inode /\ op.chunk = chunk /\ op.to = to

\* Every operation that this device issues is such.
LEMMA OwnOp ==
  ASSUME NEW s, OnDisk(s), NEW kind \in LocalKinds, NEW inode \in Id,
         NEW chunk \in Id \cup {None}, NEW to \in SUBSET Nat,
         NEW op, op = Op(NextId(s), kind, inode, chunk, to, "none")
  PROVE  IssuedAs(s, op, kind, inode, chunk, to)
<1>1. s.ctr \in Nat /\ Self \in Nat /\ Now \in Nat
  BY RepositoryAssumption, Zenon DEF OnDisk, IsStore
<1>2. /\ op.id = NextId(s) /\ op.time = Now /\ op.format = 3
      /\ op.kind = kind /\ op.inode = inode /\ op.chunk = chunk /\ op.to = to
  BY Zenon DEF Op
<1>3. NextId(s) \in Id /\ NextId(s)[1] = Self /\ NextId(s)[2] = s.ctr + 1
  BY <1>1 DEF NextId, Id
<1>4. op \in Ops
  BY <1>1, <1>3 DEF Op, Ops, LocalKinds
<1>5. Bare(op) = op
  BY DEF Bare, Op
<1>6. KeyOf(op) = <<Now, Self, s.ctr + 1>>
  BY <1>2, <1>3, Zenon DEF KeyOf
<1>7. Less(KeyOf(op), <<Now, Self, (s.ctr + 1) + 1>>)
  BY <1>1, <1>6 DEF Less
<1>8. op.id \notin IdsOf(s.log)
  <2> SUFFICES ASSUME NEW x \in s.log, x.id = op.id PROVE FALSE
    BY Zenon DEF IdsOf
  <2>1. x.id[2] <= s.ctr
    BY <1>2, <1>3, Zenon DEF OnDisk, Numbered
  <2> QED
    BY <1>1, <1>2, <1>3, <2>1
<1>9. op \notin Script
  BY <1>2, <1>3, ScriptAssumption, Zenon
<1>10. ASSUME NEW x \in Script PROVE Less(KeyOf(x), KeyOf(op))
  <2>1. Less(KeyOf(x), <<Now, Self, 0 + 1>>) /\ KeyOf(x) \in Keys /\ 0 <= s.ctr
    BY <1>1, KeyType, ScriptAssumption
  <2> QED
    BY <1>1, <1>6, <2>1, BoundMoves, Zenon
<1>11. ASSUME NEW x \in s.log PROVE Less(KeyOf(x), KeyOf(op))
  BY <1>6, Zenon DEF OnDisk, Numbered
<1> QED
  BY <1>2, <1>3, <1>4, <1>5, <1>6, <1>7, <1>8, <1>9, <1>10, <1>11, Zenon DEF Own, Issued, IssuedAs

\* An operation that is on the disk may be returned.
LEMMA AckFine ==
  ASSUME NEW s, NEW A, NEW m, Fine(s, A, m), NEW op, NEW x \in s.log, Bare(x) = op,
         op.id \in s.applied
  PROVE  Fine(s, A \cup {op}, m)
<1>1. Returned(s, A \cup {op})
  BY Zenon DEF Fine, Sound, Returned
<1> QED
  BY <1>1, Zenon DEF Fine, Sound

\* It is returned.
LEMMA AckOK ==
  ASSUME NEW q, NEW D, NEW T, NEW op, OK(q, D, T),
         \A s \in q.tail \cup {q.s} : op.id \in s.applied /\ \E x \in s.log : Bare(x) = op
  PROVE  LET r == [q EXCEPT !.acked = @ \cup {op}] IN
         /\ OK(r, D, T) /\ r.s = q.s /\ r.tail = q.tail /\ r.minted = q.minted
         /\ r.acked = q.acked \cup {op}
<1> DEFINE c == q.acked \cup {op}
           r == [q EXCEPT !.acked = c]
<1>1. IsSession(q) /\ r = [q EXCEPT !.acked = @ \cup {op}]
  BY Zenon DEF OK, IsSession
<1> HIDE DEF c
<1>2. r = [s |-> q.s, mid |-> q.mid, tail |-> q.tail, acked |-> c, minted |-> q.minted]
  BY <1>1 DEF IsSession
<1> HIDE DEF r
<1>3. /\ r.s = q.s /\ r.mid = q.mid /\ r.tail = q.tail /\ r.acked = q.acked \cup {op}
      /\ r.minted = q.minted
  BY <1>2, Zenon DEF c
<1>4. IsSession(r)
  BY <1>1, <1>2, Zenon DEF IsSession, c
<1>5. ASSUME NEW s \in q.tail \cup {q.s} PROVE Fine(s, r.acked, r.minted)
  <2>1. Fine(s, q.acked, q.minted)
    BY Zenon DEF OK
  <2> QED
    BY <1>3, <2>1, AckFine
<1> QED
  BY <1>1, <1>3, <1>4, <1>5, Zenon DEF OK, r, c

\* The disk and the process differ in no record.
Synced(p) == \A s \in p.tail : s.rec = p.s.rec /\ s.live = p.s.live

\* The session when a local operation returns.
Ended(q, r) ==
  /\ Tied(r) /\ Synced(r) /\ Onward(q.s, r.s) /\ r.minted = q.minted
  /\ r.s.rec = q.s.rec /\ r.s.live = q.s.live /\ IdsOf(r.s.log) = IdsOf(q.s.log)

\* The proof, and the return.
LEMMA ProveOK ==
  ASSUME NEW q, NEW D, NEW T, NEW op \in q.s.log, OK(q, D, T), op \notin Script,
         Bare(op) = op, op.id \in q.s.applied, q.tail = {q.s}, Tied(q)
  PROVE  LET r == [Prove(q, op) EXCEPT !.acked = @ \cup {op}] IN
         OK(r, D, T) /\ Ended(q, r)
<1> DEFINE p == Prove(q, op)
           r == [p EXCEPT !.acked = @ \cup {op}]
<1> SUFFICES /\ OK(p, D, T) /\ Tied(p) /\ Synced(p) /\ Onward(q.s, p.s) /\ p.minted = q.minted
             /\ p.s.rec = q.s.rec /\ p.s.live = q.s.live /\ IdsOf(p.s.log) = IdsOf(q.s.log)
             /\ \A s \in p.tail \cup {p.s} :
                  op.id \in s.applied /\ \E x \in s.log : Bare(x) = op
  <2> HIDE DEF p
  <2>1. OK(r, D, T) /\ r.s = p.s /\ r.tail = p.tail /\ r.minted = p.minted
    BY AckOK
  <2> HIDE DEF r
  <2>2. Tied(r) /\ Synced(r)
    BY <2>1, Zenon DEF Tied, Synced
  <2> QED
    BY <2>1, <2>2, Zenon DEF r, p, Ended
<1>1. CASE Policy = "none"
  <2>1. p = q
    BY <1>1, Zenon DEF Prove
  <2> HIDE DEF p
  <2> QED
    BY <2>1, Zenon DEF Synced, Onward
<1>2. CASE Policy # "none"
  <2> DEFINE m == ModeOf(q.s, op)
             x == Proven(op, m)
             t == append_op(q.s, x)
  <2>1. p = Put(q, t)
    BY <1>2, Zenon DEF Prove, Proven
  <2>2. m \in ProofModes
    BY Zenon DEF ModeOf, ProofModes
  <2> HIDE DEF m
  <2>3. OnDisk(q.s) /\ IsStore(q.s) /\ Sound(q.s, q.acked, q.minted) /\ op \notin PendingOps(q.s)
    BY Zenon DEF OK, Fine, Sound, OnDisk, Parked
  <2> HIDE DEF p
  <2>4. /\ Bare(x) = Bare(op) /\ t.log = (q.s.log \ {op}) \cup {x} /\ IdsOf(t.log) = IdsOf(q.s.log)
    <3>1. Replaced(q.s, op, x, t)
      BY <2>2, <2>3, ReplaceIs, Zenon
    <3> HIDE DEF x, t
    <3> QED
      BY <3>1, Zenon DEF Replaced
  <2>5. Sound(t, q.acked, q.minted) /\ \A d : EnvelopesFor(t, d) = EnvelopesFor(q.s, d)
    <3>1. Sound(t, q.acked, q.minted)
      BY <2>2, <2>3, ReplaceSound, Zenon
    <3>2. SameEnvelopes(q.s, t)
      BY <2>2, <2>3, ReplaceSound, Zenon
    <3> QED
      BY <3>1, <3>2, Zenon DEF SameEnvelopes
  <2> HIDE DEF x
  <2>6. /\ t.ver = q.s.ver /\ t.head = q.s.head /\ t.pin = q.s.pin /\ t.seal = q.s.seal
        /\ t.applied = q.s.applied /\ t.rec = q.s.rec /\ t.live = q.s.live
        /\ t.blobs = q.s.blobs
    <3>1. Replaced(q.s, op, x, t)
      BY <2>2, <2>3, ReplaceIs, Zenon DEF x
    <3> HIDE DEF t
    <3> QED
      BY <3>1, Zenon DEF Replaced
  <2> HIDE DEF t
  <2>7. Turned(t, rotated, known, {}) /\ Turned(t, D, known, T)
    BY <2>6, FrameTurned, Zenon DEF OK, Fine
  <2>8. Fine(t, q.acked, q.minted)
    <3>1. Shut(t, barred, known)
      BY <2>5, <2>6, Zenon DEF OK, Fine, Shut
    <3>2. Stamp(t, fresh)
      BY <2>6, Zenon DEF OK, Fine, Stamp
    <3> QED
      BY <2>5, <2>7, <3>1, <3>2, Zenon DEF Fine
  <2>9. OK(p, D, T) /\ p.s = t /\ p.minted = q.minted
    <3>1. OK(Put(q, t), D, T) /\ Put(q, t).s = t /\ Put(q, t).minted = q.minted
      BY <2>7, <2>8, PutOK, Zenon
    <3> QED
      BY <2>1, <3>1, Zenon
  <2>10. Tied(p) /\ p.tail = {q.s, t}
    <3>1. Readable(t) = Readable(q.s) /\ IsSession(q)
      BY <2>6, Zenon DEF Readable, Files, OK
    <3> QED
      BY <2>1, <2>5, <2>6, <3>1, PutTied, PutIs
  <2> HIDE DEF p
  <2>11. Synced(p) /\ Onward(q.s, p.s)
    BY <2>6, <2>9, <2>10, Zenon DEF Synced, Onward
  <2>12. x \in t.log /\ Bare(x) = op
    BY <2>4, Zenon
  <2> QED
    BY <2>4, <2>6, <2>9, <2>10, <2>11, <2>12, Zenon
<1> QED
  BY <1>1, <1>2, Zenon

\* A chunk that this device may seal for its recipients.
Sealable(s, m, c) ==
  /\ \A x \in PeerWrites :
       x.chunk = c => /\ x.inode \in IdsOf(s.log)
                      /\ x.inode \in DOMAIN s.rec => Addressed(s, x.inode)
  /\ \A n \in Nat : c = <<Self, n>> => n <= m

\* What a write of this device leaves as it was.
Rewrites(s, t) ==
  /\ Onward(s, t) /\ DOMAIN t.rec = DOMAIN s.rec /\ t.live = s.live
  /\ IdsOf(s.log) \subseteq IdsOf(t.log)
  /\ \A f \in DOMAIN s.rec : Addressed(s, f) => Addressed(t, f)

\* The recipients: this device, and no device that is shut out.
LEMMA RecipientsAre ==
  ASSUME NEW s, Shut(s, barred, known), History
  PROVE  /\ sealing_recipients(s) \in SUBSET Nat /\ Self \in sealing_recipients(s)
         /\ \A d \in barred : d \notin sealing_recipients(s)
BY RepositoryAssumption, Zenon DEF sealing_recipients, Shut, History

\* What is kept is no later than an operation that is later than the log.
LEMMA LaterWins ==
  ASSUME NEW s, OnDisk(s), NEW op \in Ops, op.inode \in DOMAIN s.rec,
         \A f \in DOMAIN s.rec : s.rec[f] # None =>
           \E x \in Ops : Less(KeyOf(x), KeyOf(op)) /\ Bare(x) = Bare(s.rec[f])
  PROVE  write_can_win(s, op)
<1> SUFFICES ASSUME s.rec[op.inode] # None
             PROVE  Less(KeyOf(s.rec[op.inode]), KeyOf(op))
  BY Zenon DEF write_can_win
<1>1. PICK x \in Ops : Less(KeyOf(x), KeyOf(op)) /\ Bare(x) = Bare(s.rec[op.inode])
  BY Zenon
<1>2. s.rec[op.inode] \in Ops
  BY Zenon DEF OnDisk, IsStore
<1>3. KeyOf(Bare(x)) = KeyOf(x) /\ KeyOf(Bare(s.rec[op.inode])) = KeyOf(s.rec[op.inode])
  BY <1>2, Zenon DEF Ops, Bare, KeyOf
<1> QED
  BY <1>1, <1>3, Zenon

\* A write of this device, from the counter to the return.
LEMMA IssueWriteOK ==
  ASSUME Counting, NEW p, NEW D \in SUBSET barred, NEW T, OK(p, D, T), Up(p.s), History,
         NEW f \in DOMAIN p.s.rec, NEW c \in Id \cup {None}, <<"chunk", c>> \in p.s.blobs,
         Sealable(p.s, p.minted, c), \A d \in D \cup rotated : c \notin known[d]
  PROVE  LET q == apply_local(p, "Write", f, c, sealing_recipients(p.s)) IN
         /\ OK(q, D, T \ {f}) /\ Rewrites(p.s, q.s) /\ Synced(q) /\ Tied(q)
         /\ q.minted = p.minted
<1> DEFINE to == sealing_recipients(p.s)
           op == Op(NextId(p.s), "Write", f, c, to, "none")
           s == [p.s EXCEPT !.ctr = @ + 1]
           b == Put(p, s)
           t == append_op(b.s, op)
           a == Put(b, t)
           r == Effect(a, op)
<1>1. /\ OnDisk(p.s) /\ f \in Id /\ IsStore(p.s) /\ Shut(p.s, barred, known)
  <2>1. OnDisk(p.s) /\ IsStore(p.s) /\ Shut(p.s, barred, known) /\ p.s.log \subseteq Ops
    BY Zenon DEF OK, Fine, Sound, OnDisk, IsStore
  <2>2. PICK x \in p.s.log : x.id = f
    BY <2>1, Zenon DEF OnDisk, LoggedFirst, IdsOf
  <2>3. x.id \in Id
    BY <2>1, Zenon DEF Ops
  <2> QED
    BY <2>1, <2>2, <2>3, Zenon
<1>2. to \in SUBSET Nat /\ Self \in to /\ \A d \in barred : d \notin to
  BY <1>1, RecipientsAre, Zenon
<1> HIDE DEF to
<1>3. /\ op \in Ops /\ Own(op) /\ op.format = 3
      /\ op.kind = "Write" /\ op.inode = f /\ op.chunk = c /\ op.to = to
      /\ op.id \notin IdsOf(p.s.log) /\ op.id[2] = p.s.ctr + 1 /\ Bare(op) = op /\ op \notin Script
      /\ Less(KeyOf(op), <<Now, Self, (p.s.ctr + 1) + 1>>)
      /\ \A x \in p.s.log \cup Script : Less(KeyOf(x), KeyOf(op))
  <2>1. op = Op(NextId(p.s), "Write", f, c, to, "none")
    BY Zenon
  <2> HIDE DEF op
  <2>2. IssuedAs(p.s, op, "Write", f, c, to)
    <3>1. "Write" \in LocalKinds
      BY Zenon DEF LocalKinds
    <3> QED
      BY <1>1, <1>2, <2>1, <3>1, OwnOp, Zenon
  <2> QED
    BY <2>2, Zenon DEF Issued, IssuedAs
<1>4. /\ OK(b, D, T) /\ b.s = s /\ b.acked = p.acked /\ b.minted = p.minted
      /\ Onward(p.s, s) /\ s.rec = p.s.rec /\ s.live = p.s.live /\ s.log = p.s.log
      /\ s.blobs = p.s.blobs /\ s.ctr = p.s.ctr + 1 /\ p.s.ctr \in Nat
  BY CountOK, Zenon
<1>5. apply_local(p, "Write", f, c, to)
        = [Prove(apply_op(b, op), op) EXCEPT !.acked = @ \cup {op}]
  BY Zenon DEF apply_local, Issue
<1> HIDE DEF op, s, b
<1>6. Loggable(b.s, b.minted, op)
  <2>1. Backed(b.s, op) /\ \A n \in Nat : op.chunk = <<Self, n>> => n <= b.minted
    BY <1>3, <1>4, Zenon DEF Sealable, Backed, Addressed
  <2> QED
    BY <1>3, <1>4, <2>1 DEF Loggable
<1>7. Up(b.s)
  BY <1>4, OnwardOn, Zenon
<1>8. /\ OK(a, D, T) /\ a.s = t /\ a.acked = b.acked /\ a.minted = b.minted
      /\ Onward(b.s, t) /\ t.rec = b.s.rec /\ t.live = b.s.live /\ t.blobs = b.s.blobs
      /\ t.ctr = b.s.ctr /\ t.log = b.s.log \cup {op} /\ op.id \notin b.s.applied
  <2>1. Own(op) => \A d \in barred : d \notin op.to
    BY <1>2, <1>3, Zenon
  <2>2. OK(a, D, T) /\ Appended(b, a, t, op)
    BY <1>4, <1>6, <1>7, <2>1, AppendOK, Zenon
  <2> HIDE DEF a, t
  <2> QED
    BY <2>2, Zenon DEF Appended
<1>9. Place(Put(b, append_op(b.s, op)), op) = IF Unmet(a.s, op)
        THEN Put(a, [a.s EXCEPT !.pending = @ \cup {op.id}]) ELSE r
  BY Zenon DEF Place
<1> HIDE DEF a, t
<1>10. Up(a.s) /\ OnDisk(a.s)
  BY <1>7, <1>8, OnwardOn, Zenon DEF OK, Fine, Sound
<1>11. ChunkOf(op) \in a.s.blobs /\ op.inode \in DOMAIN a.s.rec /\ op \in a.s.log
  BY <1>3, <1>4, <1>8, Zenon DEF ChunkOf
<1>12. ~Unmet(a.s, op)
  BY <1>10, <1>11, UpIs, Zenon DEF Unmet
<1>13. Ready(a.s, op, D)
  BY <1>2, <1>3, <1>11, Zenon DEF Ready, Opens
<1>14. write_can_win(a.s, op)
  <2>1. ASSUME NEW g \in DOMAIN a.s.rec, a.s.rec[g] # None
        PROVE  \E x \in Ops : Less(KeyOf(x), KeyOf(op)) /\ Bare(x) = Bare(a.s.rec[g])
    <3>1. PICK x \in p.s.log : Bare(x) = Bare(p.s.rec[g])
      <4>1. LoggedFirst(p.s) /\ g \in DOMAIN p.s.rec /\ p.s.rec[g] # None
        BY <1>1, <1>4, <1>8, <2>1, Zenon DEF OnDisk
      <4> QED
        BY <4>1, Zenon DEF LoggedFirst
    <3>2. x \in Ops
      BY <1>1, Zenon DEF IsStore
    <3> QED
      BY <1>3, <1>4, <1>8, <3>1, <3>2, Zenon
  <2> QED
    BY <1>3, <1>10, <1>11, <2>1, LaterWins, Zenon
<1>15. /\ OK(r, D, T) /\ Moves(a, r) /\ op.id \in r.s.applied /\ r.s.rec[f] = op
  BY <1>3, <1>8, <1>13, <1>14, WriteOK, Zenon
<1> HIDE DEF r
<1>16. OK(r, D, T \ {f})
  <2>1. Turned(r.s, D, known, T \ {f})
    BY <1>3, <1>15, TurnedDrop, Zenon DEF OK, PeerWrites
  <2> QED
    BY <1>15, <2>1, Zenon DEF OK
<1>17. /\ r = Place(Put(b, append_op(b.s, op)), op)
       /\ Onward(b.s, r.s) /\ r.s.log = b.s.log \cup {op} /\ r.s.ctr = b.s.ctr
       /\ r.acked = b.acked /\ r.minted = b.minted
  <2>1. r = Place(Put(b, append_op(b.s, op)), op)
    BY <1>9, <1>12, Zenon
  <2>2. Onward(b.s, r.s)
    BY <1>8, <1>15, OnwardOn, Zenon DEF Moves
  <2> QED
    BY <1>8, <1>15, <2>1, <2>2, Zenon DEF Moves, Calm
<1> DEFINE q == apply_op(b, op)
           z == [Prove(q, op) EXCEPT !.acked = @ \cup {op}]
<1>18. OK(q, D, T \ {f}) /\ Applies(b, q, op) /\ Calm(r.s, q.s)
  BY <1>7, <1>8, <1>16, <1>17, ApplyOK, ZenonT(60)
<1> HIDE DEF q
<1>19. op \in q.s.log /\ op.id \in q.s.applied /\ q.tail = {q.s} /\ Tied(q)
  BY <1>15, <1>18, Zenon DEF Applies, Calm
<1>20. /\ OK(z, D, T \ {f}) /\ Tied(z) /\ Synced(z) /\ Onward(q.s, z.s) /\ z.minted = q.minted
       /\ z.s.rec = q.s.rec /\ z.s.live = q.s.live /\ IdsOf(z.s.log) = IdsOf(q.s.log)
  <2>1. OK(z, D, T \ {f}) /\ Ended(q, z)
    BY <1>3, <1>18, <1>19, ProveOK, Zenon
  <2> HIDE DEF z
  <2> QED
    BY <2>1, Zenon DEF Ended
<1> HIDE DEF z
<1>21. Rewrites(p.s, z.s) /\ z.minted = p.minted
  <2>1. Onward(p.s, z.s)
    BY <1>4, <1>18, <1>20, OnwardOn, Zenon DEF Applies
  <2>2. IdsOf(p.s.log) \subseteq IdsOf(z.s.log)
    BY <1>4, <1>18, <1>20, Zenon DEF Applies, IdsOf
  <2>3. a.s.rec = p.s.rec /\ a.s.live = p.s.live
    BY <1>4, <1>8, Zenon
  <2>4. Calm(a.s, r.s) /\ Calm(r.s, q.s)
    BY <1>15, <1>18, Zenon DEF Moves
  <2>5. /\ DOMAIN z.s.rec = DOMAIN p.s.rec /\ z.s.live = p.s.live
        /\ \A g \in DOMAIN p.s.rec : Addressed(p.s, g) => Addressed(z.s, g)
    BY <1>20, <2>3, <2>4, Zenon DEF Calm, Addressed
  <2> QED
    BY <1>4, <1>18, <1>20, <2>1, <2>2, <2>5, Zenon DEF Rewrites, Applies
<1> QED
  BY <1>5, <1>20, <1>21, Zenon DEF z, q, to

\* A create or a removal, from the counter to the return.
LEMMA IssueEntryOK ==
  ASSUME Counting, NEW p, NEW D \in SUBSET barred, NEW T, OK(p, D, T), Up(p.s), History,
         NEW k \in {"CreateFile", "Unlink"}, NEW f \in Id
  PROVE  LET q == apply_local(p, k, f, None, {}) IN
         /\ OK(q, D, T) /\ Onward(p.s, q.s) /\ Synced(q) /\ Tied(q) /\ q.minted = p.minted
         /\ k = "CreateFile" => NextId(p.s) \in DOMAIN q.s.rec
<1> DEFINE to == {}
           op == Op(NextId(p.s), k, f, None, to, "none")
           s == [p.s EXCEPT !.ctr = @ + 1]
           b == Put(p, s)
           t == append_op(b.s, op)
           a == Put(b, t)
           r == Effect(a, op)
<1>1. OnDisk(p.s)
  BY Zenon DEF OK, Fine, Sound
<1>2. /\ op \in Ops /\ Own(op) /\ op.format = 3 /\ op.id = NextId(p.s)
      /\ op.kind = k /\ op.to = to
      /\ op.id \notin IdsOf(p.s.log) /\ op.id[2] = p.s.ctr + 1 /\ Bare(op) = op /\ op \notin Script
      /\ Less(KeyOf(op), <<Now, Self, (p.s.ctr + 1) + 1>>)
  <2>1. to \in SUBSET Nat /\ op = Op(NextId(p.s), k, f, None, to, "none")
    BY Zenon
  <2> HIDE DEF to, op
  <2>2. k \in LocalKinds /\ None \in Id \cup {None}
    BY Zenon DEF LocalKinds
  <2>3. IssuedAs(p.s, op, k, f, None, to)
    BY <1>1, <2>1, <2>2, OwnOp, Zenon
  <2> QED
    BY <2>3, Zenon DEF Issued, IssuedAs
<1>3. /\ OK(b, D, T) /\ b.s = s /\ b.acked = p.acked /\ b.minted = p.minted
      /\ Onward(p.s, s) /\ s.rec = p.s.rec /\ s.log = p.s.log
      /\ s.ctr = p.s.ctr + 1 /\ p.s.ctr \in Nat
  BY CountOK, Zenon
<1>4. apply_local(p, k, f, None, {})
        = [Prove(apply_op(b, op), op) EXCEPT !.acked = @ \cup {op}]
  BY Zenon DEF apply_local, Issue
<1> HIDE DEF op, s, b
<1>5. Loggable(b.s, b.minted, op)
  BY <1>2, <1>3 DEF Loggable
<1>6. Up(b.s)
  BY <1>3, OnwardOn, Zenon
<1>7. /\ OK(a, D, T) /\ a.s = t /\ a.acked = b.acked /\ a.minted = b.minted
      /\ Onward(b.s, t) /\ t.rec = b.s.rec /\ t.ctr = b.s.ctr /\ t.log = b.s.log \cup {op}
      /\ op.id \notin b.s.applied
  <2>1. Own(op) => \A d \in barred : d \notin op.to
    BY <1>2, Zenon
  <2>2. OK(a, D, T) /\ Appended(b, a, t, op)
    BY <1>3, <1>5, <1>6, <2>1, AppendOK, Zenon
  <2> HIDE DEF a, t
  <2> QED
    BY <2>2, Zenon DEF Appended
<1>8. Unsealed(t, op.id) /\ op.id \notin DOMAIN t.rec
  <2>1. Sound(b.s, b.acked, b.minted)
    BY <1>3, Zenon DEF OK, Fine
  <2> QED
    BY <1>1, <1>2, <1>3, <1>7, <2>1, NewIsUnsealed, Zenon DEF OnDisk, LoggedFirst
<1>9. Place(Put(b, append_op(b.s, op)), op) = IF Unmet(a.s, op)
        THEN Put(a, [a.s EXCEPT !.pending = @ \cup {op.id}]) ELSE r
  BY Zenon DEF Place
<1> HIDE DEF a, t
<1>10. Up(a.s) /\ OnDisk(a.s)
  BY <1>6, <1>7, OnwardOn, Zenon DEF OK, Fine, Sound
<1>11. ~Unmet(a.s, op) /\ op \in a.s.log
  BY <1>2, <1>7, <1>10, UpIs, Zenon DEF Unmet
<1>12. /\ OK(r, D, T) /\ Steps(a, r) /\ op.id \in r.s.applied
       /\ k = "CreateFile" => op.id \in DOMAIN r.s.rec
  <2>1. CASE k = "CreateFile"
    BY <1>2, <1>7, <1>8, <1>11, <2>1, CreateOK, Zenon
  <2>2. CASE k = "Unlink"
    BY <1>2, <1>7, <1>11, <2>2, UnlinkOK, Zenon
  <2> QED
    BY <2>1, <2>2, Zenon
<1> HIDE DEF r
<1>13. /\ r = Place(Put(b, append_op(b.s, op)), op)
       /\ Onward(b.s, r.s) /\ r.s.log = b.s.log \cup {op} /\ r.s.ctr = b.s.ctr
       /\ r.acked = b.acked /\ r.minted = b.minted
  <2>1. r = Place(Put(b, append_op(b.s, op)), op)
    BY <1>9, <1>11, Zenon
  <2>2. Onward(b.s, r.s)
    BY <1>7, <1>12, OnwardOn, Zenon DEF Steps
  <2> QED
    BY <1>7, <1>12, <2>1, <2>2, Zenon DEF Steps
<1> DEFINE q == apply_op(b, op)
           z == [Prove(q, op) EXCEPT !.acked = @ \cup {op}]
<1>14. OK(q, D, T) /\ Applies(b, q, op) /\ Calm(r.s, q.s)
  BY <1>6, <1>7, <1>12, <1>13, ApplyOK, Zenon
<1> HIDE DEF q
<1>15. op \in q.s.log /\ op.id \in q.s.applied /\ q.tail = {q.s} /\ Tied(q)
  BY <1>12, <1>14, Zenon DEF Applies, Calm
<1>16. /\ OK(z, D, T) /\ Tied(z) /\ Synced(z) /\ Onward(q.s, z.s) /\ z.minted = q.minted
       /\ z.s.rec = q.s.rec
  <2>1. OK(z, D, T) /\ Ended(q, z)
    BY <1>2, <1>14, <1>15, ProveOK, Zenon
  <2> HIDE DEF z
  <2> QED
    BY <2>1, Zenon DEF Ended
<1> HIDE DEF z
<1>17. Onward(p.s, z.s) /\ z.minted = p.minted
  BY <1>3, <1>14, <1>16, OnwardOn, Zenon DEF Applies
<1>18. k = "CreateFile" => NextId(p.s) \in DOMAIN z.s.rec
  BY <1>2, <1>12, <1>14, <1>16, Zenon DEF Calm
<1> QED
  BY <1>4, <1>16, <1>17, <1>18, Zenon DEF z, q

\* Content goes to the store under a key of its own.
LEMMA StoreContentOK ==
  ASSUME NEW p, NEW D, NEW T, OK(p, D, T)
  PROVE  LET q == store_content(p) IN
         /\ OK(q, D, T) /\ Calm(p.s, q.s) /\ q.minted = p.minted + 1 /\ q.minted \in Nat
         /\ <<"chunk", <<Self, q.minted>>>> \in q.s.blobs
<1> DEFINE c == <<"chunk", <<Self, p.minted + 1>>>>
           a == Put(p, [p.s EXCEPT !.blobs = @ \cup {c}])
           n == a.minted + 1
           q == [a EXCEPT !.minted = n]
<1>1. store_content(p) = [a EXCEPT !.minted = @ + 1] /\ p.minted \in Nat
  BY Zenon DEF store_content, OK, IsSession
<1>2. OK(a, D, T) /\ Moves(p, a) /\ c \in a.s.blobs
  <2> DEFINE b == {c}
             t == [p.s EXCEPT !.blobs = @ \cup b]
  <2> HIDE DEF b
  <2>1. OK(Put(p, t), D, T) /\ Moves(p, Put(p, t)) /\ Put(p, t).s = t /\ t.blobs = p.s.blobs \cup b
    BY BlobsOK
  <2> HIDE DEF t
  <2>2. a = Put(p, t)
    BY Zenon DEF t, b
  <2> HIDE DEF a
  <2> QED
    BY <2>1, <2>2, Zenon DEF b
<1> HIDE DEF a
<1>3. a.minted \in Nat /\ IsSession(a) /\ n \in Nat /\ a.minted <= n
  BY <1>2 DEF OK, IsSession
<1>4. store_content(p) = q
  BY <1>1, <1>3, Zenon DEF IsSession
<1> HIDE DEF n
<1>5. q = [s |-> a.s, mid |-> a.mid, tail |-> a.tail, acked |-> a.acked, minted |-> n]
  BY <1>3 DEF IsSession
<1> HIDE DEF q
<1>6. /\ q.s = a.s /\ q.mid = a.mid /\ q.tail = a.tail /\ q.acked = a.acked /\ q.minted = n
  BY <1>5, Zenon
<1>7. IsSession(q)
  BY <1>3, <1>5 DEF IsSession
<1>8. OK(q, D, T)
  <2>1. \A s \in a.tail \cup {a.s} : Fine(s, a.acked, a.minted)
    BY <1>2, Zenon DEF OK
  <2>2. \A s \in a.mid : Fine(s, acked, a.minted)
    BY <1>2, Zenon DEF OK
  <2>3. \A s \in a.tail \cup {a.s} : Fine(s, a.acked, n)
    BY <1>3, <2>1, FineMore, Zenon
  <2>4. \A s \in a.mid : Fine(s, acked, n)
    BY <1>3, <2>2, FineMore, Zenon
  <2> QED
    BY <1>2, <1>6, <1>7, <2>3, <2>4, Zenon DEF OK
<1>9. n = p.minted + 1
  BY <1>2, Zenon DEF n, Moves
<1> QED
  BY <1>2, <1>3, <1>4, <1>6, <1>8, <1>9, Zenon DEF Moves

\* The writes of the queue are among them, and they follow one another.
LEMMA RewritesOn ==
  /\ \A s : Rewrites(s, s)
  /\ \A s, t : Calm(s, t) => Rewrites(s, t)
  /\ \A s, t, u : Rewrites(s, t) /\ Rewrites(t, u) => Rewrites(s, u)
<1>1. \A s : Rewrites(s, s)
  BY Zenon DEF Rewrites, Onward
<1>2. \A s, t : Calm(s, t) => Rewrites(s, t)
  BY OnwardOn, Zenon DEF Rewrites, Calm
<1>3. \A s, t, u : Rewrites(s, t) /\ Rewrites(t, u) => Onward(s, u)
  BY OnwardOn, Zenon DEF Rewrites
<1>4. \A s, t, u : Rewrites(s, t) /\ Rewrites(t, u) => Rewrites(s, u)
  BY <1>3 DEF Rewrites
<1> QED
  BY <1>1, <1>2, <1>4, Zenon

\* They keep what may be sealed.
LEMMA SealableOn ==
  ASSUME NEW s, NEW t, NEW c, NEW m \in Nat, NEW n \in Nat, Sealable(s, m, c), Rewrites(s, t),
         m <= n
  PROVE  Sealable(t, n, c)
BY DEF Sealable, Rewrites

\* A chunk not encrypted yet: nobody has it, and it may be sealed.
LEMMA FreshChunk ==
  ASSUME NEW s, NEW A, NEW m \in Nat, Fine(s, A, m)
  PROVE  LET c == <<Self, m + 1>> IN
         (\A d \in barred : c \notin known[d]) /\ Sealable(s, m + 1, c) /\ c \in Id
<1> DEFINE c == <<Self, m + 1>>
<1>1. ASSUME NEW d \in barred, c \in known[d] PROVE FALSE
  <2>1. c \in EnvelopesFor(s, d)
    BY <1>1, Zenon DEF Fine, Shut
  <2>2. PICK y \in Given(s) : y.chunk = c
    BY <2>1, EnvelopeGiven, Zenon
  <2>3. m + 1 <= m
    BY <2>2 DEF Fine, Sound, Made
  <2> QED
    BY <2>3
<1>2. \A x \in PeerWrites : x.chunk # c
  BY WritesAssumption DEF PeerWrites
<1>3. \A n \in Nat : c = <<Self, n>> => n <= m + 1
  OBVIOUS
<1>4. c \in Id
  BY RepositoryAssumption DEF Id
<1> QED
  BY <1>1, <1>2, <1>3, <1>4, Zenon DEF Sealable

\* New content for a file.
LEMMA WriteContentOK ==
  ASSUME Counting, NEW p, NEW D \in SUBSET barred, NEW T, OK(p, D, T), Up(p.s), History,
         NEW f \in DOMAIN p.s.rec
  PROVE  LET q == WriteContent(p, f) IN
         /\ OK(q, D, T \ {f}) /\ Rewrites(p.s, q.s) /\ Synced(q) /\ Tied(q)
         /\ q.minted = p.minted + 1
<1> DEFINE a == store_content(p)
           c == <<Self, a.minted>>
           q == apply_local(a, "Write", f, c, sealing_recipients(a.s))
<1>1. WriteContent(p, f) = q
  BY Zenon DEF WriteContent, WriteChunk
<1>2. /\ OK(a, D, T) /\ Calm(p.s, a.s) /\ a.minted = p.minted + 1 /\ a.minted \in Nat
      /\ <<"chunk", c>> \in a.s.blobs
  BY StoreContentOK, Zenon
<1> HIDE DEF a
<1>3. p.minted \in Nat /\ Fine(p.s, p.acked, p.minted)
  BY Zenon DEF OK, IsSession
<1>4. (\A d \in barred : c \notin known[d]) /\ Sealable(p.s, a.minted, c) /\ c \in Id
  BY <1>2, <1>3, FreshChunk, Zenon
<1> HIDE DEF c
<1>5. Rewrites(p.s, a.s) /\ Up(a.s) /\ f \in DOMAIN a.s.rec
  BY <1>2, RewritesOn, Zenon DEF Calm, Up
<1>6. Sealable(a.s, a.minted, c)
  <2>1. a.minted <= a.minted
    BY <1>2
  <2> QED
    BY <1>2, <1>4, <1>5, <2>1, SealableOn, Zenon
<1>7. \A d \in D \cup rotated : c \notin known[d]
  BY <1>4, Zenon DEF History
<1>8. /\ OK(q, D, T \ {f}) /\ Rewrites(a.s, q.s) /\ Synced(q) /\ Tied(q)
      /\ q.minted = a.minted
  <2>1. c \in Id \cup {None} /\ <<"chunk", c>> \in a.s.blobs
    BY <1>2, <1>4, Zenon
  <2> QED
    BY <1>2, <1>5, <1>6, <1>7, <2>1, IssueWriteOK, ZenonT(60)
<1> HIDE DEF q
<1> QED
  BY <1>1, <1>2, <1>5, <1>8, RewritesOn, Zenon

\* write_file.
LEMMA WriteFileOK ==
  ASSUME Counting, NEW p, OK(p, {}, {}), Up(p.s), History, NEW f \in {None} \cup DOMAIN p.s.rec
  PROVE  LET q == write_file(p, f) IN
         OK(q, {}, {}) /\ Onward(p.s, q.s) /\ Tied(q)
<1>1. {} \in SUBSET barred /\ {} \ {f} = {} /\ {} \ {NextId(p.s)} = {}
  BY Zenon
<1>2. CASE f = None
  <2> DEFINE n == NextId(p.s)
             a == apply_local(p, "CreateFile", n, None, {})
             q == WriteContent(a, n)
  <2>1. write_file(p, f) = q
    BY <1>2, Zenon DEF write_file
  <2>2. n \in Id
    BY RepositoryAssumption DEF NextId, Id, OK, Fine, Sound, OnDisk, IsStore
  <2>3. OK(a, {}, {}) /\ Onward(p.s, a.s) /\ n \in DOMAIN a.s.rec
    BY <1>1, <2>2, IssueEntryOK, Zenon
  <2> HIDE DEF n, a
  <2>4. Up(a.s)
    BY <2>3, OnwardOn, Zenon
  <2>5. OK(q, {}, {} \ {n}) /\ Rewrites(a.s, q.s) /\ Tied(q)
    BY <1>1, <2>3, <2>4, WriteContentOK, Zenon
  <2> HIDE DEF q
  <2> QED
    BY <1>1, <2>1, <2>3, <2>5, OnwardOn, Zenon DEF Rewrites, n
<1>3. CASE f # None
  <2>1. write_file(p, f) = WriteContent(p, f) /\ f \in DOMAIN p.s.rec
    BY <1>3, Zenon DEF write_file
  <2> DEFINE q == WriteContent(p, f)
  <2>2. OK(q, {}, {} \ {f}) /\ Rewrites(p.s, q.s) /\ Tied(q)
    BY <1>1, <2>1, WriteContentOK, Zenon
  <2> HIDE DEF q
  <2> QED
    BY <1>1, <2>1, <2>2, Zenon DEF Rewrites, q
<1> QED
  BY <1>2, <1>3, Zenon

=============================================================================
