-------------------------- MODULE RepositoryProofs --------------------------
(***************************************************************************)
(* What a repository keeps, whatever its commands do and wherever the      *)
(* process dies.  The invariant speaks of every store a crash may leave;   *)
(* the lemmas follow a command from write to write.                        *)
(***************************************************************************)
EXTENDS SessionProofs

-----------------------------------------------------------------------------
(* The passes over all files *)

\* What is on the list of a pass.
LEMMA ListedFile ==
  ASSUME NEW p, NEW D, NEW T, OK(p, D, T), NEW e \in Encrypted(p.s)
  PROVE  /\ e[1] \in Readable(p.s) /\ e[1] \in DOMAIN p.s.rec /\ e[2] = p.s.rec[e[1]]
         /\ e[2].chunk \in Id \cup {None} /\ <<"chunk", e[2].chunk>> \in p.s.blobs
         /\ Sealable(p.s, p.minted, e[2].chunk)
         /\ \A d \in rotated : e[2].chunk \notin known[d]
<1>1. PICK f \in Readable(p.s) : e = <<f, p.s.rec[f]>>
  BY Zenon DEF Encrypted
<1> DEFINE op == p.s.rec[f]
<1>2. e[1] = f /\ e[2] = op
  BY <1>1, Zenon
<1>3. f \in p.s.live /\ f \in DOMAIN p.s.rec /\ op # None /\ Self \in op.to /\ Addressed(p.s, f)
  BY Zenon DEF Readable, Files, Addressed
<1>4. Sound(p.s, p.acked, p.minted) /\ OnDisk(p.s) /\ IsStore(p.s) /\ op \in Ops
  BY <1>3, Zenon DEF OK, Fine, Sound, OnDisk, IsStore
<1>5. ChunkOf(op) \in p.s.blobs /\ op.chunk \in Id \cup {None}
  BY <1>3, <1>4, Zenon DEF OnDisk, ListedWhole, Ops
<1>6. \A d \in rotated : op.chunk \notin known[d]
  BY <1>2, Zenon DEF OK, Fine, Turned
<1>7. op.inode = f /\ f \in IdsOf(p.s.log) /\ \E y \in p.s.log : Bare(y) = Bare(op)
  BY <1>3, <1>4, Zenon DEF OnDisk, LoggedFirst
<1>8. Sealable(p.s, p.minted, op.chunk)
  <2>1. CASE op \in PeerWrites
    <3>1. \A x \in PeerWrites : x.chunk = op.chunk => x.inode = f
      BY <1>7, <2>1, WritesAssumption, Zenon DEF PeerWrites
    <3>2. \A n \in Nat : op.chunk # <<Self, n>>
      BY <2>1, WritesAssumption DEF PeerWrites
    <3> QED
      BY <1>3, <1>7, <3>1, <3>2, Zenon DEF Sealable
  <2>2. CASE Own(op)
    <3>1. PICK y \in p.s.log : Bare(y) = Bare(op)
      BY <1>7, Zenon
    <3>2. y \in Ops
      BY <1>4, Zenon DEF IsStore
    <3>3. y.id = op.id /\ y.to = op.to /\ y.chunk = op.chunk
      <4>1. /\ Bare(y).id = y.id /\ Bare(y).to = y.to /\ Bare(y).chunk = y.chunk
            /\ Bare(op).id = op.id /\ Bare(op).to = op.to /\ Bare(op).chunk = op.chunk
        BY <1>4, <3>2, Zenon DEF Ops, Bare
      <4> QED
        BY <3>1, <4>1, Zenon
    <3>4. y \in Given(p.s)
      BY <1>3, <2>2, <3>3, Zenon DEF Given, Own
    <3> QED
      BY <1>4, <3>3, <3>4, Zenon DEF Sound, Settled, Made, Sealable
  <2> QED
    BY <1>3, <1>4, <2>1, <2>2, Zenon DEF Sound, Recs
<1> QED
  BY <1>2, <1>3, <1>5, <1>6, <1>8, Zenon DEF ChunkOf

\* What a session p made of a file on the list keeps it so.
LEMMA ResealOK ==
  ASSUME Counting, NEW p, NEW q, NEW D, NEW T, NEW U, OK(p, D, T), OK(q, {}, U), Up(q.s), History,
         Rewrites(p.s, q.s), p.minted <= q.minted, NEW e \in Encrypted(p.s)
  PROVE  LET r == Reseal(q, e[1], e[2]) IN
         /\ OK(r, {}, U \ {e[1]}) /\ Rewrites(q.s, r.s) /\ (Tied(q) => Tied(r))
         /\ r.minted = q.minted
<1> DEFINE f == e[1]
           c == e[2].chunk
           to == sealing_recipients(q.s)
           r == apply_local(q, "Write", f, c, to)
<1>1. /\ f \in DOMAIN p.s.rec /\ c \in Id \cup {None} /\ <<"chunk", c>> \in p.s.blobs
      /\ Sealable(p.s, p.minted, c) /\ \A d \in rotated : c \notin known[d]
  BY ListedFile, Zenon
<1>2. CASE e[2].to = to
  <2>1. Reseal(q, e[1], e[2]) = q
    BY <1>2, Zenon DEF Reseal
  <2>2. OK(q, {}, U \ {f})
    BY Zenon DEF OK, Turned
  <2> QED
    BY <2>1, <2>2, RewritesOn, Zenon
<1>3. CASE e[2].to # to
  <2>1. Reseal(q, e[1], e[2]) = r
    BY <1>3, Zenon DEF Reseal
  <2> HIDE DEF f, c
  <2>2. p.minted \in Nat /\ q.minted \in Nat
    BY Zenon DEF OK, IsSession
  <2>3. Sealable(q.s, q.minted, c)
    BY <1>1, <2>2, SealableOn, Zenon
  <2>4. f \in DOMAIN q.s.rec /\ <<"chunk", c>> \in q.s.blobs
    BY <1>1, Zenon DEF Rewrites, Onward
  <2>5. {} \in SUBSET barred /\ \A d \in {} \cup rotated : c \notin known[d]
    BY <1>1, Zenon
  <2>6. OK(r, {}, U \ {f}) /\ Rewrites(q.s, r.s) /\ Tied(r) /\ r.minted = q.minted
    BY <1>1, <2>3, <2>4, <2>5, IssueWriteOK, ZenonT(60)
  <2> HIDE DEF r
  <2> QED
    BY <2>1, <2>6, Zenon DEF f
<1> QED
  BY <1>2, <1>3, Zenon

Names(files) == {e[1] : e \in files}

\* A pass under way, from the session p.
Going(p, x, D) ==
  /\ x.files \subseteq Encrypted(p.s) /\ IsFiniteSet(x.files)
  /\ OK(x.p, D, Names(x.files)) /\ Up(x.p.s)
  /\ Rewrites(p.s, x.p.s) /\ p.minted <= x.p.minted /\ (Tied(p) => Tied(x.p))
  /\ x.rotate /\ x.files # Encrypted(p.s) => Synced(x.p)
  /\ x.rotate \/ D = {}

\* The next file.
LEMMA NextFileOK ==
  ASSUME Counting, NEW p, NEW x, NEW D \in SUBSET barred, NEW E, NEW T, OK(p, E, T), History,
         Going(p, x, D), x.files # {}
  PROVE  /\ Going(p, NextFile(x), D)
         /\ Cardinality(NextFile(x).files) = Cardinality(x.files) - 1
<1> DEFINE e == CHOOSE e \in x.files : TRUE
           q == IF x.rotate THEN WriteContent(x.p, e[1]) ELSE Reseal(x.p, e[1], e[2])
           y == NextFile(x)
<1>1. e \in x.files
  BY Zenon
<1>2. y = [p |-> q, files |-> x.files \ {e}, rotate |-> x.rotate]
  BY Zenon DEF NextFile
<1> HIDE DEF e
<1>3. y.p = q /\ y.files = x.files \ {e} /\ y.rotate = x.rotate
  BY <1>2
<1> HIDE DEF y
<1>4. IsFiniteSet(y.files) /\ Cardinality(y.files) = Cardinality(x.files) - 1
  <2>1. IsFiniteSet(y.files)
    BY <1>3, Finite, Zenon DEF Going
  <2> QED
    BY <1>1, <1>3, <2>1 DEF Going, Counting
<1>5. e \in Encrypted(p.s) /\ e[1] \in DOMAIN x.p.s.rec
  <2>1. e \in Encrypted(p.s)
    BY <1>1, Zenon DEF Going
  <2> QED
    BY <2>1, ListedFile, Zenon DEF Going, Rewrites
<1>6. p.minted \in Nat /\ x.p.minted \in Nat
  BY Zenon DEF OK, IsSession, Going
<1> DEFINE U == Names(x.files) \ {e[1]}
<1>7. /\ OK(q, D, U) /\ Rewrites(x.p.s, q.s) /\ (Tied(x.p) => Tied(q))
      /\ x.p.minted <= q.minted /\ (x.rotate => Synced(q))
  <2>1. CASE x.rotate
    <3>1. q = WriteContent(x.p, e[1])
      BY <2>1, Zenon
    <3> HIDE DEF q
    <3>2. OK(x.p, D, Names(x.files)) /\ Up(x.p.s)
      BY Zenon DEF Going
    <3>3. /\ OK(q, D, U) /\ Rewrites(x.p.s, q.s) /\ Synced(q) /\ Tied(q)
          /\ q.minted = x.p.minted + 1
      BY <1>5, <3>1, <3>2, WriteContentOK, Zenon
    <3> QED
      BY <1>6, <3>3
  <2>2. CASE ~x.rotate
    <3>1. q = Reseal(x.p, e[1], e[2]) /\ D = {}
      BY <2>2, Zenon DEF Going
    <3>2. OK(x.p, {}, Names(x.files))
      BY <3>1, Zenon DEF Going
    <3>3. /\ OK(q, {}, U) /\ Rewrites(x.p.s, q.s) /\ (Tied(x.p) => Tied(q))
          /\ q.minted = x.p.minted
      BY <1>5, <3>1, <3>2, ResealOK, SMTT(60) DEF Going
    <3> QED
      BY <1>6, <2>2, <3>1, <3>3, SMTT(60)
  <2> QED
    BY <2>1, <2>2, Zenon
<1> HIDE DEF q
<1>8. OK(q, D, Names(y.files))
  <2>1. U \subseteq Names(y.files)
    BY <1>3, Zenon DEF Names
  <2> HIDE DEF U
  <2> QED
    BY <1>7, <2>1, Zenon DEF OK, Turned
<1>9. Rewrites(p.s, q.s) /\ Up(q.s)
  BY <1>7, RewritesOn, OnwardOn, SMTT(60) DEF Going, Rewrites
<1>10. p.minted <= q.minted
  <2>1. q.minted \in Nat
    BY <1>8, Zenon DEF OK, IsSession
  <2> QED
    BY <1>6, <1>7, <2>1, SMTT(60) DEF Going
<1>11. Going(p, y, D)
  BY <1>3, <1>4, <1>7, <1>8, <1>9, <1>10, Zenon DEF Going
<1> QED
  BY <1>4, <1>11, Zenon DEF y

\* The first n files, as a function on 0 .. n.
Passes(x, n, g) == g = [k \in 0 .. n |-> IF k = 0 THEN x ELSE NextFile(g[k - 1])]

\* There are n passes over a file for every n.
LEMMA PassesExist ==
  ASSUME Counting, NEW x, NEW n \in Nat
  PROVE  \E g : Passes(x, n, g)
<1> DEFINE Bad == {k \in Nat : ~\E g : Passes(x, k, g)}
<1> SUFFICES ASSUME Bad # {} PROVE FALSE
  BY Zenon
<1>1. PICK m \in Bad : \A k \in Bad : m <= k
  <2>1. Bad \subseteq Nat
    BY Zenon
  <2> HIDE DEF Bad
  <2> QED
    BY <2>1, Zenon DEF Counting
<1>2. CASE m = 0
  <2> DEFINE g == [k \in 0 .. 0 |-> x]
  <2>1. Passes(x, 0, g)
    BY DEF Passes
  <2> QED
    BY <1>1, <1>2, <2>1, Zenon
<1>3. CASE m # 0
  <2>1. m - 1 \in Nat /\ m - 1 \notin Bad
    BY <1>1, <1>3
  <2>2. PICK g : Passes(x, m - 1, g)
    BY <2>1, Zenon
  <2> DEFINE h == [k \in 0 .. m |-> IF k = m THEN NextFile(g[m - 1]) ELSE g[k]]
  <2>3. ASSUME NEW k \in 0 .. m
        PROVE  h[k] = IF k = 0 THEN x ELSE NextFile(h[k - 1])
    <3>1. CASE k = m
      <4>1. h[m - 1] = g[m - 1]
        BY <1>3, <2>1
      <4> QED
        BY <1>3, <3>1, <4>1, Zenon
    <3>2. CASE k # m
      <4>1. k \in 0 .. (m - 1) /\ (k # 0 => k - 1 \in 0 .. m /\ k - 1 # m)
        BY <2>1, <3>2
      <4>2. g[k] = IF k = 0 THEN x ELSE NextFile(g[k - 1])
        BY <2>2, <4>1, Zenon DEF Passes
      <4> QED
        BY <3>2, <4>1, <4>2, Zenon
    <3> QED
      BY <3>1, <3>2, Zenon
  <2>4. h = [k \in 0 .. m |-> IF k = 0 THEN x ELSE NextFile(h[k - 1])]
    BY <2>3, Zenon
  <2>5. Passes(x, m, h)
    BY <2>4, Zenon DEF Passes
  <2> QED
    BY <1>1, <2>5, Zenon
<1> QED
  BY <1>2, <1>3, Zenon

\* They do not depend on how many there are.
LEMMA PassesAgree ==
  ASSUME Counting, NEW x, NEW m \in Nat, NEW n \in Nat, NEW g, NEW h, Passes(x, m, g), Passes(x, n, h)
  PROVE  \A k \in Nat : k <= m /\ k <= n => g[k] = h[k]
<1> DEFINE Bad == {k \in Nat : k <= m /\ k <= n /\ g[k] # h[k]}
<1> SUFFICES ASSUME Bad # {} PROVE FALSE
  BY Zenon
<1>1. PICK k \in Bad : \A j \in Bad : k <= j
  <2>1. Bad \subseteq Nat
    BY Zenon
  <2> HIDE DEF Bad
  <2> QED
    BY <2>1, Zenon DEF Counting
<1>2. k \in 0 .. m /\ k \in 0 .. n
  BY <1>1
<1>3. /\ g[k] = IF k = 0 THEN x ELSE NextFile(g[k - 1])
      /\ h[k] = IF k = 0 THEN x ELSE NextFile(h[k - 1])
  BY <1>2, Zenon DEF Passes
<1>4. CASE k = 0
  BY <1>1, <1>3, <1>4, Zenon
<1>5. CASE k # 0
  <2>1. k - 1 \in Nat /\ k - 1 \notin Bad /\ k - 1 <= m /\ k - 1 <= n
    BY <1>1, <1>5, SMTT(60)
  <2>2. g[k - 1] = h[k - 1]
    BY <2>1, Zenon
  <2> QED
    BY <1>1, <1>3, <1>5, <2>2, Zenon
<1> QED
  BY <1>4, <1>5, Zenon

\* The run that a pass takes its result from.
PassRun(p, rotate) ==
  CHOOSE u : u = [k \in Nat |->
    IF k = 0 THEN [p |-> p, files |-> Encrypted(p.s), rotate |-> rotate] ELSE NextFile(u[k - 1])]

\* It is its recursion.
LEMMA PassSteps ==
  ASSUME Counting, NEW p, NEW rotate
  PROVE  /\ PassRun(p, rotate)[0] = [p |-> p, files |-> Encrypted(p.s), rotate |-> rotate]
         /\ \A n \in Nat : n # 0 => PassRun(p, rotate)[n] = NextFile(PassRun(p, rotate)[n - 1])
<1> DEFINE x == [p |-> p, files |-> Encrypted(p.s), rotate |-> rotate]
<1> HIDE DEF x
<1> DEFINE R(u) == u = [k \in Nat |-> IF k = 0 THEN x ELSE NextFile(u[k - 1])]
           G(n) == CHOOSE g : Passes(x, n, g)
           w == [n \in Nat |-> G(n)[n]]
<1>1. \A n \in Nat : Passes(x, n, G(n))
  BY PassesExist, Zenon
<1>2. ASSUME NEW k \in Nat
      PROVE  w[k] = IF k = 0 THEN x ELSE NextFile(w[k - 1])
  <2>1. G(k)[k] = IF k = 0 THEN x ELSE NextFile(G(k)[k - 1])
    <3> DEFINE g == G(k)
    <3>1. Passes(x, k, g)
      BY <1>1, Zenon
    <3> HIDE DEF g
    <3>2. g = [j \in 0 .. k |-> IF j = 0 THEN x ELSE NextFile(g[j - 1])]
      BY <3>1, Zenon DEF Passes
    <3>3. g[k] = IF k = 0 THEN x ELSE NextFile(g[k - 1])
      BY <3>2
    <3> QED
      BY <3>3, Zenon DEF g
  <2>2. CASE k = 0
    BY <2>1, <2>2, Zenon
  <2>3. CASE k # 0
    <3>1. k - 1 \in Nat /\ k - 1 <= k
      BY <2>3
    <3>2. G(k)[k - 1] = G(k - 1)[k - 1]
      BY <1>1, <3>1, PassesAgree
    <3> QED
      BY <2>1, <2>3, <3>1, <3>2, SMTT(60)
  <2> QED
    BY <2>2, <2>3, Zenon
<1>3. R(w)
  <2>1. w = [k \in Nat |-> w[k]]
    OBVIOUS
  <2> HIDE DEF w
  <2> QED
    BY <1>2, <2>1, ZenonT(60)
<1> HIDE DEF w
<1> DEFINE v == CHOOSE u : R(u)
<1>4. R(v)
  BY <1>3, Zenon
<1>5. PassRun(p, rotate) = v
  BY Zenon DEF PassRun, x
<1> HIDE DEF v
<1>6. \A n \in Nat : v[n] = IF n = 0 THEN x ELSE NextFile(v[n - 1])
  BY <1>4, Zenon
<1> QED
  BY <1>5, <1>6, Zenon DEF x

\* What a pass over all files leaves.
LEMMA AllFilesOK ==
  ASSUME Counting, NEW p, NEW D \in SUBSET barred, OK(p, D, Names(Encrypted(p.s))), Up(p.s), History,
         NEW rotate \in BOOLEAN, rotate \/ D = {}
  PROVE  LET q == AllFiles(p, rotate) IN
         /\ OK(q, D, {}) /\ Rewrites(p.s, q.s) /\ (Tied(p) => Tied(q))
         /\ rotate /\ Encrypted(p.s) # {} => Synced(q)
<1> DEFINE E == Encrypted(p.s)
           run == PassRun(p, rotate)
           n == Cardinality(E)
           Left(k) == /\ Going(p, run[k], D) /\ run[k].rotate = rotate
                      /\ Cardinality(run[k].files) = n - k
           Bad == {k \in Nat : k <= n /\ ~Left(k)}
<1>1. AllFiles(p, rotate) = run[n].p
  BY Zenon DEF AllFiles, PassRun
<1>2. IsFiniteSet(E)
  <2> DEFINE S == {g \in Readable(p.s) : p.s.rec[g].to # {}}
             h == [g \in DOMAIN p.s.rec |-> <<g, p.s.rec[g]>>]
  <2>1. IsFiniteSet(DOMAIN p.s.rec)
    BY Zenon DEF OK, Fine, Sound, OnDisk, IsStore
  <2>2. S \subseteq DOMAIN p.s.rec
    BY Zenon DEF Readable, Files
  <2>3. E = {<<g, p.s.rec[g]>> : g \in S}
    BY Zenon DEF Encrypted
  <2> HIDE DEF S, E
  <2>4. E \subseteq {h[g] : g \in DOMAIN p.s.rec}
    BY <2>2, <2>3, Zenon
  <2> DEFINE R == DOMAIN p.s.rec
             I == {h[x] : x \in R}
  <2>5. E \in SUBSET I
    BY <2>4, Zenon
  <2> HIDE DEF h
  <2>6. IsFiniteSet(I)
    <3>1. IsFiniteSet(R)
      BY <2>1, Zenon
    <3> HIDE DEF R
    <3>2. \A f : IsFiniteSet({f[x] : x \in R})
      BY <3>1, Finite, Zenon
    <3> QED
      BY <3>2, Zenon
  <2> HIDE DEF I
  <2> QED
    BY <2>5, <2>6, Finite, Zenon
<1>3. n \in Nat
  BY <1>2, Zenon DEF Counting
<1> HIDE DEF run, n
<1>4. /\ run[0] = [p |-> p, files |-> E, rotate |-> rotate]
      /\ \A k \in Nat : k # 0 => run[k] = NextFile(run[k - 1])
  BY PassSteps, SMTT(60) DEF run
<1>5. Left(0)
  <2>1. run[0].p = p /\ run[0].files = E /\ run[0].rotate = rotate
    BY <1>4
  <2>2. p.minted <= p.minted
    BY DEF OK, IsSession
  <2>3. Going(p, run[0], D)
    BY <1>2, <2>1, <2>2, RewritesOn, Zenon DEF Going
  <2> QED
    BY <1>3, <2>1, <2>3, SMTT(60) DEF n
<1>6. Bad = {}
  <2> SUFFICES ASSUME Bad # {} PROVE FALSE
    BY Zenon
  <2>1. PICK m \in Bad : \A k \in Bad : m <= k
    <3>1. Bad \subseteq Nat
      BY Zenon
    <3> HIDE DEF Bad
    <3> QED
      BY <3>1, Zenon DEF Counting
  <2>2. m # 0
    BY <1>5, <2>1, Zenon
  <2>3. m - 1 \in Nat /\ m - 1 <= n /\ m - 1 \notin Bad /\ m <= n
    BY <1>3, <2>1, <2>2, SMTT(60)
  <2>4. Left(m - 1)
    BY <2>3, Zenon
  <2> DEFINE x == run[m - 1]
  <2>5. Going(p, x, D) /\ x.rotate = rotate /\ Cardinality(x.files) = n - (m - 1)
    BY <2>4, Zenon
  <2> HIDE DEF x
  <2>6. x.files # {}
    <3>1. n - (m - 1) # 0
      BY <1>3, <2>1, <2>3, SMTT(60)
    <3> QED
      BY <2>5, <3>1, Zenon DEF Going, Counting
  <2>7. Going(p, NextFile(x), D) /\ Cardinality(NextFile(x).files) = Cardinality(x.files) - 1
    BY <2>5, <2>6, NextFileOK, Zenon
  <2>8. NextFile(x).rotate = x.rotate
    BY <2>6, Zenon DEF NextFile
  <2>9. run[m] = NextFile(x)
    BY <1>4, <2>1, <2>2, Zenon DEF x
  <2>10. Left(m)
    BY <1>3, <2>1, <2>5, <2>7, <2>8, <2>9, SMTT(60)
  <2> QED
    BY <2>1, <2>10, Zenon
<1>7. Left(n)
  BY <1>3, <1>6, SMTT(60)
<1> DEFINE y == run[n]
<1>8. Going(p, y, D) /\ y.rotate = rotate /\ Cardinality(y.files) = 0
  BY <1>3, <1>7
<1> HIDE DEF y, E
<1>9. y.files = {}
  BY <1>8, Zenon DEF Going, Counting
<1>10. Names({}) = {}
  BY Zenon DEF Names
<1>11. OK(y.p, D, {}) /\ Rewrites(p.s, y.p.s) /\ (Tied(p) => Tied(y.p))
  BY <1>8, <1>9, <1>10, Zenon DEF Going
<1>12. rotate /\ Encrypted(p.s) # {} => Synced(y.p)
  BY <1>8, <1>9, Zenon DEF Going
<1> QED
  BY <1>1, <1>11, <1>12, Zenon DEF y

-----------------------------------------------------------------------------
(* Collection, trust and the format *)

\* A write that waits keeps the content and the record it has.
Keeps(s, t) ==
  \A x \in PendingOps(s) :
    x.kind = "Write" =>
      /\ ChunkOf(x) \in s.blobs => ChunkOf(x) \in t.blobs
      /\ x.inode \in DOMAIN s.rec => x.inode \in DOMAIN t.rec

\* Another store, reached by way of those in c.
Reached(p, w, c) == [p EXCEPT !.s = w, !.mid = c]

\* Its fields.
LEMMA ReachedIs ==
  ASSUME NEW p, NEW w, NEW c, IsSession(p)
  PROVE  LET z == Reached(p, w, c) IN
         /\ IsSession(z) /\ z.s = w /\ z.mid = c /\ z.tail = p.tail /\ z.acked = p.acked
         /\ z.minted = p.minted
<1> DEFINE y == [p EXCEPT !.s = w]
           z == Reached(p, w, c)
<1>1. y = [s |-> w, mid |-> p.mid, tail |-> p.tail, acked |-> p.acked, minted |-> p.minted]
  BY DEF IsSession
<1>2. z = [y EXCEPT !.mid = c]
  BY Zenon DEF IsSession, Reached
<1> HIDE DEF y, z
<1>3. z = [s |-> w, mid |-> c, tail |-> p.tail, acked |-> p.acked, minted |-> p.minted]
  BY <1>1, <1>2, Zenon
<1>4. IsSession(z)
  BY <1>3, Zenon DEF IsSession
<1> QED
  BY <1>3, <1>4 DEF z

\* A collection.
LEMMA CollectOK ==
  ASSUME NEW p, OK(p, {}, {}), Tied(p)
  PROVE  LET q == collect_garbage(p) IN
         /\ OK(q, {}, {}) /\ Tied(q) /\ Keeps(p.s, q.s)
         /\ q.s.ver = p.s.ver /\ q.s.head = p.s.head
<1> DEFINE g == p.s.blobs \ reachable_hashes(p.s)
           r == DOMAIN p.s.rec \ reachable_inodes(p.s)
           w == Without(p.s, g, r)
           m == {Without(p.s, x, {}) : x \in SUBSET g} \cup {Without(p.s, g, x) : x \in SUBSET r}
           c == p.mid \cup m
           z == Reached(p, w, c)
<1>1. CASE sweep_blocked(p.s)
  <2>1. collect_garbage(p) = p
    BY <1>1, Zenon DEF collect_garbage
  <2> QED
    BY <2>1, Zenon DEF Keeps
<1>2. CASE ~sweep_blocked(p.s)
  <2>1. IsSession(p) /\ collect_garbage(p) = flush(z)
    BY <1>2, Zenon DEF collect_garbage, OK, IsSession, Reached
  <2>2. ASSUME NEW b \in SUBSET g, NEW x \in SUBSET r
        PROVE  Fine(Without(p.s, b, x), p.acked, p.minted)
    <3> DEFINE t == Without(p.s, b, x)
    <3>1. Sound(p.s, p.acked, p.minted) /\ IsStore(p.s)
      BY Zenon DEF OK, Fine, Sound, OnDisk
    <3>2. Sound(t, p.acked, p.minted)
      BY <3>1, WithoutSound, Zenon
    <3>3. Turned(t, rotated, known, {})
      BY <3>1, WithoutTurned, Zenon DEF OK, Fine
    <3>4. t.ver = p.s.ver /\ t.head = p.s.head /\ t.log = p.s.log /\ t.seal = p.s.seal
      BY <3>1, WithoutIs
    <3> HIDE DEF t
    <3>5. Shut(t, barred, known) /\ Stamp(t, fresh)
      BY <3>4, FrameShut, Zenon DEF OK, Fine, Stamp
    <3> QED
      BY <3>2, <3>3, <3>5, Zenon DEF Fine, t
  <2>3. Fine(w, p.acked, p.minted)
    BY <2>2, Zenon
  <2>4. ASSUME NEW s \in m PROVE Fine(s, acked, p.minted)
    <3>1. PICK b \in SUBSET g, x \in SUBSET r : s = Without(p.s, b, x)
      BY Zenon
    <3>2. Fine(s, p.acked, p.minted)
      BY <2>2, <3>1, Zenon
    <3>3. p.minted \in Nat /\ acked \subseteq p.acked /\ p.minted <= p.minted
      BY SMTT(60) DEF OK, IsSession
    <3> QED
      BY <3>2, <3>3, FineMore, Zenon
  <2>5. /\ w.ver = p.s.ver /\ w.head = p.s.head /\ DOMAIN w.rec = DOMAIN p.s.rec \ r
        /\ w.blobs = p.s.blobs \ g
    <3>1. IsStore(p.s)
      BY Zenon DEF OK, Fine, Sound, OnDisk
    <3> HIDE DEF g, r
    <3> QED
      BY <3>1, WithoutIs, SMTT(60)
  <2>6. Keeps(p.s, w)
    <3>1. ASSUME NEW x \in PendingOps(p.s), x.kind = "Write"
          PROVE  ChunkOf(x) \in reachable_hashes(p.s) /\ x.inode \in reachable_inodes(p.s)
      <4> DEFINE W == {y \in PendingOps(p.s) : y.kind = "Write"}
      <4>1. x \in W
        BY <3>1, Zenon
      <4> DEFINE Kept(f) == {NodeOf(p.s.rec[f])} \cup (IF NodeOf(p.s.rec[f]) \in p.s.blobs
                              THEN {ChunkOf(p.s.rec[f])} ELSE {})
                 F == UNION {Kept(f) : f \in Files(p.s)}
      <4>2. reachable_hashes(p.s) = F \cup {ChunkOf(y) : y \in W}
        BY Zenon DEF reachable_hashes
      <4>3. reachable_inodes(p.s) = p.s.live \cup {y.inode : y \in W}
        BY Zenon DEF reachable_inodes
      <4> HIDE DEF W, F
      <4> QED
        BY <4>1, <4>2, <4>3, Zenon
    <3> HIDE DEF w
    <3> QED
      BY <2>5, <3>1, Zenon DEF Keeps
  <2>7. \A s \in c : Fine(s, acked, p.minted)
    BY <2>4, Zenon DEF OK
  <2> HIDE DEF w, c
  <2>8. /\ IsSession(z) /\ z.s = w /\ z.mid = c /\ z.tail = p.tail /\ z.acked = p.acked
        /\ z.minted = p.minted
    <3>1. IsSession(p)
      BY <2>1, Zenon
    <3> QED
      BY <3>1, ReachedIs, SMTT(60)
  <2> HIDE DEF z
  <2>9. OK(z, {}, {})
    BY <2>3, <2>7, <2>8, Zenon DEF OK, Turned
  <2>10. OK(flush(z), {}, {}) /\ Tied(flush(z)) /\ flush(z).s = w
    BY <2>8, <2>9, FlushOK, Zenon
  <2> QED
    BY <2>1, <2>5, <2>6, <2>10, Zenon
<1> QED
  BY <1>1, <1>2, Zenon

\* All but the stamp, the root, the head and the keys.
Alike(s, t) ==
  /\ t.ctr = s.ctr /\ t.log = s.log /\ t.applied = s.applied /\ t.pending = s.pending
  /\ t.rec = s.rec /\ t.live = s.live /\ t.blobs = s.blobs

\* A write of one of these.
LEMMA AlikeOK ==
  ASSUME NEW p, NEW t, OK(p, {}, {}), IsStore(t), Alike(p.s, t), Stamped(t), Stamp(t, fresh),
         \A d \in barred : t.seal[d] = p.s.seal[d]
  PROVE  /\ OK(Put(p, t), {}, {}) /\ Put(p, t).s = t /\ Keeps(p.s, t)
         /\ t.seal = p.s.seal /\ Tied(p) => Tied(Put(p, t))
<1>1. OnDisk(p.s) /\ IsStore(p.s) /\ IsSession(p)
  BY Zenon DEF OK, Fine, Sound, OnDisk
<1>2. Frame(p.s, t)
  BY <1>1 DEF Alike, Frame, OnDisk, LoggedFirst, IsStore
<1>3. OK(Put(p, t), {}, {}) /\ Put(p, t).s = t
  BY <1>2, FrameOK, Zenon
<1>4. Keeps(p.s, t)
  BY Zenon DEF Keeps, Alike
<1>5. Readable(t) = Readable(p.s) /\ \A d : EnvelopesFor(t, d) = EnvelopesFor(p.s, d)
  BY Zenon DEF Readable, Files, EnvelopesFor, Alike
<1>6. t.seal = p.s.seal /\ Tied(p) => Tied(Put(p, t))
  BY <1>1, <1>5, PutTied, Zenon
<1> QED
  BY <1>3, <1>4, <1>6, Zenon

\* The stamp, the root and the head.
LEMMA FormatIs ==
  ASSUME NEW s, IsStore(s)
  PROVE  /\ \A v \in 0 .. 3 :
              LET t == [s EXCEPT !.ver = v] IN
              /\ IsStore(t) /\ Alike(s, t) /\ t.seal = s.seal
              /\ t.ver = v /\ t.root = s.root /\ t.head = s.head
         /\ LET t == [s EXCEPT !.root = TRUE] IN
              /\ IsStore(t) /\ Alike(s, t) /\ t.seal = s.seal
              /\ t.ver = s.ver /\ t.root = TRUE /\ t.head = s.head
         /\ LET t == build_snapshot(s) IN
              /\ IsStore(t) /\ Alike(s, t) /\ t.seal = s.seal
              /\ t.ver = s.ver /\ t.root = s.root /\ t.head = "merkle"
<1>1. ASSUME NEW v \in 0 .. 3
      PROVE  LET t == [s EXCEPT !.ver = v] IN
             /\ IsStore(t) /\ Alike(s, t) /\ t.seal = s.seal
             /\ t.ver = v /\ t.root = s.root /\ t.head = s.head
  BY Zenon DEF IsStore, Alike
<1>2. LET t == [s EXCEPT !.root = TRUE] IN
      /\ IsStore(t) /\ Alike(s, t) /\ t.seal = s.seal
      /\ t.ver = s.ver /\ t.root = TRUE /\ t.head = s.head
  BY Zenon DEF IsStore, Alike
<1>3. LET t == build_snapshot(s) IN
      /\ IsStore(t) /\ Alike(s, t) /\ t.seal = s.seal
      /\ t.ver = s.ver /\ t.root = s.root /\ t.head = "merkle"
  BY Zenon DEF IsStore, Alike, build_snapshot
<1> QED
  BY <1>1, <1>2, <1>3, Zenon

\* A store that the process may see: as it was, but for the keys and the stamp.
Reaches(p, q) ==
  /\ OK(q, {}, {}) /\ Alike(p.s, q.s) /\ q.s.seal = p.s.seal
  /\ Tied(p) => Tied(q)

\* One after the other.
LEMMA ReachesOn ==
  ASSUME NEW p, NEW q, NEW r, Reaches(p, q), Reaches(q, r)
  PROVE  Reaches(p, r)
BY Zenon DEF Reaches, Alike

\* set_format_version.
LEMMA SetVersionOK ==
  ASSUME NEW p, NEW v \in 0 .. 3, OK(p, {}, {}), v \in {1, 2} => p.s.head # "none",
         v \in {2, 3} => p.s.head # "flat", v = 3 => \A x \in p.s.log : x.format = 3,
         fresh => v \in {0, 3} /\ (p.s.head # "none" => v = 3)
  PROVE  LET q == set_format_version(p, v) IN
         /\ Reaches(p, q) /\ Tied(q)
         /\ q.s.ver = v /\ q.s.root = p.s.root /\ q.s.head = p.s.head
<1> DEFINE t == [p.s EXCEPT !.ver = v]
           a == Put(p, t)
<1>1. IsStore(p.s) /\ Stamped(p.s)
  BY Zenon DEF OK, Fine, Sound, OnDisk
<1>2. /\ IsStore(t) /\ Alike(p.s, t) /\ t.seal = p.s.seal
      /\ t.ver = v /\ t.root = p.s.root /\ t.head = p.s.head
  BY <1>1, FormatIs, Zenon
<1>3. set_format_version(p, v) = flush(a)
  BY Zenon DEF set_format_version
<1> HIDE DEF t
<1>4. Stamped(t) /\ Stamp(t, fresh)
  BY <1>1, <1>2, Zenon DEF Stamped, Stamp, Alike
<1>5. OK(a, {}, {}) /\ a.s = t
  BY <1>2, <1>4, AlikeOK, Zenon
<1> HIDE DEF a
<1>6. OK(flush(a), {}, {}) /\ Tied(flush(a)) /\ flush(a).s = t
  BY <1>5, FlushOK, Zenon
<1> QED
  BY <1>2, <1>3, <1>6, Zenon DEF Reaches

\* The head is built again.
LEMMA RebuildOK ==
  ASSUME NEW p, OK(p, {}, {}), p.s.root, fresh => p.s.ver = 3
  PROVE  LET q == Put(p, build_snapshot(p.s)) IN
         /\ Reaches(p, q)
         /\ q.s.ver = p.s.ver /\ q.s.root = p.s.root /\ q.s.head = "merkle"
<1> DEFINE t == build_snapshot(p.s)
           a == Put(p, t)
<1>1. IsStore(p.s) /\ Stamped(p.s)
  BY Zenon DEF OK, Fine, Sound, OnDisk
<1>2. /\ IsStore(t) /\ Alike(p.s, t) /\ t.seal = p.s.seal
      /\ t.ver = p.s.ver /\ t.root = p.s.root /\ t.head = "merkle"
  BY <1>1, FormatIs, Zenon
<1> HIDE DEF t
<1>3. Stamped(t) /\ Stamp(t, fresh)
  BY <1>1, <1>2, Zenon DEF Stamped, Stamp, Alike
<1>4. OK(a, {}, {}) /\ a.s = t /\ (Tied(p) => Tied(a))
  BY <1>2, <1>3, AlikeOK, Zenon
<1> QED
  BY <1>2, <1>4, Zenon DEF Reaches, t

\* Nothing to do.
LEMMA ReachesSelf ==
  ASSUME NEW p, OK(p, {}, {})
  PROVE  Reaches(p, p)
BY Zenon DEF Reaches, Alike

\* check_format.
LEMMA CheckFormatOK ==
  ASSUME NEW p, OK(p, {}, {})
  PROVE  LET q == check_format(p) IN
         Reaches(p, q) /\ q.s.ver # 0 /\ q.s.root = p.s.root /\ q.s.head = p.s.head
<1>1. Stamped(p.s) /\ Stamp(p.s, fresh) /\ p.s.ver \in 0 .. 3
  BY Zenon DEF OK, Fine, Sound, OnDisk, IsStore
<1>2. CASE p.s.ver # 0
  BY <1>2, ReachesSelf, Zenon DEF check_format
<1>3. CASE p.s.ver = 0 /\ p.s.head = "none"
  <2>1. check_format(p) = set_format_version(p, 3) /\ 3 \in 0 .. 3
    BY <1>3 DEF check_format
  <2>2. \A x \in p.s.log : x.format = 3
    BY <1>1, <1>3, Zenon DEF Stamped
  <2> QED
    BY <1>3, <2>1, <2>2, SetVersionOK, SMTT(60)
<1>4. CASE p.s.ver = 0 /\ p.s.head # "none"
  <2>1. check_format(p) = set_format_version(p, 1) /\ 1 \in 0 .. 3
    BY <1>4 DEF check_format
  <2>2. ~fresh
    BY <1>1, <1>4 DEF Stamp
  <2> QED
    BY <1>4, <2>1, <2>2, SetVersionOK, SMTT(60)
<1> QED
  BY <1>2, <1>3, <1>4, Zenon

\* bootstrap_if_needed.
LEMMA BootstrapOK ==
  ASSUME NEW p, OK(p, {}, {}), p.s.ver = 3
  PROVE  LET q == bootstrap_if_needed(p) IN Reaches(p, q) /\ Up(q.s)
<1> DEFINE t == [p.s EXCEPT !.root = TRUE]
           a == Put(p, t)
           b == Put(a, build_snapshot(a.s))
           c == set_format_version(b, 3)
<1>1. IsStore(p.s) /\ Stamped(p.s) /\ Stamp(p.s, fresh)
  BY Zenon DEF OK, Fine, Sound, OnDisk
<1>2. CASE p.s.head # "none"
  BY <1>2, ReachesSelf, Zenon DEF bootstrap_if_needed, Up
<1>3. CASE p.s.head = "none"
  <2>1. bootstrap_if_needed(p) = flush(c)
    BY <1>3, Zenon DEF bootstrap_if_needed
  <2>2. /\ IsStore(t) /\ Alike(p.s, t) /\ t.seal = p.s.seal
        /\ t.ver = p.s.ver /\ t.root = TRUE /\ t.head = p.s.head
    BY <1>1, FormatIs, Zenon
  <2> HIDE DEF t
  <2>3. Stamped(t) /\ Stamp(t, fresh)
    BY <1>1, <2>2, Zenon DEF Stamped, Stamp, Alike
  <2>4. OK(a, {}, {}) /\ a.s = t /\ (Tied(p) => Tied(a))
    BY <2>2, <2>3, AlikeOK, Zenon
  <2>5. Reaches(p, a)
    BY <2>2, <2>4, Zenon DEF Reaches
  <2> HIDE DEF a
  <2>6. Reaches(a, b) /\ b.s.ver = 3 /\ b.s.head = "merkle"
    BY <2>2, <2>4, RebuildOK, Zenon
  <2>7. b.s.log = {}
    BY <1>1, <1>3, <2>2, <2>4, <2>6, Zenon DEF Stamped, Alike, Reaches
  <2> HIDE DEF b
  <2>8. Reaches(b, c) /\ c.s.ver = 3 /\ c.s.head = b.s.head
    <3>1. 3 \in 0 .. 3 /\ OK(b, {}, {})
      BY <2>6 DEF Reaches
    <3> QED
      BY <2>6, <2>7, <3>1, SetVersionOK, Zenon
  <2> HIDE DEF c
  <2>9. OK(flush(c), {}, {}) /\ Tied(flush(c)) /\ flush(c).s = c.s
    BY <2>8, FlushOK, Zenon DEF Reaches
  <2>10. Reaches(p, c)
    BY <2>5, <2>6, <2>8, ReachesOn, Zenon
  <2> QED
    BY <2>1, <2>6, <2>8, <2>9, <2>10, Zenon DEF Reaches, Up
<1> QED
  BY <1>2, <1>3, Zenon

\* migrate.
LEMMA MigrateOK ==
  ASSUME NEW p, OK(p, {}, {})
  PROVE  Reaches(p, migrate(p))
<1> DEFINE a == check_format(p)
           c == Put(a, build_snapshot(a.s))
           b == IF a.s.ver = 1 THEN migrate_v1_to_v2(a) ELSE a
<1>1. migrate(p) = IF b.s.ver = 2 THEN migrate_v2_to_v3(b) ELSE b
  BY Zenon DEF migrate
<1>2. Reaches(p, a)
  BY CheckFormatOK, Zenon
<1> HIDE DEF a
<1>3. OK(a, {}, {}) /\ Stamped(a.s) /\ Stamp(a.s, fresh)
  BY <1>2, Zenon DEF Reaches, OK, Fine, Sound, OnDisk
<1>4. Reaches(p, b)
  <2>1. CASE a.s.ver = 1
    <3>1. a.s.root /\ ~fresh
      BY <1>3, <2>1 DEF Stamped, Stamp
    <3>2. Reaches(a, c) /\ c.s.head = "merkle"
      BY <1>3, <3>1, RebuildOK, Zenon
    <3>3. b = set_format_version(c, 2) /\ 2 \in 0 .. 3
      BY <2>1, SMTT(60) DEF migrate_v1_to_v2
    <3> HIDE DEF b, c
    <3>4. Reaches(c, b)
      BY <3>1, <3>2, <3>3, SetVersionOK, SMTT(60) DEF Reaches
    <3> QED
      BY <1>2, <3>2, <3>4, ReachesOn, Zenon
  <2>2. CASE a.s.ver # 1
    BY <1>2, <2>2, Zenon
  <2> QED
    BY <2>1, <2>2, Zenon
<1> HIDE DEF b
<1>5. CASE b.s.ver = 2 /\ ~\E x \in b.s.log : x.format < 3
  <2>1. OK(b, {}, {}) /\ Stamped(b.s) /\ Stamp(b.s, fresh) /\ b.s.log \subseteq Ops
    BY <1>4, Zenon DEF Reaches, OK, Fine, Sound, OnDisk, IsStore
  <2>2. \A x \in b.s.log : x.format = 3
    BY <1>5, <2>1, SMTT(60) DEF Ops
  <2>3. b.s.head # "none" /\ b.s.head # "flat" /\ ~fresh /\ 3 \in 0 .. 3
    BY <1>5, <2>1, SMTT(60) DEF Stamped, Stamp
  <2>4. Reaches(b, set_format_version(b, 3))
    BY <2>1, <2>2, <2>3, SetVersionOK, Zenon
  <2>5. migrate(p) \in {b, set_format_version(b, 3)}
    BY <1>1, <1>5, Zenon DEF migrate_v2_to_v3
  <2> QED
    BY <1>4, <2>4, <2>5, ReachesOn, SMTT(60)
<1>6. CASE ~(b.s.ver = 2 /\ ~\E x \in b.s.log : x.format < 3)
  BY <1>1, <1>4, <1>6, Zenon DEF migrate_v2_to_v3
<1> QED
  BY <1>5, <1>6, Zenon

-----------------------------------------------------------------------------
(* The invariant *)

\* Every store that a crash may leave is sound, for what has returned, been
\* revoked and been rotated so far.
RepositoryInv ==
  /\ minted \in Nat /\ History /\ DOMAIN known = Peer
  /\ \A s \in tail \cup {st} : Fine(s, acked, minted)
  /\ Tied(Session)
  /\ open => Up(st)

\* A step of an open repository keeps what parked writes wait with.
Onwards == open' => Keeps(st, st')

\* A command begins.
LEMMA SessionOK ==
  ASSUME RepositoryInv
  PROVE  /\ OK(Session, {}, {}) /\ IsSession(Session) /\ Session.s = st /\ Session.mid = {}
         /\ Session.tail = tail /\ Session.acked = acked /\ Session.minted = minted
<1>1. /\ Session.s = st /\ Session.mid = {}
      /\ Session.tail = tail /\ Session.acked = acked /\ Session.minted = minted
  BY Zenon DEF Session
<1>2. IsSession(Session)
  BY DEF Session, IsSession, RepositoryInv
<1> HIDE DEF Session
<1> QED
  BY <1>1, <1>2, Zenon DEF OK, RepositoryInv, Turned

\* It ends.
LEMMA FinishOK ==
  ASSUME RepositoryInv, NEW p, OK(p, {}, {}), Tied(p), Keeps(st, p.s), Finish(p), UNCHANGED hist,
         open' => Up(p.s)
  PROVE  RepositoryInv' /\ Onwards
<1>1. /\ st' = p.s /\ tail' = p.tail /\ acked' = p.acked /\ minted' = p.minted
      /\ fresh' = fresh /\ barred' = barred /\ known' = known /\ rotated' = rotated
  BY Zenon DEF Finish, hist
<1>2. minted' \in Nat
  BY <1>1, Zenon DEF OK, IsSession
<1>3. History' /\ DOMAIN known' = Peer
  BY <1>1, Zenon DEF RepositoryInv, History
<1>4. (\A s \in tail \cup {st} : Fine(s, acked, minted))'
  BY <1>1, Zenon DEF OK, Fine
<1>5. Tied(Session)'
  BY <1>1, Zenon DEF Tied, Session
<1>6. (open => Up(st))'
  BY <1>1, Zenon DEF Up
<1> QED
  BY <1>1, <1>2, <1>3, <1>4, <1>5, <1>6, Zenon DEF RepositoryInv, Onwards

\* Or the process dies in it.
LEMMA DieOK ==
  ASSUME RepositoryInv, NEW p, OK(p, {}, {}), Die(p), UNCHANGED hist
  PROVE  RepositoryInv' /\ Onwards
<1>1. /\ st' \in tail \cup p.mid /\ tail' = {st'} /\ acked' = acked /\ minted' = p.minted
      /\ open' = FALSE
      /\ fresh' = fresh /\ barred' = barred /\ known' = known /\ rotated' = rotated
  BY Zenon DEF Die, hist
<1>2. minted' \in Nat /\ minted \in Nat /\ minted <= minted'
  BY <1>1, Zenon DEF OK, IsSession
<1>3. History' /\ DOMAIN known' = Peer
  BY <1>1, Zenon DEF RepositoryInv, History
<1>4. Fine(st', acked, minted')
  <2>1. CASE st' \in tail
    BY <1>2, <2>1, FineMore, Zenon DEF RepositoryInv
  <2>2. CASE st' \in p.mid
    BY <1>1, <2>2, Zenon DEF OK
  <2> QED
    BY <1>1, <2>1, <2>2, Zenon
<1>5. Fine(st, acked, minted)'
  BY <1>1, <1>4, Zenon DEF Fine
<1>6. Tied(Session)'
  BY <1>1, Zenon DEF Tied, Session
<1> QED
  BY <1>1, <1>2, <1>3, <1>5, <1>6, Zenon DEF RepositoryInv, Onwards

\* Either.
LEMMA CommandOK ==
  ASSUME RepositoryInv, NEW p, OK(p, {}, {}), Tied(p), Keeps(st, p.s), Up(p.s), Command(p)
  PROVE  RepositoryInv' /\ Onwards
<1>1. UNCHANGED hist
  BY Zenon DEF Command
<1>2. CASE Finish(p)
  BY <1>1, <1>2, FinishOK, Zenon
<1>3. CASE Die(p)
  BY <1>1, <1>3, DieOK, Zenon
<1> QED
  BY <1>2, <1>3, Zenon DEF Command

\* What was waited with.
LEMMA KeepsIf ==
  /\ \A s, t : Onward(s, t) => Keeps(s, t)
  /\ \A s, t : Alike(s, t) => Keeps(s, t)
  /\ \A s : Keeps(s, s)
BY Zenon DEF Keeps, Onward, Alike

\* An open that reads the stamp, and makes what a new repository lacks.
LEMMA OpenOK ==
  ASSUME RepositoryInv, Open
  PROVE  RepositoryInv' /\ Onwards
<1> DEFINE a == check_format(Session)
           b == IF a.s.ver = 3 THEN bootstrap_if_needed(a) ELSE a
<1>1. Reaches(Session, a)
  BY SessionOK, CheckFormatOK, Zenon
<1>2. Reaches(Session, b) /\ (b.s.ver = 3 => Up(b.s))
  <2> HIDE DEF a
  <2>1. CASE a.s.ver = 3
    <3>1. Reaches(a, b) /\ Up(b.s)
      BY <1>1, <2>1, BootstrapOK, Zenon DEF Reaches
    <3> HIDE DEF b
    <3> QED
      BY <1>1, <3>1, ReachesOn, Zenon
  <2>2. CASE a.s.ver # 3
    BY <1>1, <2>2, Zenon
  <2> QED
    BY <2>1, <2>2, Zenon
<1>3. UNCHANGED hist /\ ((Finish(b) /\ open' = (b.s.ver = 3)) \/ Die(b))
  BY Zenon DEF Open
<1> HIDE DEF b
<1>4. OK(b, {}, {}) /\ Tied(b) /\ Keeps(st, b.s)
  BY <1>2, SessionOK, KeepsIf, Zenon DEF Reaches, RepositoryInv
<1>5. CASE Finish(b) /\ open' = (b.s.ver = 3)
  BY <1>2, <1>3, <1>4, <1>5, FinishOK, Zenon
<1>6. CASE Die(b)
  BY <1>3, <1>4, <1>6, DieOK, Zenon
<1> QED
  BY <1>3, <1>5, <1>6, Zenon

\* A migration, with the repository closed.
LEMMA MigrateStep ==
  ASSUME RepositoryInv, Migrate
  PROVE  RepositoryInv' /\ Onwards
<1> DEFINE p == migrate(Session)
<1>1. Reaches(Session, p)
  BY SessionOK, MigrateOK, Zenon
<1>2. UNCHANGED hist /\ ~open /\ ((Finish(p) /\ UNCHANGED open) \/ Die(p))
  BY Zenon DEF Migrate
<1> HIDE DEF p
<1>3. OK(p, {}, {}) /\ Tied(p) /\ Keeps(st, p.s)
  BY <1>1, SessionOK, KeepsIf, Zenon DEF Reaches, RepositoryInv
<1>4. CASE Finish(p) /\ UNCHANGED open
  BY <1>2, <1>3, <1>4, FinishOK, Zenon
<1>5. CASE Die(p)
  BY <1>2, <1>3, <1>5, DieOK, Zenon
<1> QED
  BY <1>2, <1>4, <1>5, Zenon

\* The end of the process, in order or not.
LEMMA StopOK ==
  ASSUME RepositoryInv, Close \/ Crash
  PROVE  RepositoryInv' /\ Onwards
<1>1. CASE Close
  <2>1. /\ open' = FALSE /\ tail' = {st} /\ st' = st /\ acked' = acked /\ minted' = minted
        /\ fresh' = fresh /\ barred' = barred /\ known' = known /\ rotated' = rotated
    BY <1>1, Zenon DEF Close, hist
  <2>2. Tied(Session)'
    BY <2>1, Zenon DEF Tied, Session
  <2>3. (\A s \in tail \cup {st} : Fine(s, acked, minted))'
    BY <2>1, Zenon DEF RepositoryInv, Fine
  <2> QED
    BY <2>1, <2>2, <2>3, Zenon DEF RepositoryInv, Onwards, History
<1>2. CASE Crash
  BY <1>2, SessionOK, DieOK, Zenon DEF Crash
<1> QED
  BY <1>1, <1>2, Zenon

\* A new file, or new content.
LEMMA WriteStep ==
  ASSUME Counting, RepositoryInv, Write
  PROVE  RepositoryInv' /\ Onwards
<1>1. PICK f \in {None} \cup (st.live \cap DOMAIN st.rec) : Command(write_file(Session, f))
  BY Zenon DEF Write
<1> DEFINE q == write_file(Session, f)
<1>2. OK(q, {}, {}) /\ Onward(st, q.s) /\ Tied(q) /\ Up(st)
  <2>1. Up(st) /\ History
    BY <1>1, Zenon DEF Command, RepositoryInv
  <2>2. f \in {None} \cup DOMAIN Session.s.rec /\ Up(Session.s) /\ OK(Session, {}, {})
    BY <2>1, SessionOK, Zenon
  <2> QED
    BY <2>1, <2>2, SessionOK, WriteFileOK, Zenon
<1> HIDE DEF q
<1>3. Keeps(st, q.s) /\ Up(q.s)
  BY <1>2, KeepsIf, OnwardOn, Zenon
<1> QED
  BY <1>1, <1>2, <1>3, CommandOK, Zenon DEF q

\* An entry is removed.
LEMMA RemoveStep ==
  ASSUME Counting, RepositoryInv, RemovePath
  PROVE  RepositoryInv' /\ Onwards
<1>1. PICK f \in st.live : Command(apply_local(Session, "Unlink", f, None, {}))
  BY Zenon DEF RemovePath
<1> DEFINE q == apply_local(Session, "Unlink", f, None, {})
<1>2. OK(q, {}, {}) /\ Onward(st, q.s) /\ Tied(q) /\ Up(st)
  <2>1. Up(st) /\ History
    BY <1>1, Zenon DEF Command, RepositoryInv
  <2>2. f \in Id
    BY DEF RepositoryInv, Fine, Sound, OnDisk, IsStore
  <2>3. Up(Session.s) /\ OK(Session, {}, {}) /\ {} \in SUBSET barred
    BY <2>1, SessionOK, Zenon
  <2> QED
    BY <2>1, <2>2, <2>3, SessionOK, IssueEntryOK, Zenon
<1> HIDE DEF q
<1>3. Keeps(st, q.s) /\ Up(q.s)
  BY <1>2, KeepsIf, OnwardOn, Zenon
<1> QED
  BY <1>1, <1>2, <1>3, CommandOK, Zenon DEF q

\* An operation of a peer.
LEMMA ReceiveStep ==
  ASSUME Counting, RepositoryInv, Receive
  PROVE  RepositoryInv' /\ Onwards
<1>1. PICK op \in Script : op.id \notin IdsOf(st.log) /\ Command(apply_op(Session, op))
  BY Zenon DEF Receive
<1> DEFINE q == apply_op(Session, op)
<1>2. OK(q, {}, {}) /\ Onward(st, q.s) /\ Tied(q) /\ Up(st)
  <2>1. Up(st) /\ History
    BY <1>1, Zenon DEF Command, RepositoryInv
  <2>2. Up(Session.s) /\ OK(Session, {}, {}) /\ {} \in SUBSET barred
    BY <2>1, SessionOK, Zenon
  <2>3. OK(q, {}, {}) /\ Applies(Session, q, op)
    BY <1>1, <2>1, <2>2, SessionOK, ApplyPeerOK, Zenon
  <2> HIDE DEF q
  <2> QED
    BY <2>1, <2>3, SessionOK, Zenon DEF Applies
<1> HIDE DEF q
<1>3. Keeps(st, q.s) /\ Up(q.s)
  BY <1>2, KeepsIf, OnwardOn, Zenon
<1> QED
  BY <1>1, <1>2, <1>3, CommandOK, Zenon DEF q

\* Content arrives, and what waits for it is retried.
LEMMA FetchStep ==
  ASSUME Counting, RepositoryInv, Fetch
  PROVE  RepositoryInv' /\ Onwards
<1>1. PICK op : Command(retry_pending(Put(Session, [st EXCEPT !.blobs = @ \cup {ChunkOf(op)}])))
  BY Zenon DEF Fetch
<1> DEFINE b == {ChunkOf(op)}
           t == [st EXCEPT !.blobs = @ \cup b]
           a == Put(Session, t)
           d == drain_pending(a)
           q == Snapshot(d, a.s.applied)
<1>2. Command(q)
  BY <1>1, Zenon DEF retry_pending
<1>3. Up(st) /\ History /\ {} \in SUBSET barred
  BY <1>1, Zenon DEF Command, RepositoryInv
<1>4. OK(Session, {}, {}) /\ t = [Session.s EXCEPT !.blobs = @ \cup b]
  BY SessionOK, Zenon
<1> HIDE DEF b, t
<1>5. OK(a, {}, {}) /\ Moves(Session, a)
  BY <1>4, BlobsOK, Zenon
<1> HIDE DEF a
<1>6. OK(d, {}, {}) /\ Moves(a, d)
  BY <1>3, <1>5, DrainOK, Zenon
<1> HIDE DEF d
<1>7. Moves(Session, d)
  BY <1>5, <1>6, MovesOn, Zenon
<1>8. Up(d.s)
  BY <1>3, <1>7, SessionOK, Zenon DEF Moves, Calm, Up
<1>9. OK(q, {}, {}) /\ Moves(d, q)
  BY <1>6, <1>8, SnapshotOK, Zenon
<1> HIDE DEF q
<1>10. Moves(Session, q)
  BY <1>7, <1>9, MovesOn, Zenon
<1>11. Tied(q) /\ Onward(st, q.s)
  BY <1>10, OnwardOn, SessionOK, Zenon DEF Moves, RepositoryInv
<1>12. Keeps(st, q.s) /\ Up(q.s)
  BY <1>3, <1>11, KeepsIf, OnwardOn, Zenon
<1> QED
  BY <1>2, <1>9, <1>11, <1>12, CommandOK, Zenon

\* A collection.
LEMMA CollectStep ==
  ASSUME RepositoryInv, Collect
  PROVE  RepositoryInv' /\ Onwards
<1> DEFINE q == collect_garbage(Session)
<1>1. Command(q) /\ Up(st)
  BY Zenon DEF Collect, Command, RepositoryInv
<1>2. /\ OK(q, {}, {}) /\ Tied(q) /\ Keeps(Session.s, q.s)
      /\ q.s.ver = Session.s.ver /\ q.s.head = Session.s.head
  BY SessionOK, CollectOK, Zenon DEF RepositoryInv
<1> HIDE DEF q
<1>3. Keeps(st, q.s) /\ Up(q.s)
  BY <1>1, <1>2, SessionOK, Zenon DEF Up
<1> QED
  BY <1>1, <1>2, <1>3, CommandOK, Zenon

\* Files are addressed to the recipients of the day.
LEMMA ShareStep ==
  ASSUME Counting, RepositoryInv, Share
  PROVE  RepositoryInv' /\ Onwards
<1> DEFINE q == AllFiles(Session, FALSE)
           N == Names(Encrypted(Session.s))
<1>1. Command(q) /\ Up(st) /\ History /\ {} \in SUBSET barred
  BY Zenon DEF Share, reseal_to_recipients, Command, RepositoryInv
<1>2. OK(Session, {}, N) /\ Up(Session.s)
  <2> HIDE DEF N
  <2> QED
    BY <1>1, SessionOK, Zenon DEF OK, Turned
<1>3. OK(q, {}, {}) /\ Rewrites(Session.s, q.s) /\ Tied(q)
  BY <1>1, <1>2, AllFilesOK, Zenon DEF RepositoryInv
<1> HIDE DEF q
<1>4. Keeps(st, q.s) /\ Up(q.s)
  BY <1>1, <1>3, SessionOK, KeepsIf, OnwardOn, Zenon DEF Rewrites
<1> QED
  BY <1>1, <1>3, <1>4, CommandOK, Zenon

\* With every readable file still to turn, a rotation has nothing to show for.
LEMMA TurnedFree ==
  ASSUME NEW s, NEW A, NEW m, NEW B, NEW K, NEW R, Sound(s, A, m), Shut(s, B, K),
         Readable(s) \subseteq R
  PROVE  Turned(s, B, K, R)
<1> SUFFICES ASSUME NEW d \in B, NEW x \in PeerWrites, x.chunk \in K[d], x.inode \in s.live
             PROVE  x.inode \in Readable(s)
  BY Zenon DEF Turned
<1>1. x.inode \in DOMAIN s.rec
  BY Zenon DEF Sound, OnDisk, ListedWhole
<1>2. Addressed(s, x.inode)
  BY <1>1, ShutSettled, Zenon
<1> QED
  BY <1>1, <1>2, Zenon DEF Addressed, Readable, Files

\* The files of a pass.
LEMMA ReadableNames ==
  ASSUME NEW s
  PROVE  Readable(s) \subseteq Names(Encrypted(s))
<1> SUFFICES ASSUME NEW f \in Readable(s) PROVE f \in Names(Encrypted(s))
  BY Zenon
<1>1. s.rec[f].to # {}
  BY Zenon DEF Readable
<1> DEFINE e == <<f, s.rec[f]>>
<1>2. e \in Encrypted(s)
  BY <1>1, Zenon DEF Encrypted
<1>3. e[1] = f
  BY Zenon
<1> HIDE DEF e
<1> QED
  BY <1>2, <1>3, Zenon DEF Names

\* A pass over nothing.
LEMMA NoFiles ==
  ASSUME Counting, NEW p, NEW rotate, Encrypted(p.s) = {}
  PROVE  AllFiles(p, rotate) = p
<1>1. AllFiles(p, rotate) = PassRun(p, rotate)[Cardinality(Encrypted(p.s))].p
  BY Zenon DEF AllFiles, PassRun
<1>2. Cardinality(Encrypted(p.s)) = 0
  BY Finite, Zenon DEF Counting
<1>3. PassRun(p, rotate)[0] = [p |-> p, files |-> Encrypted(p.s), rotate |-> rotate]
  BY PassSteps, Zenon
<1> QED
  BY <1>1, <1>2, <1>3, SMTT(60)

\* A rotation: at its end nothing is kept under a key of a revoked device.
LEMMA RotateStep ==
  ASSUME Counting, RepositoryInv, RotateAll
  PROVE  RepositoryInv' /\ Onwards
<1> DEFINE q == AllFiles(Session, TRUE)
           N == Names(Encrypted(Session.s))
<1>1. /\ open /\ fresh' = fresh /\ barred' = barred /\ known' = known
      /\ (Finish(q) /\ open' = TRUE /\ rotated' = barred) \/ (Die(q) /\ UNCHANGED rotated)
  BY Zenon DEF RotateAll, rotate_content
<1>2. Up(st) /\ History
  BY <1>1, Zenon DEF RepositoryInv
<1>3. Fine(st, acked, minted) /\ Sound(st, acked, minted) /\ Shut(st, barred, known)
  BY Zenon DEF RepositoryInv, Fine
<1>4. Turned(st, barred, known, N)
  <2>1. Readable(st) \subseteq N
    BY ReadableNames, SessionOK, Zenon
  <2> HIDE DEF N
  <2> QED
    BY <1>3, <2>1, TurnedFree, Zenon
<1>5. OK(Session, barred, N) /\ Up(Session.s) /\ barred \in SUBSET barred
  <2> HIDE DEF N
  <2> QED
    BY <1>2, <1>4, SessionOK, Zenon DEF OK
<1>6. /\ OK(q, barred, {}) /\ Rewrites(Session.s, q.s) /\ Tied(q)
      /\ Encrypted(Session.s) # {} => Synced(q)
  BY <1>2, <1>5, AllFilesOK, Zenon DEF RepositoryInv
<1>7. Encrypted(Session.s) = {} => q = Session
  BY NoFiles, Zenon
<1> HIDE DEF q
<1>8. OK(q, {}, {}) /\ Keeps(st, q.s) /\ Up(q.s)
  <2>1. OK(q, {}, {})
    BY <1>6, Zenon DEF OK, Turned
  <2> QED
    BY <1>2, <1>6, <2>1, SessionOK, KeepsIf, OnwardOn, SMTT(60) DEF Rewrites
<1>9. \A s \in q.tail \cup {q.s} : Turned(s, barred, known, {})
  <2>1. Turned(q.s, barred, known, {})
    BY <1>6, Zenon DEF OK
  <2>2. CASE Encrypted(Session.s) # {}
    <3>1. \A s \in q.tail : s.rec = q.s.rec /\ s.live = q.s.live
      BY <1>6, <2>2, Zenon DEF Synced
    <3> QED
      BY <2>1, <3>1, FrameTurned, Zenon
  <2>3. CASE Encrypted(Session.s) = {}
    <3>1. Readable(st) = {}
      <4>1. Names(Encrypted(st)) = {}
        BY <2>3, SessionOK, Zenon DEF Names
      <4> QED
        BY <4>1, ReadableNames, Zenon
    <3>2. q.tail = tail
      BY <1>7, <2>3, SessionOK, Zenon
    <3>3. ASSUME NEW s \in tail PROVE Turned(s, barred, known, {})
      <4>1. Readable(s) \subseteq Readable(st)
        BY SessionOK, Zenon DEF RepositoryInv, Tied
      <4>2. Sound(s, acked, minted) /\ Shut(s, barred, known)
        BY Zenon DEF RepositoryInv, Fine
      <4> QED
        BY <3>1, <4>1, <4>2, TurnedFree, Zenon
    <3> QED
      BY <2>1, <3>2, <3>3, Zenon
  <2> QED
    BY <2>2, <2>3, Zenon
<1>10. CASE Die(q) /\ UNCHANGED rotated
  <2>1. UNCHANGED hist
    BY <1>1, <1>10, Zenon DEF hist
  <2> QED
    BY <1>8, <1>10, <2>1, DieOK, Zenon
<1>11. CASE Finish(q) /\ open' = TRUE /\ rotated' = barred
  <2>1. st' = q.s /\ tail' = q.tail /\ acked' = q.acked /\ minted' = q.minted
    BY <1>11, Zenon DEF Finish
  <2>2. minted' \in Nat
    BY <1>8, <2>1, Zenon DEF OK, IsSession
  <2>3. History' /\ DOMAIN known' = Peer
    BY <1>1, <1>11, Zenon DEF RepositoryInv, History
  <2>4. (\A s \in tail \cup {st} : Fine(s, acked, minted))'
    BY <1>1, <1>8, <1>9, <1>11, <2>1, SMTT(60) DEF OK, Fine
  <2>5. Tied(Session)'
    BY <1>6, <2>1, Zenon DEF Tied, Session
  <2>6. (open => Up(st))'
    BY <1>8, <2>1, Zenon DEF Up
  <2> QED
    BY <1>8, <2>1, <2>2, <2>3, <2>4, <2>5, <2>6, SMTT(60) DEF RepositoryInv, Onwards
<1> QED
  BY <1>1, <1>10, <1>11, Zenon

\* Only the keys differ, and of the sealing keys only that of d.
Rekeyed(s, t, d) ==
  /\ IsStore(t) /\ Alike(s, t) /\ t.ver = s.ver /\ t.root = s.root /\ t.head = s.head
  /\ \A e \in Peer \ {d} : t.seal[e] = s.seal[e]

\* A key is kept or forgotten.
LEMMA KeyIs ==
  ASSUME NEW s, IsStore(s), NEW d \in Peer, NEW k \in Key \cup {None}
  PROVE  /\ LET t == [s EXCEPT !.pin[d] = k] IN Rekeyed(s, t, d) /\ t.seal = s.seal
         /\ LET t == [s EXCEPT !.seal[d] = k] IN Rekeyed(s, t, d) /\ t.seal[d] = k
<1>1. LET t == [s EXCEPT !.pin[d] = k] IN Rekeyed(s, t, d) /\ t.seal = s.seal
  BY Zenon DEF IsStore, Rekeyed, Alike
<1>2. LET t == [s EXCEPT !.seal[d] = k] IN Rekeyed(s, t, d) /\ t.seal[d] = k
  BY Zenon DEF IsStore, Rekeyed, Alike
<1> QED
  BY <1>1, <1>2, Zenon

\* One after the other.
LEMMA RekeyedOn ==
  /\ \A s, t, u, d : Rekeyed(s, t, d) /\ Rekeyed(t, u, d) => Rekeyed(s, u, d)
  /\ \A s, d : IsStore(s) => Rekeyed(s, s, d)
BY DEF Rekeyed, Alike

\* What holds of a store holds with other keys, if B are not recipients.
LEMMA RekeyedFine ==
  ASSUME NEW s, NEW t, NEW d, NEW A, NEW m, NEW B, NEW R, Sound(s, A, m), Stamp(s, fresh),
         Shut(s, B, known), Turned(s, R, known, {}), Rekeyed(s, t, d),
         \A e \in B : t.seal[e] = s.seal[e]
  PROVE  /\ Sound(t, A, m) /\ Stamp(t, fresh) /\ Shut(t, B, known)
         /\ Turned(t, R, known, {})
<1>1. /\ t.log = s.log /\ t.rec = s.rec /\ t.live = s.live /\ t.ver = s.ver /\ t.root = s.root
      /\ t.head = s.head /\ IsStore(t) /\ OnDisk(s) /\ IsStore(s)
  BY Zenon DEF Rekeyed, Alike, Sound, OnDisk
<1>2. Frame(s, t)
  BY <1>1, SMTT(60) DEF Rekeyed, Alike, Frame, OnDisk, LoggedFirst, IsStore
<1>3. Stamped(t) /\ Stamp(t, fresh)
  BY <1>1, Zenon DEF OnDisk, Stamped, Stamp
<1>4. Sound(t, A, m)
  BY <1>1, <1>2, <1>3, FrameSound, Zenon
<1>5. Shut(t, B, known)
  BY <1>1, FrameShut, Zenon
<1>6. Turned(t, R, known, {})
  BY <1>1, FrameTurned, Zenon
<1> QED
  BY <1>3, <1>4, <1>5, <1>6, Zenon

\* A store write that is synced.
LEMMA SyncedPut ==
  ASSUME NEW p, NEW t, IsSession(p)
  PROVE  LET q == flush(Put(p, t)) IN
         /\ IsSession(q) /\ q.s = t /\ q.mid = p.mid \cup {t} /\ q.tail = {t}
         /\ q.acked = p.acked /\ q.minted = p.minted
<1> DEFINE a == Put(p, t)
<1>1. /\ IsSession(a) /\ a.s = t /\ a.mid = p.mid \cup {t}
      /\ a.acked = p.acked /\ a.minted = p.minted
  BY PutIs, SMTT(60)
<1> HIDE DEF a
<1>2. flush(a) = [s |-> a.s, mid |-> a.mid, tail |-> {a.s}, acked |-> a.acked,
                  minted |-> a.minted]
  BY <1>1, SMTT(60) DEF flush, IsSession
<1>3. /\ IsSession(flush(a)) /\ flush(a).s = a.s /\ flush(a).mid = a.mid
      /\ flush(a).tail = {a.s} /\ flush(a).acked = a.acked /\ flush(a).minted = a.minted
  BY <1>1, <1>2, SMTT(60) DEF IsSession
<1> QED
  BY <1>1, <1>3, Zenon DEF a

\* A command about the keys of d, by way of the stores of q.mid.
Trusts(q, d) ==
  /\ q.acked = acked /\ q.minted = minted
  /\ \A t \in q.mid \cup {q.s} : Rekeyed(st, t, d)
  /\ q = Session \/ q.tail = {q.s}

\* enrol_peer.
LEMMA EnrolIs ==
  ASSUME RepositoryInv, NEW d \in Peer, NEW key \in Key, NEW seal \in Key \cup {None},
         NEW rotate \in BOOLEAN
  PROVE  LET q == enrol_peer(Session, d, key, seal, rotate) IN
         /\ Trusts(q, d)
         /\ seal = None => \A t \in q.mid \cup {q.s} : t.seal = st.seal
<1> DEFINE clash == seal # None /\ st.seal[d] \notin {None, seal} /\ ~rotate
           t == [st EXCEPT !.seal[d] = seal]
           b == flush(Put(Session, t))
           a == IF seal = None \/ st.seal[d] = seal THEN Session ELSE b
           u == [a.s EXCEPT !.pin[d] = key]
           c == flush(Put(a, u))
           q == enrol_peer(Session, d, key, seal, rotate)
<1>1. IsStore(st)
  BY Zenon DEF RepositoryInv, Fine, Sound, OnDisk
<1>2. q \in {Session, a, c}
  <2>1. Session.s = st
    BY SessionOK, Zenon
  <2> QED
    BY <2>1, Zenon DEF enrol_peer
<1>3. Trusts(Session, d) /\ \A s \in Session.mid \cup {Session.s} : s.seal = st.seal
  BY <1>1, RekeyedOn, SessionOK, SMTT(60) DEF Trusts
<1>4. /\ IsSession(a) /\ Trusts(a, d)
      /\ seal = None => \A s \in a.mid \cup {a.s} : s.seal = st.seal
  <2>1. CASE seal = None \/ st.seal[d] = seal
    BY <1>3, <2>1, SessionOK, Zenon
  <2>2. CASE ~(seal = None \/ st.seal[d] = seal)
    <3>1. Rekeyed(st, t, d)
      BY <1>1, KeyIs, Zenon
    <3> HIDE DEF t
    <3>2. /\ IsSession(b) /\ b.s = t /\ b.mid = Session.mid \cup {t} /\ b.tail = {t}
          /\ b.acked = Session.acked /\ b.minted = Session.minted
      BY SyncedPut, SessionOK, Zenon
    <3>3. a = b
      BY <2>2, Zenon
    <3> HIDE DEF a, b
    <3> QED
      BY <2>2, <3>1, <3>2, <3>3, SessionOK, SMTT(60) DEF Trusts
  <2> QED
    BY <2>1, <2>2, Zenon
<1> HIDE DEF a
<1>5. /\ Trusts(c, d)
      /\ seal = None => \A s \in c.mid \cup {c.s} : s.seal = st.seal
  <2>1. IsStore(a.s) /\ Rekeyed(st, a.s, d)
    BY <1>4, Zenon DEF Trusts, Rekeyed
  <2>2. Rekeyed(a.s, u, d) /\ u.seal = a.s.seal
    <3>1. key \in Key \cup {None}
      BY Zenon
    <3>2. \A s : IsStore(s) => LET v == [s EXCEPT !.pin[d] = key] IN
                              Rekeyed(s, v, d) /\ v.seal = s.seal
      BY <3>1, KeyIs, ZenonT(60)
    <3> QED
      BY <2>1, <3>2, Zenon
  <2> HIDE DEF u
  <2>3. Rekeyed(st, u, d)
    BY <2>1, <2>2, RekeyedOn, Zenon
  <2>4. /\ c.s = u /\ c.mid = a.mid \cup {u} /\ c.tail = {u}
        /\ c.acked = a.acked /\ c.minted = a.minted
    BY <1>4, SyncedPut
  <2> HIDE DEF c
  <2> QED
    BY <1>4, <2>2, <2>3, <2>4, SMTT(60) DEF Trusts
<1> HIDE DEF c, q
<1> QED
  BY <1>2, <1>3, <1>4, <1>5, Zenon DEF q

\* revoke_peer.
LEMMA RevokeIs ==
  ASSUME RepositoryInv, NEW d \in Peer
  PROVE  LET q == revoke_peer(Session, d) IN
         /\ Trusts(q, d) /\ q.s.seal[d] = None
         /\ \A t \in q.mid \cup {q.s} : t.seal[d] \in {None, st.seal[d]}
<1> DEFINE t == [st EXCEPT !.pin[d] = None]
           a == Put(Session, t)
           u == [a.s EXCEPT !.seal[d] = None]
           c == flush(Put(a, u))
           q == revoke_peer(Session, d)
<1>1. IsStore(st) /\ None \in Key \cup {None}
  BY Zenon DEF RepositoryInv, Fine, Sound, OnDisk
<1>2. CASE st.pin[d] = None /\ st.seal[d] = None
  <2>1. q = Session
    BY <1>2, SessionOK, Zenon DEF revoke_peer
  <2> HIDE DEF q
  <2> QED
    BY <1>1, <1>2, <2>1, RekeyedOn, SessionOK DEF Trusts, q
<1>3. CASE ~(st.pin[d] = None /\ st.seal[d] = None)
  <2>1. q = c
    <3>1. Session.s = st
      BY SessionOK, Zenon
    <3> QED
      BY <1>3, <3>1, Zenon DEF revoke_peer
  <2>2. Rekeyed(st, t, d) /\ t.seal = st.seal
    BY <1>1, KeyIs, ZenonT(60)
  <2> HIDE DEF t, q
  <2>3. /\ IsSession(a) /\ a.s = t /\ a.mid = Session.mid \cup {t}
        /\ a.acked = Session.acked /\ a.minted = Session.minted
    BY PutIs, SessionOK
  <2> HIDE DEF a
  <2>4. IsStore(a.s)
    BY <2>2, <2>3, Zenon DEF Rekeyed
  <2>5. Rekeyed(a.s, u, d) /\ u.seal[d] = None
    <3>1. \A s : IsStore(s) => LET v == [s EXCEPT !.seal[d] = None] IN
                              Rekeyed(s, v, d) /\ v.seal[d] = None
      BY <1>1, KeyIs, ZenonT(60)
    <3> QED
      BY <2>4, <3>1, Zenon
  <2> HIDE DEF u
  <2>6. Rekeyed(st, u, d)
    BY <2>2, <2>3, <2>5, RekeyedOn, Zenon
  <2>7. /\ c.s = u /\ c.mid = a.mid \cup {u} /\ c.tail = {u}
        /\ c.acked = a.acked /\ c.minted = a.minted
    BY <2>3, SyncedPut
  <2> HIDE DEF c
  <2> QED
    BY <2>1, <2>2, <2>3, <2>5, <2>6, <2>7, SessionOK, SMTT(60) DEF Trusts, q
<1> QED
  BY <1>2, <1>3, Zenon

\* The end of such a command, or a crash in it.
LEMMA TrustEnds ==
  ASSUME RepositoryInv, NEW d, NEW q, Trusts(q, d), Finish(q) \/ Die(q)
  PROVE  /\ acked' = acked /\ minted' = minted
         /\ tail' \cup {st'} \subseteq tail \cup q.mid \cup {q.s}
<1>1. q.acked = acked /\ q.minted = minted /\ q.tail \subseteq tail \cup {q.s}
  BY SessionOK, Zenon DEF Trusts
<1>2. CASE Finish(q)
  BY <1>1, <1>2, Zenon DEF Finish
<1>3. CASE Die(q)
  BY <1>1, <1>3, Zenon DEF Die
<1> QED
  BY <1>2, <1>3, Zenon

\* It leaves the rest of the invariant alone.
LEMMA TrustStep ==
  ASSUME RepositoryInv, NEW d, NEW q, Trusts(q, d), open,
         (Finish(q) /\ open' = TRUE) \/ Die(q), History', DOMAIN known' = Peer,
         (\A s \in tail \cup {st} : Fine(s, acked, minted))'
  PROVE  RepositoryInv' /\ Onwards
<1>1. minted' \in Nat
  BY TrustEnds, Zenon DEF RepositoryInv
<1>2. CASE Finish(q) /\ open' = TRUE
  <2>1. st' = q.s /\ tail' = q.tail /\ Rekeyed(st, q.s, d)
    BY <1>2, Zenon DEF Finish, Trusts
  <2>2. Up(st)' /\ Keeps(st, st')
    BY <2>1, KeepsIf, Zenon DEF Rekeyed, Up, RepositoryInv
  <2>3. CASE q = Session
    <3>1. st' = st /\ tail' = tail
      BY <2>1, <2>3, SessionOK, Zenon
    <3>2. Tied(Session)'
      BY <3>1, SMTT(60) DEF RepositoryInv, Tied, Session
    <3> QED
      BY <1>1, <2>2, <3>2, Zenon DEF RepositoryInv, Onwards
  <2>4. CASE q.tail = {q.s}
    <3>1. Tied(Session)'
      BY <2>1, <2>4, Zenon DEF Tied, Session
    <3> QED
      BY <1>1, <2>2, <3>1, Zenon DEF RepositoryInv, Onwards
  <2> QED
    BY <2>3, <2>4, Zenon DEF Trusts
<1>3. CASE Die(q)
  <2>1. open' = FALSE /\ tail' = {st'}
    BY <1>3, Zenon DEF Die
  <2>2. Tied(Session)'
    BY <2>1, Zenon DEF Tied, Session
  <2> QED
    BY <1>1, <2>1, <2>2, Zenon DEF RepositoryInv, Onwards
<1> QED
  BY <1>2, <1>3, Zenon

\* A device is enrolled: with a sealing key it is no longer shut out.
LEMMA EnrolStep ==
  ASSUME RepositoryInv, NEW d \in Peer, NEW key \in Key, NEW seal \in Key \cup {None},
         NEW rotate \in BOOLEAN, Enrol(d, key, seal, rotate)
  PROVE  RepositoryInv' /\ Onwards
<1> DEFINE q == enrol_peer(Session, d, key, seal, rotate)
<1>1. /\ Trusts(q, d)
      /\ seal = None => \A t \in q.mid \cup {q.s} : t.seal = st.seal
  BY EnrolIs, SMTT(60)
<1>2. /\ open /\ ((Finish(q) /\ open' = TRUE) \/ Die(q))
      /\ barred' = IF seal = None THEN barred ELSE barred \ {d}
      /\ rotated' = rotated \cap barred' /\ fresh' = fresh /\ known' = known
  BY Zenon DEF Enrol
<1> HIDE DEF q
<1>3. History' /\ DOMAIN known' = Peer /\ barred' \subseteq barred /\ barred' \subseteq Peer
  BY <1>2, Zenon DEF RepositoryInv, History
<1>4. ASSUME NEW t \in tail \cup {st}
      PROVE  /\ Sound(t, acked, minted) /\ Stamp(t, fresh) /\ Shut(t, barred', known)
             /\ Turned(t, rotated', known, {})
  <2>1. Fine(t, acked, minted)
    BY Zenon DEF RepositoryInv
  <2> QED
    BY <1>2, <1>3, <2>1, Zenon DEF Fine, Shut, Turned
<1>5. ASSUME NEW t \in q.mid \cup {q.s}
      PROVE  /\ Sound(t, acked, minted) /\ Stamp(t, fresh) /\ Shut(t, barred', known)
             /\ Turned(t, rotated', known, {})
  <2>1. Rekeyed(st, t, d)
    BY <1>1, Zenon DEF Trusts
  <2>2. \A e \in barred' : t.seal[e] = st.seal[e]
    BY <1>1, <1>2, <1>3, <2>1, Zenon DEF Rekeyed
  <2>3. /\ Sound(st, acked, minted) /\ Stamp(st, fresh) /\ Shut(st, barred', known)
        /\ Turned(st, rotated', known, {})
    BY <1>4, Zenon
  <2> QED
    BY <2>1, <2>2, <2>3, RekeyedFine, Zenon
<1>6. (\A s \in tail \cup {st} : Fine(s, acked, minted))'
  BY <1>1, <1>2, <1>4, <1>5, TrustEnds, Zenon DEF Fine
<1> QED
  BY <1>1, <1>2, <1>3, <1>6, TrustStep, Zenon

\* A device is revoked: it is shut out, with the envelopes it has.
LEMMA RevokeStep ==
  ASSUME RepositoryInv, NEW d \in Peer, Revoke(d)
  PROVE  RepositoryInv' /\ Onwards
<1> DEFINE q == revoke_peer(Session, d)
<1>1. /\ Trusts(q, d) /\ q.s.seal[d] = None
      /\ \A t \in q.mid \cup {q.s} : t.seal[d] \in {None, st.seal[d]}
  BY RevokeIs, Zenon
<1>2. /\ open /\ fresh' = fresh
      /\ \/ /\ Finish(q) /\ open' = TRUE
            /\ barred' = barred \cup {d}
            /\ known' = [known EXCEPT ![d] = EnvelopesFor(st, d)]
            /\ rotated' = rotated \ {d}
         \/ Die(q) /\ barred' = barred /\ known' = known /\ rotated' = rotated
  BY Zenon DEF Revoke
<1> HIDE DEF q
<1>3. ASSUME NEW t \in tail \cup q.mid \cup {q.s}
      PROVE  Fine(t, acked, minted)
  <2>1. CASE t \in tail
    BY <2>1, Zenon DEF RepositoryInv
  <2>2. CASE t \in q.mid \cup {q.s}
    <3>1. Fine(st, acked, minted)
      BY Zenon DEF RepositoryInv
    <3>2. Rekeyed(st, t, d)
      BY <1>1, <2>2, Zenon DEF Trusts
    <3>3. \A e \in barred : t.seal[e] = st.seal[e]
      BY <1>1, <2>2, <3>1, <3>2, Zenon DEF Rekeyed, Fine, Shut, RepositoryInv, History
    <3> QED
      BY <3>1, <3>2, <3>3, RekeyedFine, Zenon DEF Fine
  <2> QED
    BY <2>1, <2>2, Zenon
<1>4. CASE Die(q) /\ barred' = barred /\ known' = known /\ rotated' = rotated
  <2>1. (\A s \in tail \cup {st} : Fine(s, acked, minted))'
    BY <1>1, <1>2, <1>3, <1>4, TrustEnds DEF Fine
  <2>2. History' /\ DOMAIN known' = Peer
    BY <1>4, Zenon DEF RepositoryInv, History
  <2> QED
    BY <1>1, <1>2, <1>4, <2>1, <2>2, TrustStep, ZenonT(60)
<1>5. CASE /\ Finish(q) /\ open' = TRUE
           /\ barred' = barred \cup {d}
           /\ known' = [known EXCEPT ![d] = EnvelopesFor(st, d)]
           /\ rotated' = rotated \ {d}
  <2>1. /\ DOMAIN known' = Peer /\ known'[d] = EnvelopesFor(st, d)
        /\ \A e \in Peer \ {d} : known'[e] = known[e]
    BY <1>5, Zenon DEF RepositoryInv
  <2>2. History'
    BY <1>5, Zenon DEF RepositoryInv, History
  <2>3. ASSUME NEW t \in tail' \cup {st'}
        PROVE  t.seal[d] = None /\ EnvelopesFor(t, d) = EnvelopesFor(st, d)
    <3>1. st' = q.s /\ tail' = q.tail
      BY <1>5, Zenon DEF Finish
    <3>2. CASE q = Session
      BY <1>1, <3>1, <3>2, SessionOK, Zenon DEF RepositoryInv, Tied
    <3>3. CASE q.tail = {q.s}
      <4>1. t = q.s /\ Rekeyed(st, q.s, d)
        BY <1>1, <3>1, <3>3, Zenon DEF Trusts
      <4> QED
        BY <1>1, <4>1, Zenon DEF Rekeyed, Alike, EnvelopesFor
    <3> QED
      BY <1>1, <3>2, <3>3, Zenon DEF Trusts
  <2>4. ASSUME NEW t \in tail' \cup {st'}
        PROVE  /\ Sound(t, acked, minted) /\ Stamp(t, fresh) /\ Shut(t, barred', known')
               /\ Turned(t, rotated', known', {})
    <3>1. Fine(t, acked, minted)
      BY <1>1, <1>3, <1>5, TrustEnds, Zenon
    <3>2. Shut(t, barred', known')
      BY <1>5, <2>1, <2>3, <3>1, SMTT(60) DEF Fine, Shut, RepositoryInv, History
    <3>3. \A e \in rotated' : e \in rotated /\ known'[e] = known[e]
      BY <1>5, <2>1, Zenon DEF RepositoryInv, History
    <3>4. Turned(t, rotated', known', {})
      BY <3>1, <3>3, Zenon DEF Fine, Turned
    <3> QED
      BY <3>1, <3>2, <3>4, Zenon DEF Fine
  <2>5. (\A s \in tail \cup {st} : Fine(s, acked, minted))'
    BY <1>1, <1>2, <1>5, <2>4, TrustEnds, ZenonT(60) DEF Fine
  <2> QED
    BY <1>1, <1>2, <1>5, <2>1, <2>2, <2>5, TrustStep, SMTT(60)
<1> QED
  BY <1>2, <1>4, <1>5, Zenon

-----------------------------------------------------------------------------
(* Theorems *)

F == INSTANCE FiniteSetTheorems

W == INSTANCE WellFoundedInduction

\* The facts about counting hold.
LEMMA CountingHolds == Counting
<1>1. ASSUME NEW T, T \subseteq Nat, T # {}
      PROVE  \E m \in T : \A n \in T : m <= n
  <2>1. \E m \in T : \A n \in T : ~(<<n, m>> \in W!OpToRel(<, Nat))
    BY <1>1, W!NatLessThanWellFounded, W!WFMin, Zenon
  <2>2. \A n, m \in Nat : n < m => <<n, m>> \in W!OpToRel(<, Nat)
    BY Zenon DEF W!OpToRel
  <2>3. PICK m \in T : \A n \in T : ~(<<n, m>> \in W!OpToRel(<, Nat))
    BY <2>1, Zenon
  <2>4. ASSUME NEW n \in T PROVE m <= n
    <3>1. n \in Nat /\ m \in Nat
      BY <1>1, Zenon
    <3>2. ~(n < m)
      BY <2>2, <2>3, <3>1, Zenon
    <3> QED
      BY <3>1, <3>2, SMTT(60)
  <2> QED
    BY <2>4, Zenon
<1>2. ASSUME NEW S, IsFiniteSet(S)
      PROVE  /\ Cardinality(S) \in Nat /\ (Cardinality(S) = 0 <=> S = {})
             /\ \A x \in S : Cardinality(S \ {x}) = Cardinality(S) - 1
  <2>1. F!IsFiniteSet(S)
    BY <1>2, Zenon DEF IsFiniteSet, F!IsFiniteSet
  <2>2. \A T : F!Cardinality(T) = Cardinality(T)
    BY Zenon DEF Cardinality, F!Cardinality
  <2>3. /\ F!Cardinality(S) \in Nat /\ (F!Cardinality(S) = 0 <=> S = {})
        /\ \A x \in S : F!Cardinality(S \ {x}) = F!Cardinality(S) - 1
    BY <2>1, F!FS_CardinalityType, F!FS_EmptySet, F!FS_RemoveElement, SMTT(60)
  <2> QED
    BY <2>2, <2>3, SMTT(60)
<1> QED
  BY <1>1, <1>2 DEF Counting

\* A repository found on the disk.
LEMMA FoundFine ==
  ASSUME NEW s \in Stores
  PROVE  Sound(s, {}, 0)
<1>1. OnDisk(s) /\ s.pending = {} /\ \A x \in s.log : x.to = {}
  BY StoresAssumption, Zenon
<1>2. Given(s) = {} /\ PendingOps(s) = {}
  BY <1>1, Zenon DEF Given, PendingOps
<1>3. Settled(s) /\ Made(s, 0) /\ Parked(s) /\ Returned(s, {})
  BY <1>2, Zenon DEF Settled, Made, Parked, Returned
<1>4. ASSUME NEW f \in DOMAIN s.rec, Addressed(s, f) PROVE FALSE
  <2>1. s.rec[f] # None /\ Self \in s.rec[f].to
    BY <1>4, Zenon DEF Addressed
  <2>2. PICK x \in s.log : Bare(x) = Bare(s.rec[f])
    BY <1>1, <2>1, SMTT(60) DEF OnDisk, LoggedFirst
  <2>3. x \in Ops /\ s.rec[f] \in Ops
    BY <1>1, <2>1, SMTT(60) DEF OnDisk, IsStore
  <2>4. Bare(x).to = x.to /\ Bare(s.rec[f]).to = s.rec[f].to
    BY <2>3, Zenon DEF Bare, Ops
  <2> QED
    BY <1>1, <2>1, <2>2, <2>4, SMTT(60)
<1>5. Recs(s)
  BY <1>4, Zenon DEF Recs
<1> QED
  BY <1>1, <1>3, <1>5, SMTT(60) DEF Sound

\* The invariant holds at the start.
LEMMA RepositoryStarts ==
  ASSUME Init
  PROVE  RepositoryInv
<1>1. /\ st \in Stores /\ tail = {st} /\ open = FALSE /\ fresh = (st = Empty)
      /\ acked = {} /\ minted = 0
      /\ barred = {} /\ known = [d \in Peer |-> {}] /\ rotated = {}
  BY Zenon DEF Init
<1>2. Sound(st, acked, minted)
  BY <1>1, FoundFine, SMTT(60)
<1>3. Stamp(st, fresh)
  <2>1. fresh => st = Empty
    BY <1>1, Zenon
  <2>2. Empty.ver = 0 /\ Empty.head = "none"
    BY Zenon DEF Empty
  <2> QED
    BY <2>1, <2>2, SMTT(60) DEF Stamp
<1>4. Shut(st, barred, known) /\ Turned(st, rotated, known, {})
  BY <1>1, Zenon DEF Shut, Turned
<1>5. Fine(st, acked, minted)
  BY <1>2, <1>3, <1>4, SMTT(60) DEF Fine
<1>6. Tied(Session)
  BY <1>1, Zenon DEF Tied, Session
<1>7. minted \in Nat /\ History /\ DOMAIN known = Peer
  BY <1>1, Zenon DEF History
<1> QED
  BY <1>1, <1>5, <1>6, <1>7, SMTT(60) DEF RepositoryInv

\* And after every step.
LEMMA RepositoryGoesOn ==
  ASSUME Counting, RepositoryInv, [Next]_vars
  PROVE  RepositoryInv' /\ Onwards
<1>1. CASE UNCHANGED vars
  <2>1. /\ st' = st /\ tail' = tail /\ open' = open /\ acked' = acked /\ minted' = minted
        /\ fresh' = fresh /\ barred' = barred /\ known' = known /\ rotated' = rotated
    BY <1>1, Zenon DEF vars
  <2>2. RepositoryInv'
    BY <2>1, Zenon DEF RepositoryInv, History, Fine, Tied, Session
  <2> QED
    BY <2>1, <2>2, KeepsIf, SMTT(60) DEF Onwards
<1>2. CASE Open
  BY <1>2, OpenOK, SMTT(60)
<1>3. CASE Migrate
  BY <1>3, MigrateStep, SMTT(60)
<1>4. CASE Close \/ Crash
  BY <1>4, StopOK, SMTT(60)
<1>5. CASE Write
  BY <1>5, WriteStep, SMTT(60)
<1>6. CASE RemovePath
  BY <1>6, RemoveStep, SMTT(60)
<1>7. CASE Receive
  BY <1>7, ReceiveStep, Zenon
<1>8. CASE Fetch
  BY <1>8, FetchStep, Zenon
<1>9. CASE Collect
  BY <1>9, CollectStep, Zenon
<1>10. CASE Share
  BY <1>10, ShareStep, Zenon
<1>11. CASE RotateAll
  BY <1>11, RotateStep, Zenon
<1>12. ASSUME NEW d \in Peer, NEW key \in Key, NEW seal \in Key \cup {None},
              NEW rotate \in BOOLEAN, Enrol(d, key, seal, rotate)
       PROVE  RepositoryInv' /\ Onwards
  BY <1>12, EnrolStep, SMTT(60)
<1>13. ASSUME NEW d \in Peer, Revoke(d) PROVE RepositoryInv' /\ Onwards
  BY <1>13, RevokeStep, SMTT(60)
<1> QED
  BY <1>1, <1>2, <1>3, <1>4, <1>5, <1>6, <1>7, <1>8, <1>9, <1>10, <1>11, <1>12, <1>13, SMTT(60) DEF Next

\* Every store that a crash may leave is sound, in whatever step the process
\* dies: the tail of unsynced writes of every command is covered.
THEOREM RepositorySound == Spec => []RepositoryInv
<1>1. Init => RepositoryInv
  BY RepositoryStarts, Zenon
<1>2. RepositoryInv /\ [Next]_vars => RepositoryInv'
  BY CountingHolds, RepositoryGoesOn, SMTT(60)
<1> QED
  BY <1>1, <1>2, PTL DEF Spec

\* What returned to the caller is in the log and applied, after any number of
\* crashes (apply_op_inner, the flush before the return).
THEOREM ReturnedIsDurable == Spec => []ReturnedSurvives
<1>1. RepositoryInv => ReturnedSurvives
  BY SMTT(60) DEF RepositoryInv, Fine, Sound, Returned, ReturnedSurvives
<1> QED
  BY <1>1, RepositorySound, PTL

\* The stamp is never ahead of what is on the disk, and a repository of this
\* build is never taken for an older one (check_format, migrate, bootstrap).
THEOREM StampIsHonest == Spec => []StampHonest
<1>1. RepositoryInv => StampHonest
  BY SMTT(60) DEF RepositoryInv, Fine, Sound, OnDisk, Stamped, Stamp, StampHonest
<1> QED
  BY <1>1, RepositorySound, PTL

\* No collection, crash or interrupted write leaves an entry without its
\* record, its file node or its chunk (gc.rs, the order of the writes).
THEOREM ListingIsWhole == Spec => []LiveWhole
<1>1. RepositoryInv => LiveWhole
  BY SMTT(60) DEF RepositoryInv, Fine, Sound, OnDisk, LiveWhole
<1> QED
  BY <1>1, RepositorySound, PTL

\* A revoked device gets no envelope, and after a rotation no file is kept
\* under a key it had, also when an old write of a peer arrives later
\* (revoke_peer, rotate_content, apply_write).
THEOREM RevocationIsFinal == Spec => []RevocationHolds
<1>1. RepositoryInv => RevocationHolds
  BY Zenon DEF RepositoryInv, History, Fine, Shut, Turned, RevocationHolds
<1> QED
  BY <1>1, RepositorySound, PTL

\* Parked writes lose nothing they wait with while the process lives
\* (collect_garbage, reachable_hashes, reachable_inodes).
THEOREM ParkedIsKept == Spec => ParkedKeepsIts
<1>1. RepositoryInv /\ [Next]_vars
        => [open' => \A x \in PendingOps(st) :
              x.kind = "Write" /\ x.id \in st'.pending =>
                /\ ChunkOf(x) \in st.blobs => ChunkOf(x) \in st'.blobs
                /\ x.inode \in DOMAIN st.rec => x.inode \in DOMAIN st'.rec]_vars
  BY CountingHolds, RepositoryGoesOn, Zenon DEF Onwards, Keeps
<1> QED
  BY <1>1, RepositorySound, PTL DEF Spec, ParkedKeepsIts
=============================================================================
