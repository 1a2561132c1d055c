------------------------- MODULE ReplicationProofs -------------------------
(***************************************************************************)
(* Proofs about Replication: what summaries claim, what a finished phase   *)
(* has brought, pinned keys, types, the content budget and the refinement  *)
(* of Exchange, for any devices, logs, refusals, batch sizes and caps.     *)
(***************************************************************************)
EXTENDS Replication, FiniteSetTheorems, WellFoundedInduction, TLAPS

-----------------------------------------------------------------------------
(* Numbers *)

\* A nonempty set of numbers has a least one.
LEMMA LeastNatural ==
  ASSUME NEW T, T \subseteq Nat, T # {}
  PROVE  \E m \in T : \A n \in T : m <= n
<1>1. \E m \in T : \A n \in T : ~(<<n, m>> \in OpToRel(<, Nat))
  BY NatLessThanWellFounded, WFMin, Zenon
<1>2. \A n, m \in Nat : n < m => <<n, m>> \in OpToRel(<, Nat)
  BY Zenon DEF OpToRel
<1>3. PICK m \in T : \A n \in T : ~(<<n, m>> \in OpToRel(<, Nat))
  BY <1>1, Zenon
<1>4. ASSUME NEW n \in T PROVE m <= n
  <2>1. n \in Nat /\ m \in Nat
    BY Zenon
  <2>2. ~(n < m)
    BY <1>2, <1>3, <2>1, Zenon
  <2> QED
    BY <2>1, <2>2
<1> QED
  BY <1>4, Zenon

\* A nonempty set of numbers below a bound has a greatest one.
LEMMA GreatestNatural ==
  ASSUME NEW T, T \subseteq Nat, T # {}, NEW b \in Nat, \A n \in T : n <= b
  PROVE  \E m \in T : \A n \in T : n <= m
<1> DEFINE U == {k \in Nat : \E n \in T : k = b - n}
<1>1. U # {} /\ U \subseteq Nat
  <2>1. PICK n \in T : TRUE
    BY Zenon
  <2>2. b - n \in U
    BY <2>1
  <2> QED
    BY <2>2, Zenon
<1>2. PICK k \in U : \A j \in U : k <= j
  <2> HIDE DEF U
  <2> QED BY <1>1, LeastNatural, Zenon
<1>3. PICK m \in T : k = b - m
  BY <1>2, Zenon
<1>4. \A n \in T : b - n \in U
  OBVIOUS
<1>5. \A n \in T : n <= m
  BY <1>2, <1>3, <1>4
<1> QED
  BY <1>5, Zenon

\* A finite set of numbers is bounded.
LEMMA FiniteBounded ==
  ASSUME NEW S, S \subseteq Nat, IsFiniteSet(S)
  PROVE  \E b \in Nat : \A n \in S : n <= b
<1> DEFINE Bad == {X \in SUBSET Nat : IsFiniteSet(X) /\ ~\E b \in Nat : \A n \in X : n <= b}
           C == {k \in Nat : \E X \in Bad : k = Cardinality(X)}
<1>1. SUFFICES Bad = {}
  BY <1>1, Zenon
<1>2. SUFFICES ASSUME Bad # {} PROVE FALSE
  BY Zenon
<1>3. \A X \in Bad : Cardinality(X) \in Nat
  BY FS_CardinalityType, Zenon
<1>4. C # {} /\ C \subseteq Nat
  BY <1>2, <1>3, Zenon
<1>5. PICK k \in C : \A j \in C : k <= j
  <2> HIDE DEF C
  <2> QED BY <1>4, LeastNatural, Zenon
<1>6. PICK X \in Bad : k = Cardinality(X)
  BY <1>5, Zenon
<1>7. PICK x \in X : TRUE
  BY <1>6, Zenon
<1>8. X \ {x} \notin Bad
  <2>1. IsFiniteSet(X) /\ x \in X
    BY <1>6, <1>7, Zenon
  <2>2. IsFiniteSet(X \ {x}) /\ Cardinality(X \ {x}) = Cardinality(X) - 1
    BY <2>1, FS_RemoveElement, Zenon
  <2>3. Cardinality(X) - 1 \notin C
    BY <1>3, <1>5, <1>6
  <2>4. Cardinality(X \ {x}) \in Nat
    BY <2>2, FS_CardinalityType, Zenon
  <2> QED
    BY <2>2, <2>3, <2>4, Zenon
<1>9. IsFiniteSet(X \ {x}) /\ X \ {x} \in SUBSET Nat
  BY <1>6, <1>7, FS_RemoveElement, Zenon
<1>10. PICK b \in Nat : \A n \in X \ {x} : n <= b
  BY <1>8, <1>9, Zenon
<1>11. \E c \in Nat : \A n \in X : n <= c
  <2>1. x \in Nat
    BY <1>6, <1>7, Zenon
  <2>2. \A n \in X : n <= b + x
    BY <1>6, <1>10, <2>1
  <2> QED
    BY <2>1, <2>2, SMTT(60)
<1> QED
  BY <1>6, <1>11, Zenon

-----------------------------------------------------------------------------
(* Summaries *)

\* The watermark exists: below it nothing is missing, and the next counter is.
LEMMA MarkExact ==
  ASSUME NEW L, NEW d
  PROVE  /\ Contiguous(L, d) \in 0 .. MaxCounter
         /\ 1 .. Contiguous(L, d) \subseteq CountersOf(L, d)
         /\ Contiguous(L, d) + 1 \notin CountersOf(L, d)
<1> DEFINE T == {k \in Nat : k + 1 \notin CountersOf(L, d)}
<1>1. MaxCounter \in Nat
  BY ClockAssumption, Zenon
<1>2. MaxCounter \in T
  BY <1>1 DEF CountersOf
<1>3. PICK k \in T : \A j \in T : k <= j
  <2>1. T \subseteq Nat /\ T # {}
    BY <1>2, Zenon
  <2> HIDE DEF T
  <2> QED BY <2>1, LeastNatural, Zenon
<1>4. k \in 0 .. MaxCounter
  BY <1>1, <1>2, <1>3
<1>5. ASSUME NEW c \in 1 .. k PROVE c \in CountersOf(L, d)
  <2>1. c - 1 \in Nat /\ ~(k <= c - 1) /\ c = (c - 1) + 1
    BY <1>3
  <2>2. c - 1 \notin T
    BY <1>3, <2>1, Zenon
  <2> QED
    BY <2>1, <2>2, Zenon
<1>6. k + 1 \notin CountersOf(L, d)
  BY <1>3, Zenon
<1> QED
  BY <1>4, <1>5, <1>6, Zenon DEF Contiguous

\* A summary claims nothing its log lacks.
LEMMA ClaimsHeld ==
  ASSUME NEW L
  PROVE  Claimed(clock_summary(L)) \subseteq L
<1> SUFFICES ASSUME NEW o \in Claimed(clock_summary(L)) PROVE o \in L
  BY Zenon
<1>1. o \in OpId /\ o[1] \in Author /\ o[2] \in 1 .. MaxCounter /\ o = <<o[1], o[2]>>
  BY DEF Claimed, OpId
<1>2. o[2] <= Contiguous(L, o[1]) \/ o[2] \in HeldAbove(L, o[1])
  BY <1>1, Zenon DEF Claimed, clock_summary
<1>3. o[2] \in CountersOf(L, o[1])
  <2>1. CASE o[2] <= Contiguous(L, o[1])
    BY <1>1, <2>1, MarkExact, ClockAssumption
  <2>2. CASE o[2] \in HeldAbove(L, o[1])
    BY <2>2, Zenon DEF HeldAbove, FirstCounters
  <2> QED
    BY <1>2, <2>1, <2>2, Zenon
<1> QED
  BY <1>1, <1>3, Zenon DEF CountersOf

\* The empty summary of a new session claims nothing.
LEMMA NothingClaimed == Claimed(NoSummary) = {}
<1> SUFFICES ASSUME NEW o \in Claimed(NoSummary) PROVE FALSE
  BY Zenon
<1>1. o[1] \in Author /\ o[2] \in 1 .. MaxCounter /\ MaxCounter \in Nat
  BY ClockAssumption, Zenon DEF Claimed, OpId
<1> QED
  BY <1>1 DEF Claimed, NoSummary

\* A log that is not behind a summary holds what the summary claims.
LEMMA NotBehindHolds ==
  ASSUME NEW L, NEW K, ~is_behind(L, clock_summary(K))
  PROVE  Claimed(clock_summary(K)) \subseteq L
<1> SUFFICES ASSUME NEW o \in Claimed(clock_summary(K)) PROVE o \in Claimed(clock_summary(L))
  BY ClaimsHeld, Zenon
<1> DEFINE d == o[1]
<1>1. o \in OpId /\ d \in Author /\ o[2] \in 1 .. MaxCounter
  BY Zenon DEF Claimed, OpId
<1>2. Contiguous(L, d) \in Nat /\ Contiguous(K, d) \in Nat
  BY MarkExact, ClockAssumption
<1>3. Contiguous(K, d) <= Contiguous(L, d)
  BY <1>1, <1>2 DEF is_behind, clock_summary
<1>4. \A c \in HeldAbove(K, d) : ~(c > Contiguous(L, d)) \/ c \in HeldAbove(L, d)
  BY <1>1, Zenon DEF is_behind, clock_summary
<1>5. o[2] <= Contiguous(K, d) \/ o[2] \in HeldAbove(K, d)
  BY <1>1, Zenon DEF Claimed, clock_summary
<1>6. o[2] <= Contiguous(L, d) \/ o[2] \in HeldAbove(L, d)
  BY <1>1, <1>2, <1>3, <1>4, <1>5, ClockAssumption
<1> QED
  BY <1>1, <1>6, Zenon DEF Claimed, clock_summary

-----------------------------------------------------------------------------
(* Batches *)

\* Ids are pairs of numbers, and there are finitely many.
LEMMA OpIdFacts == OpId \subseteq Nat \X Nat /\ IsFiniteSet(OpId)
<1>1. IsFiniteSet(1 .. MaxCounter)
  BY FS_Interval, ClockAssumption
<1> QED
  BY <1>1, FS_Product, ClockAssumption, SMTT(60) DEF OpId

\* A nonempty set of ids has a first one, and it is the one applied next.
LEMMA NextOpIn ==
  ASSUME NEW S, S \subseteq OpId, S # {}
  PROVE  NextOp(S) \in S /\ \A p \in S : p = NextOp(S) \/ OpBefore(NextOp(S), p)
<1>1. S \subseteq Nat \X Nat
  BY OpIdFacts, Zenon
<1> DEFINE D == {d \in Nat : \E e \in S : e[1] = d}
<1>2. D # {} /\ D \subseteq Nat
  <2>1. PICK e \in S : TRUE
    BY Zenon
  <2>2. e[1] \in D
    BY <1>1, <2>1, Zenon
  <2> QED
    BY <2>2, Zenon
<1>3. PICK d \in D : \A x \in D : d <= x
  <2> HIDE DEF D
  <2> QED BY <1>2, LeastNatural, Zenon
<1> DEFINE C == {c \in Nat : \E e \in S : e[1] = d /\ e[2] = c}
<1>4. C # {} /\ C \subseteq Nat
  <2>1. PICK e \in S : e[1] = d
    BY <1>3, Zenon
  <2>2. e[2] \in C
    BY <1>1, <2>1, Zenon
  <2> QED
    BY <2>2, Zenon
<1>5. PICK c \in C : \A x \in C : c <= x
  <2> HIDE DEF C
  <2> QED BY <1>4, LeastNatural, Zenon
<1>6. PICK o \in S : o[1] = d /\ o[2] = c
  BY <1>5, Zenon
<1>7. ASSUME NEW p \in S PROVE p = o \/ OpBefore(o, p)
  <2>1. p[1] \in D /\ p[1] \in Nat /\ p[2] \in Nat /\ o[1] \in Nat /\ o[2] \in Nat
    BY <1>1, Zenon
  <2>2. p = <<p[1], p[2]>> /\ o = <<o[1], o[2]>>
    BY <1>1
  <2>3. o[1] <= p[1]
    BY <1>3, <1>6, <2>1, Zenon
  <2>4. p[1] = o[1] => o[2] <= p[2]
    BY <1>5, <1>6, <2>1, Zenon
  <2> HIDE DEF D, C
  <2> QED
    BY <2>1, <2>2, <2>3, <2>4 DEF OpBefore
<1>8. \E x \in S : \A p \in S : p = x \/ OpBefore(x, p)
  BY <1>7, Zenon
<1> HIDE DEF D, C
<1> QED
  BY <1>8, Zenon DEF NextOp

\* A nonempty set of ids has a last one.
LEMMA LastOpIn ==
  ASSUME NEW S, S \subseteq OpId, S # {}
  PROVE  \E o \in S : \A p \in S : p = o \/ OpBefore(p, o)
<1>1. S \subseteq Nat \X Nat
  BY OpIdFacts, Zenon
<1> DEFINE D == {d \in Nat : \E e \in S : e[1] = d}
<1>2. PICK b \in Nat : \A n \in Author : n <= b
  BY FiniteBounded, ClockAssumption, Zenon
<1>3. D # {} /\ D \subseteq Nat /\ \A d \in D : d <= b
  <2>1. PICK e \in S : TRUE
    BY Zenon
  <2>2. e[1] \in D
    BY <1>1, <2>1, Zenon
  <2>3. \A d \in D : d \in Author
    BY Zenon DEF OpId
  <2> QED
    BY <1>2, <2>2, <2>3, Zenon
<1>4. PICK d \in D : \A x \in D : x <= d
  <2> HIDE DEF D
  <2> QED BY <1>3, GreatestNatural, Zenon
<1> DEFINE C == {c \in Nat : \E e \in S : e[1] = d /\ e[2] = c}
<1>5. C # {} /\ C \subseteq Nat /\ MaxCounter \in Nat /\ \A c \in C : c <= MaxCounter
  <2>1. PICK e \in S : e[1] = d
    BY <1>4, Zenon
  <2>2. e[2] \in C
    BY <1>1, <2>1, Zenon
  <2>3. \A c \in C : c \in 1 .. MaxCounter
    BY Zenon DEF OpId
  <2> QED
    BY <2>2, <2>3, ClockAssumption
<1>6. PICK c \in C : \A x \in C : x <= c
  <2> HIDE DEF C
  <2> QED BY <1>5, GreatestNatural, Zenon
<1>7. PICK o \in S : o[1] = d /\ o[2] = c
  BY <1>6, Zenon
<1>8. ASSUME NEW e \in S PROVE e = o \/ OpBefore(e, o)
  <2>1. e[1] \in D /\ e[1] \in Nat /\ e[2] \in Nat /\ o[1] \in Nat /\ o[2] \in Nat
    BY <1>1, Zenon
  <2>2. e = <<e[1], e[2]>> /\ o = <<o[1], o[2]>>
    BY <1>1
  <2>3. e[1] <= o[1]
    BY <1>4, <1>7, <2>1, Zenon
  <2>4. e[1] = o[1] => e[2] <= o[2]
    BY <1>6, <1>7, <2>1, Zenon
  <2> QED
    BY <2>1, <2>2, <2>3, <2>4 DEF OpBefore
<1> QED
  BY <1>8, Zenon

\* The order of ids is strict, total and transitive.
LEMMA IdOrder ==
  ASSUME NEW a \in OpId, NEW b \in OpId, NEW c \in OpId
  PROVE  /\ ~OpBefore(a, a)
         /\ ~(OpBefore(a, b) /\ OpBefore(b, a))
         /\ a = b \/ OpBefore(a, b) \/ OpBefore(b, a)
         /\ OpBefore(a, b) /\ OpBefore(b, c) => OpBefore(a, c)
<1>1. a \in Nat \X Nat /\ b \in Nat \X Nat /\ c \in Nat \X Nat
  BY OpIdFacts, Zenon
<1>2. a = <<a[1], a[2]>> /\ b = <<b[1], b[2]>>
  BY <1>1
<1>3. a[1] \in Nat /\ a[2] \in Nat /\ b[1] \in Nat /\ b[2] \in Nat /\ c[1] \in Nat /\ c[2] \in Nat
  BY <1>1, Zenon
<1> QED
  BY <1>2, <1>3 DEF OpBefore

\* A batch that is not everything is full (ops_missing_for): so a reply that is
\* not full, which session.rs takes for the last one, leaves nothing out.
LEMMA CutBatchIsFull ==
  ASSUME NEW S, S \subseteq OpId, NEW k \in Nat \ {0}, FirstOps(S, k) # S
  PROVE  Cardinality(FirstOps(S, k)) = k
<1> DEFINE F == FirstOps(S, k)
           Below(o) == {p \in S : OpBefore(p, o)}
<1>1. IsFiniteSet(S) /\ F \subseteq S
  BY OpIdFacts, FS_Subset, Zenon DEF FirstOps
<1>2. \A T : T \subseteq S => IsFiniteSet(T) /\ Cardinality(T) \in Nat
  BY <1>1, FS_Subset, FS_CardinalityType, Zenon
<1>3. \A o \in S : o \in F <=> Cardinality(Below(o)) < k
  BY Zenon DEF FirstOps
<1>4. PICK o \in S \ F : \A p \in S \ F : p = o \/ OpBefore(o, p)
  <2>1. S \ F # {} /\ S \ F \subseteq OpId
    BY <1>1, Zenon
  <2> HIDE DEF F
  <2> QED BY <2>1, NextOpIn, Zenon
<1>5. Cardinality(Below(o)) \in Nat /\ ~(Cardinality(Below(o)) < k)
  BY <1>2, <1>3, <1>4, Zenon
<1>6. F = Below(o)
  <2>1. ASSUME NEW p \in F PROVE OpBefore(p, o)
    <3>1. p \in S /\ p \in OpId /\ o \in OpId /\ p # o
      BY <1>1, <1>4, Zenon
    <3>2. SUFFICES ASSUME OpBefore(o, p) PROVE FALSE
      BY <3>1, IdOrder, Zenon
    <3>3. Below(o) \subseteq Below(p)
      BY <3>1, <3>2, IdOrder, Zenon
    <3>4. Cardinality(Below(o)) <= Cardinality(Below(p))
      BY <1>2, <3>3, FS_Subset, Zenon
    <3>5. Cardinality(Below(p)) \in Nat /\ Cardinality(Below(p)) < k
      BY <1>2, <1>3, <3>1, Zenon
    <3> HIDE DEF Below
    <3> QED BY <1>5, <3>4, <3>5
  <2>2. ASSUME NEW p \in Below(o) PROVE p \in F
    BY <1>4, <2>2, IdOrder, Zenon
  <2> QED
    BY <1>1, <2>1, <2>2, Zenon
<1>7. F # {}
  <2>1. Cardinality({}) = 0
    BY FS_EmptySet, Zenon
  <2> HIDE DEF F, Below
  <2> QED BY <1>5, <1>6, <2>1
<1>8. PICK g \in F : \A p \in F : p = g \/ OpBefore(p, g)
  <2>1. F \subseteq OpId
    BY <1>1, Zenon
  <2> HIDE DEF F
  <2> QED BY <1>7, <2>1, LastOpIn, Zenon
<1>9. F \subseteq Below(g) \cup {g}
  BY <1>1, <1>8, Zenon
<1>10. Cardinality(F) <= k
  <2>1. IsFiniteSet(Below(g)) /\ Cardinality(Below(g)) \in Nat /\ g \notin Below(g)
    BY <1>1, <1>2, <1>8, IdOrder, Zenon
  <2>2. Cardinality(Below(g) \cup {g}) = Cardinality(Below(g)) + 1 /\ IsFiniteSet(Below(g) \cup {g})
    <3> HIDE DEF Below
    <3> QED BY <2>1, FS_AddElement, Zenon
  <2>3. Cardinality(F) <= Cardinality(Below(g) \cup {g})
    <3> HIDE DEF Below, F
    <3> QED BY <1>9, <2>2, FS_Subset, Zenon
  <2>4. Cardinality(Below(g)) < k
    BY <1>1, <1>3, <1>8, Zenon
  <2>5. Cardinality(F) \in Nat
    BY <1>1, <1>2, Zenon
  <2> HIDE DEF Below, F
  <2> QED BY <2>1, <2>2, <2>3, <2>4, <2>5
<1> HIDE DEF Below
<1> QED
  BY <1>5, <1>6, <1>10

-----------------------------------------------------------------------------
(* The inductive invariant *)

\* Tables exist for every device.
Shape ==
  /\ log \in [Node -> SUBSET OpId]
  /\ DOMAIN pinned = Node /\ \A n \in Node : DOMAIN pinned[n] = Node
  /\ DOMAIN sess = Node

\* A device holds all it issued, and nobody holds more of it.
OwnWhole(L) ==
  /\ \A n \in Node : \E k \in Nat : CountersOf(L[n], n) = 1 .. k
  /\ \A n, m \in Node : \A o \in L[m] : o[1] = n => o \in L[n]

\* A session s of puller n under logs L, by its stage: the operations before it
\* are the peer's, and those of the last reply that are still to be applied are
\* all that is missing of what the responder held.
Good(n, s, L) ==
  /\ DOMAIN s = DOMAIN Idle
  /\ Claimed(s.sum) \subseteq L[n]
  /\ s.st # "idle" => s.peer \in Node
  /\ s.st \in {"batch", "ops"} =>
       /\ s.ops \subseteq L[s.peer]
       /\ ~s.more => \A o \in s.seen : o \in s.ops \/ o \in L[n] \/ <<n, o>> \in Refused
  /\ s.st \in {"idle", "hello", "acked", "have", "batch", "ops"} => s.end = "open"
  /\ s.end = "whole" => \A o \in s.seen : o \in L[n] \/ <<n, o>> \in Refused

ReplInv == Shape /\ OwnWhole(log) /\ \A n \in Node : Good(n, sess[n], log)

\* The fields of a session.
LEMMA Fields == DOMAIN Idle = {"st", "peer", "key", "lim", "sum", "ops", "more", "got",
                               "bytes", "want", "put", "seen", "end"}
BY SMTT(40) DEF Idle

\* A session that is not running is good under any logs.
LEMMA IdleGood == ASSUME NEW n \in Node, NEW L PROVE Good(n, Idle, L)
BY NothingClaimed, Zenon DEF Good, Idle

\* A session stays good when logs grow.
LEMMA GoodGrows ==
  ASSUME NEW n \in Node, NEW s, NEW L, NEW M, Good(n, s, L), \A m \in Node : L[m] \subseteq M[m]
  PROVE  Good(n, s, M)
BY Zenon DEF Good

\* A step that leaves the logs alone and touches one session keeps the
\* invariant when it leaves that session good.
LEMMA SessionStep ==
  ASSUME ReplInv, NEW n \in Node, log' = log, NEW s, sess' = [sess EXCEPT ![n] = s],
         Good(n, s, log), DOMAIN pinned' = Node, \A m \in Node : DOMAIN pinned'[m] = Node
  PROVE  ReplInv'
<1>1. Shape'
  BY Zenon DEF ReplInv, Shape
<1>2. OwnWhole(log)'
  BY Zenon DEF ReplInv, OwnWhole
<1>3. \A m \in Node : Good(m, sess'[m], log')
  BY Zenon DEF ReplInv, Shape
<1> QED
  BY <1>1, <1>2, <1>3, Zenon DEF ReplInv

\* The invariant holds when no session has begun.
LEMMA ReplInit == Init => ReplInv
<1> SUFFICES ASSUME Init PROVE ReplInv
  BY Zenon
<1>1. \A n \in Node : sess[n] = Idle
  BY Zenon DEF Init
<1>2. Shape
  BY ReplicationAssumption, Zenon DEF Init, Shape
<1>3. OwnWhole(log)
  <2>1. 0 .. MaxCounter \subseteq Nat
    BY ClockAssumption
  <2>2. log = InitLog
    BY Zenon DEF Init
  <2>3. \A n \in Node : \E k \in Nat : CountersOf(InitLog[n], n) = 1 .. k
    BY <2>1, ReplicationAssumption, Zenon
  <2> QED
    BY <2>2, <2>3, ReplicationAssumption, Zenon DEF OwnWhole
<1> QED
  BY <1>1, <1>2, <1>3, IdleGood, Zenon DEF ReplInv

\* Trust on first use changes one entry of one table.
LEMMA AuthorizeShape ==
  ASSUME Shape, NEW n, NEW m, NEW k, authorize(n, m, k)
  PROVE  DOMAIN pinned' = Node /\ \A q \in Node : DOMAIN pinned'[q] = Node
BY Zenon DEF Shape, authorize

\* A handshake keeps the invariant.
LEMMA HandshakeStep ==
  ASSUME ReplInv, NEW n \in Node,
         (\E m \in Node : Dial(n, m)) \/ AcceptHello(n) \/ RefuseHello(n) \/ TakeAck(n) \/ RejectAck(n)
  PROVE  ReplInv'
<1> DEFINE s == sess[n]
<1>1. Shape /\ Good(n, s, log) /\ log' = log
  BY ZenonT(60) DEF ReplInv, Dial, AcceptHello, RefuseHello, TakeAck, RejectAck
<1>2. DOMAIN pinned' = Node /\ \A q \in Node : DOMAIN pinned'[q] = Node
  BY <1>1, AuthorizeShape, Zenon DEF Dial, AcceptHello, RefuseHello, TakeAck, RejectAck, Shape
<1>3. ASSUME NEW m \in Node, Dial(n, m) PROVE ReplInv'
  <2>1. PICK lim : sess' = [sess EXCEPT ![n] = [Idle EXCEPT !.st = "hello", !.peer = m,
                                                           !.key = key[n], !.lim = lim]]
    BY <1>3, Zenon DEF Dial
  <2>2. Good(n, [Idle EXCEPT !.st = "hello", !.peer = m, !.key = key[n], !.lim = lim], log)
    BY NothingClaimed, Zenon DEF Good, Idle
  <2> QED
    BY <1>1, <1>2, <2>1, <2>2, SessionStep, Zenon
<1>4. CASE AcceptHello(n)
  <2> DEFINE t == [s EXCEPT !.st = "acked", !.key = key[s.peer]]
  <2>1. sess' = [sess EXCEPT ![n] = t]
    BY <1>1, <1>4, ZenonT(60) DEF AcceptHello, Shape
  <2>2. Good(n, t, log)
    BY <1>1, <1>4, Fields, Zenon DEF Good, AcceptHello
  <2> QED
    BY <1>1, <1>2, <2>1, <2>2, SessionStep, Zenon
<1>5. CASE RefuseHello(n) \/ RejectAck(n)
  BY <1>1, <1>2, <1>5, IdleGood, SessionStep, Zenon DEF RefuseHello, RejectAck
<1>6. CASE TakeAck(n)
  <2> DEFINE t == [s EXCEPT !.st = "have", !.sum = clock_summary(log[n]), !.ops = {}, !.more = FALSE]
  <2>1. sess' = [sess EXCEPT ![n] = t]
    BY <1>1, <1>6, Zenon DEF TakeAck, SendHave, Shape
  <2>2. Good(n, t, log)
    BY <1>1, <1>6, Fields, ClaimsHeld, Zenon DEF Good, TakeAck
  <2> QED
    BY <1>1, <1>2, <2>1, <2>2, SessionStep, Zenon
<1> QED
  BY <1>3, <1>4, <1>5, <1>6, SMTT(40)

\* The answer to a summary keeps the invariant: a reply that is not full names
\* all the puller lacks.
LEMMA AnswerHaveStep ==
  ASSUME ReplInv, NEW n \in Node, AnswerHave(n)
  PROVE  ReplInv'
<1> DEFINE s == sess[n]
           S == log[s.peer] \ Claimed(s.sum)
           B == FirstOps(S, Batch)
           t == [s EXCEPT !.st = "batch", !.ops = B, !.more = IsMore(B), !.seen = log[s.peer]]
<1>1. Shape /\ Good(n, s, log) /\ s.st = "have" /\ s.peer \in Node
  BY Zenon DEF ReplInv, AnswerHave, Good
<1>2. sess' = [sess EXCEPT ![n] = t]
  BY <1>1, ZenonT(60) DEF AnswerHave, Shape, ops_missing_for
<1>3. S \subseteq OpId /\ B \subseteq S
  BY <1>1, Zenon DEF Shape, FirstOps
<1>4. ~IsMore(B) => B = S
  <2>1. Batch \in Nat \ {0}
    BY ReplicationAssumption, Zenon
  <2> HIDE DEF S
  <2> QED BY <1>3, <2>1, CutBatchIsFull, Zenon DEF IsMore
<1>5. Good(n, t, log)
  <2>1. /\ DOMAIN t = DOMAIN Idle /\ t.sum = s.sum /\ t.st = "batch" /\ t.peer = s.peer
        /\ t.ops = B /\ t.more = IsMore(B) /\ t.seen = log[s.peer] /\ t.end = s.end
    BY <1>1, Fields, Zenon DEF Good
  <2>2. s.end = "open" /\ Claimed(s.sum) \subseteq log[n]
    BY <1>1, Zenon DEF Good
  <2>3. ~IsMore(B) => \A o \in log[s.peer] : o \in B \/ o \in log[n] \/ <<n, o>> \in Refused
    BY <1>4, <2>2, Zenon
  <2> HIDE DEF t, B
  <2> QED BY <1>1, <1>3, <2>1, <2>2, <2>3, Zenon DEF Good
<1>6. log' = log /\ pinned' = pinned
  BY Zenon DEF AnswerHave
<1> QED
  BY <1>1, <1>2, <1>5, <1>6, SessionStep, Zenon DEF Shape

\* The end of a batch, whichever way it ends, keeps the invariant.
LEMMA BatchStep ==
  ASSUME ReplInv, NEW n \in Node, TakeBatch(n) \/ EndBatch(n)
  PROVE  ReplInv'
<1> DEFINE s == sess[n]
<1>1. /\ Shape /\ Good(n, s, log) /\ log' = log /\ pinned' = pinned
      /\ s.st \in {"batch", "ops"}
  BY Zenon DEF ReplInv, TakeBatch, EndBatch
<1>2. CASE TakeBatch(n)
  <2> DEFINE got == s.got + Cardinality(s.ops)
             t == [s EXCEPT !.st = "ops", !.got = got]
  <2>1. sess' = [sess EXCEPT ![n] = Idle] \/ sess' = [sess EXCEPT ![n] = t]
    BY <1>1, <1>2, Zenon DEF TakeBatch, Shape
  <2>2. Good(n, t, log)
    <3> HIDE DEF got
    <3> QED BY <1>1, Fields, Zenon DEF Good
  <2> QED
    BY <1>1, <2>1, <2>2, IdleGood, SessionStep, Zenon DEF Shape
<1>3. CASE EndBatch(n)
  <2>1. s.st = "ops" /\ s.ops = {} /\ s.end = "open"
    BY <1>1, <1>3, Zenon DEF EndBatch, Good
  <2>2. CASE ~s.more /\ sess' = [sess EXCEPT ![n].st = "content", ![n].end = "whole"]
    <3> DEFINE t == [s EXCEPT !.st = "content", !.end = "whole"]
    <3>1. sess' = [sess EXCEPT ![n] = t]
      BY <1>1, <2>2, Zenon DEF Shape
    <3>2. Good(n, t, log)
      BY <1>1, <2>1, <2>2, Fields, Zenon DEF Good
    <3> QED
      BY <1>1, <3>1, <3>2, SessionStep, Zenon DEF Shape
  <2>3. CASE sess' = [sess EXCEPT ![n].st = "content", ![n].end = "stuck"]
    <3> DEFINE t == [s EXCEPT !.st = "content", !.end = "stuck"]
    <3>1. sess' = [sess EXCEPT ![n] = t]
      BY <1>1, <2>3, Zenon DEF Shape
    <3>2. Good(n, t, log)
      BY <1>1, <2>1, Fields, Zenon DEF Good
    <3> QED
      BY <1>1, <3>1, <3>2, SessionStep, Zenon DEF Shape
  <2>4. CASE SendHave(n)
    <3> DEFINE t == [s EXCEPT !.st = "have", !.sum = clock_summary(log[n]), !.ops = {}, !.more = FALSE]
    <3>1. sess' = [sess EXCEPT ![n] = t]
      BY <1>1, <2>4, ZenonT(60) DEF SendHave, Shape
    <3>2. Good(n, t, log)
      BY <1>1, <2>1, Fields, ClaimsHeld, Zenon DEF Good
    <3> QED
      BY <1>1, <3>1, <3>2, SessionStep, Zenon DEF Shape
  <2> QED
    BY <1>3, <2>2, <2>3, <2>4, Zenon DEF EndBatch
<1> QED
  BY <1>2, <1>3, Zenon

\* The content phase, the end of a session and a broken connection keep the
\* invariant.
LEMMA ContentStep ==
  ASSUME ReplInv, NEW n \in Node,
         AskContent(n) \/ AnswerWant(n) \/ TakeBlobs(n) \/ Bye(n) \/ Break(n)
  PROVE  ReplInv'
<1> DEFINE s == sess[n]
<1>1. Shape /\ Good(n, s, log) /\ log' = log /\ pinned' = pinned
  BY ZenonT(60) DEF ReplInv, AskContent, AnswerWant, TakeBlobs, Bye, Break
<1>2. CASE Bye(n) \/ Break(n)
  BY <1>1, <1>2, IdleGood, SessionStep, Zenon DEF Bye, Break, Shape
<1>3. CASE AskContent(n)
  <2> DEFINE W == missing_chunk_hashes(n)
             t == [s EXCEPT !.st = "done", !.want = {}]
             u == [s EXCEPT !.st = "want", !.want = W]
  <2>1. sess' = [sess EXCEPT ![n] = t] \/ sess' = [sess EXCEPT ![n] = u]
    BY <1>1, <1>3, ZenonT(60) DEF AskContent, Shape
  <2>2. Good(n, t, log) /\ Good(n, u, log)
    <3> HIDE DEF W
    <3> QED BY <1>1, <1>3, Fields, Zenon DEF Good, AskContent
  <2> QED
    BY <1>1, <2>1, <2>2, SessionStep, Zenon DEF Shape
<1>4. CASE AnswerWant(n)
  <2> DEFINE held == s.want \cap blobs[s.peer]
             cap  == ContentCap(s)
             P == {b \in held : Reached(held, b, cap)}
             M == \E b \in s.want : ~Reached(held, b, cap)
             t == [s EXCEPT !.st = "blobs", !.put = P, !.more = M]
  <2>1. sess' = [sess EXCEPT ![n] = t]
    BY <1>1, <1>4, ZenonT(60) DEF AnswerWant, Shape
  <2>2. Good(n, t, log)
    <3> HIDE DEF P, M
    <3> QED BY <1>1, <1>4, Fields, ZenonT(60) DEF Good, AnswerWant
  <2> QED
    BY <1>1, <2>1, <2>2, SessionStep, Zenon DEF Shape
<1>5. CASE TakeBlobs(n)
  <2> DEFINE good == {b \in s.put : <<s.peer, b>> \notin Corrupt}
             st == IF s.more /\ good # {} THEN "content" ELSE "done"
             sum == s.bytes + SizeOf(good)
             t == [s EXCEPT !.st = st, !.bytes = sum, !.put = {}, !.more = FALSE]
  <2>1. sess' = [sess EXCEPT ![n] = t]
    BY <1>1, <1>5, ZenonT(60) DEF TakeBlobs, Shape
  <2>2. st \in {"content", "done"}
    BY SMTT(40)
  <2>3. Good(n, t, log)
    <3> HIDE DEF st, sum
    <3> QED BY <1>1, <1>5, <2>2, Fields, Zenon DEF Good, TakeBlobs
  <2> QED
    BY <1>1, <2>1, <2>3, SessionStep, ZenonT(60) DEF Shape
<1> QED
  BY <1>2, <1>3, <1>4, <1>5, Zenon

\* A new operation is new to everyone, and the logs stay whole.
LEMMA IssueStep ==
  ASSUME ReplInv, NEW n \in Node, Issue(n)
  PROVE  /\ ReplInv'
         /\ \E o \in OpId : Abstract!Issued(n, o)
<1>1. Shape /\ OwnWhole(log)
  BY Zenon DEF ReplInv
<1>2. PICK k \in Nat : CountersOf(log[n], n) = 1 .. k
  BY <1>1, Zenon DEF OwnWhole
<1> DEFINE o == <<n, k + 1>>
<1>3. Cardinality(1 .. k) = k
  BY <1>2, FS_Interval
<1>4. k + 1 <= MaxOwn /\ log' = [log EXCEPT ![n] = @ \cup {o}]
  BY <1>2, <1>3, ZenonT(60) DEF Issue
<1>5. k + 1 \in 1 .. MaxCounter /\ o \in OpId /\ n \in Author
  BY <1>2, <1>4, ReplicationAssumption, ClockAssumption, SMTT(60) DEF OpId
<1>6. \A m \in Node : o \notin log[m]
  <2>1. k + 1 \notin 1 .. k
    BY <1>2
  <2>2. o \notin log[n]
    BY <1>2, <1>5, <2>1, Zenon DEF CountersOf
  <2> QED
    BY <1>1, <2>2, Zenon DEF OwnWhole
<1>7. Abstract!Issued(n, o)
  BY <1>4, <1>6, Zenon DEF Abstract!Issued
<1>8. log' \in [Node -> SUBSET OpId] /\ \A m \in Node : log[m] \subseteq log'[m]
  BY <1>1, <1>4, <1>5, Zenon DEF Shape
<1>9. OwnWhole(log')
  <2>1. CountersOf(log'[n], n) = 1 .. (k + 1)
    <3>1. log'[n] = log[n] \cup {o}
      BY <1>1, <1>4, Zenon DEF Shape
    <3>2. CountersOf(log'[n], n) = CountersOf(log[n], n) \cup {k + 1}
      BY <1>5, <3>1, Zenon DEF CountersOf
    <3> QED
      BY <1>2, <3>2
  <2>2. \A m \in Node \ {n} : log'[m] = log[m]
    BY <1>1, <1>4, Zenon DEF Shape
  <2>3. \A m \in Node : \E j \in Nat : CountersOf(log'[m], m) = 1 .. j
    BY <1>1, <1>2, <2>1, <2>2 DEF OwnWhole
  <2>4. ASSUME NEW m \in Node, NEW q \in Node, NEW p \in log'[q], p[1] = m
        PROVE  p \in log'[m]
    <3>1. p \in log[q] \/ (p = o /\ q = n)
      BY <1>1, <1>4, Zenon DEF Shape
    <3>2. CASE p \in log[q]
      BY <1>1, <1>8, <2>4, <3>2, Zenon DEF OwnWhole
    <3>3. CASE p = o /\ q = n
      BY <2>4, <3>3, Zenon
    <3> QED
      BY <3>1, <3>2, <3>3, Zenon
  <2> QED
    BY <2>3, <2>4, Zenon DEF OwnWhole
<1>10. \A m \in Node : Good(m, sess[m], log')
  BY <1>8, GoodGrows, Zenon DEF ReplInv
<1>11. ReplInv'
  BY <1>1, <1>8, <1>9, <1>10, Zenon DEF ReplInv, Shape, Issue, OwnWhole
<1> QED
  BY <1>5, <1>7, <1>11, Zenon

\* Applying an operation of a batch takes it from the peer's log or, when it is
\* refused, changes no log.
LEMMA ApplyStep ==
  ASSUME ReplInv, NEW n \in Node, ApplyNext(n)
  PROVE  /\ ReplInv'
         /\ log' = log \/ \E m \in Node, o \in OpId : Abstract!Taken(n, m, o)
<1> DEFINE s == sess[n]
           m == s.peer
           o == NextOp(s.ops)
           t == [s EXCEPT !.ops = @ \ {o}]
<1>1. Shape /\ OwnWhole(log) /\ Good(n, s, log)
  BY Zenon DEF ReplInv
<1>2. s.st = "ops" /\ s.ops # {} /\ m \in Node /\ s.ops \subseteq log[m] /\ log[m] \subseteq OpId
  BY <1>1, Zenon DEF ApplyNext, Good, Shape
<1>3. o \in s.ops /\ o \in OpId /\ o \in log[m]
  <2>1. s.ops \subseteq OpId
    BY <1>2, Zenon
  <2> QED
    BY <1>2, <2>1, NextOpIn, Zenon
<1>4. /\ \/ <<n, o>> \in Refused /\ log' = log
         \/ <<n, o>> \notin Refused /\ log' = [log EXCEPT ![n] = @ \cup {o}]
      /\ sess' = [sess EXCEPT ![n] = t]
  BY <1>1, Zenon DEF ApplyNext, Keeps, Shape
<1>5. /\ log' \in [Node -> SUBSET OpId]
      /\ \A q \in Node : log[q] \subseteq log'[q]
      /\ \A q \in Node : \A p \in log'[q] : p \in log[q] \/ (q = n /\ p = o)
  BY <1>1, <1>3, <1>4 DEF Shape
<1>6. OwnWhole(log')
  <2>1. ASSUME NEW q \in Node PROVE CountersOf(log'[q], q) = CountersOf(log[q], q)
    <3>1. \A c \in 1 .. MaxCounter : <<q, c>> \in log'[q] => <<q, c>> \in log[q]
      <4>1. o[1] = n => o \in log[n]
        BY <1>1, <1>2, <1>3, Zenon DEF OwnWhole
      <4> QED
        BY <1>5, <4>1
    <3> QED
      BY <1>5, <3>1, Zenon DEF CountersOf
  <2>2. ASSUME NEW r \in Node, NEW q \in Node, NEW p \in log'[q], p[1] = r
        PROVE  p \in log'[r]
    <3>1. p \in log[q] \/ p \in log[m]
      BY <1>3, <1>5, Zenon
    <3> QED
      BY <1>1, <1>2, <1>5, <2>2, <3>1, Zenon DEF OwnWhole
  <2> QED
    BY <1>1, <2>1, <2>2, Zenon DEF OwnWhole
<1>7. Good(n, t, log')
  <2>1. Good(n, s, log')
    BY <1>1, <1>5, GoodGrows, Zenon
  <2>2. o \in log'[n] \/ <<n, o>> \in Refused
    BY <1>1, <1>4, Zenon DEF Shape
  <2>3. /\ DOMAIN t = DOMAIN Idle /\ t.sum = s.sum /\ t.st = s.st /\ t.peer = s.peer
        /\ t.ops = s.ops \ {o} /\ t.more = s.more /\ t.seen = s.seen /\ t.end = s.end
    BY <1>1, Fields, Zenon DEF Good
  <2> HIDE DEF t, o
  <2> QED BY <2>1, <2>2, <2>3, Zenon DEF Good
<1>8. \A q \in Node : Good(q, sess'[q], log')
  <2>1. \A q \in Node \ {n} : sess'[q] = sess[q]
    BY <1>1, <1>4, Zenon DEF Shape
  <2>2. sess'[n] = t
    BY <1>1, <1>4, Zenon DEF Shape
  <2>3. \A q \in Node : Good(q, sess[q], log')
    BY <1>5, GoodGrows, Zenon DEF ReplInv
  <2> HIDE DEF t
  <2> QED BY <1>7, <2>1, <2>2, <2>3, Zenon
<1>9. DOMAIN sess' = Node /\ pinned' = pinned
  BY <1>1, <1>4, Zenon DEF Shape, ApplyNext
<1>10. ReplInv'
  BY <1>1, <1>5, <1>6, <1>8, <1>9, Zenon DEF ReplInv, Shape, OwnWhole
<1>11. log' = log \/ Abstract!Taken(n, m, o)
  BY <1>3, <1>4, Zenon DEF Abstract!Taken
<1> HIDE DEF o
<1> QED
  BY <1>2, <1>3, <1>10, <1>11, Zenon

\* Every step keeps the invariant.
LEMMA ReplStep == ReplInv /\ [Next]_vars => ReplInv'
<1> SUFFICES ASSUME ReplInv, [Next]_vars PROVE ReplInv'
  BY Zenon
<1>1. CASE UNCHANGED vars
  BY <1>1, Zenon DEF vars, ReplInv, Shape, OwnWhole
<1>2. ASSUME NEW n \in Node, NewIdentity(n) \/ \E m \in Node : Rotate(n, m) \/ Revoke(n, m)
      PROVE  ReplInv'
  BY <1>2 DEF NewIdentity, Rotate, Revoke, ReplInv, Shape, OwnWhole
<1>3. ASSUME NEW n \in Node, Issue(n) PROVE ReplInv'
  BY <1>3, IssueStep, Zenon
<1>4. ASSUME NEW n \in Node, Step(n) \/ Break(n) \/ \E m \in Node : Dial(n, m) PROVE ReplInv'
  BY <1>4, HandshakeStep, AnswerHaveStep, BatchStep, ApplyStep, ContentStep, Zenon DEF Step
<1> QED
  BY <1>1, <1>2, <1>3, <1>4, Zenon DEF Next

-----------------------------------------------------------------------------
(* Types *)

\* A summary has its type.
LEMMA SummaryType == \A L : clock_summary(L) \in Summary
<1> SUFFICES ASSUME NEW L PROVE clock_summary(L) \in Summary
  BY Zenon
<1>1. \A d \in Author : Contiguous(L, d) \in 0 .. MaxCounter
  BY MarkExact, Zenon
<1>2. \A d \in Author : HeldAbove(L, d) \in SUBSET (1 .. MaxCounter)
  BY Zenon DEF HeldAbove, FirstCounters, CountersOf
<1> QED
  BY <1>1, <1>2, Zenon DEF clock_summary, Summary

\* A session that is not running has its type.
LEMMA IdleType == Idle \in Session
<1>1. NoSummary \in Summary
  BY ClockAssumption DEF NoSummary, Summary
<1>2. 0 \in 0 .. MaxKey /\ 0 \in 0 .. MaxPerSession
  BY ReplicationAssumption
<1> QED
  BY <1>1, <1>2, Zenon DEF Idle, Session, Stages

\* What the types need from the parts of a state.
Tables ==
  /\ blobs \in [Node -> SUBSET Blob]
  /\ key \in [Node -> 1 .. MaxKey]
  /\ pinned \in [Node -> [Node -> 0 .. MaxKey]]
  /\ faults \in 0 .. MaxFaults

TypeInv == Tables /\ sess \in [Node -> Session]

\* Authorising a key keeps the table of keys.
LEMMA AuthorizeType ==
  ASSUME pinned \in [Node -> [Node -> 0 .. MaxKey]], NEW n \in Node, NEW m \in Node,
         NEW k \in 0 .. MaxKey, authorize(n, m, k)
  PROVE  pinned' \in [Node -> [Node -> 0 .. MaxKey]]
  BY Zenon DEF authorize

\* The types hold of the first state.
LEMMA TypeInit == Init => TypeInv
<1>1. MaxKey \in Nat \ {0} /\ MaxFaults \in Nat
  BY ReplicationAssumption, Zenon
<1> QED
  BY <1>1, IdleType, ReplicationAssumption DEF Init, TypeInv, Tables

\* A handshake keeps the types.
LEMMA HandshakeType ==
  ASSUME ReplInv, TypeInv, NEW n \in Node,
         (\E m \in Node : Dial(n, m)) \/ AcceptHello(n) \/ RefuseHello(n) \/ TakeAck(n) \/ RejectAck(n)
  PROVE  TypeInv'
<1> DEFINE s == sess[n]
<1>1. /\ s \in Session /\ sess \in [Node -> Session] /\ Tables /\ Good(n, s, log)
      /\ MaxKey \in Nat
  BY ReplicationAssumption, Zenon DEF TypeInv, ReplInv
<1>2. ASSUME NEW m \in Node, Dial(n, m) PROVE TypeInv'
  <2>1. PICK lim \in Limits : sess' = [sess EXCEPT ![n] = [Idle EXCEPT !.st = "hello", !.peer = m,
                                                                      !.key = key[n], !.lim = lim]]
    BY <1>2, Zenon DEF Dial
  <2>2. key[n] \in 0 .. MaxKey
    BY <1>1 DEF Tables
  <2>3. [Idle EXCEPT !.st = "hello", !.peer = m, !.key = key[n], !.lim = lim] \in Session
    BY <2>2, IdleType, Zenon DEF Session, Stages
  <2>4. sess' \in [Node -> Session]
    BY <1>1, <2>1, <2>3, Zenon
  <2> QED
    BY <1>1, <1>2, <2>4, Zenon DEF Dial, TypeInv, Tables
<1>3. CASE AcceptHello(n)
  <2> DEFINE t == [s EXCEPT !.st = "acked", !.key = key[s.peer]]
  <2>1. sess' = [sess EXCEPT ![n] = t]
    BY <1>1, <1>3, ZenonT(60) DEF AcceptHello
  <2>2. s.peer \in Node /\ key[s.peer] \in 0 .. MaxKey /\ s.key \in 0 .. MaxKey
    BY <1>1, <1>3 DEF AcceptHello, Good, Tables, Session
  <2>3. t \in Session
    BY <1>1, <2>2, Zenon DEF Session, Stages
  <2>4. pinned' \in [Node -> [Node -> 0 .. MaxKey]]
    BY <1>1, <1>3, <2>2, AuthorizeType, Zenon DEF AcceptHello, Tables
  <2>5. sess' \in [Node -> Session]
    BY <1>1, <2>1, <2>3, Zenon
  <2> QED
    BY <1>1, <1>3, <2>4, <2>5, Zenon DEF AcceptHello, TypeInv, Tables
<1>4. CASE RefuseHello(n) \/ RejectAck(n)
  <2>1. sess' \in [Node -> Session]
    BY <1>1, <1>4, IdleType, Zenon DEF RefuseHello, RejectAck
  <2> QED
    BY <1>1, <1>4, <2>1, Zenon DEF RefuseHello, RejectAck, TypeInv, Tables
<1>5. CASE TakeAck(n)
  <2> DEFINE t == [s EXCEPT !.st = "have", !.sum = clock_summary(log[n]), !.ops = {}, !.more = FALSE]
  <2>1. sess' = [sess EXCEPT ![n] = t]
    BY <1>1, <1>5, ZenonT(60) DEF TakeAck, SendHave
  <2>2. s.peer \in Node /\ s.key \in 0 .. MaxKey
    BY <1>1, <1>5, Zenon DEF TakeAck, Good, Session
  <2>3. t \in Session
    BY <1>1, SummaryType, Zenon DEF Session, Stages
  <2>4. pinned' \in [Node -> [Node -> 0 .. MaxKey]]
    BY <1>1, <1>5, <2>2, AuthorizeType, Zenon DEF TakeAck, Tables
  <2>5. sess' \in [Node -> Session]
    BY <1>1, <2>1, <2>3, Zenon
  <2> QED
    BY <1>1, <1>5, <2>4, <2>5, Zenon DEF TakeAck, TypeInv, Tables
<1> QED
  BY <1>2, <1>3, <1>4, <1>5, Zenon

\* The operation phase keeps the types; a session takes no more than
\* MAX_OPS_PER_SESSION operations.
LEMMA OperationType ==
  ASSUME ReplInv, TypeInv, NEW n \in Node,
         AnswerHave(n) \/ TakeBatch(n) \/ ApplyNext(n) \/ EndBatch(n)
  PROVE  TypeInv'
<1> DEFINE s == sess[n]
<1>1. /\ s \in Session /\ sess \in [Node -> Session] /\ Tables /\ Good(n, s, log)
      /\ MaxPerSession \in Nat
  BY ReplicationAssumption, Zenon DEF TypeInv, ReplInv
<1>2. Tables'
  BY <1>1, ZenonT(60) DEF Tables, AnswerHave, TakeBatch, ApplyNext, EndBatch
<1> SUFFICES sess' \in [Node -> Session]
  BY <1>2, Zenon DEF TypeInv
<1>3. CASE AnswerHave(n)
  <2> DEFINE B == ops_missing_for(log[s.peer], s.sum, Batch)
             t == [s EXCEPT !.st = "batch", !.ops = B, !.more = IsMore(B), !.seen = log[s.peer]]
  <2>1. sess' = [sess EXCEPT ![n] = t]
    BY <1>1, <1>3, ZenonT(60) DEF AnswerHave
  <2>2. log[s.peer] \subseteq OpId /\ B \subseteq OpId
    BY <1>1, <1>3, Zenon DEF ReplInv, Shape, AnswerHave, Good, ops_missing_for, FirstOps
  <2>3. IsMore(B) \in BOOLEAN
    BY Zenon DEF IsMore
  <2> HIDE DEF B
  <2>4. t \in Session
    BY <1>1, <2>2, <2>3, Zenon DEF Session, Stages
  <2> QED
    BY <1>1, <2>1, <2>4, Zenon
<1>4. CASE TakeBatch(n)
  <2> DEFINE got == s.got + Cardinality(s.ops)
             t == [s EXCEPT !.st = "ops", !.got = got]
  <2>1. \/ sess' = [sess EXCEPT ![n] = Idle]
        \/ ~(got > MaxPerSession) /\ sess' = [sess EXCEPT ![n] = t]
    BY <1>1, <1>4, ZenonT(60) DEF TakeBatch
  <2>2. s.got \in Nat /\ Cardinality(s.ops) \in Nat
    BY <1>1, OpIdFacts, FS_Subset, FS_CardinalityType DEF Session
  <2>3. ~(got > MaxPerSession) => got \in 0 .. MaxPerSession
    BY <1>1, <2>2
  <2> HIDE DEF got
  <2>4. got \in 0 .. MaxPerSession => t \in Session
    BY <1>1, Zenon DEF Session, Stages
  <2> QED
    BY <1>1, <2>1, <2>3, <2>4, IdleType, Zenon
<1>5. CASE ApplyNext(n)
  <2> DEFINE o == NextOp(s.ops)
             t == [s EXCEPT !.ops = @ \ {o}]
  <2>1. sess' = [sess EXCEPT ![n] = t]
    BY <1>1, <1>5, ZenonT(60) DEF ApplyNext
  <2> HIDE DEF o
  <2>2. t \in Session
    BY <1>1, Zenon DEF Session
  <2> QED
    BY <1>1, <2>1, <2>2, Zenon
<1>6. CASE EndBatch(n)
  <2> DEFINE w == [s EXCEPT !.st = "content", !.end = "whole"]
             k == [s EXCEPT !.st = "content", !.end = "stuck"]
             t == [s EXCEPT !.st = "have", !.sum = clock_summary(log[n]), !.ops = {}, !.more = FALSE]
  <2>1. \/ sess' = [sess EXCEPT ![n] = w]
        \/ sess' = [sess EXCEPT ![n] = k]
        \/ sess' = [sess EXCEPT ![n] = t]
    <3>1. \/ sess' = [sess EXCEPT ![n].st = "content", ![n].end = "whole"]
          \/ sess' = [sess EXCEPT ![n].st = "content", ![n].end = "stuck"]
          \/ SendHave(n)
      BY <1>6, ZenonT(60) DEF EndBatch
    <3> QED
      BY <1>1, <3>1, ZenonT(60) DEF SendHave
  <2>2. w \in Session /\ k \in Session /\ t \in Session
    BY <1>1, SummaryType, ZenonT(60) DEF Session, Stages
  <2> QED
    BY <1>1, <2>1, <2>2, Zenon
<1> QED
  BY <1>3, <1>4, <1>5, <1>6, Zenon

-----------------------------------------------------------------------------
(* Content and its budget *)

\* The bytes of a set of blobs.
Bytes(S) == UNION {{b} \X (1 .. Size[b]) : b \in S}

\* A set of blobs has a length; a blob more adds its own.
LEMMA SizeFacts ==
  ASSUME NEW S \in SUBSET Blob
  PROVE  /\ SizeOf(S) \in Nat
         /\ SizeOf({}) = 0
         /\ \A T \in SUBSET S : SizeOf(T) <= SizeOf(S)
         /\ \A b \in Blob : SizeOf(S \cup {b}) <= SizeOf(S) + Size[b]
<1>1. /\ IsFiniteSet(Blob) /\ Size \in [Blob -> Nat \ {0}]
      /\ \A T : SizeOf(T) = Cardinality(Bytes(T))
  BY ReplicationAssumption, Zenon DEF SizeOf, Bytes
<1>2. ASSUME NEW b \in Blob
      PROVE  IsFiniteSet({b} \X (1 .. Size[b])) /\ Cardinality({b} \X (1 .. Size[b])) = Size[b]
  <2>1. Size[b] \in Nat
    BY <1>1, Zenon
  <2> DEFINE k == Size[b]
  <2>2. IsFiniteSet(1 .. k) /\ Cardinality(1 .. k) = k
    <3> HIDE DEF k
    <3>1. k \in Nat
      BY <2>1, Zenon DEF k
    <3> QED
      BY <3>1, FS_Interval
  <2>3. IsFiniteSet({b}) /\ Cardinality({b}) = 1
    BY FS_Singleton, Zenon
  <2>4. /\ IsFiniteSet({b} \X (1 .. Size[b]))
        /\ Cardinality({b} \X (1 .. Size[b])) = Cardinality({b}) * Cardinality(1 .. Size[b])
    BY <2>2, <2>3, FS_Product, Zenon
  <2> QED
    BY <2>1, <2>2, <2>3, <2>4
<1>3. IsFiniteSet(Bytes(S))
  <2> DEFINE F == {{b} \X (1 .. Size[b]) : b \in S}
  <2>1. IsFiniteSet(S)
    BY <1>1, FS_Subset, Zenon
  <2>2. IsFiniteSet(F)
    <3> DEFINE g == [b \in S |-> {b} \X (1 .. Size[b])]
    <3>1. g \in Surjection(S, F)
      BY Zenon DEF Surjection
    <3> HIDE DEF g, F
    <3> QED
      BY <2>1, <3>1, FS_Surjection, Zenon
  <2>3. \A X \in F : IsFiniteSet(X)
    BY <1>2, Zenon
  <2>4. Bytes(S) = UNION F
    BY Zenon DEF Bytes
  <2> HIDE DEF F
  <2>5. IsFiniteSet(UNION F)
    BY <2>2, <2>3, FS_UNION, Zenon
  <2> QED
    BY <2>4, <2>5, Zenon
<1>4. SizeOf(S) \in Nat
  BY <1>1, <1>3, FS_CardinalityType, Zenon
<1>5. SizeOf({}) = 0
  <2>1. Bytes({}) = {}
    BY Zenon DEF Bytes
  <2> QED
    BY <1>1, <2>1, FS_EmptySet, Zenon
<1>6. ASSUME NEW T \in SUBSET S PROVE SizeOf(T) <= SizeOf(S)
  <2>1. Bytes(T) \subseteq Bytes(S)
    BY Zenon DEF Bytes
  <2> QED
    BY <1>1, <1>3, <2>1, FS_Subset, Zenon
<1>7. ASSUME NEW b \in Blob PROVE SizeOf(S \cup {b}) <= SizeOf(S) + Size[b]
  <2> DEFINE X == {b} \X (1 .. Size[b])
  <2>1. Bytes(S \cup {b}) = Bytes(S) \cup X
    BY Zenon DEF Bytes
  <2>2. IsFiniteSet(X) /\ Cardinality(X) = Size[b] /\ Size[b] \in Nat
    BY <1>1, <1>2, Zenon
  <2> HIDE DEF X
  <2>3. /\ Cardinality(Bytes(S) \cup X) =
             Cardinality(Bytes(S)) + Cardinality(X) - Cardinality(Bytes(S) \cap X)
    BY <1>3, <2>2, FS_Union, Zenon
  <2>4. Cardinality(Bytes(S) \cap X) \in Nat /\ Cardinality(Bytes(S)) \in Nat
    BY <1>3, FS_Subset, FS_CardinalityType, Zenon
  <2>5. Cardinality(Bytes(S) \cup X) <= Cardinality(Bytes(S)) + Size[b]
    BY <2>2, <2>3, <2>4
  <2> QED
    BY <1>1, <2>1, <2>5, Zenon
<1> QED
  BY <1>4, <1>5, <1>6, <1>7, Zenon

\* The responder stops at the first blob it does not reach, so what it sends
\* passes the cap by less than the last blob of it.
LEMMA TakenWithin ==
  ASSUME NEW H \in SUBSET Blob, NEW cap \in Int
  PROVE  LET P == {b \in H : Reached(H, b, cap)}
         IN  P = {} \/ \E b \in Blob : SizeOf(P) < cap + Size[b]
<1> DEFINE P == {b \in H : Reached(H, b, cap)}
<1> SUFFICES ASSUME P # {} PROVE \E b \in Blob : SizeOf(P) < cap + Size[b]
  BY Zenon
<1>1. Blob \subseteq Nat /\ IsFiniteSet(Blob) /\ Size \in [Blob -> Nat \ {0}]
  BY ReplicationAssumption, Zenon
<1>2. PICK k \in Nat : \A b \in Blob : b <= k
  BY <1>1, FiniteBounded, Zenon
<1>3. PICK g \in P : \A b \in P : b <= g
  <2>1. P \subseteq Nat /\ \A b \in P : b <= k
    BY <1>1, <1>2, Zenon
  <2> HIDE DEF P
  <2> QED
    BY <1>2, <2>1, GreatestNatural, Zenon
<1> DEFINE B == {a \in H : a < g}
<1>4. g \in Blob /\ B \in SUBSET Blob /\ SizeOf(B) < cap /\ P \subseteq Blob
  BY <1>3, Zenon DEF Reached
<1>5. P \subseteq B \cup {g}
  <2>1. ASSUME NEW b \in P PROVE b \in H /\ (b = g \/ b < g)
    BY <1>1, <1>3, <1>4
  <2> QED
    BY <2>1, Zenon
<1>6. SizeOf(B) \in Nat /\ SizeOf(B \cup {g}) <= SizeOf(B) + Size[g]
  BY <1>4, SizeFacts, Zenon
<1>7. SizeOf(B \cup {g}) \in Nat /\ SizeOf(P) <= SizeOf(B \cup {g}) /\ SizeOf(P) \in Nat
  <2>1. B \cup {g} \in SUBSET Blob /\ P \in SUBSET (B \cup {g}) /\ P \in SUBSET Blob
    BY <1>4, <1>5, Zenon
  <2> HIDE DEF B, P
  <2> QED
    BY <2>1, SizeFacts, Zenon
<1>8. Size[g] \in Nat
  BY <1>1, <1>4, Zenon
<1> HIDE DEF B, P
<1>9. SizeOf(P) < cap + Size[g]
  BY <1>4, <1>6, <1>7, <1>8
<1> QED
  BY <1>4, <1>9, Zenon

\* The cap of a request is no more than what is left of the budget.
LEMMA CapBelow ==
  ASSUME NEW a \in Int, NEW b \in Int
  PROVE  Min({a, b}) \in Int /\ Min({a, b}) <= b
<1>1. \E x \in {a, b} : \A y \in {a, b} : x <= y
  <2>1. CASE a <= b
    BY <2>1
  <2>2. CASE b <= a
    BY <2>2
  <2> QED
    BY <2>1, <2>2
<1> QED
  BY <1>1, Zenon DEF Min

\* A session asks for content only below its ceiling, and what is on its way
\* or was taken passes the ceiling by less than one blob.
WithinBudget(s) ==
  /\ s.st \in {"want", "blobs"} => s.bytes < s.lim.max
  /\ s.st = "blobs" =>
       s.put = {} \/ \E b \in Blob : SizeOf(s.put) < (s.lim.max - s.bytes) + Size[b]
  /\ s.bytes > 0 => \E b \in Blob : s.bytes < s.lim.max + Size[b]

BudgetInv == \A n \in Node : WithinBudget(sess[n])

\* A session that has not begun has spent nothing.
LEMMA IdleWithin == WithinBudget(Idle)
  BY DEF WithinBudget, Idle

\* The numbers of a session.
LEMMA SessionNumbers ==
  ASSUME NEW s \in Session
  PROVE  s.bytes \in Nat /\ s.lim.max \in Nat /\ s.put \in SUBSET Blob /\ s.want \in SUBSET Blob
<1>1. s.lim \in Limits \cup {NoLimits} /\ s.bytes \in Nat /\ s.put \in SUBSET Blob /\ s.want \in SUBSET Blob
  BY Zenon DEF Session
<1>2. s.lim.max \in Nat
  BY <1>1, ReplicationAssumption DEF NoLimits
<1> QED
  BY <1>1, <1>2, Zenon

\* The content phase keeps the types and the budget.
LEMMA ContentType ==
  ASSUME ReplInv, TypeInv, BudgetInv, NEW n \in Node,
         AskContent(n) \/ AnswerWant(n) \/ TakeBlobs(n)
  PROVE  TypeInv' /\ BudgetInv'
<1> DEFINE s == sess[n]
<1>1. /\ s \in Session /\ sess \in [Node -> Session] /\ Tables /\ Good(n, s, log)
      /\ WithinBudget(s) /\ Shape
  BY Zenon DEF TypeInv, ReplInv, BudgetInv
<1>2. s.bytes \in Nat /\ s.lim.max \in Nat /\ s.put \in SUBSET Blob /\ s.want \in SUBSET Blob
  BY <1>1, SessionNumbers, Zenon
<1>3. key' = key /\ pinned' = pinned /\ faults' = faults
  BY ZenonT(60) DEF AskContent, AnswerWant, TakeBlobs
<1>4. ASSUME NEW t, sess' = [sess EXCEPT ![n] = t], t \in Session, WithinBudget(t),
             blobs' \in [Node -> SUBSET Blob]
      PROVE  TypeInv' /\ BudgetInv'
  <2>1. sess' \in [Node -> Session] /\ \A m \in Node : sess'[m] = IF m = n THEN t ELSE sess[m]
    BY <1>1, <1>4, Zenon
  <2>2. Tables'
    BY <1>1, <1>3, <1>4, Zenon DEF Tables
  <2> QED
    BY <1>4, <2>1, <2>2, Zenon DEF TypeInv, BudgetInv
<1>5. CASE AskContent(n)
  <2> DEFINE W == missing_chunk_hashes(n)
             t == [s EXCEPT !.st = "done", !.want = {}]
             u == [s EXCEPT !.st = "want", !.want = W]
  <2>1. \/ sess' = [sess EXCEPT ![n] = t]
        \/ ~(s.bytes >= s.lim.max) /\ sess' = [sess EXCEPT ![n] = u]
    BY <1>1, <1>5, ZenonT(60) DEF AskContent
  <2>2. W \in SUBSET Blob
    <3>1. \A o \in log[n] : Needs[o] \subseteq Blob
      BY <1>1, ReplicationAssumption, Zenon DEF Shape
    <3> QED
      BY <3>1, Zenon DEF missing_chunk_hashes
  <2>3. blobs' \in [Node -> SUBSET Blob]
    BY <1>1, <1>5, Zenon DEF AskContent, Tables
  <2> HIDE DEF W
  <2>4. t \in Session /\ u \in Session
    BY <1>1, <2>2, Zenon DEF Session, Stages
  <2>5. /\ t.bytes = s.bytes /\ t.lim = s.lim /\ t.st = "done"
        /\ u.bytes = s.bytes /\ u.lim = s.lim /\ u.st = "want"
    BY <1>1, Zenon DEF Session
  <2> HIDE DEF t, u
  <2>6. WithinBudget(t) /\ (~(s.bytes >= s.lim.max) => WithinBudget(u))
    BY <1>1, <1>2, <2>5 DEF WithinBudget
  <2> QED
    BY <1>4, <2>1, <2>3, <2>4, <2>6, Zenon
<1>6. CASE AnswerWant(n)
  <2> DEFINE held == s.want \cap blobs[s.peer]
             cap  == ContentCap(s)
             P == {b \in held : Reached(held, b, cap)}
             M == \E b \in s.want : ~Reached(held, b, cap)
             t == [s EXCEPT !.st = "blobs", !.put = P, !.more = M]
  <2>1. sess' = [sess EXCEPT ![n] = t] /\ s.st = "want"
    BY <1>1, <1>6, ZenonT(60) DEF AnswerWant
  <2>2. held \in SUBSET Blob /\ P \in SUBSET Blob /\ M \in BOOLEAN
    BY <1>2, Zenon
  <2>3. cap \in Int /\ cap <= s.lim.max - s.bytes
    <3>1. BlobBatch \in Int /\ s.lim.max - s.bytes \in Int
      BY <1>2, ReplicationAssumption, SMTT(60)
    <3> QED
      BY <3>1, CapBelow, Zenon DEF ContentCap
  <2>4. P = {} \/ \E b \in Blob : SizeOf(P) < cap + Size[b]
    <3> HIDE DEF held, cap
    <3> QED
      BY <2>2, <2>3, TakenWithin, Zenon
  <2>5. blobs' \in [Node -> SUBSET Blob]
    BY <1>1, <1>6, Zenon DEF AnswerWant, Tables
  <2>6. SizeOf(P) \in Nat /\ \A b \in Blob : Size[b] \in Nat
    BY <2>2, SizeFacts, ReplicationAssumption, Zenon
  <2> HIDE DEF P, M, held, cap
  <2>7. t \in Session
    BY <1>1, <2>2, Zenon DEF Session, Stages
  <2>8. t.bytes = s.bytes /\ t.lim = s.lim /\ t.st = "blobs" /\ t.put = P
    BY <1>1, Zenon DEF Session
  <2> HIDE DEF t
  <2>9. t.put = {} \/ \E b \in Blob : SizeOf(t.put) < (t.lim.max - t.bytes) + Size[b]
    BY <1>2, <2>3, <2>4, <2>6, <2>8
  <2>10. WithinBudget(t)
    BY <1>1, <2>1, <2>8, <2>9, Zenon DEF WithinBudget
  <2> QED
    BY <1>4, <2>1, <2>5, <2>7, <2>10, Zenon
<1>7. CASE TakeBlobs(n)
  <2> DEFINE good == {b \in s.put : <<s.peer, b>> \notin Corrupt}
             st == IF s.more /\ good # {} THEN "content" ELSE "done"
             z == SizeOf(good)
             w == s.bytes + z
             t == [s EXCEPT !.st = st, !.bytes = w, !.put = {}, !.more = FALSE]
  <2>1. sess' = [sess EXCEPT ![n] = t] /\ s.st = "blobs" /\ blobs' = [blobs EXCEPT ![n] = @ \cup good]
    BY <1>1, <1>7, ZenonT(60) DEF TakeBlobs
  <2>2. st \in {"content", "done"} /\ good \in SUBSET s.put /\ good \in SUBSET Blob
    BY <1>2, Zenon
  <2>3. z \in Nat /\ z <= SizeOf(s.put) /\ SizeOf(s.put) \in Nat /\ (s.put = {} => z = 0)
    <3> HIDE DEF good
    <3> QED
      BY <1>2, <2>2, SizeFacts, Zenon
  <2>4. blobs' \in [Node -> SUBSET Blob]
    BY <1>1, <2>1, <2>2, Zenon DEF Tables
  <2>5. \A b \in Blob : Size[b] \in Nat
    BY ReplicationAssumption, Zenon
  <2> HIDE DEF z, st, good
  <2>a. w \in Nat
    BY <1>2, <2>3
  <2> HIDE DEF w
  <2>6. t \in Session
    BY <1>1, <2>2, <2>a, Zenon DEF Session, Stages
  <2>b. t.bytes = w /\ t.lim = s.lim /\ t.st = st
    BY <1>1, Zenon DEF Session
  <2>7. t.bytes = s.bytes + z /\ t.lim = s.lim /\ t.st = st
    BY <2>b, Zenon DEF w
  <2> HIDE DEF t
  <2>8. t.bytes > 0 => \E b \in Blob : t.bytes < t.lim.max + Size[b]
    <3>1. CASE s.put = {}
      BY <1>1, <1>2, <2>3, <2>7, <3>1, SMTT(60) DEF WithinBudget
    <3>2. CASE \E b \in Blob : SizeOf(s.put) < (s.lim.max - s.bytes) + Size[b]
      BY <1>2, <2>3, <2>5, <2>7, <3>2
    <3> QED
      BY <1>1, <2>1, <3>1, <3>2, Zenon DEF WithinBudget
  <2>9. WithinBudget(t)
    BY <2>2, <2>7, <2>8, Zenon DEF WithinBudget
  <2> QED
    BY <1>4, <2>1, <2>4, <2>6, <2>9, Zenon
<1> QED
  BY <1>5, <1>6, <1>7, Zenon

\* Before the content phase nothing is asked for or on its way, and what was
\* taken stays.
LEMMA BeforeContent ==
  ASSUME TypeInv, BudgetInv, NEW n \in Node,
         \/ (\E m \in Node : Dial(n, m)) \/ AcceptHello(n) \/ RefuseHello(n)
         \/ TakeAck(n) \/ RejectAck(n) \/ AnswerHave(n) \/ TakeBatch(n) \/ ApplyNext(n)
         \/ EndBatch(n) \/ Bye(n) \/ Break(n)
  PROVE  BudgetInv'
<1> DEFINE s == sess[n]
           t == sess'[n]
<1>1. /\ s \in Session /\ sess \in [Node -> Session] /\ WithinBudget(s) /\ WithinBudget(Idle)
      /\ \A m \in Node : WithinBudget(sess[m])
  BY IdleWithin, Zenon DEF TypeInv, BudgetInv
<1>2. ASSUME t.st \notin {"want", "blobs"}, t.bytes = s.bytes, t.lim = s.lim
      PROVE  WithinBudget(t)
  BY <1>1, <1>2, Zenon DEF WithinBudget
<1>3. \A m \in Node \ {n} : sess'[m] = sess[m]
  BY <1>1, Zenon DEF Dial, AcceptHello, RefuseHello, TakeAck, RejectAck, SendHave, AnswerHave, TakeBatch,
     ApplyNext, EndBatch, Bye, Break
<1> SUFFICES WithinBudget(t)
  BY <1>1, <1>3, Zenon DEF BudgetInv
<1>4. ASSUME NEW m \in Node, Dial(n, m) PROVE WithinBudget(t)
  <2>1. PICK lim \in Limits : t = [Idle EXCEPT !.st = "hello", !.peer = m, !.key = key[n], !.lim = lim]
    BY <1>1, <1>4, Zenon DEF Dial
  <2>2. t.st = "hello" /\ t.bytes = 0
    BY <2>1, Zenon DEF Idle
  <2> QED
    BY <2>2 DEF WithinBudget
<1>5. CASE RefuseHello(n) \/ RejectAck(n) \/ Bye(n) \/ Break(n)
  <2>1. t = Idle
    BY <1>1, <1>5, Zenon DEF RefuseHello, RejectAck, Bye, Break
  <2> QED
    BY <1>1, <2>1, Zenon
<1>6. CASE AcceptHello(n)
  <2>1. t = [s EXCEPT !.st = "acked", !.key = key[s.peer]]
    BY <1>1, <1>6, Zenon DEF AcceptHello
  <2> QED
    BY <1>1, <1>2, <2>1, Zenon DEF Session
<1>7. CASE SendHave(n)
  <2>1. t = [s EXCEPT !.st = "have", !.sum = clock_summary(log[n]), !.ops = {}, !.more = FALSE]
    BY <1>1, <1>7, Zenon DEF SendHave
  <2> QED
    BY <1>1, <1>2, <2>1 DEF Session
<1>8. CASE AnswerHave(n)
  <2> DEFINE B == ops_missing_for(log[s.peer], s.sum, Batch)
             M == IsMore(B)
  <2>1. t = [s EXCEPT !.st = "batch", !.ops = B, !.more = M, !.seen = log[s.peer]]
    BY <1>1, <1>8, ZenonT(60) DEF AnswerHave
  <2> HIDE DEF B, M
  <2> QED
    BY <1>1, <1>2, <2>1 DEF Session
<1>9. CASE TakeBatch(n)
  <2> DEFINE g == s.got + Cardinality(s.ops)
  <2>1. t = Idle \/ t = [s EXCEPT !.st = "ops", !.got = g]
    BY <1>1, <1>9, Zenon DEF TakeBatch
  <2> HIDE DEF g
  <2>2. CASE t = [s EXCEPT !.st = "ops", !.got = g]
    BY <1>1, <1>2, <2>2, Zenon DEF Session
  <2> QED
    BY <1>1, <2>1, <2>2, Zenon
<1>10. CASE ApplyNext(n)
  <2> DEFINE o == s.ops \ {NextOp(s.ops)}
  <2>1. t = [s EXCEPT !.ops = o] /\ s.st = "ops"
    BY <1>1, <1>10, Zenon DEF ApplyNext
  <2> HIDE DEF o
  <2> QED
    BY <1>1, <1>2, <2>1, Zenon DEF Session
<1>11. CASE EndBatch(n)
  <2>1. \/ t = [s EXCEPT !.st = "content", !.end = "whole"]
        \/ t = [s EXCEPT !.st = "content", !.end = "stuck"]
        \/ SendHave(n)
    BY <1>1, <1>11, Zenon DEF EndBatch
  <2>2. CASE t = [s EXCEPT !.st = "content", !.end = "whole"] \/ t = [s EXCEPT !.st = "content", !.end = "stuck"]
    BY <1>1, <1>2, <2>2, Zenon DEF Session
  <2> QED
    BY <1>7, <2>1, <2>2, Zenon
<1> QED
  BY <1>4, <1>5, <1>6, <1>7, <1>8, <1>9, <1>10, <1>11, Zenon DEF TakeAck

\* A new operation brings its content with it.
LEMMA IssueType ==
  ASSUME ReplInv, TypeInv, NEW n \in Node, Issue(n)
  PROVE  TypeInv'
<1> DEFINE c == Cardinality(CountersOf(log[n], n)) + 1
<1>1. /\ c <= MaxOwn /\ blobs' = [blobs EXCEPT ![n] = @ \cup Needs[<<n, c>>]]
      /\ key' = key /\ pinned' = pinned /\ sess' = sess /\ faults' = faults
  BY ZenonT(60) DEF Issue
<1>2. PICK k \in Nat : CountersOf(log[n], n) = 1 .. k
  BY Zenon DEF ReplInv, OwnWhole
<1>3. c = k + 1
  <2>1. Cardinality(1 .. k) = k
    BY FS_Interval, SMTT(60)
  <2> QED
    BY <1>2, <2>1, Zenon
<1>4. <<n, c>> \in OpId
  BY <1>1, <1>2, <1>3, ReplicationAssumption, ClockAssumption, SMTT(60) DEF OpId
<1> HIDE DEF c
<1>5. Needs[<<n, c>>] \subseteq Blob
  BY <1>4, ReplicationAssumption, Zenon
<1>6. blobs' \in [Node -> SUBSET Blob]
  BY <1>1, <1>5, Zenon DEF TypeInv, Tables
<1> QED
  BY <1>1, <1>6, Zenon DEF TypeInv, Tables

\* Every step keeps the types and the budget.
LEMMA BudgetStep ==
  ReplInv /\ TypeInv /\ BudgetInv /\ [Next]_vars => TypeInv' /\ BudgetInv'
<1> SUFFICES ASSUME ReplInv, TypeInv, BudgetInv, [Next]_vars PROVE TypeInv' /\ BudgetInv'
  BY Zenon
<1>1. CASE UNCHANGED vars
  BY <1>1, Zenon DEF vars, TypeInv, Tables, BudgetInv
<1>2. ASSUME NEW n \in Node, NewIdentity(n) \/ \E m \in Node : Rotate(n, m) \/ Revoke(n, m)
      PROVE  TypeInv' /\ BudgetInv'
  <2>1. MaxKey \in Nat
    BY ReplicationAssumption, Zenon
  <2>2. key' \in [Node -> 1 .. MaxKey] /\ pinned' \in [Node -> [Node -> 0 .. MaxKey]]
    BY <1>2, <2>1, SMTT(60) DEF NewIdentity, Rotate, Revoke, TypeInv, Tables
  <2>3. blobs' = blobs /\ sess' = sess /\ faults' = faults
    BY <1>2, Zenon DEF NewIdentity, Rotate, Revoke
  <2> QED
    BY <2>2, <2>3, Zenon DEF TypeInv, Tables, BudgetInv
<1>3. ASSUME NEW n \in Node, Issue(n) PROVE TypeInv' /\ BudgetInv'
  <2>1. sess' = sess
    BY <1>3, Zenon DEF Issue
  <2> QED
    BY <1>3, <2>1, IssueType, Zenon DEF BudgetInv
<1>4. ASSUME NEW n \in Node, Bye(n) \/ Break(n) PROVE TypeInv' /\ BudgetInv'
  <2>1. sess' \in [Node -> Session]
    BY <1>4, IdleType, Zenon DEF Bye, Break, TypeInv
  <2>2. blobs' = blobs /\ key' = key /\ pinned' = pinned
    BY <1>4, Zenon DEF Bye, Break
  <2>3. faults' \in 0 .. MaxFaults
    BY <1>4, ReplicationAssumption, SMTT(60) DEF Bye, Break, TypeInv, Tables
  <2> QED
    BY <1>4, <2>1, <2>2, <2>3, BeforeContent, Zenon DEF TypeInv, Tables
<1>5. ASSUME NEW n \in Node, Step(n) \/ \E m \in Node : Dial(n, m) PROVE TypeInv' /\ BudgetInv'
  BY <1>4, <1>5, HandshakeType, OperationType, ContentType, BeforeContent, Zenon DEF Step
<1> QED
  BY <1>1, <1>2, <1>3, <1>4, <1>5, Zenon DEF Next

-----------------------------------------------------------------------------
(* Theorems *)

\* A summary on its way never claims an operation its sender lacks
\* (clock_summary), whatever gaps the log has and wherever the list is cut.
THEOREM SummariesSound == Spec => []SummarySound
<1>1. ReplInv => SummarySound
  BY Zenon DEF ReplInv, Good, SummarySound
<1> QED
  BY <1>1, ReplInit, ReplStep, PTL DEF Spec

\* An operation phase that ends on a reply without `more` has brought all the
\* responder held at that reply, but what is refused (pull_from_peer).
THEOREM PullsWhole == Spec => []PullWhole
<1>1. ReplInv => PullWhole
  BY Zenon DEF ReplInv, Good, PullWhole
<1> QED
  BY <1>1, ReplInit, ReplStep, PTL DEF Spec

\* A notification that is_behind dismisses named nothing that is missing.
THEOREM DismissedRightly == Spec => []NotBehindHoldsAll
<1>1. NotBehindHoldsAll
  BY NotBehindHolds, Zenon DEF NotBehindHoldsAll
<1> QED
  BY <1>1, PTL

\* A handshake never replaces a pinned key (authorize).
THEOREM PinsKept == Spec => PinKept
<1>1. ASSUME ReplInv, [Next]_vars, NEW n \in Node, NEW m \in Node,
             pinned[n][m] # 0, pinned'[n][m] \notin {0, pinned[n][m]}
      PROVE  Rotate(n, m)
  <2>1. Shape
    BY <1>1, Zenon DEF ReplInv
  <2>2. ASSUME NEW a, NEW b, NEW k, authorize(a, b, k) PROVE FALSE
    BY <1>1, <2>1, <2>2, Zenon DEF authorize, Authorized, Shape
  <2>3. pinned' # pinned
    BY <1>1, SMTT(40)
  <2>4. PICK q \in Node : (\E r \in Node : Rotate(q, r) \/ Revoke(q, r)) \/ AcceptHello(q) \/ TakeAck(q)
    BY <1>1, <2>3, ZenonT(60) DEF Next, Step, vars, Issue, NewIdentity, Break, Dial, RefuseHello, RejectAck,
       AnswerHave, TakeBatch, ApplyNext, EndBatch, AskContent, AnswerWant, TakeBlobs, Bye
  <2>5. ~AcceptHello(q) /\ ~TakeAck(q)
    BY <2>2, Zenon DEF AcceptHello, TakeAck
  <2>6. PICK r \in Node : Rotate(q, r) \/ Revoke(q, r)
    BY <2>4, <2>5, Zenon
  <2>7. CASE Revoke(q, r)
    BY <1>1, <2>1, <2>7, Zenon DEF Revoke, Shape
  <2>8. CASE Rotate(q, r)
    <3>1. q = n /\ r = m
      BY <1>1, <2>1, <2>8, Zenon DEF Rotate, Shape
    <3> QED
      BY <2>8, <3>1, Zenon
  <2> QED
    BY <2>6, <2>7, <2>8, Zenon
<1>2. ReplInv /\ [Next]_vars =>
        [\A n, m \in Node :
           pinned[n][m] # 0 /\ pinned'[n][m] \notin {0, pinned[n][m]} => Rotate(n, m)]_vars
  BY <1>1, Zenon
<1> QED
  BY <1>2, ReplInit, ReplStep, PTL DEF Spec, PinKept

\* The pull session implements Exchange: a log grows only by operations its
\* device issues, new to everyone, and by operations of a peer's log it does
\* not refuse.
THEOREM SessionsExchange == Spec => ImplementsExchange
<1>1. ReplInv /\ [Next]_vars => [Abstract!Next]_log
  <2> SUFFICES ASSUME ReplInv, [Next]_vars, log' # log PROVE Abstract!Next
    BY SMTT(40)
  <2>1. PICK n \in Node : Issue(n) \/ ApplyNext(n)
    BY ZenonT(60) DEF Next, Step, vars, NewIdentity, Break, Dial, Rotate, Revoke, AcceptHello, RefuseHello,
       TakeAck, RejectAck, AnswerHave, TakeBatch, EndBatch, AskContent, AnswerWant, TakeBlobs, Bye
  <2>2. CASE Issue(n)
    BY <2>2, IssueStep, Zenon DEF Abstract!Next
  <2>3. CASE ApplyNext(n)
    BY <2>3, ApplyStep, Zenon DEF Abstract!Next
  <2> QED
    BY <2>1, <2>2, <2>3, Zenon
<1> QED
  BY <1>1, ReplInit, ReplStep, PTL DEF Spec, ImplementsExchange, Abstract!Spec

\* Every table and every session has its type; a session takes no more
\* operations than MAX_OPS_PER_SESSION.
THEOREM TypesHold == Spec => []TypeOK
<1>1. Init => BudgetInv
  BY IdleWithin, Zenon DEF Init, BudgetInv
<1>2. ReplInv /\ TypeInv => TypeOK
  BY Zenon DEF ReplInv, Shape, TypeInv, Tables, TypeOK
<1> QED
  BY <1>1, <1>2, ReplInit, ReplStep, TypeInit, BudgetStep, PTL DEF Spec

\* A pass takes more content than its ceiling by less than one blob, whatever
\* the sizes, the batches and the ceiling (max_content_bytes, BLOB_BATCH_BYTES).
THEOREM BudgetsHold == Spec => []BudgetHeld
<1>1. Init => BudgetInv
  BY IdleWithin, Zenon DEF Init, BudgetInv
<1>2. BudgetInv => BudgetHeld
  BY Zenon DEF BudgetInv, WithinBudget, BudgetHeld
<1> QED
  BY <1>1, <1>2, ReplInit, ReplStep, TypeInit, BudgetStep, PTL DEF Spec
=============================================================================
