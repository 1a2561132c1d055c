---------------------------- MODULE EnergyProofs ----------------------------
(***************************************************************************)
(* The rules of the energy scheduler, for every charge, threshold, reserve *)
(* and reading.                                                            *)
(***************************************************************************)
EXTENDS Daemon, TLAPS

\* The greater and the smaller of two numbers.
LEMMA MaxMinOfTwo ==
  ASSUME NEW a \in Nat, NEW b \in Nat
  PROVE  /\ Max({a, b}) \in {a, b} /\ Max({a, b}) >= a /\ Max({a, b}) >= b
         /\ Min({a, b}) \in {a, b} /\ Min({a, b}) <= a /\ Min({a, b}) <= b
<1>1. \E x \in {a, b} : \A y \in {a, b} : x >= y
  <2>1. a >= b \/ b >= a
    OBVIOUS
  <2> QED
    BY <2>1
<1>2. \E x \in {a, b} : \A y \in {a, b} : x <= y
  <2>1. a <= b \/ b <= a
    OBVIOUS
  <2> QED
    BY <2>1
<1>3. Max({a, b}) \in {a, b} /\ \A y \in {a, b} : Max({a, b}) >= y
  BY <1>1 DEF Max
<1>4. Min({a, b}) \in {a, b} /\ \A y \in {a, b} : Min({a, b}) <= y
  BY <1>2 DEF Min
<1> QED
  BY <1>3, <1>4

\* The clamp of from_config: the critical threshold is at most the low one,
\* whatever the operator wrote.
LEMMA CriticalBelowLow ==
  ASSUME NEW low \in Nat
  PROVE  critical_pct(low) \in Nat /\ critical_pct(low) <= low
<1>1. low \div 4 \in Nat
  OBVIOUS
<1> DEFINE m == Max({low \div 4, 2})
<1>2. m \in Nat
  BY <1>1, MaxMinOfTwo
<1> HIDE DEF m
<1>3. Min({m, low}) \in {m, low} /\ Min({m, low}) <= low
  BY <1>2, MaxMinOfTwo
<1>4. critical_pct(low) = Min({m, low})
  BY DEF critical_pct, m
<1> QED
  BY <1>2, <1>3, <1>4

\* What a grade is: one of five budgets.
LEMMA GradeType ==
  ASSUME NEW t, NEW tel, NEW missing
  PROVE  grade(t, tel, missing) \in
           {metadata_only(20), unlimited, capped(Conserving, 15), capped(Conserving, 10), paused}
  BY DEF grade

\* A budget that does not sync takes no content, and one that takes none is zero.
Coherent(b) ==
  /\ b \in Budget
  /\ b.content => b.sync
  /\ ~b.content => b.max = 0

\* Every grade of the governor is a coherent budget.
LEMMA GradeCoherent ==
  ASSUME NEW t, NEW tel, NEW missing
  PROVE  Coherent(grade(t, tel, missing))
<1>1. /\ Coherent(metadata_only(20)) /\ Coherent(paused)
      /\ Coherent(unlimited)
      /\ Coherent(capped(Conserving, 15)) /\ Coherent(capped(Conserving, 10))
  BY EnergyAssumption DEF Coherent, metadata_only, unlimited, capped, paused, Budget
<1> QED
  BY <1>1, GradeType

\* The disk narrows a budget, and a greater one to at least what it narrows a
\* smaller one to (limit_to_headroom: "narrows ... and never widens").
LEMMA HeadroomMonotone ==
  ASSUME NEW t, t.reserve \in Nat, NEW a, Coherent(a), NEW b, Coherent(b), Within(a, b),
         NEW tel, tel.free \in Nat \cup {Unknown}
  PROVE  /\ Within(limit_to_headroom(t, a, tel), limit_to_headroom(t, b, tel))
         /\ Within(limit_to_headroom(t, a, tel), a)
  BY EnergyAssumption DEF limit_to_headroom, Within, metadata_only, capped, Budget, Coherent

\* The order of the ladder's rungs.
LEMMA Rungs ==
  /\ \A b : Coherent(b) => Within(paused, b) /\ Within(b, b)
  /\ \A b, s : Coherent(b) /\ b.sync => Within(metadata_only(s), b)
  /\ Within(capped(Conserving, 15), unlimited) /\ Within(capped(Conserving, 10), unlimited)
  /\ Within(metadata_only(20), unlimited)
  BY EnergyAssumption DEF Coherent, Within, paused, metadata_only, capped, unlimited, Budget

-----------------------------------------------------------------------------
(* The ladder *)

\* Two readings that differ in the charge only: the grade follows the charge.
LEMMA GradeFollowsCharge ==
  ASSUME NEW t, t.critical \in Nat, t.low \in Nat, NEW missing, NEW x, NEW y,
         x.power = y.power, x.temp = y.temp, x.link = y.link,
         x.pct \in Nat, y.pct \in Nat, x.pct <= y.pct, comfortable(t) \in Nat
  PROVE  Within(grade(t, x, missing), grade(t, y, missing))
<1>1. TooHot(t, x) <=> TooHot(t, y)
  BY DEF TooHot
<1>2. Coherent(metadata_only(20)) /\ Coherent(unlimited)
        /\ Coherent(capped(Conserving, 10)) /\ capped(Conserving, 10).sync
        /\ metadata_only(20).sync /\ unlimited.sync
  BY EnergyAssumption DEF Coherent, metadata_only, unlimited, capped, Budget
<1>3. Within(metadata_only(20), metadata_only(20)) /\ Within(unlimited, unlimited)
        /\ Within(capped(Conserving, 10), capped(Conserving, 10))
        /\ Within(metadata_only(20), capped(Conserving, 10))
        /\ Within(metadata_only(20), unlimited)
        /\ Within(capped(Conserving, 10), unlimited)
        /\ Coherent(grade(t, y, missing))
        /\ Within(paused, grade(t, y, missing))
  BY <1>2, Rungs, GradeCoherent
<1>4. x.pct # Unknown /\ y.pct # Unknown
  BY EnergyAssumption
<1>5. CASE TooHot(t, x) \/ x.link = "metered" \/ x.power # "battery"
  BY <1>1, <1>3, <1>5 DEF grade
<1>6. CASE ~(TooHot(t, x) \/ x.link = "metered" \/ x.power # "battery")
  <2> DEFINE G(c) == IF c <= t.critical THEN paused
                     ELSE IF c <= t.low THEN metadata_only(20)
                     ELSE IF c <= comfortable(t) /\ missing > 0 THEN capped(Conserving, 10)
                     ELSE unlimited
  <2>1. grade(t, x, missing) = G(x.pct) /\ grade(t, y, missing) = G(y.pct)
    BY <1>1, <1>4, <1>6 DEF grade
  <2>2. CASE x.pct <= t.critical
    BY <1>3, <2>1, <2>2
  <2>3. CASE x.pct > t.critical /\ x.pct <= t.low
    <3>1. G(x.pct) = metadata_only(20)
      BY <2>3
    <3>2. G(y.pct) \in {metadata_only(20), capped(Conserving, 10), unlimited}
      BY <2>3
    <3> QED
      BY <1>3, <2>1, <3>1, <3>2
  <2>4. CASE x.pct > t.critical /\ x.pct > t.low
    <3>1. G(x.pct) \in {capped(Conserving, 10), unlimited}
      BY <2>4
    <3>2. G(y.pct) \in {capped(Conserving, 10), unlimited}
      BY <2>4
    <3>3. G(x.pct) = unlimited => G(y.pct) = unlimited \/ unlimited = capped(Conserving, 10)
      BY <2>4
    <3> QED
      BY <1>3, <2>1, <3>1, <3>2, <3>3
  <2> QED
    BY <2>2, <2>3, <2>4
<1> QED
  BY <1>5, <1>6

\* Above the low threshold the battery stops neither operations nor content.
LEMMA GradeAboveLow ==
  ASSUME NEW t, t.critical \in Nat, t.low \in Nat, t.critical <= t.low, NEW missing, NEW x,
         x.pct \in Nat, x.pct > t.low
  PROVE  LET g == grade(t, x, missing) IN
         g.sync /\ (g.content \/ TooHot(t, x) \/ x.link = "metered")
<1>1. x.pct # Unknown /\ ~(x.pct <= t.critical) /\ ~(x.pct <= t.low)
  BY EnergyAssumption
<1>2. CASE TooHot(t, x) \/ x.link = "metered"
  BY <1>2 DEF grade, metadata_only
<1>3. CASE ~(TooHot(t, x) \/ x.link = "metered")
  <2>1. grade(t, x, missing) \in {unlimited, capped(Conserving, 10)}
    BY <1>1, <1>3 DEF grade
  <2> QED
    BY <2>1 DEF unlimited, capped
<1> QED
  BY <1>2, <1>3

\* The disk takes content away only at the reserve, and operations never.
LEMMA HeadroomKeeps ==
  ASSUME NEW t, t.reserve \in Nat, NEW b, NEW tel, tel.free \in Nat \cup {Unknown}, b.sync
  PROVE  LET l == limit_to_headroom(t, b, tel) IN
         l.sync /\ (b.content => l.content \/ tel.free \in 0 .. t.reserve)
  BY DEF limit_to_headroom, metadata_only, capped

-----------------------------------------------------------------------------
(* Every state a daemon decides in *)

\* The surroundings are always some the device may have.
HostsKnown == DOMAIN host = Node /\ \A n \in Node : host[n] \in Hosts[n]

\* Only Change alters the surroundings, and it draws from the same ones.
LEMMA HostsKnownAlways == Spec => []HostsKnown
<1>1. Init => HostsKnown
  BY DEF Init, HostsKnown
<1>2. HostsKnown /\ [Next]_vars => HostsKnown'
  <2> SUFFICES ASSUME HostsKnown, [Next]_vars PROVE HostsKnown'
    OBVIOUS
  <2>1. CASE UNCHANGED host
    BY <2>1 DEF HostsKnown
  <2>2. CASE \E n \in Node : Change(n)
    BY <2>2 DEF Change, HostsKnown
  <2>3. UNCHANGED host \/ \E n \in Node : Change(n)
    BY Zenon DEF Next, vars, apply_local, announce_local_op, Teller, Receive, Drain, Summarise,
           notify_one, sync_loop, Decide, Proceed, sync_once, SyncFails
  <2> QED
    BY <2>1, <2>2, <2>3
<1> QED
  BY <1>1, <1>2, PTL DEF Spec

\* What a reading of known surroundings is.
LEMMA ReadingType ==
  ASSUME HostsKnown, NEW n \in Node
  PROVE  /\ DOMAIN Telemetry(n) = {"power", "pct", "temp", "link", "free"}
         /\ Telemetry(n).free \in Nat \cup {Unknown}
  BY DaemonAssumption DEF HostsKnown, Telemetry, sample_with

\* Less charge never allows more, and a charge above the low threshold never
\* stops operations or, but for heat, the link and the disk, content; for every
\* threshold an operator may configure (Thresholds::from_config, grade).
THEOREM LadderHolds == Spec => []LadderOrdered
<1>1. ASSUME HostsKnown, NEW n \in Node, NEW low \in Lows, NEW missing \in {0, 1}
      PROVE  Ladder([Telemetry(n) EXCEPT !.power = "battery"], low, missing)
  <2> DEFINE T == [Telemetry(n) EXCEPT !.power = "battery"]
             R(c) == [T EXCEPT !.pct = c]
             t == from_config(low, Limit.temp, Limit.reserve)
             B == [c \in Charges |-> Budgeted(low, R(c), missing)]
  <2> SUFFICES ASSUME NEW p \in Charges, NEW q \in Charges
               PROVE  /\ p <= q => Within(B[p], B[q])
                      /\ p > low => B[p].sync /\ (B[p].content \/ Walled(T))
    BY Zenon DEF Ladder
  <2>1. /\ low \in Nat /\ p \in Nat /\ q \in Nat /\ Limit.reserve \in Nat
    BY DaemonAssumption
  <2>2. /\ t.critical = critical_pct(low) /\ t.low = low
        /\ t.temp = Limit.temp /\ t.reserve = Limit.reserve
    BY DEF from_config
  <2>3. t.critical \in Nat /\ t.critical <= t.low
    BY <2>1, <2>2, CriticalBelowLow
  <2>4. comfortable(t) \in Nat
    <3>1. 2 * t.low \in Nat /\ 100 \in Nat
      BY <2>1, <2>2
    <3> HIDE DEF t
    <3> QED
      BY <3>1, MaxMinOfTwo DEF comfortable
  <2>5. DOMAIN T = {"power", "pct", "temp", "link", "free"} /\ T.free \in Nat \cup {Unknown}
    BY <1>1, ReadingType
  <2> HIDE DEF T
  <2>6. \A c : /\ R(c).power = T.power /\ R(c).temp = T.temp /\ R(c).link = T.link
               /\ R(c).free = T.free /\ R(c).pct = c
    BY <2>5
  <2>7. \A c \in Charges : B[c] = limit_to_headroom(t, grade(t, R(c), missing), R(c))
    BY DEF Budgeted, plan
  <2> HIDE DEF R, t
  <2>8. \A c : TooHot(t, R(c)) <=> TooHot(Limit, T)
    BY <2>2, <2>6 DEF TooHot
  <2>9. ASSUME p <= q PROVE Within(B[p], B[q])
    <3>1. Within(grade(t, R(p), missing), grade(t, R(q), missing))
      BY <2>1, <2>2, <2>3, <2>4, <2>6, <2>9, GradeFollowsCharge
    <3>2. Within(limit_to_headroom(t, grade(t, R(p), missing), R(p)),
                 limit_to_headroom(t, grade(t, R(q), missing), R(p)))
      BY <2>1, <2>2, <2>5, <2>6, <3>1, GradeCoherent, HeadroomMonotone
    <3>3. \A b : limit_to_headroom(t, b, R(p)) = limit_to_headroom(t, b, R(q))
      BY <2>6 DEF limit_to_headroom
    <3> QED
      BY <2>7, <3>2, <3>3
  <2>10. ASSUME p > low PROVE B[p].sync /\ (B[p].content \/ Walled(T))
    <3> DEFINE g == grade(t, R(p), missing)
    <3>1. g.sync /\ (g.content \/ TooHot(t, R(p)) \/ R(p).link = "metered")
      BY <2>1, <2>2, <2>3, <2>6, <2>10, GradeAboveLow
    <3> HIDE DEF g
    <3>2. /\ limit_to_headroom(t, g, R(p)).sync
          /\ g.content => \/ limit_to_headroom(t, g, R(p)).content
                          \/ R(p).free \in 0 .. t.reserve
      BY <2>1, <2>2, <2>5, <2>6, <3>1, HeadroomKeeps
    <3>3. B[p] = limit_to_headroom(t, g, R(p))
      BY <2>7 DEF g
    <3> HIDE DEF B
    <3> QED
      BY <2>2, <2>6, <2>8, <3>1, <3>2, <3>3 DEF Walled
  <2> QED
    BY <2>9, <2>10
<1>2. HostsKnown => LadderOrdered
  BY <1>1 DEF LadderOrdered
<1> QED
  BY <1>2, HostsKnownAlways, PTL

-----------------------------------------------------------------------------
(* Failing probes *)

\* With one probe blind the grade is no less, unless a pause was hidden.
LEMMA BlindGrade ==
  ASSUME NEW tel, DOMAIN tel = {"power", "pct", "temp", "link", "free"}, NEW missing,
         ~PauseHidden(tel), NEW blind \in Blinded(tel)
  PROVE  Within(grade(Limit, tel, missing), grade(Limit, blind, missing))
<1> DEFINE g == grade(Limit, tel, missing)
           h == grade(Limit, blind, missing)
<1>1. Coherent(g) /\ Coherent(h)
  BY GradeCoherent
<1>2. Within(g, g) /\ Within(paused, h) /\ \A b : b = g => Within(g, b)
  BY <1>1, Rungs
<1>3. Coherent(unlimited) /\ \A b \in {metadata_only(20), unlimited, capped(Conserving, 15),
                                       capped(Conserving, 10), paused} : Within(b, unlimited)
  <2>1. Coherent(unlimited)
    BY EnergyAssumption DEF Coherent, unlimited, Budget
  <2> QED
    BY <2>1, Rungs
<1>4. CASE blind = [tel EXCEPT !.power = "unknown"]
  <2>1. /\ blind.power = "unknown" /\ blind.temp = tel.temp /\ blind.link = tel.link
    BY <1>4
  <2>2. CASE TooHot(Limit, tel) \/ tel.link = "metered"
    <3>1. g = metadata_only(20) /\ h = metadata_only(20)
      BY <2>1, <2>2 DEF grade, TooHot
    <3> QED
      BY <1>2, <3>1
  <2>3. CASE ~(TooHot(Limit, tel) \/ tel.link = "metered")
    <3>1. h = unlimited
      BY <2>1, <2>3 DEF grade, TooHot
    <3> QED
      BY <1>3, <3>1, GradeType
  <2> QED
    BY <2>2, <2>3
<1>5. CASE blind = [tel EXCEPT !.free = Unknown]
  <2>1. /\ blind.power = tel.power /\ blind.temp = tel.temp /\ blind.link = tel.link
        /\ blind.pct = tel.pct
    BY <1>5
  <2>2. h = g
    BY <2>1 DEF grade, TooHot
  <2> QED
    BY <1>2, <2>2
<1>6. CASE blind \in {[tel EXCEPT !.temp = Unknown], [tel EXCEPT !.link = Unknown]}
  <2>1. /\ blind.power = tel.power /\ blind.pct = tel.pct
        /\ TooHot(Limit, blind) => TooHot(Limit, tel)
        /\ blind.link = "metered" => tel.link = "metered"
    BY <1>6, EnergyAssumption DEF TooHot
  <2>2. CASE TooHot(Limit, tel) \/ tel.link = "metered"
    <3>1. g = metadata_only(20)
      BY <2>2 DEF grade
    <3>2. h.sync
      <4>1. h # paused \/ paused.sync
        BY <2>1, <2>2 DEF grade, PauseHidden, metadata_only, unlimited, capped, paused
      <4> QED
        BY <4>1, GradeType DEF metadata_only, unlimited, capped, paused
    <3> QED
      BY <1>1, <3>1, <3>2, Rungs
  <2>3. CASE ~(TooHot(Limit, tel) \/ tel.link = "metered")
    <3>1. h = g
      BY <2>1, <2>3 DEF grade
    <3> QED
      BY <1>2, <3>1
  <2> QED
    BY <2>2, <2>3
<1> QED
  BY <1>4, <1>5, <1>6 DEF Blinded

\* A probe that fails never narrows the budget, for every reading of the other
\* probes, unless heat or a metered link hid a critical charge (sample_with,
\* grade, limit_to_headroom).
THEOREM UnknownHarmless == Spec => []UnknownNeverNarrows
<1>1. ASSUME HostsKnown, NEW n \in Node, NEW missing \in {0, 1}, ~PauseHidden(Telemetry(n)),
             NEW blind \in Blinded(Telemetry(n))
      PROVE  Within(plan(TRUE, Limit, Telemetry(n), missing), plan(TRUE, Limit, blind, missing))
  <2> DEFINE T == Telemetry(n)
             g == grade(Limit, T, missing)
             h == grade(Limit, blind, missing)
  <2>1. /\ DOMAIN T = {"power", "pct", "temp", "link", "free"}
        /\ T.free \in Nat \cup {Unknown} /\ Limit.reserve \in Nat
    BY <1>1, ReadingType, DaemonAssumption
  <2>2. Coherent(g) /\ Coherent(h) /\ Within(g, h)
    BY <1>1, <2>1, GradeCoherent, BlindGrade
  <2>3. plan(TRUE, Limit, T, missing) = limit_to_headroom(Limit, g, T)
          /\ plan(TRUE, Limit, blind, missing) = limit_to_headroom(Limit, h, blind)
    BY DEF plan
  <2>4. blind.free = T.free \/ blind.free = Unknown
    BY <1>1, <2>1 DEF Blinded
  <2> HIDE DEF T, g, h
  <2>5. /\ Within(limit_to_headroom(Limit, g, T), limit_to_headroom(Limit, h, T))
        /\ Within(limit_to_headroom(Limit, g, T), g)
    BY <2>1, <2>2, HeadroomMonotone
  <2>6. CASE blind.free = T.free
    <3>1. limit_to_headroom(Limit, h, blind) = limit_to_headroom(Limit, h, T)
      BY <2>6 DEF limit_to_headroom
    <3> QED
      BY <2>3, <2>5, <3>1, Zenon DEF T
  <2>7. CASE blind.free = Unknown
    <3>1. limit_to_headroom(Limit, h, blind) = h
      BY <2>7 DEF limit_to_headroom
    <3>2. limit_to_headroom(Limit, g, T).max \in Nat
      BY <2>1, <2>2 DEF limit_to_headroom, Coherent, Budget, metadata_only, capped
    <3>3. Within(limit_to_headroom(Limit, g, T), h)
      BY <2>2, <2>5, <3>2 DEF Within, Coherent, Budget
    <3> QED
      BY <2>3, <3>1, <3>3, Zenon DEF T
  <2> QED
    BY <2>4, <2>6, <2>7, Zenon
<1>2. HostsKnown => UnknownNeverNarrows
  BY <1>1, Zenon DEF UnknownNeverNarrows
<1> QED
  BY <1>2, HostsKnownAlways, PTL
=============================================================================
