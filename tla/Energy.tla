------------------------------- MODULE Energy -------------------------------
(***************************************************************************)
(* What a device reads of itself (energy/src/telemetry.rs, link.rs) and    *)
(* the budget the rules give for it (energy/src/scheduler.rs).  Reasons    *)
(* are left out.  The poll interval's multiplier is in tenths.             *)
(***************************************************************************)
EXTENDS Naturals, FiniteSetsExt

CONSTANTS Unknown,    \* a reading that could not be taken
          Uncapped,   \* u64::MAX
          Conserving  \* conserving_content_bytes

ASSUME EnergyAssumption ==
  /\ Unknown \notin Nat /\ Unknown # "metered"
  /\ Uncapped \in Nat /\ Conserving \in 0 .. Uncapped

Budget == [sync : BOOLEAN, content : BOOLEAN, max : Nat, scale : Nat]

unlimited == [sync |-> TRUE, content |-> TRUE, max |-> Uncapped, scale |-> 10]

metadata_only(scale) == [sync |-> TRUE, content |-> FALSE, max |-> 0, scale |-> scale]

capped(max, scale) == [sync |-> TRUE, content |-> TRUE, max |-> max, scale |-> scale]

paused == [sync |-> FALSE, content |-> FALSE, max |-> 0, scale |-> 40]

-----------------------------------------------------------------------------
(* Readings *)

\* power_supply entries: mains wins, no battery is unknown, and a battery is
\* the source only while it discharges.
power_source(supplies) ==
  LET batteries == {s \in supplies : s.kind = "battery"} IN
  CASE \E s \in supplies \ batteries : s.on -> "mains"
    [] (\A s \in supplies \ batteries : ~s.on) /\ (\E s \in batteries : s.on) -> "battery"
    [] OTHER -> "unknown"

\* The charge of a readable battery, whatever the source is.
battery_pct(supplies) ==
  LET readable == {s.pct : s \in {b \in supplies : b.kind = "battery"}} \ {Unknown} IN
  IF readable = {} THEN Unknown ELSE CHOOSE p \in readable : TRUE

hottest(zones) == IF zones = {} THEN Unknown ELSE Max(zones)

\* The cost of the default route with the lowest metric; no route or no
\* answer is unknown, never "unmetered".
detect(routes) ==
  IF routes = {} THEN Unknown
  ELSE (CHOOSE r \in routes : \A s \in routes : r.metric <= s.metric).metered

\* A link cost stated in the configuration is not second-guessed.
sample_with(host, stated) ==
  [power |-> power_source(host.supplies),
   pct   |-> battery_pct(host.supplies),
   temp  |-> hottest(host.zones),
   link  |-> IF stated = Unknown THEN detect(host.routes) ELSE stated,
   free  |-> host.free]

-----------------------------------------------------------------------------
(* Rules *)

\* Variant: the critical threshold is not held below the low one.
critical_unclamped(low) == Max({low \div 4, 2})

critical_pct(low) == Min({Max({low \div 4, 2}), low})

from_config(low, temp, reserve) ==
  [low |-> low, critical |-> critical_pct(low), temp |-> temp, reserve |-> reserve]

\* u8 doubling saturates at 255 before the cut to 100.
comfortable(t) == Min({2 * t.low, 100})

\* Variant: an unreadable temperature counts as hot.
TooHotOrUnknown(t, tel) == tel.temp = Unknown \/ tel.temp >= t.temp

TooHot(t, tel) == tel.temp # Unknown /\ tel.temp >= t.temp

\* Heat first, then the link, then the battery ladder.
grade(t, tel, missing) ==
  CASE TooHot(t, tel) -> metadata_only(20)
    [] ~TooHot(t, tel) /\ tel.link = "metered" -> metadata_only(20)
    [] OTHER ->
       IF tel.power # "battery" THEN unlimited
       ELSE IF tel.pct = Unknown THEN capped(Conserving, 15)
       ELSE IF tel.pct <= t.critical THEN paused
       ELSE IF tel.pct <= t.low THEN metadata_only(20)
       ELSE IF tel.pct <= comfortable(t) /\ missing > 0 THEN capped(Conserving, 10)
       ELSE unlimited

\* Narrowed to the room above the reserve, never widened.
limit_to_headroom(t, b, tel) ==
  IF tel.free = Unknown \/ ~b.content THEN b
  ELSE IF tel.free <= t.reserve THEN metadata_only(b.scale)
  ELSE IF tel.free - t.reserve >= b.max THEN b
  ELSE capped(tel.free - t.reserve, b.scale)

plan(enabled, t, tel, missing) ==
  IF enabled THEN limit_to_headroom(t, grade(t, tel, missing), tel) ELSE unlimited

\* One budget allows no more than another.
Within(a, b) == (a.sync => b.sync) /\ (a.content => b.content) /\ a.max <= b.max
=============================================================================
