---------------------------- MODULE ClockSummary ----------------------------
(***************************************************************************)
(* What a repository says about the operations it holds, and what a peer   *)
(* concludes from it (core/src/state.rs).  An operation is its id, a pair  *)
(* <<device, counter>>; a log is a set of ids.                             *)
(***************************************************************************)
EXTENDS Naturals, FiniteSets

CONSTANTS Author,      \* devices that sign operations: positive numbers
          MaxCounter,  \* bound on the counters of one device
          MaxAbove     \* MAX_ABOVE_PER_DEVICE

ASSUME ClockAssumption ==
  /\ Author \subseteq Nat \ {0}
  /\ IsFiniteSet(Author)
  /\ MaxCounter \in Nat
  /\ MaxAbove \in Nat

OpId == Author \X (1 .. MaxCounter)

Summary == [mark : [Author -> 0 .. MaxCounter], above : [Author -> SUBSET (1 .. MaxCounter)]]

\* The order of the log's keys: big-endian device, then counter.
OpBefore(a, b) == a[1] < b[1] \/ (a[1] = b[1] /\ a[2] < b[2])

CountersOf(log, d) == {c \in 1 .. MaxCounter : <<d, c>> \in log}

\* The k least members of a set of numbers, and of a set of ids.
FirstCounters(S, k) == {c \in S : Cardinality({b \in S : b < c}) < k}

FirstOps(S, k) == {o \in S : Cardinality({p \in S : OpBefore(p, o)}) < k}

NextOp(S) == CHOOSE o \in S : \A p \in S : p = o \/ OpBefore(o, p)

\* The highest counter below which nothing is missing.
Contiguous(log, d) ==
  CHOOSE c \in 0 .. MaxCounter :
    /\ 1 .. c \subseteq CountersOf(log, d)
    /\ c + 1 \notin CountersOf(log, d)

HeldAbove(log, d) ==
  FirstCounters({c \in CountersOf(log, d) : c > Contiguous(log, d)}, MaxAbove)

clock_summary(log) ==
  [mark  |-> [d \in Author |-> Contiguous(log, d)],
   above |-> [d \in Author |-> HeldAbove(log, d)]]

\* Variant: only the watermark is looked at.
ClaimedBelowMark(s) == {o \in OpId : o[2] <= s.mark[o[1]]}

\* The operations a summary says its sender holds.
Claimed(s) == {o \in OpId : o[2] <= s.mark[o[1]] \/ o[2] \in s.above[o[1]]}

\* One batch for a peer that sent this summary, oldest first.
ops_missing_for(log, s, limit) == FirstOps(log \ Claimed(s), limit)

\* Variant: what is held past a gap is not looked at.
is_behind_marks_only(log, s) ==
  \E d \in Author : clock_summary(log).mark[d] < s.mark[d]

\* Whether a peer's summary names an operation this log lacks.
is_behind(log, s) ==
  LET mine == clock_summary(log) IN
  \E d \in Author :
    \/ mine.mark[d] < s.mark[d]
    \/ \E c \in s.above[d] : c > mine.mark[d] /\ c \notin mine.above[d]
=============================================================================
