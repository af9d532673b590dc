------------------------------ MODULE History ------------------------------
(***************************************************************************)
(* What one capture makes of the rows it read, as operators:               *)
(* scripts/capture_usage_series.py from daily_series to the emitted        *)
(* section.  A series is [first, last, total, cats, ids, whole]: the       *)
(* contiguous window of days, each day's total, its class split, its split *)
(* by raw identity, and the days whose class split is a partition.  A      *)
(* stored day is an Entry, absent when its total is 0.                     *)
(***************************************************************************)
EXTENDS Journal, FiniteSets

CONSTANTS
  MaxModelDays   \* the trailing days the served model split may cover

\* The least and greatest of a non-empty set of days.
Least(S) == CHOOSE d \in S : \A e \in S : d <= e
Greatest(S) == CHOOSE d \in S : \A e \in S : d >= e

NoSplit == [i \in Ident |-> -1]
NoIds   == [i \in Ident |-> 0]
Absent == [total |-> 0, cats |-> NoParts, ids |-> NoSplit]

Window(s) == s.first .. s.last

----------------------------------------------------------------------------
(* daily_series: every day index is built from the same rows. *)

EmptyIndex == [days  |-> {}, loose |-> {},
               total |-> [d \in Day |-> 0],
               ids   |-> [d \in Day |-> NoIds],
               cats  |-> [d \in Day |-> NoClasses],
               joint |-> [d \in Day |-> [i \in Ident |-> NoClasses]],
               sessions |-> <<>>]

\* An index, before or after the session of its last file.
Indexes(sessions) ==
  [days : SUBSET Day, loose : SUBSET Day, total : [Day -> Nat], ids : [Day -> [Ident -> Nat]],
   cats : [Day -> [Class -> Nat]], joint : [Day -> [Ident -> [Class -> Nat]]], sessions : {sessions}]

AddRow(x, row) ==
  LET base == [x EXCEPT !.days = @ \cup {row.day},
                        !.total[row.day] = @ + row.total,
                        !.ids[row.day][row.id] = @ + row.total]
  IN IF row.parts = NoParts
     THEN [base EXCEPT !.loose = @ \cup {row.day}]
     ELSE [base EXCEPT !.cats[row.day] = [c \in Class |-> @[c] + row.parts[c]],
                       !.joint[row.day][row.id] = [c \in Class |-> @[c] + row.parts[c]]]

DailySeries(x) ==
  LET window == Least(x.days) .. Greatest(x.days)
  IN [first |-> Least(x.days), last |-> Greatest(x.days),
      total |-> x.total,
      cats  |-> x.cats,
      ids   |-> x.ids,
      whole |-> window \ x.loose]

----------------------------------------------------------------------------
(* extend_with_cache: the tool's own roll-up fills the days the walk lost. *)
(* A cache is [rows: sequence of [day, model, count], usage: Ident ->      *)
(* (Class -> Nat), asOf: Day, longest: Nat or NoLongest]: what the tool    *)
(* counted per day and model, in no order, and over its lifetime up to a   *)
(* day, and its longest session; no rows, no cache.                        *)

KnownDays(cache) == {cache.rows[k].day : k \in DOMAIN cache.rows}

\* activity_days: the tool's counts, under the raw identity of each model.
ActivityDays(cache) ==
  LET rows(d, i) == {k \in DOMAIN cache.rows : cache.rows[k].day = d /\ RawIdentity(cache.rows[k].model) = i}
  IN [d \in Day |-> [i \in Ident |-> SumFunction([k \in rows(d, i) |-> cache.rows[k].count])]]

ExtendWithCache(s, cache) ==
  LET lost == KnownDays(cache) \ Window(s)
      days == Window(s) \cup KnownDays(cache)
      counted == ActivityDays(cache)
  IN IF cache.rows = <<>> THEN s
     ELSE [s EXCEPT !.first = Least(days), !.last = Greatest(days),
                    !.total = [d \in Day |-> IF d \in lost THEN SumFunction(counted[d]) ELSE @[d]],
                    !.ids   = [d \in Day |-> IF d \in lost THEN counted[d] ELSE @[d]]]

----------------------------------------------------------------------------
(* merge_history: the union with the store, a day at a time and whole. *)

FreshEntry(s, d) ==
  IF s.total[d] <= 0 THEN Absent
  ELSE [total |-> s.total[d],
        cats  |-> IF d \in s.whole /\ SumParts(s.cats[d]) = s.total[d]
                  THEN s.cats[d] ELSE NoParts,
        ids   |-> IF SumFunction(s.ids[d]) = s.total[d] THEN s.ids[d] ELSE NoSplit]

(* Mutant: the store only fills the days the walk lost whole. *)
OverriddenWhereLost(s, stored, carried) == {d \in Day : stored[d].total > 0 /\ s.total[d] <= 0}

\* The days the store wins: the walk lost the day, or measures less of it
\* even with the opening balances it no longer bills there.
Overridden(s, stored, carried) ==
  {d \in Day : /\ stored[d].total > 0
               /\ \/ s.total[d] <= 0
                  \/ s.total[d] + carried[d] < stored[d].total}

MergedDays(s, stored, carried) ==
  [d \in Day |-> IF d \in Overridden(s, stored, carried) THEN stored[d] ELSE FreshEntry(s, d)]

Shown(split, none, zero) == IF split = none THEN zero ELSE split

MergeHistory(s, merged) ==
  LET days == {d \in Day : merged[d].total > 0} \cup Window(s)
  IN IF \A d \in Day : merged[d].total = 0 THEN s
     ELSE [first |-> Least(days), last |-> Greatest(days),
           total |-> [d \in Day |-> merged[d].total],
           cats  |-> [d \in Day |-> Shown(merged[d].cats, NoParts, NoClasses)],
           ids   |-> [d \in Day |-> Shown(merged[d].ids, NoSplit, NoIds)],
           whole |-> {d \in days : \/ merged[d].cats # NoParts
                                   \/ d \in s.whole /\ merged[d].total = 0}]

----------------------------------------------------------------------------
(* apply_verified_readings: the owner's reading is the day's figure.       *)
(* readings[d] is 0 where there is none.                                   *)

Verified(readings) == {d \in Day : readings[d] > 0}

\* A reading of a day outside the record, of a day to come, or of the newest
\* day of the record refuses the run.
ReadingsRefuse(s, readings, today) ==
  \E d \in Verified(readings) : d \notin Window(s) \/ d > today \/ d = s.last

VerifiedSeries(s, readings) ==
  LET named == Verified(readings)
      keepsCats(d) == d \in s.whole /\ SumParts(s.cats[d]) = readings[d]
      keepsIds(d)  == SumFunction(s.ids[d]) = readings[d]
  IN [s EXCEPT !.total = [d \in Day |-> IF d \in named THEN readings[d] ELSE @[d]],
               !.cats  = [d \in Day |-> IF d \in named /\ ~keepsCats(d) THEN NoClasses ELSE @[d]],
               !.ids   = [d \in Day |-> IF d \in named /\ ~keepsIds(d) THEN NoIds ELSE @[d]],
               !.whole = {d \in @ : d \in named => keepsCats(d)}]

(* Mutant: a reading only ever raises what is remembered. *)
VerifiedEntriesRaise(merged, s, readings) ==
  [d \in Day |-> IF readings[d] <= merged[d].total THEN merged[d]
                 ELSE [Absent EXCEPT !.total = readings[d]]]

\* The corrected day is what is remembered, with the splits it kept.
VerifiedEntries(merged, s, readings) ==
  [d \in Day |->
     IF d \notin Verified(readings) THEN merged[d]
     ELSE [total |-> readings[d],
           cats  |-> IF d \in s.whole /\ SumParts(s.cats[d]) = readings[d]
                     THEN s.cats[d] ELSE NoParts,
           ids   |-> IF SumFunction(s.ids[d]) = readings[d] THEN s.ids[d] ELSE NoSplit]]

\* Before the merge, a verified day the store lacks is seeded into it.
Seeded(stored, readings) ==
  [d \in Day |-> IF stored[d].total = 0 /\ readings[d] > 0
                 THEN [Absent EXCEPT !.total = readings[d]] ELSE stored[d]]

----------------------------------------------------------------------------
(* admitted_history: what the reader accepts, and what the writer proves   *)
(* its own document against before it replaces the store.                  *)

AdmittedEntry(e) ==
  \/ e.total = 0
  \/ /\ e.total > 0
     /\ e.cats # NoParts => (\A c \in Class : e.cats[c] >= 0) /\ SumParts(e.cats) = e.total
     /\ e.ids # NoSplit => (\A i \in Ident : e.ids[i] >= 0) /\ SumFunction(e.ids) = e.total
Admitted(stored) == \A d \in Day : AdmittedEntry(stored[d])

----------------------------------------------------------------------------
(* The ledger block and the emitted section. *)

\* ledger_days: the contiguous run of owned days ending at the newest one.
LedgerDays(owned) ==
  {d \in owned : \A e \in d .. Greatest(owned) : e \in owned}

\* One coordinate of the joint summed away.
JointClasses(joint, d) ==
  [c \in Class |-> SumFunction([i \in Ident |-> joint[d][i][c]])]

\* assert_joint_marginals: the joint refines both splits the document serves.
JointRefines(x, cats, ids, days) ==
  \A d \in days : /\ JointClasses(x.joint, d) = cats[d]
                  /\ \A i \in Ident : SumParts(x.joint[d][i]) = ids[d][i]

\* trailing_offset: where the trailing run of covered days begins.
TrailingRun(s, covered) ==
  {d \in Window(s) : \A e \in d .. s.last : e \in covered}

\* assert_partition over a section's own window.
Partitions(s, days, sum(_)) == \A d \in days : sum(d) = s.total[d]

----------------------------------------------------------------------------
(* The lifetime figures: the class tiles over every partitioned day, the   *)
(* members of the split over every day the walk owns, each added to what   *)
(* the tool's own roll-up says up to its day, where there is one.          *)

OverDays(days, f(_)) == SumFunction([d \in days |-> f(d)])
PartitionedClassTotals(s, days) == [c \in Class |-> OverDays(days \cap s.whole, LAMBDA d : s.cats[d][c])]
AccrueJoint(x, owned) == [i \in Ident |-> [c \in Class |-> OverDays(owned, LAMBDA d : x.joint[d][i][c])]]

\* A roll-up that carries no accounting, or a malformed one, refuses the run.
NoUsageAccounting == [i \in Ident |-> NoParts]
AdmittedLifetimeUsage(cache) == cache.rows # <<>> => cache.usage # NoUsageAccounting

LifetimeStats(cache) == [c \in Class |-> SumFunction([i \in Ident |-> cache.usage[i][c]])]
AfterCache(cache, days) == {d \in days : d > cache.asOf}

AccrueAfterCache(cache, s) ==
  LET after == PartitionedClassTotals(s, AfterCache(cache, Window(s)))
  IN [c \in Class |-> LifetimeStats(cache)[c] + after[c]]

WalkedStats(s) == PartitionedClassTotals(s, Window(s))

\* walked_stats: the top-level sessions, where the record declares any.
NoTally == -1
SessionTally(sessions) ==
  LET declared == SelectSeq(sessions, LAMBDA s : s.top # "unknown")
  IN IF declared = <<>> THEN NoTally ELSE Len(SelectSeq(declared, LAMBDA s : s.top = "top"))

\* The longest session: the tool's own figure, or the longest span walked;
\* a record with neither refuses the run.
NoLongest == -1
Span(session) == Greatest(session.days) - Least(session.days)
CachedLongestSession(cache) == IF cache.rows = <<>> THEN NoLongest ELSE cache.longest
LongestSession(cache, sessions) ==
  LET spans == {Span(sessions[k]) : k \in DOMAIN sessions}
  IN CASE CachedLongestSession(cache) # NoLongest -> cache.longest
       [] CachedLongestSession(cache) = NoLongest /\ spans # {} -> Greatest(spans)
       [] OTHER -> NoLongest

(* Mutant: the members are accrued over the cache's own days too. *)
AccrueModelStatsWhole(x, cache, owned) ==
  [i \in Ident |-> [c \in Class |-> cache.usage[i][c] + AccrueJoint(x, owned)[i][c]]]

AccrueModelStats(x, cache, owned) ==
  LET after == AccrueJoint(x, AfterCache(cache, owned))
  IN [i \in Ident |-> [c \in Class |-> cache.usage[i][c] + after[i][c]]]

----------------------------------------------------------------------------
(* The ledger block, and what its own guard admits of it.                  *)

\* identity_stats_section: no class and no identity of nothing.
IdentityStats(members) ==
  LET counted(i) == {c \in Class : members[i][c] > 0}
  IN [i \in {j \in Ident : counted(j) # {}} |-> [c \in counted(i) |-> members[i][c]]]

LedgerBlock(x, owned, members) ==
  LET days == IF owned = {} THEN {} ELSE LedgerDays(owned)
  IN [joint |-> [d \in days |-> x.joint[d]], stats |-> IdentityStats(members), sessions |-> x.sessions]

LedgerCounts(values) == \A key \in DOMAIN values : values[key] >= 0
AssertLedgerJoint(joint) ==
  /\ DOMAIN joint = {} \/ DOMAIN joint = Least(DOMAIN joint) .. Greatest(DOMAIN joint)
  /\ \A d \in DOMAIN joint : \A i \in Ident : LedgerCounts(joint[d][i])
AssertLedgerIdentityStats(stats) ==
  \A i \in DOMAIN stats : i \in Ident /\ DOMAIN stats[i] # {} /\ LedgerCounts(stats[i])
AssertLedgerSession(s) ==
  /\ s.days # {} /\ s.ids \subseteq Ident /\ s.total >= 0
  /\ LedgerCounts(s.cats) /\ SumParts(s.cats) <= s.total
AssertLedgerBlock(block) ==
  /\ AssertLedgerJoint(block.joint) /\ AssertLedgerIdentityStats(block.stats)
  /\ \A k \in DOMAIN block.sessions : AssertLedgerSession(block.sessions[k])

----------------------------------------------------------------------------
(* The emitted model split. *)

(* Mutant: the split covers every day it sums on, a gap and the budget regardless. *)
ModelDaysOverGaps(s) == {d \in Window(s) : SumFunction(s.ids[d]) = s.total[d]}

\* The days the served model split covers: the trailing run of days it sums
\* to the total on, no deeper than the payload's budget.
ModelDays(s) ==
  {d \in TrailingRun(s, {e \in Window(s) : SumFunction(s.ids[e]) = s.total[e]}) :
     d > s.last - MaxModelDays}
=============================================================================
