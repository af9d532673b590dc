------------------------------- MODULE Export -------------------------------
(***************************************************************************)
(* The document a capture prints, and what scripts/export_usage_series.py  *)
(* admits of it when it merges it.  A section is what History makes of one *)
(* run: [total, cats, ids, days, catDays, modelDays, tiles, members,       *)
(* cached]; the document is its wire form under one vocabulary.            *)
(***************************************************************************)
EXTENDS History, Vocabulary

CONSTANTS
  WeekDays   \* WEEK_DAYS

----------------------------------------------------------------------------
(* The figures of a series: daily_streaks, derived_figures, windows_from.  *)

\* Current and longest runs of active days; the current one tolerates one
\* trailing empty day.
DailyStreaks(totals) ==
  LET runs == FoldLeft(LAMBDA s, total :
                 LET run == IF total > 0 THEN s.run + 1 ELSE 0
                 IN [run |-> run, longest |-> IF run > s.longest THEN run ELSE s.longest],
                 [run |-> 0, longest |-> 0], totals)
      open == totals # <<>> /\ Last(totals) = 0
      end  == IF open THEN Front(totals) ELSE totals
  IN [longest |-> runs.longest,
      current |-> FoldLeft(LAMBDA run, total : IF total > 0 THEN run + 1 ELSE 0, 0, end)]

\* The same, said of the runs themselves.
StreaksByRuns(totals) ==
  LET n == Len(totals)
      active(i, j) == \A k \in i .. j : totals[k] > 0
      runs == {r \in (1 .. n) \X (1 .. n) : r[1] <= r[2] /\ active(r[1], r[2])}
      lengths(S) == {r[2] - r[1] + 1 : r \in S} \cup {0}
      most(S) == CHOOSE x \in lengths(S) : \A y \in lengths(S) : y <= x
      last == IF n > 0 /\ totals[n] = 0 THEN n - 1 ELSE n
  IN [longest |-> most(runs), current |-> most({r \in runs : r[2] = last})]

Totals(sec) == [i \in 1 .. Cardinality(sec.days) |-> sec.total[Least(sec.days) + i - 1]]

DerivedFigures(sec) ==
  LET active == {d \in sec.days : sec.total[d] > 0}
  IN [streaks |-> DailyStreaks(Totals(sec)), active |-> Cardinality(active),
      tracked |-> Cardinality(sec.days),
      peak |-> Greatest({sec.total[d] : d \in sec.days})]

\* The input is everything but the output; a day outside the split
\* contributes nothing.
WindowsFrom(sec, today) ==
  LET figures(days) ==
        LET split == days \cap sec.catDays
        IN [input  |-> SumFunction([d \in split |-> sec.cats[d]["input"] + sec.cats[d]["cached"]]),
            output |-> SumFunction([d \in split |-> sec.cats[d]["output"]])]
  IN [today |-> figures({today}), week |-> figures(today - WeekDays + 1 .. today)]

----------------------------------------------------------------------------
(* capture, from the section to its wire form. *)

Nothing == [rows |-> <<>>, days |-> {}]

\* carrying, and no breakdown whose only member is the residual.
ModelBreakdown(at, scope, sec) ==
  LET split == [d \in sec.modelDays |-> Folded(at, scope, sec.ids[d])]
      carried == {key \in scope : \E d \in sec.modelDays : split[d][key] > 0}
  IN IF carried \subseteq {Residual} THEN Nothing
     ELSE [rows |-> [key \in carried |-> [d \in sec.modelDays |-> split[d][key]]], days |-> sec.modelDays]

\* model_stats_section: no class and no member of nothing; a lone residual
\* says nothing, unless the tool's own accounting recorded it.
ModelStats(at, scope, sec) ==
  LET folded == [key \in scope |->
        LET ids == {id \in Ident : at[id] = key /\ \E c \in Class : sec.members[id][c] > 0}
            classes == {c \in Class : \E id \in ids : sec.members[id][c] > 0}
        IN [c \in classes |-> SumFunctionOnSet([id \in ids |-> sec.members[id][c]], ids)]]
      carried == {key \in scope : DOMAIN folded[key] # {}}
  IN IF carried = {} \/ (carried = {Residual} /\ ~sec.cached) THEN <<>>
     ELSE [key \in carried |-> folded[key]]

Document(at, scope, sec, today) ==
  [days |-> sec.days, total |-> sec.total,
   categories |-> [rows |-> [c \in Class |-> [d \in sec.catDays |-> sec.cats[d][c]]], days |-> sec.catDays],
   models |-> ModelBreakdown(at, scope, sec),
   modelStats |-> ModelStats(at, scope, sec),
   windows |-> WindowsFrom(sec, today), derived |-> DerivedFigures(sec), stats |-> sec.tiles,
   longest |-> sec.longest, sessions |-> sec.tally]

\* assert_only_dates_and_integers: the guard over everything printed.
AssertEmission(sec) ==
  /\ sec.catDays \cup sec.modelDays \subseteq sec.days
  /\ \A d \in sec.days : sec.total[d] >= 0 /\ LedgerCounts(sec.cats[d]) /\ LedgerCounts(sec.ids[d])
  /\ LedgerCounts(sec.tiles) /\ sec.longest >= 0 /\ \A i \in Ident : LedgerCounts(sec.members[i])

\* assert_scoped: no member of another source's vendor.
AssertScoped(doc, scope) == DOMAIN doc.models.rows \cup DOMAIN doc.modelStats \subseteq scope

----------------------------------------------------------------------------
(* The admission of a merged document. *)

\* admit_breakdown: rows of a closed vocabulary on a trailing window of the
\* series, summing to its totals on every day of it.
AdmitBreakdown(doc, breakdown, vocabulary, maxDays) ==
  breakdown = Nothing \/
    /\ breakdown.days # {} /\ breakdown.days = Least(breakdown.days) .. Greatest(doc.days)
    /\ breakdown.days \subseteq doc.days /\ Cardinality(breakdown.days) <= maxDays
    /\ DOMAIN breakdown.rows # {} /\ DOMAIN breakdown.rows \subseteq vocabulary
    /\ \A d \in breakdown.days :
         SumFunction([key \in DOMAIN breakdown.rows |-> breakdown.rows[key][d]]) = doc.total[d]

\* admit_model_stats: members of the scope, none of nothing.
AdmitModelStats(members, scope) ==
  members = <<>> \/
    /\ DOMAIN members \subseteq scope
    /\ \A key \in DOMAIN members : DOMAIN members[key] \subseteq Class /\ SumFunction(members[key]) > 0

\* load_merge_source.
AdmitMergeSource(doc, scope) ==
  /\ doc.days # {} /\ \A d \in doc.days : doc.total[d] >= 0
  /\ AdmitBreakdown(doc, doc.categories, Class, Cardinality(Day))
  /\ AdmitBreakdown(doc, doc.models, scope, MaxModelDays)
  /\ AdmitModelStats(doc.modelStats, scope)
  /\ \A w \in {doc.windows.today, doc.windows.week} : w.input >= 0 /\ w.output >= 0
  /\ \A c \in Class : doc.stats[c] >= 0
  /\ doc.longest >= 0

\* A section that carries a lifetime of its own, as one over a cache does, is
\* refused a baseline.
TakesBaseline(sec) == ~sec.cached

\* apply_lifetime_baselines: the figure the owner read, and every day after it.
Lifetime(doc, asOf, total) == total + SumFunction([d \in {e \in doc.days : e > asOf} |-> doc.total[d]])
=============================================================================
