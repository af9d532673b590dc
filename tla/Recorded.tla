------------------------------ MODULE Recorded ------------------------------
(***************************************************************************)
(* The readings one run files of one source in the lifelong ledger, as     *)
(* sets of rows (scripts/usage_ledger.py, record_run and the row builders) *)
(* and the dataset the export writes beside them (build_dataset).          *)
(* A row is [kind, day, key, method, value]; the ledger takes two rows of  *)
(* one day, kind, key and method for two readings of one figure.  How the  *)
(* rows reach the stream is module Ledger.                                 *)
(***************************************************************************)
EXTENDS Export

Filed(kind, day, key, method, value) ==
  [kind |-> kind, day |-> day, key |-> key, method |-> method, value |-> value]

\* identity_key and method: what makes two rows readings of one figure.
Identity(row) == <<row.kind, row.day, row.key, row.method>>

\* A figure of the tool's own accounting has no day: it is filed under the
\* day it was read on.
StatRows(sec, modelStats, today) ==
  {Filed("stat", today, <<c>>, "capture", sec.tiles[c]) : c \in Class}
    \cup {Filed("stat", today, <<"longest-session">>, "capture", sec.longest)}
    \cup UNION {{Filed("model-stat", today, <<k, c>>, "capture", modelStats[k][c]) :
                   c \in DOMAIN modelStats[k]} : k \in DOMAIN modelStats}

\* One row per member, class and day the joint covers; a zero is no reading.
ModelCategoryRows(kind, members, joint) ==
  {Filed(kind, at[1], <<at[2], at[3]>>, "capture", joint[at[1]][at[2]][at[3]]) :
     at \in {k \in (DOMAIN joint) \X members \X Class : joint[k[1]][k[2]][k[3]] > 0}}

\* The joint by member of the vocabulary.
FoldedJoint(at, scope, joint) ==
  [d \in DOMAIN joint |-> [key \in scope |-> [c \in Class |->
     SumFunctionOnSet([i \in Ident |-> joint[d][i][c]], {i \in Ident : at[i] = key})]]]

IdentityStatRows(stats, today) ==
  UNION {{Filed("model-id-stat", today, <<i, c>>, "capture", stats[i][c]) : c \in DOMAIN stats[i]}
           : i \in DOMAIN stats}

----------------------------------------------------------------------------
(* The sessions.  A session begins at its earliest instant, here its day.  *)

Joined(a, b) ==
  [a EXCEPT !.total = @ + b.total, !.cats = [c \in Class |-> @[c] + b.cats[c]],
            !.days = @ \cup b.days, !.ids = @ \cup b.ids]

(* Mutant: sessions that begin together stay apart. *)
MergeSessionsApart(sessions) == Range(sessions)

\* One entry per start: the latest end, the sums, every member of either.
MergeSessions(sessions) ==
  {LET group == SelectSeq(sessions, LAMBDA s : Least(s.days) = start)
   IN FoldLeft(Joined, Head(group), Tail(group))
   : start \in {Least(sessions[k].days) : k \in DOMAIN sessions}}

\* A session's figure is its length; its total, split and members are compared
\* with it (unchanged).
SessionRows(sessions) ==
  {Filed("session", Least(s.days), <<Least(s.days)>>, "capture",
         <<Greatest(s.days) - Least(s.days), s.total, s.cats, s.ids>>) : s \in MergeSessions(sessions)}

BlockRows(block, at, scope, today) ==
  [usage    |-> ModelCategoryRows("model-category", scope, FoldedJoint(at, scope, block.joint))
                  \cup ModelCategoryRows("model-id-category", Ident, block.joint)
                  \cup IdentityStatRows(block.stats, today),
   sessions |-> SessionRows(block.sessions)]

----------------------------------------------------------------------------
(* What the store remembers, and the baseline the owner read once.         *)

StoreRows(stored, readings, at, scope) ==
  LET method(d) == IF readings[d] > 0 THEN "verified" ELSE "store"
      days == {d \in Day : stored[d].total > 0}
      split(kind, d, values) ==
        {Filed(kind, d, <<k>>, method(d), values[k]) : k \in {j \in DOMAIN values : values[j] > 0}}
  IN {Filed("total", d, <<"tokens">>, method(d), stored[d].total) : d \in days}
       \cup UNION {split("category", d, stored[d].cats) : d \in {e \in days : stored[e].cats # NoParts}}
       \cup UNION {split("model", d, Folded(at, scope, stored[d].ids))
                     \cup split("model-id", d, stored[d].ids) : d \in {e \in days : stored[e].ids # NoSplit}}

BaselineRows(total, asOf) == {Filed("stat", asOf, <<"lifetime">>, "baseline", total)}

\* Every reading of one source: of its document, its block, its store and its
\* baseline, by the stream it belongs to.
RecordRows(sec, block, stored, readings, baseline, at, scope, today) ==
  LET rows == BlockRows(block, at, scope, today)
  IN [usage    |-> StatRows(sec, ModelStats(at, scope, sec), today) \cup rows.usage
                     \cup StoreRows(stored, readings, at, scope) \cup baseline,
      sessions |-> rows.sessions]

----------------------------------------------------------------------------
(* build_dataset: the graphing dataset beside it, at the store's depth.    *)

\* breakdown_metadata: what a member spent over the days that carry the split,
\* on how many of them, and the first and last.
BreakdownMetadata(splits) ==
  LET days(key) == {d \in DOMAIN splits : splits[d][key] > 0}
      keys == UNION {DOMAIN splits[d] : d \in DOMAIN splits}
  IN [key \in {k \in keys : days(k) # {}} |->
        [total |-> SumFunction([d \in days(key) |-> splits[d][key]]),
         days |-> Cardinality(days(key)), first |-> Least(days(key)), last |-> Greatest(days(key))]]

\* The remembered days with their splits, or the served ones where no store
\* remembers any.
Dataset(sec, stored, readings, at, scope) ==
  LET remembered == {d \in Day : stored[d].total > 0}
      days == IF remembered = {} THEN {d \in sec.days : sec.total[d] > 0} ELSE remembered
  IN [days |-> [d \in days |-> [total |-> IF remembered = {} THEN sec.total[d] ELSE stored[d].total,
                                 verified |-> readings[d] > 0]],
      coverage |-> Least(days \cup sec.days) .. Greatest(days \cup sec.days),
      categories |-> BreakdownMetadata(
        [d \in {e \in remembered : stored[e].cats # NoParts} |-> stored[d].cats]),
      models |-> BreakdownMetadata(
        [d \in {e \in remembered : stored[e].ids # NoSplit} |-> Folded(at, scope, stored[d].ids)])]

----------------------------------------------------------------------------

\* No two readings of one figure in one run.
OneReadingEach(rows) == Cardinality({Identity(row) : row \in rows}) = Cardinality(rows)

\* What some rows of one day and kind add up to, by what their keys name.
Recorded(rows, names(_), name) ==
  LET some == {row \in rows : names(row.key) = name} IN SumFunction([row \in some |-> row.value])

\* On a day of the joint, the two joints add up to the day's own splits.
JointRowsAgree(rows, block, scope) ==
  \A d \in DOMAIN block.joint :
    LET day == {row \in rows : row.day = d}
        of(kind) == {row \in day : row.kind = kind}
        byId == of("model-id-category")  byMember == of("model-category")
        agree(joint, split, names(_), keys) ==
          \A k \in keys : Recorded(joint, names, k) = Recorded(split, LAMBDA key : key[1], k)
    IN /\ agree(byId, of("category"), LAMBDA key : key[2], Class)
       /\ agree(byMember, of("category"), LAMBDA key : key[2], Class)
       /\ agree(byId, of("model-id"), LAMBDA key : key[1], Ident)
       /\ agree(byMember, of("model"), LAMBDA key : key[1], scope)

\* The dataset's days are the record's, marked the same; and a member's figure
\* in it is what its rows add up to.
DatasetAgrees(dataset, rows) ==
  LET of(kind) == {row \in rows : row.kind = kind}
      categories == of("category")  models == of("model")
      agree(figures, split) ==
        \A key \in DOMAIN figures : Recorded(split, LAMBDA k : k[1], key) = figures[key].total
  IN /\ {<<row.day, row.value, row.method = "verified">> : row \in of("total")}
          = {<<d, dataset.days[d].total, dataset.days[d].verified>> : d \in DOMAIN dataset.days}
     /\ agree(dataset.categories, categories) /\ agree(dataset.models, models)
     /\ DOMAIN dataset.days \subseteq dataset.coverage
=============================================================================
