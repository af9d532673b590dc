------------------------------ MODULE Capture ------------------------------
(***************************************************************************)
(* Captures of one source running against the tree a tool keeps writing    *)
(* and pruning: scripts/capture_usage_series.py, capture() and the kept    *)
(* journals.  The tool appends records, prunes files and may start one     *)
(* anew; a run lists the tree, reads it file by file, merges what it read  *)
(* with the history store and writes the store.  A run may stop anywhere.  *)
(*                                                                         *)
(* In the running-totals format a run holds the kept tree's lock from its  *)
(* start to its end; the message format keeps nothing and takes no lock.   *)
(***************************************************************************)
EXTENDS Recorded

CONSTANTS
  File, Run,        \* the tree's files, naturals in walk order; the runs
  Nobody,           \* no run: the kept tree is not locked
  Formats,          \* the record shapes a tree may be in
  Records(_),       \* the records the tool may append, per format
  Caches(_),        \* the tool's own roll-ups, per format
  Figures,          \* the figures the owner may read for a day
  Today,
  Vocabularies,     \* model documents a checkout may hold, some not admitted
  SourceRows, Label,\* the source vocabulary, and the source captured here
  \* the bounds: a file's records, how often it is started, the tool's steps,
  \* and the owner's readings and the stopped runs together
  MaxRecords, MaxStarts, MaxTool, MaxOther

NoRecord == [kind |-> "none"]

\* A record as the readers decode it: a reading and a message that count
\* name their day and their figures.
IsRecord(rec) ==
  /\ rec.kind = "reading" => rec.day \in Day /\ rec.usage \in [Field -> Nat] /\ rec.turn \in Int
  /\ rec.kind = "message" => rec.day \in Day /\ rec.usage \in [Field -> Nat]

\* A roll-up counts the days and models it has seen, and over its lifetime the
\* classes of each model, where it carries that accounting.
IsCache(c) ==
  /\ IsFiniteSet(DOMAIN c.rows)
  /\ \A k \in DOMAIN c.rows : c.rows[k].day \in Day /\ c.rows[k].count \in Nat
  /\ c.usage \in [Ident -> [Class -> Nat]] \cup {NoUsageAccounting}
  /\ c.asOf \in Int /\ c.longest \in Nat \cup {NoLongest}

ASSUME CaptureAssumption ==
  /\ Nobody \notin Run
  /\ Day \subseteq Nat /\ IsFiniteSet(Day) /\ IsFiniteSet(Model)
  /\ \A d, e \in Day : d .. e \subseteq Day
  /\ \A f \in Formats : /\ \A rec \in Records(f) : IsRecord(rec)
                        /\ \A c \in Caches(f) : IsCache(c)
  /\ Figures \subseteq Nat /\ MaxRecords \in Nat \ {0}

\* The tool's messages all have an identity, and one replayed says the same.
ASSUME MessagesAssumption ==
  \A rec, other \in {m \in Records("messages") : m.kind = "message"} :
    rec.key # NoKey /\ (rec.key = other.key => rec.usage = other.usage)

VARIABLES
  format,    \* the tree's record shape
  live,      \* [File -> what the tool wrote]
  gen,       \* [File -> how many times it was started anew]: its identity
  there,     \* the files the tree holds
  kept,      \* [File -> the whole lines of its kept journal]
  torn,      \* [File -> the record a killed write left the head of, or NoRecord]
  keptGen,   \* [File -> the generation the kept journal was last extended from]
  cache,     \* the tool's roll-up
  store,     \* [Day -> Entry], the history store
  readings,  \* [Day -> the owner's verified figure, 0 for none]
  lock,      \* the run holding the kept tree
  run,       \* [Run -> its in-flight state]
  served,    \* the last section emitted
  failed,    \* how the last run that wrote the store ended
  steps      \* [tool, other -> how many so far]

tree == <<live, gen, there>>
journals == <<kept, torn, keptGen>>
vars == <<format, tree, journals, cache, store, readings, lock, run, served, failed, steps>>

Retains == format = "running"

\* What a run attributes its records by, whichever vocabulary it finds: one
\* that is not admitted refuses the run.
Loads ==
  {LET v == LoadModelVocabulary(document)
       scope == ModelScope(v, SourceRows, Label)
   IN [at |-> Attribution(v, scope), scope |-> scope]
   : document \in {x \in Vocabularies : AdmittedVocabulary(x) /\
                                          AdmittedSources(SourceRows, LoadModelVocabulary(x))}}
NoMerge == [refuses |-> FALSE]
Idle == [pc |-> "off", todo |-> {}, seen |-> {}, index |-> EmptyIndex,
         carried |-> [d \in Day |-> 0], merge |-> NoMerge, tail |-> <<>>, file |-> 0, gen |-> 0]
NoSection == [total |-> [d \in Day |-> 0], cats |-> [d \in Day |-> NoClasses],
              ids |-> [d \in Day |-> NoIds], days |-> {}, catDays |-> {}, modelDays |-> {},
              tiles |-> NoClasses, longest |-> 0, tally |-> NoTally, members |-> [i \in Ident |-> NoClasses], cached |-> FALSE]

Init ==
  /\ format \in Formats
  /\ live = [f \in File |-> <<>>] /\ gen = [f \in File |-> 0] /\ there = {}
  /\ kept = [f \in File |-> <<>>] /\ torn = [f \in File |-> NoRecord]
  /\ keptGen = [f \in File |-> 0]
  /\ cache \in Caches(format)
  /\ store = [d \in Day |-> Absent] /\ readings = [d \in Day |-> 0]
  /\ lock = Nobody /\ run = [r \in Run |-> Idle]
  /\ served = NoSection /\ failed = "none"
  /\ steps = [tool |-> 0, other |-> 0]

----------------------------------------------------------------------------
(* The tool and the owner. *)

ToolStep == /\ steps.tool < MaxTool
            /\ steps' = [steps EXCEPT !.tool = @ + 1]
            /\ UNCHANGED <<format, journals, cache, store, readings, lock, run, served, failed>>

\* A file is created with its first record; one started anew is another file.
ToolCreates(f, rec) ==
  /\ f \notin there /\ gen[f] < MaxStarts
  /\ there' = there \cup {f}
  /\ gen' = [gen EXCEPT ![f] = @ + 1]
  /\ live' = [live EXCEPT ![f] = <<rec>>]
  /\ ToolStep

ToolAppends(f, rec) ==
  /\ f \in there /\ Len(live[f]) < MaxRecords
  /\ live' = [live EXCEPT ![f] = Append(@, rec)]
  /\ UNCHANGED <<gen, there>> /\ ToolStep

ToolPrunes(f) ==
  /\ f \in there
  /\ there' = there \ {f}
  /\ UNCHANGED <<live, gen>> /\ ToolStep

OwnerReads(d, n) ==
  /\ steps.other < MaxOther
  /\ readings' = [readings EXCEPT ![d] = n]
  /\ steps' = [steps EXCEPT !.other = @ + 1]
  /\ UNCHANGED <<format, tree, journals, cache, store, lock, run, served, failed>>

----------------------------------------------------------------------------
(* One run. *)

\* Whether a run may begin: open_retained waits for the kept tree's lock.
MayStart(r) == run[r].pc = "off" /\ (Retains => lock = Nobody)

\* The admission and the union: every file of the tree, and every kept
\* journal whose file is gone; they are read in walk order.
Listing ==
  LET keptOnly == IF Retains THEN {f \in File \ there : kept[f] # <<>>} ELSE {}
  IN {[file |-> f, live |-> f \in there, gen |-> gen[f]] : f \in there \cup keptOnly}
IsNext(item, todo) == item \in todo /\ \A other \in todo : item.file <= other.file

Start(r) ==
  /\ MayStart(r)
  /\ lock' = IF Retains THEN r ELSE lock
  /\ run' = [run EXCEPT ![r] = [Idle EXCEPT !.pc = "walk", !.todo = Listing]]
  /\ UNCHANGED <<format, tree, journals, cache, store, readings, served, failed, steps>>

\* A listed file opens only if it is still the file that was listed.
Opens(item) == item.live => item.file \in there /\ gen[item.file] = item.gen

Indexed(x, rows, top) == [FoldLeft(AddRow, x, rows) EXCEPT !.sessions = CloseSession(@, rows, top)]

\* The rows of one file, and what of the run they move.
Walked(r, item) ==
  LET file == IF item.live THEN live[item.file] ELSE kept[item.file]
      w == WalkRunning(file)
      m == WalkMessages(run[r].seen, file)
  IN IF Retains
     THEN [run[r] EXCEPT !.todo = @ \ {item}, !.index = Indexed(@, w.rows, w.top),
                         !.carried = [d \in Day |-> @[d] + w.carried[d]]]
     ELSE [run[r] EXCEPT !.todo = @ \ {item}, !.index = Indexed(@, m.rows, "unknown"),
                         !.seen = m.seen]

\* KeptJournal: whether every kept line, and a line cut short, is a prefix of
\* the projection.
Extends(f) ==
  LET p == Projection(live[f]) IN
  /\ IsPrefix(kept[f], p)
  /\ torn[f] # NoRecord => Len(p) > Len(kept[f]) /\ p[Len(kept[f]) + 1] = torn[f]

(* Mutant: a conflict is appended after what is kept. *)
TailWhateverIsKept(item) ==
  LET p == Projection(live[item.file]) IN
  IF Retains /\ item.live THEN SubSeq(p, IF Extends(item.file) THEN Len(kept[item.file]) + 1 ELSE 1, Len(p))
  ELSE <<>>

\* What is left to append once every kept line has matched.
TailOf(item) ==
  LET p == Projection(live[item.file]) IN
  IF Retains /\ item.live /\ Extends(item.file)
  THEN SubSeq(p, Len(kept[item.file]) + 1, Len(p)) ELSE <<>>

\* The file is read to its end, and compared with its kept journal ...
ReadFile(r) ==
  /\ run[r].pc = "walk"
  /\ \E item \in run[r].todo :
     IsNext(item, run[r].todo) /\ run' = [run EXCEPT ![r] =
       IF ~Opens(item) THEN [run[r] EXCEPT !.todo = @ \ {item}]
       ELSE IF TailOf(item) = <<>> THEN Walked(r, item)
       ELSE [Walked(r, item) EXCEPT !.pc = "keep", !.tail = TailOf(item),
                                    !.file = item.file, !.gen = item.gen]]
  /\ UNCHANGED <<format, tree, journals, cache, store, readings, lock, served, failed, steps>>

\* ... and n records of its new tail are appended, the next one cut short.
AppendKept(r, n, cut) ==
  LET f == run[r].file IN
  /\ kept' = [kept EXCEPT ![f] = @ \o SubSeq(run[r].tail, 1, n)]
  /\ torn' = [torn EXCEPT ![f] = cut]
  /\ keptGen' = [keptGen EXCEPT ![f] = run[r].gen]

Keep(r) ==
  /\ run[r].pc = "keep"
  /\ AppendKept(r, Len(run[r].tail), NoRecord)
  /\ run' = [run EXCEPT ![r].pc = "walk", ![r].tail = <<>>]
  /\ UNCHANGED <<format, tree, cache, store, readings, lock, served, failed, steps>>

Release(r) == IF lock = r THEN Nobody ELSE lock
End(r) == run' = [run EXCEPT ![r] = Idle] /\ lock' = Release(r)

\* A tree that billed nothing, or a roll-up that says nothing of its
\* lifetime, refuses the run: no store is read.
Measured(r) == run[r].index.days # {} /\ AdmittedLifetimeUsage(cache)

NothingFound(r) ==
  /\ run[r].pc = "walk" /\ run[r].todo = {} /\ ~Measured(r)
  /\ End(r)
  /\ UNCHANGED <<format, tree, journals, cache, store, readings, served, failed, steps>>

\* The store and the readings are read, merged with what the walk measured
\* and corrected by the readings.
Merge(q) ==
  LET walked == DailySeries(q.index)
      fresh == ExtendWithCache(walked, cache)
      remembered == Seeded(store, readings)
      merged == MergedDays(fresh, remembered, q.carried)
      union == MergeHistory(fresh, merged)
      corrected == VerifiedSeries(union, readings)
  IN [refuses |-> ReadingsRefuse(union, readings, Today),
      series |-> corrected, ids |-> fresh.ids, readings |-> readings,
      entries |-> VerifiedEntries(merged, union, readings),
      \* the days whose emitted split is still the walk's own
      owned |-> ((walked.whole \ Overridden(fresh, remembered, q.carried))
                  \ Verified(readings)) \cap corrected.whole]

ReadStore(r) ==
  /\ run[r].pc = "walk" /\ run[r].todo = {} /\ Measured(r)
  /\ run' = [run EXCEPT ![r].pc = "merge", ![r].merge = Merge(run[r])]
  /\ UNCHANGED <<format, tree, journals, cache, store, readings, lock, served, failed, steps>>

\* The lifetime figures are the roll-up's, carried on, or the record's own.
LifetimeMembers(x, m) == IF cache.rows = <<>> THEN AccrueJoint(x, m.owned) ELSE AccrueModelStats(x, cache, m.owned)

Section(x, m) ==
  LET s == m.series IN
  [total |-> s.total, cats |-> s.cats, ids |-> s.ids, days |-> Window(s),
   catDays |-> TrailingRun(s, s.whole), modelDays |-> ModelDays(s),
   tiles |-> IF cache.rows = <<>> THEN WalkedStats(s) ELSE AccrueAfterCache(cache, s),
   longest |-> LongestSession(cache, x.sessions),
   tally |-> IF cache.rows = <<>> THEN SessionTally(x.sessions) ELSE NoTally,
   members |-> LifetimeMembers(x, m), cached |-> cache.rows # <<>>]

\* Why the run refuses after the store was written, if it does.
Outcome(x, m, section) ==
  LET s == m.series IN
  IF section.longest = NoLongest THEN "no-span"
  ELSE IF m.owned # {} /\ ~JointRefines(x, s.cats, m.ids, LedgerDays(m.owned)) THEN "joint"
  ELSE IF ~AssertLedgerBlock(LedgerBlock(x, m.owned, section.members)) THEN "ledger"
  ELSE IF TrailingRun(s, s.whole) = {} THEN "no-split"
  ELSE IF ~Partitions(s, TrailingRun(s, s.whole), LAMBDA d : SumParts(s.cats[d])) THEN "partition"
  ELSE IF ~AssertEmission(section) THEN "emission"
  ELSE "none"

\* A reading the series cannot take, or a store its own reader would not
\* admit, refuses the run before anything is written.
Finish(r) ==
  /\ run[r].pc = "merge"
  /\ LET m == run[r].merge
         section == Section(run[r].index, m)
         outcome == Outcome(run[r].index, m, section)
     IN \/ /\ m.refuses \/ ~Admitted(m.entries)
           /\ failed' = IF m.refuses THEN "reading" ELSE "store"
           /\ UNCHANGED <<store, served>>
        \/ /\ ~m.refuses /\ Admitted(m.entries)
           /\ store' = m.entries
           /\ failed' = outcome
           /\ served' = IF outcome = "none" THEN section ELSE served
  /\ End(r)
  /\ UNCHANGED <<format, tree, journals, cache, readings, steps>>

----------------------------------------------------------------------------
(* A run that stops: between two steps, or within a kept journal's append. *)

Crashes(r) ==
  /\ steps.other < MaxOther
  /\ steps' = [steps EXCEPT !.other = @ + 1]
  /\ End(r)
  /\ UNCHANGED <<format, tree, cache, store, readings, served, failed>>

StopBetween(r) == run[r].pc # "off" /\ UNCHANGED journals /\ Crashes(r)

StopInAppend(r) ==
  /\ run[r].pc = "keep"
  /\ LET f == run[r].file  tail == run[r].tail IN
     \E n \in 0 .. Len(tail) - 1 :
       \E cut \in {tail[n + 1], IF n = 0 THEN torn[f] ELSE NoRecord} :
         AppendKept(r, n, cut)
  /\ Crashes(r)

RunStep(r) == Start(r) \/ ReadFile(r) \/ Keep(r) \/ NothingFound(r) \/ ReadStore(r) \/ Finish(r)

Next ==
  \/ \E f \in File : \/ \E rec \in Records(format) : ToolCreates(f, rec) \/ ToolAppends(f, rec)
                     \/ ToolPrunes(f)
  \/ \E d \in Day, n \in Figures : OwnerReads(d, n)
  \/ \E r \in Run : RunStep(r) \/ StopBetween(r) \/ StopInAppend(r)

Spec == Init /\ [][Next]_vars

----------------------------------------------------------------------------
(* What must hold. *)

Writes(r) == run[r].pc = "merge" /\ run'[r].pc = "off" /\ store' # store
UsageOf(k) == (CHOOSE rec \in Records("messages") : rec.kind = "message" /\ rec.key = k).usage

\* What the tool writes and what is kept of it, the messages' identities, and
\* what a run carries.
Lines == Records(format)
KeptLines == {KeptRecord(rec) : rec \in Lines}
MessageKeys == {rec.key : rec \in {m \in Lines : m.kind = "message"}}
InFlight(q) ==
  [pc : {"off", "walk", "keep", "merge"}, todo : SUBSET [file : File, live : BOOLEAN, gen : Nat],
   seen : SUBSET MessageKeys, index : Indexes(q.index.sessions), carried : [Day -> Nat],
   merge : {q.merge}, tail : Seq(KeptLines), file : File \cup {0}, gen : Nat]

TypeOK ==
  /\ format \in Formats /\ cache \in Caches(format)
  /\ there \subseteq File /\ gen \in [File -> Nat] /\ live \in [File -> Seq(Lines)]
  /\ \A f \in File : Len(live[f]) <= MaxRecords /\ (f \in there => live[f] # <<>>)
  /\ kept \in [File -> Seq(KeptLines)] /\ keptGen \in [File -> Nat] /\ DOMAIN torn = File
  /\ readings \in [Day -> Nat] /\ \A d \in Day : store[d].total \in Nat
  /\ lock \in Run \cup {Nobody} /\ run = [r \in Run |-> run[r]]
  /\ \A r \in Run : run[r] \in InFlight(run[r]) /\ IsFiniteSet(run[r].seen)

\* What was kept of a file, and what a run is about to add to it, is of the
\* file's own accounting as long as the file is the one it was read from.
KeptIsOfItsFile(f) ==
  /\ keptGen[f] <= gen[f]
  /\ kept[f] # <<>> /\ keptGen[f] = gen[f] => IsPrefix(kept[f], Projection(live[f]))
TailIsOfItsFile(r) ==
  run[r].pc = "keep" =>
    /\ Retains /\ run[r].file \in File /\ run[r].gen <= gen[run[r].file]
    /\ run[r].gen = gen[run[r].file] =>
         IsPrefix(kept[run[r].file] \o run[r].tail, Projection(live[run[r].file]))

\* What a run is about to store is what the owner read, and otherwise no less
\* than what is stored unless an opening balance was set aside.
MergeRemembers(r) ==
  run[r].pc = "merge" =>
    LET m == run[r].merge IN
    /\ \A d \in Day : m.readings[d] \in Nat /\ m.entries[d].total \in Nat
    /\ \A d \in Verified(m.readings) :
         m.entries[d].total = m.readings[d] /\ m.series.total[d] = m.readings[d]
    /\ Retains => \A d \in Day :
         m.entries[d].total < store[d].total => m.readings[d] > 0 \/ run[r].carried[d] > 0

(* A run in flight over a kept tree is the one that holds its lock         *)
(* (open_retained).  A kept journal is only ever a prefix of the           *)
(* accounting of the file it was begun from, whatever was killed in        *)
(* between and however many runs there were (RetainedJournals,             *)
(* KeptJournal.feed).  Replaying a projection bills, sets aside and        *)
(* declares exactly what reading the journal did (accounting_projection).  *)
(* And what a run is about to store forgets nothing (merge_history,        *)
(* apply_verified_readings).                                               *)
CaptureInv ==
  /\ TypeOK
  /\ Retains => \A r \in Run : run[r].pc # "off" <=> lock = r
  /\ \A f \in File : KeptIsOfItsFile(f)
  /\ \A r \in Run : TailIsOfItsFile(r) /\ MergeRemembers(r)
  /\ \A f \in File : WalkRunning(Projection(live[f])) = WalkRunning(live[f])

\* A message bills once over the whole tree, however often and wherever the
\* tool replays it (reduce_line and the seen set of read_records).
BilledOnce ==
  \A r \in Run : format = "messages" =>
    SumFunction(run[r].index.total)
      = SumFunction([k \in run[r].seen |-> SumParts(UsageParts(UsageOf(k)))])

\* The store's figure of a day falls only where the owner read it, or where
\* this run set an opening balance aside, in the format whose runs are
\* serialised by the kept tree's lock (merge_history, open_retained).
StoreNeverForgets ==
  [][\A r \in Run : Retains /\ Writes(r) =>
       \A d \in Day : store'[d].total < store[d].total =>
         run[r].merge.readings[d] > 0 \/ run[r].carried[d] > 0]_vars

\* A day the owner read is remembered and served at that figure, raised or
\* lowered, whatever the walk and the store say of it (apply_verified_readings).
VerifiedStands ==
  [][\A r \in Run : Writes(r) =>
       \A d \in Verified(run[r].merge.readings) :
         /\ store'[d].total = run[r].merge.readings[d]
         /\ served' # served => served'.total[d] = run[r].merge.readings[d]]_vars

(* The run's own proofs of its output never refuse what it computed, after *)
(* the store was written: the joint refines the splits served, every       *)
(* breakdown is a partition of its window, a session's split is within its *)
(* total, and the store passes the reader's admission                      *)
(* (assert_joint_marginals, assert_partition, assert_ledger_block,         *)
(* assert_only_dates_and_integers, write_history_store).  And              *)
(* the members' lifetime figures never add up past the class tiles beside  *)
(* them, the relation the origin refuses a document over (capture).        *)
NoSelfRefusal ==
  /\ failed \notin {"joint", "ledger", "partition", "emission", "store"}
  /\ \A c \in Class : SumFunction([i \in Ident |-> served.members[i][c]]) <= served.tiles[c]

(* Whatever vocabulary the checkout holds, a capture prints its document   *)
(* and the export admits it under it: no walk, store, reading or model     *)
(* nobody has named yet can make one program refuse the other's document   *)
(* (capture, load_merge_source). And a lifetime kept over a baseline,      *)
(* where the section takes one, falls from one document to the next only   *)
(* with the figure of a day (apply_lifetime_baselines).                    *)
ExportAdmits ==
  [][served' # served =>
       /\ \A load \in Loads :
            LET doc == Document(load.at, load.scope, served', Today)
            IN AssertScoped(doc, load.scope) /\ AdmitMergeSource(doc, load.scope)
       /\ \A asOf \in Day :
            TakesBaseline(served) /\ TakesBaseline(served') /\
            Lifetime(served', asOf, 0) < Lifetime(served, asOf, 0) =>
              \E d \in Day : served'.total[d] < served.total[d]]_vars

(* A run files one reading of each figure in the lifelong ledger, whatever *)
(* sessions began together, so that no two of its rows contradict each     *)
(* other for every later run to append again; and its rows by model and    *)
(* class add up, by identity and by member, to the splits the store        *)
(* remembers of that day.  And the record and the graphing dataset cannot  *)
(* disagree about what a day measured or a member spent (record_run,       *)
(* merge_sessions, store_rows, model_category_rows, build_dataset).        *)
RecordAgrees ==
  [][\A r \in Run : Writes(r) /\ served' # served =>
       LET m == run[r].merge
           block == LedgerBlock(run[r].index, m.owned, served'.members)
       IN \A load \in Loads :
            LET rows == RecordRows(served', block, store', m.readings, BaselineRows(0, Today),
                                   load.at, load.scope, Today)
            IN /\ OneReadingEach(rows.usage) /\ OneReadingEach(rows.sessions)
               /\ JointRowsAgree(rows.usage, block, load.scope)
               /\ DatasetAgrees(Dataset(served', store', m.readings, load.at, load.scope), rows.usage)]_vars
=============================================================================
