------------------------------- MODULE Ledger -------------------------------
(***************************************************************************)
(* The lifelong ledger, scripts/usage_ledger.py: streams of rows that are  *)
(* only ever appended, their repair after an interrupted append, and the   *)
(* writers: the export run (record_run), the nightly snapshot of a panel   *)
(* (ledger_snapshot.py) and the backfill from the account's history        *)
(* (ledger_backfill_github.py).  The last two write one stream and may run *)
(* at once; nothing locks a stream.                                        *)
(*                                                                         *)
(* A stream is the sequence of its lines.  A row is a whole line; Cut is   *)
(* a last line without its newline, and Glued a line that is not a row.    *)
(* Each stream here holds the readings of one figure: one session, one     *)
(* day's tokens, one day's contributions.                                  *)
(***************************************************************************)
EXTENDS Integers, Sequences, FiniteSets, SequencesExt

CONSTANTS
  Instances,     \* the writers that run together, with the bounds on them:
                 \* the time, the changes of the world, the faults
  Figures,       \* the values of a figure, a set of positive naturals
  Settle,        \* SESSION_SETTLE_SECONDS, in ticks of the clock
  DayLength      \* ticks in a calendar day

Writer == {"export", "snapshot", "backfill"}
Stream == {"sessions", "usage", "github"}

ASSUME LedgerAssumption ==
  /\ Instances \subseteq [writers : SUBSET Writer, time : Nat, moves : Nat, faults : Nat]
  /\ Figures \subseteq Nat /\ Settle \in Nat /\ DayLength \in Nat \ {0}

VARIABLES
  instance, \* the writers that run in this behaviour, and its bounds
  clock,
  world,    \* what there is to measure
  file,     \* [Stream -> its lines, as a reader finds them]
  disk,     \* [Stream -> its lines, as they were last synced]
  named,    \* the streams whose file a power loss would leave in its directory
  run,      \* [Writer -> its run in flight]
  acked,    \* [Stream -> the rows appended and synced, so far]
  raced,    \* whether a line lay cut while two writers were under way
  steps     \* [moves, faults -> how many so far]

vars == <<instance, clock, world, file, disk, named, run, acked, raced, steps>>

----------------------------------------------------------------------------
(* Documents and rows. *)

Day(at) == at \div DayLength
NoDoc == [at |-> -1]

Row(kind, method, value, end, doc) ==
  [line |-> "row", kind |-> kind, method |-> method, value |-> value, end |-> end,
   at |-> doc.at]
Cut   == [line |-> "cut"]
Glued == [line |-> "glued"]

SessionRow(doc) == Row("session", "capture", doc.world.total, doc.world.end, doc)
StatRow(doc)    == Row("stat", "capture", doc.world.usage, 0, doc)

\* The day as the store remembers it; a verified day is marked.
StoreRow(doc) ==
  IF doc.world.verified > 0 THEN Row("total", "verified", doc.world.verified, 0, doc)
  ELSE Row("total", "store", doc.world.usage, 0, doc)

PanelRow(doc)    == Row("total", "panel", doc.world.github, 0, doc)
BackfillRow(doc) == Row("total", "backfill", doc.world.github, 0, doc)

\* The streams a run appends to, in sorted order.
Plan(w) == IF w = "export" THEN <<"sessions", "usage">> ELSE <<"github">>

----------------------------------------------------------------------------
(* The lines of a stream. *)

IsRow(line) == line.line = "row"
Rows(lines) == {lines[i] : i \in {j \in DOMAIN lines : IsRow(lines[j])}}
Malformed(lines) == \E i \in DOMAIN lines : ~IsRow(lines[i])
Partial(lines) == lines # <<>> /\ lines[Len(lines)] = Cut
WholeLines(lines) == IF Partial(lines) THEN Front(lines) ELSE lines

\* An append lands at the end, so its first line continues a cut one.
Extend(lines, more) ==
  IF Partial(lines) THEN Front(lines) \o <<IF Head(more) = Cut THEN Cut ELSE Glued>> \o Tail(more)
  ELSE lines \o more

\* The earlier rows of one reading: one identity, one method.  A stat belongs
\* to the day it was read on.
SameReading(lines, row) ==
  {i \in DOMAIN lines : /\ lines[i].kind = row.kind /\ lines[i].method = row.method
                        /\ row.kind = "stat" => Day(lines[i].at) = Day(row.at)}

(* Mutant: a session is compared by how long it lasted alone. *)
UnchangedDuration(previous, row) ==
  IF row.kind = "session" THEN previous.end = row.end ELSE previous.value = row.value

\* A session carries its end beside its figure.
Unchanged(previous, row) == previous.value = row.value /\ previous.end = row.end

\* A session that still runs can wait while its last reading is young.
Deferred(previous, row) ==
  /\ row.kind = "session"
  /\ row.at - row.end < Settle
  /\ row.at - previous.at < Settle

Known(lines, row) ==
  LET earlier == SameReading(lines, row)
      previous == lines[CHOOSE i \in earlier : \A j \in earlier : j <= i]
  IN earlier # {} /\ (Unchanged(previous, row) \/ Deferred(previous, row))

IfNew(lines, row) == IF Known(lines, row) THEN <<>> ELSE <<row>>

\* What one run appends to one stream.
NewRows(w, s, lines, doc) ==
  CASE s = "sessions" -> IfNew(lines, SessionRow(doc))
    [] s = "usage"    -> IfNew(lines, StatRow(doc)) \o IfNew(lines, StoreRow(doc))
    [] s = "github"   -> IfNew(lines, IF w = "snapshot" THEN PanelRow(doc) ELSE BackfillRow(doc))

(* Mutant: the latest reading of a figure is its current one. *)
PreferredLatest(standing, row) == IF row.at >= standing.at THEN row ELSE standing

\* Which of two readings is current: a session's latest, a verified one, the
\* larger, and the later of two alike.
Preferred(standing, row) ==
  LET later == IF row.at >= standing.at THEN row ELSE standing
      ownerRead(r) == r.method = "verified"
  IN IF row.kind = "session" THEN later
     ELSE IF ownerRead(standing) # ownerRead(row) THEN (IF ownerRead(row) THEN row ELSE standing)
     ELSE IF ~ownerRead(row) /\ row.value # standing.value
          THEN (IF row.value > standing.value THEN row ELSE standing)
     ELSE later

\* resolve: line by line, the reading that is current so far.
NoReading == [line |-> "none"]
IsReading(line) == line.line = "row" /\ line.kind # "stat"
Weigh(standing, line) ==
  CASE ~IsReading(line) -> standing
    [] IsReading(line) /\ standing = NoReading -> line
    [] OTHER -> Preferred(standing, line)
View(lines) == FoldLeft(Weigh, NoReading, lines)

\* export_ledger: the views are rebuilt from the lines, or refused over one
\* that is no row; a figure without a reading has no row in them.
Exports(lines) == ~Malformed(lines) /\ View(lines) # NoReading

----------------------------------------------------------------------------

Idle == [pc |-> "off", doc |-> NoDoc, todo |-> <<>>, seen |-> 0, lines |-> <<>>]

Init ==
  /\ instance \in Instances
  /\ clock = 0
  /\ world = [end |-> 0, total |-> 1, usage |-> 1, verified |-> 0, github |-> 1]
  /\ file = [s \in Stream |-> <<>>] /\ disk = [s \in Stream |-> <<>>] /\ named = {}
  /\ run = [w \in Writer |-> Idle]
  /\ acked = [s \in Stream |-> {}]
  /\ raced = FALSE
  /\ steps = [moves |-> 0, faults |-> 0]

Passes ==
  /\ clock < instance.time
  /\ clock' = clock + 1
  /\ UNCHANGED <<instance, world, file, disk, named, run, acked, steps>>

\* The session spends, a source or the owner's reading of it moves.  A session
\* ends early enough to be settled within the run's time.
Moves(changed) ==
  /\ steps.moves < instance.moves
  /\ steps' = [steps EXCEPT !.moves = @ + 1]
  /\ world' = changed
  /\ UNCHANGED <<instance, clock, file, disk, named, run, acked>>

WorldMoves ==
  \/ "export" \in instance.writers /\ clock + Settle <= instance.time
     /\ Moves([world EXCEPT !.end = clock, !.total = @ + 1])
  \/ \E n \in Figures : \/ "export" \in instance.writers /\ Moves([world EXCEPT !.usage = n])
                        \/ "export" \in instance.writers /\ Moves([world EXCEPT !.verified = n])
                        \/ "snapshot" \in instance.writers /\ Moves([world EXCEPT !.github = n])

----------------------------------------------------------------------------
(* One run. *)

At(w, pc) == run[w].pc = pc
Goes(w, pc) == run' = [run EXCEPT ![w].pc = pc]
End(w) == run' = [run EXCEPT ![w] = Idle]
Keeps == UNCHANGED <<instance, clock, world, named, steps>>

\* The run measures.
Start(w) ==
  LET doc == [at |-> clock, world |-> world] IN
  /\ w \in instance.writers /\ At(w, "off")
  /\ run' = [run EXCEPT ![w] = [Idle EXCEPT !.doc = doc, !.todo = Plan(w),
               !.pc = CASE w = "export" -> "keep" [] w = "snapshot" -> "fetch" [] OTHER -> "ask"]]
  /\ Keeps /\ UNCHANGED <<file, disk, acked>>

\* archive_capture: the export keeps its document beside the record, which
\* holds only its digest.
KeepLast(w) ==
  /\ At(w, "keep") /\ Goes(w, "repair")
  /\ Keeps /\ UNCHANGED <<file, disk, acked>>

\* The panel is read, after its retries, and is current ...
Fetch(w) ==
  /\ At(w, "fetch")
  /\ run' = [run EXCEPT ![w].pc = "repair", ![w].doc.world = world]
  /\ Keeps /\ UNCHANGED <<file, disk, acked>>

\* ... or refused, or not current: its stream is left as it is.
FetchRefused(w) ==
  /\ At(w, "fetch") /\ Goes(w, "done")
  /\ Keeps /\ UNCHANGED <<file, disk, acked>>

\* The account's history is asked for, the rate limit waited out (run_gh) ...
Ask(w) ==
  /\ At(w, "ask")
  /\ run' = [run EXCEPT ![w].pc = "repair", ![w].doc.world = world]
  /\ Keeps /\ UNCHANGED <<file, disk, acked>>

\* ... or an answer is refused, or never comes: the run is.
AskRefused(w) ==
  /\ At(w, "ask") /\ End(w)
  /\ Keeps /\ UNCHANGED <<file, disk, acked>>

Current(w) == Head(run[w].todo)

(* Mutant: the tail is taken for whole. *)
RepairNot(w) == At(w, "repair") /\ Goes(w, "read") /\ Keeps /\ UNCHANGED <<file, disk, acked>>

\* The tail is measured ...
Repair(w) ==
  LET lines == file[Current(w)] IN
  /\ At(w, "repair")
  /\ run' = [run EXCEPT ![w].pc = IF Partial(lines) THEN "truncate" ELSE "read",
                        ![w].seen = IF Partial(lines) THEN Len(lines) - 1 ELSE 0]
  /\ Keeps /\ UNCHANGED <<file, disk, acked>>

\* ... and cut off where it was measured; a file that became shorter grows
\* by a line of nothing.
Truncate(w) ==
  LET s == Current(w) IN
  /\ At(w, "truncate") /\ Goes(w, "read")
  /\ file' = [file EXCEPT ![s] = IF run[w].seen <= Len(@) THEN SubSeq(@, 1, run[w].seen)
                                 ELSE Append(@, Cut)]
  /\ Keeps /\ UNCHANGED <<disk, acked>>

\* After one stream the next, in order.
Advance(w) ==
  run' = [run EXCEPT ![w].todo = Tail(@), ![w].lines = <<>>, ![w].seen = 0,
                     ![w].pc = IF Len(run[w].todo) = 1 THEN "done" ELSE "repair"]

\* Every line is admitted; one that is not refuses the run.
ReadIndex(w) ==
  LET s == Current(w)
      new == NewRows(w, s, file[s], run[w].doc)
  IN /\ At(w, "read")
     /\ \/ Malformed(file[s]) /\ End(w)
        \/ ~Malformed(file[s]) /\ new = <<>> /\ Advance(w)
        \/ /\ ~Malformed(file[s]) /\ new # <<>>
           /\ run' = [run EXCEPT ![w].pc = "write", ![w].lines = new]
     /\ Keeps /\ UNCHANGED <<file, disk, acked>>

WriteLines(w) ==
  /\ At(w, "write") /\ Goes(w, "sync")
  /\ file' = [file EXCEPT ![Current(w)] = Extend(@, run[w].lines)]
  /\ Keeps /\ UNCHANGED <<disk, acked>>

(* Mutant: the append is not synced. *)
SyncNot(w) ==
  /\ At(w, "sync") /\ Advance(w)
  /\ acked' = [acked EXCEPT ![Current(w)] = @ \cup Rows(run[w].lines)]
  /\ Keeps /\ UNCHANGED <<file, disk>>

Sync(w) ==
  LET s == Current(w) IN
  /\ At(w, "sync") /\ Advance(w)
  /\ disk' = [disk EXCEPT ![s] = file[s]]
  /\ acked' = [acked EXCEPT ![s] = @ \cup Rows(run[w].lines)]
  /\ Keeps /\ UNCHANGED file

Finish(w) ==
  /\ At(w, "done") /\ End(w)
  /\ Keeps /\ UNCHANGED <<file, disk, acked>>

----------------------------------------------------------------------------
(* Faults. *)

Fault == /\ steps.faults < instance.faults
         /\ steps' = [steps EXCEPT !.faults = @ + 1]
         /\ UNCHANGED <<instance, clock, world>>

\* A write that is killed, or short: some lines, and the next one cut.
WritesShort(w) ==
  /\ At(w, "write") /\ End(w) /\ Fault
  /\ \E n \in 0 .. Len(run[w].lines) - 1 :
       file' = [file EXCEPT ![Current(w)] = Extend(@, SubSeq(run[w].lines, 1, n) \o <<Cut>>)]
  /\ UNCHANGED <<disk, named, acked>>

\* A run that is killed between two steps, or refused by the system.
Stops(w) == ~At(w, "off") /\ End(w) /\ Fault /\ UNCHANGED <<file, disk, named, acked>>

\* What a power loss may leave of a stream: what was synced, and any part of
\* what was not.
Survivors(synced, lines) ==
  {synced} \cup
  UNION {{SubSeq(lines, 1, n)} \cup (IF n < Len(lines) THEN {SubSeq(lines, 1, n) \o <<Cut>>} ELSE {})
         : n \in Len(WholeLines(synced)) .. Len(lines)}

\* write_lines syncs the file and never its directory: until the system has
\* written the new file's entry on its own account, the whole file may go.
Remnants(s) == Survivors(disk[s], file[s]) \cup (IF s \in named THEN {} ELSE {<<>>})

Gone(s) == s \notin named /\ file'[s] = <<>>

PowerLoss ==
  /\ run' = [w \in Writer |-> Idle] /\ Fault
  /\ file' \in {left \in [Stream -> UNION {Remnants(s) : s \in Stream}] :
                \A s \in Stream : left[s] \in Remnants(s)}
  /\ disk' = file'
  /\ named' = named \cup {s \in Stream : file'[s] # <<>>}
  /\ acked' = [s \in Stream |-> IF Gone(s) THEN {} ELSE acked[s]]

\* The system writes the directory entry of a file it has been given.
EntryWritten(s) ==
  /\ s \notin named /\ file[s] # <<>>
  /\ named' = named \cup {s}
  /\ UNCHANGED <<instance, clock, world, file, disk, run, acked, steps>>

Overlap(r) == \E v, w \in Writer : v # w /\ r[v].pc # "off" /\ r[w].pc # "off"
Races == raced' = (raced \/ ((Overlap(run) \/ Overlap(run')) /\ \E s \in Stream : Partial(file'[s])))

RunStep(w) ==
  \/ Start(w) \/ KeepLast(w) \/ Fetch(w) \/ FetchRefused(w) \/ Ask(w) \/ AskRefused(w)
  \/ Repair(w) \/ Truncate(w) \/ ReadIndex(w) \/ WriteLines(w) \/ Sync(w) \/ Finish(w)

Next ==
  /\ \/ Passes \/ WorldMoves \/ PowerLoss
     \/ \E s \in Stream : EntryWritten(s)
     \/ \E w \in Writer : RunStep(w) \/ WritesShort(w) \/ Stops(w)
  /\ Races

Spec == Init /\ [][Next]_vars

\* The schedule starts every writer again, and time passes.
FairSpec == Spec /\ WF_vars(Passes /\ Races) /\ \A w \in Writer : WF_vars(RunStep(w) /\ Races)
----------------------------------------------------------------------------
(* What must hold.  The two programs that write one stream may meet over a *)
(* line that one of them left cut: what follows is set apart (raced).      *)

World == [end : Nat, total : Nat, usage : Nat, verified : Nat, github : Nat]
Doc   == [at : Nat, world : World]
RowSet == [line : {"row"}, kind : {"session", "stat", "total"},
           method : {"capture", "store", "verified", "panel", "backfill"},
           value : Nat, end : Nat, at : Nat]
Line == RowSet \cup {Cut, Glued}

Run == [pc : {"off", "keep", "fetch", "ask", "repair", "truncate", "read", "write", "sync", "done"},
        doc : Doc \cup {NoDoc}, todo : Seq(Stream), seen : Nat, lines : Seq(RowSet)]

RunOK(r) ==
  /\ r.pc # "off" => r.doc \in Doc
  /\ r.pc \notin {"off", "done"} => r.todo # <<>>
  /\ r.pc = "write" => r.lines # <<>>

TypeOK ==
  /\ clock \in Nat /\ world \in World /\ raced \in BOOLEAN
  /\ file \in [Stream -> Seq(Line)] /\ disk \in [Stream -> Seq(Line)] /\ named \subseteq Stream
  /\ run \in [Writer -> Run] /\ (\A w \in Writer : RunOK(run[w]))
  /\ acked \in [Stream -> SUBSET RowSet]

\* A line that is no row is a cut one, and the last.
OnlyATailIsDamaged(lines) == \A i \in DOMAIN lines : ~IsRow(lines[i]) => i = Len(lines) /\ lines[i] = Cut

\* What was acknowledged is on the disk, and what is there whole is what the
\* stream begins with.
Safe(rows, synced, lines) ==
  /\ rows \subseteq Rows(synced)
  /\ OnlyATailIsDamaged(synced) /\ OnlyATailIsDamaged(lines)
  /\ \A i \in 1 .. Len(WholeLines(synced)) : i \in DOMAIN lines /\ lines[i] = synced[i]

\* What a run in flight relies on: the tail it measured is still there, the
\* tail it appends to is whole, its own rows are in the file.
Relies(r, lines) ==
  /\ r.pc = "truncate" => Partial(lines) /\ r.seen = Len(lines) - 1
  /\ r.pc \in {"read", "write"} => ~Partial(lines)
  /\ r.pc = "sync" => Rows(r.lines) \subseteq Rows(lines)

(* The types, and: a row that was appended and synced stays in the stream  *)
(* and on the disk, whatever is killed, refused or lost afterwards, unless *)
(* the power goes before the system has written the entry of a new file,   *)
(* which then takes all its rows with it (acked, PowerLoss); and a line    *)
(* that is no row is only ever a last one, which the next run repairs      *)
(* (append_rows, repair_partial_tail, write_lines).                        *)
LedgerInv ==
  /\ TypeOK
  /\ ~raced =>
       /\ \A s \in Stream : Safe(acked[s], disk[s], file[s])
       /\ \A w \in Writer : run[w].pc \notin {"off", "done"} => Relies(run[w], file[Head(run[w].todo)])
       /\ \A s \in Stream : Partial(file[s]) => ~Overlap(run)

Figure(lines) == IF View(lines) = NoReading THEN 0 ELSE View(lines).value

(* What the disk says of a figure falls only to a reading of the owner's,  *)
(* however little a pruned tree, a store or a panel says of it later, and  *)
(* whatever is lost with the power; a new file whose entry was not yet     *)
(* written may go as a whole, and never in part (resolve, preferred,       *)
(* write_lines).                                                           *)
FigureNeverDrops ==
  [][\A s \in {"usage", "github"} : ~raced' /\ Figure(disk'[s]) < Figure(disk[s]) =>
       Gone(s) \/ View(disk'[s]).method = "verified"]_vars

Settled(doc) == doc.at - doc.world.end >= Settle

(* Once a run that measured a settled session is over, the record is at    *)
(* that session's final figure or a later one: a reading may be put off    *)
(* while the session runs, the last one never is (deferred, unchanged).    *)
SettledIsRecorded ==
  [][\A w \in Writer : Finish(w) /\ w = "export" /\ ~raced /\ Settled(run[w].doc) =>
       LET now == View(file["sessions"])
           measured == run[w].doc.world
       IN now.end >= measured.end /\ now.value >= measured.total]_vars

(* What makes both promises inductive.  Only the export writes a session,  *)
(* and only where sessions are kept; a run works through its plan in       *)
(* order.                                                                  *)
NoSessions(lines) == \A row \in Rows(lines) : row.kind # "session"

KeepsToItsPlan(w) ==
  LET r == run[w] IN
  r.pc # "off" =>
    /\ r.todo \in {Plan(w), <<>>} \cup (IF w = "export" THEN {<<"usage">>} ELSE {})
    /\ w = "export" => r.pc \notin {"fetch", "ask"} /\ (r.pc = "done" => r.todo = <<>>)
    /\ r.pc \in {"write", "sync"} =>
         IF Head(r.todo) = "sessions" THEN r.lines = <<SessionRow(r.doc)>> ELSE NoSessions(r.lines)

(* The readings of a session are in the order they were taken in, none is  *)
(* ahead of what there is to measure or of the run under way, and a run    *)
(* that is past them has left one at least as far as it measured itself.   *)
NotAhead(row, doc) == row.at <= doc.at /\ row.end <= doc.world.end /\ row.value <= doc.world.total

InOrder(lines) ==
  \A i, j \in DOMAIN lines :
    i <= j /\ IsRow(lines[i]) /\ IsRow(lines[j]) =>
      lines[i].at <= lines[j].at /\ lines[i].end <= lines[j].end /\ lines[i].value <= lines[j].value

Past(r) == r.pc # "off" /\ r.todo # Plan("export")

Chronicle(lines, r) ==
  /\ \A row \in Rows(lines) : row.kind = "session" /\ row.method = "capture"
  /\ InOrder(lines)
  /\ \A row \in Rows(lines) : NotAhead(row, [at |-> clock, world |-> world])
  /\ r.pc # "off" =>
       /\ NotAhead(SessionRow(r.doc), [at |-> clock, world |-> world])
       /\ \A row \in Rows(lines) : NotAhead(row, r.doc)
  /\ Past(r) /\ Settled(r.doc) =>
       \E row \in Rows(lines) : row.end >= r.doc.world.end /\ row.value >= r.doc.world.total

OrderInv ==
  /\ world.end <= clock
  /\ \A s \in {"usage", "github"} : NoSessions(file[s]) /\ NoSessions(disk[s])
  /\ \A w \in Writer : KeepsToItsPlan(w)
  /\ ~raced => Chronicle(file["sessions"], run["export"])

(* The record is kept, and in order: whatever is killed, refused or lost,  *)
(* a row that was reported written stays, or its file goes as a whole      *)
(* before its entry was written; no line but a last one is damaged, and    *)
(* the readings of a session stand in the order they were taken in         *)
(* (append_rows, repair_partial_tail, new_rows).                           *)
RecordInv == LedgerInv /\ OrderInv

(* Whatever was killed, refused or lost, the views exported of the record  *)
(* come to say what there is to measure, and no line is left that would    *)
(* refuse them: the session's last figure, the owner's reading, at least   *)
(* what the store remembers (export_ledger).                               *)
CaughtUp ==
  "export" \in instance.writers => <>[](
    LET session == View(file["sessions"])
        day == View(file["usage"])
    IN /\ Exports(file["sessions"]) /\ session.end = world.end /\ session.value = world.total
       /\ Exports(file["usage"])
       /\ IF world.verified > 0 THEN day.value = world.verified ELSE day.value >= world.usage)
=============================================================================
