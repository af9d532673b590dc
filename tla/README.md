# A formal model of naranjo.online

naranjo.online is a small origin: a Go server that serves a page and a panel
API, and a workstation pipeline that measures, seals and pushes the data of one
of the panels, and files what it measured in a ledger of its own.  This directory
holds TLA+ models of the parts whose correctness depends on order, failure and
time, or on two programs agreeing about one figure; TLC configurations that
check them on small instances; and proofs, checked by TLAPS, of the properties
that matter most, for every value of the constants.

1. [The system](#1-the-system)
2. [Modules](#2-modules)
3. [The replay floor and its store](#3-the-replay-floor-and-its-store)
4. [The sealed data-root loop](#4-the-sealed-data-root-loop)
5. [The fetch-backed loops](#5-the-fetch-backed-loops)
6. [The registry](#6-the-registry)
7. [The page's polling](#7-the-pages-polling)
8. [The capture and its stores](#8-the-capture-and-its-stores)
9. [The lifelong ledger](#9-the-lifelong-ledger)
10. [The scheduled push and its check](#10-the-scheduled-push-and-its-check)
11. [The badge publishers](#11-the-badge-publishers)
12. [Runs and bounds](#12-runs-and-bounds)
13. [Properties](#13-properties)
14. [Proofs](#14-proofs)
15. [Where the code and its documents disagree](#15-where-the-code-and-its-documents-disagree)
16. [What is not modelled](#16-what-is-not-modelled)

## 1. The system

| Part | Code | State | Operations | What is hard |
|---|---|---|---|---|
| Replay floor store | `internal/server/panelsdata.go`, `filelock_unix.go` | floor marker, tombstone, retained copy, lock file | load, retain, store, operator's reset | several processes, crash between two renames, power loss before a directory sync, lost or rotated files |
| Sealed data-root loop | `internal/panels/dataroot.go` | floor in memory, what is served, failure and recovery flags | one tick every 30 s: resolve, restore, read, admit, retain, commit, publish, judge the age | restarts of older and newer builds, a host clock that steps, replays, a commit of unknown length |
| Series decoding | `internal/panels/mapping.go`, `types.go` | none | decode and admit a document | wide but pure |
| Registry and index | `internal/panels/registry.go`, `handler.go` | one prepared response per panel, one index | prepare, swap, rebuild, serve | several producers, readers between two swaps |
| Fetch-backed loops | `internal/panels/refresh.go`, `fetch.go` | rate budgets, cooldowns, retained halves, backoff | wake, reserve, fetch, cool, publish, mark stale | two producers under one status, retry ladders, a clock that steps back |
| Media delivery | `internal/server/media.go` | transfer slots | acquire, open, serve | slots at their limit |
| Process lifecycle | `cmd/server`, `internal/server/server.go` | none beyond start and shutdown | configure, serve, drain | little |
| Page polling | `frontend/src/lib/panels.ts` | shared loops, one read in flight, last good envelope | watch, read, deliver, stop | answers that race a stop or a visibility change |
| Push pipeline | `scripts/usage-export/push-usage-series.sh` | checkout, scratch, push state | fast-forward, capture, export, seal, push, record | signals and other git actors, a lost acknowledgement |
| Capture and history | `scripts/capture_usage_series.py`, `export_usage_series.py` | kept journals and their lock, history store, the owner's readings | walk, keep, read the store, merge, write, emit; admit and merge | a tool that writes, prunes and replaces files under the walk, a kill within an append, one program refusing another's document |
| Lifelong ledger | `scripts/usage_ledger.py`, `ledger_snapshot.py`, `ledger_backfill_github.py` | append-only streams | repair, read, append, sync, resolve, rebuild the views | an interrupted append, a power loss, two programs on one stream |
| Served check | `scripts/usage-export/served-check.py` | push state, NOT-SERVED latch | record, check, notify | pushes between checks, clock steps, a verdict that is not written |
| Badge publishers | `scripts/ci/coverage_badges.py` | one branch, one commit each | list, fetch, decide, push with a lease | publishers in any order, a push whose answer is lost, a branch changed by hand |

How they interact: the workstation captures, exports and seals a document and
pushes it onto a host volume (`push-usage-series.sh`); the origin's data-root
loop reads that volume, and shares the registry's panel and index with the
refresh loops; the floor store is the loop's memory across restarts; the page
polls the panel API; the next push asks the public API whether the last one is
served.  There is no call back from the origin to the workstation: everything
between the two is the file on the volume.

What makes each part correct, in one line each: a document once accepted is
never replaced by an older one, across crashes and restarts (floor store, loop);
a panel says `ok` only of fresh data (loop, refresh loops); an upstream is not
asked more often than its budget, and is asked again eventually (refresh loops);
at most one read is in flight and nothing is delivered after a stop (page); a
token is billed once, a remembered day is not forgotten, and no program refuses
what another wrote (capture); what was appended and synced is never lost
in part (ledger); an outage is told of in time and a page is said to serve exactly when it
serves what was pushed (served check); older badges never replace newer ones (publishers).

`PROJECT.json` lists each hazard at the line where it bites and the properties
that would catch it.

## 2. Modules

| Module | What it is |
|---|---|
| `ReplayFloor` | abstract specification: one atomic floor that is raised, acknowledged, lost and reset |
| `FloorStore` | the state directory, its lock and the processes that store in it |
| `DataRoot` | the data-root loop of every process, over `FloorStore` and a data volume |
| `RateBudget` | the rate budgets and cooldowns of a live source, over a clock that may be stepped |
| `Activity` | the refresh loop of the activity panel: two producers, their budgets, the retry ladder |
| `Registry` | producers that swap a panel's response and rebuild the one index |
| `PanelWatch` | the page's polling of one panel: blocks that share a loop, its reads, its stop |
| `Journal` | operators: the two readers of a record tree, and the accounting projection |
| `Vocabulary` | operators: the admission of the model and source vocabularies, and the fold of an identity onto a member |
| `History` | operators: from the rows of a walk to the emitted section and the next history store |
| `Export` | operators: the document under one vocabulary, and its admission by the export |
| `Recorded` | operators: the readings one run files in the ledger, and the dataset beside them |
| `Capture` | capture runs against a tree a tool keeps writing and pruning, over the operators above |
| `Ledger` | the streams of the ledger and their three writers |
| `Push` | the scheduled run: check, capture, export, push, record, against a host and a clock |
| `Badges` | the publishers that race for the badge branch |
| `DataRootProofs`, `RateBudgetProofs`, `PanelWatchProofs`, `CaptureProofs`, `LedgerProofs`, `PushProofs`, `BadgesProofs` | theorems about the module of that name (`DataRootProofs`: and `FloorStore`; `RateBudgetProofs`: and `Activity`; `PanelWatchProofs`: and `Registry`), and the refinements |
| `FoldLemmas` | lemmas: induction over numbers, sequences and finite sets, what a fold computes, how a finite sum moves |
| `MCFloorStore`, `MCDataRoot`, `MCActivity`, `MCCapture`, `MCLedger` | constants for TLC |

`DataRoot` EXTENDS `FloorStore` and composes with it: a tick's commit takes
`FloorStore`'s own steps.  The refinement chain is
`DataRoot => FloorStore => ReplayFloor`, each link both checked and proved.
`Activity` EXTENDS `RateBudget` the same way and is shown to implement it.
`Registry` stands alone: a producer there is either kind of loop, reduced to its
swaps.  `PanelWatch` stands at the other end of the panel API: of the origin it
needs only that what is served changes from time to time.

The workstation's modules are layered as the program is: `History` and
`Vocabulary` EXTEND `Journal`, `Export` EXTENDS both, `Recorded` EXTENDS
`Export`, and `Capture` EXTENDS `Recorded`: it is the state machine whose steps
apply those operators.  `Ledger` takes up where `Recorded` ends, with one figure
of each kind in place of the rows.  `Push` takes the capture, the export and the
origin's admission as single steps and looks at what each leaves for the next.

Definitions whose comment begins with "Mutant" are not part of a model: each is
the form a definition would have with one plausible bug in it.  `PROJECT.json`
pairs each with the property that the bug breaks, which shows that the property
says something about the code.

## 3. The replay floor and its store

A pushed document is identified by the digest of its ciphertext, and a floor is
the pair (instant, digest) of the document last accepted.  So a floor is modelled
as a document, `InstantOf` gives its instant, and `AtOrAbove(d, e)` is the
comparison the code makes: strictly later, or the same document.  Two different
documents of one instant are the case that matters (`errFloorDivergedAtInstant`).

| Model | Code |
|---|---|
| `disk.marker`, `disk.tomb`, `disk.kept` | `token-usage.floor`, `.floor.init` and `token-usage.accepted.enc` |
| `platter` | the same three as a power loss would leave them: a rename is there for sure only after `syncFloorDirectory` |
| `lock` | `lockExclusive` on the lock file, released by the kernel when its holder dies |
| `stage[p]` | how far `publishSealed` of process p is: `keep`, `keepSync` (Retain), `lock`, `compare`, `mark`, `markSync`, `tomb`, `tombSync` (storeFloorMarker), then `stored` or `refused` |
| `acked`, `waived` | history only: documents whose store reported success since the last reset, and operations a reset overtook |
| `faults` | bound on storage faults, crashes, power losses, lost markers and resets together |

Each action is one step of the code between two points where another process, a
crash or a power loss can come in.  `StoreFails` stands for every error return of
`storeFloorMarker`: it releases the lock and leaves what was renamed before.
`PowerLoss` gives each file its synced or its visible content independently,
which covers every order in which a file system may have written them.  The
operator's reset is the documented ceremony, two unlinks, marker first; it is the
only thing that withdraws a promise.  A rotated key or a damaged byte makes the
marker `Untrusted`, which refuses every tick.

`ReplayFloor` says what all this amounts to: a floor that only rises, that is at
or above every acknowledged document unless it is visibly lost, and that a reset
alone returns to nothing.  Its state is what the *platter* holds, so the
refinement says that even power losses are invisible at that level.

## 4. The sealed data-root loop

| Model | Code |
|---|---|
| `source` | the sealed file on the data volume: a document, nothing, or `Bad` (over the cap, unauthentic, malformed, a wrong source set: refused for its own sake) |
| `clock` | the host clock, which may step to any value at any moment |
| `pc[p]` | `wake`, `load`, `tombstone`, `restore`, `resolve`, `read`, `commit`, `judge`, in the order of `dataRootLoop` |
| `durable` | whether a state directory is configured; without one the floor lives in the process alone |
| `mem[p]` | the loop's local variables (`floor`, `floorResolved`, `floorFromMarker`, `markerPresent`, `restorePending`, `acceptedInProcess`, `lastFailure`, `degradedByLoop`) |
| `panel[p]` | what `state.current` holds: the document (or the embedded snapshot), its status, and whether it was restored |
| `loaded`, `fresh` | the marker loaded this tick; the freshness computed at admission, which is served after the commit |
| `seen`, `before` | history only: what the last read of the volume returned; what had been promised when the process started |

`mem.failing` keeps of `lastFailure` only whether it is empty, which is all the
state depends on.  A marker and its tombstone are read by `loadFloorMarker` in
two steps outside the lock (`LoadMissing`, then `LoadGone` or `LoadAbsent`), and
in one step by a store, which holds the lock.  The clock is read once per
admission, and again when the age is judged.  `EmbeddedInstants` are the capture
instants of the snapshots that an old and a new build embed, so a restart may be
an upgrade or a rollback.  The embedded snapshot is assumed loadable and past
its grace.  `BootStatus` is `"stale"` for the deployed, fetch-backed panel and
`"ok"` for the snapshot-only one that `buildBuiltinPanels` falls back to.

The chart deploys one replica, but the code takes two processes over one
directory seriously (`filelock_unix.go:3-21`, a rolling update, a hand-run
container), and so do the runs.

Fairness.  `Start` is weakly fair: the platform restarts a container that died.
`Tick` is weakly fair: the loop re-arms its timer on every path and no step of a
tick waits for another actor, except the commit.  `CommitProgress` is weakly
fair: system calls return.  `LockWait` is strongly fair: `flock` blocks and the
kernel wakes a waiter, but the lock is not held continuously free.  Nothing else
is fair: no push, no clock repair, no operator and no fault is owed.  The run
with fairness has one process, so its liveness covers a holder that dies and the
store that is tried again, and not a waiter of another process.

## 5. The fetch-backed loops

| Model | Code |
|---|---|
| `asked`, `age` | the role is in the rate-limit map `last`; `age` is now minus that instant, negative after a step back |
| `gated`, `remaining` | the role is in the map `gates`; `remaining` is the cooldown's end minus now |
| `Due`, `Asks`, `HeldBack` | `reserve` (`fetch.go`), with `coolOnRateLimit` for a refusal for rate reasons |
| `pc`, `sleep`, `backoff` | `refreshLoop`: its timer and the next rung of its ladder |
| `held` | the halves whose payload the source retains |
| `due`, `live` | the round's own reservations, and `commitsFresh` |
| `status` | what `state.current` serves |
| `working` | the environment: which upstreams answer, and whether the payload fits its response budget |
| `apart`, `calm`, `refused`, `last` | history only |

The code compares instants with the present and never with each other, so
`RateBudget` keeps the two differences instead, and no bound on time is needed.
A difference is saturated at `Longest` or `-MaxStep`; a step back from a saturated
value may end anywhere the true value could have been, so nothing is lost.
`apart` and `calm` measure the same lapses on a clock that never steps back: the
properties are about them.

A round of `Activity` is the code's `refreshActivity` with one action for each
way a half can end.  The code reads the clock once per round, so time moves
between rounds; a step of the clock during a round is a step right after it.
The unit of time is the loop's cadence, which is the panel's TTL (one minute).
The first rung of the ladder is one unit, the cooldown and the ceiling of the
ladder are three (in the code fifteen), which leaves the ladder a rung between
them.  `credential` says whether the process has one: without it the commit half is an
empty list that makes no claim.  The deployed intervals are one unit with the
credential; the run `Activity` takes two, so that an interval, the cadence and
the ladder do not fall together.

Fairness.  `Round` is weakly fair: every request has a timeout, and every exit of
a round arms the timer again.  `TimePasses` is weakly fair: time passes.  Neither
an upstream's answer nor a repair of the clock is owed; `MaxJumps` makes the
steps of the clock finitely many, which is what liveness needs (a clock stepped
back again before each deadline would hold a role back for ever).

## 6. The registry

`status[p]` is the status of the response that `state.current` of panel p holds,
and `index` the list that `rebuildIndex` stored.  A producer swaps first (`Swap`),
then takes `reg.mu` (`Lock`), reads panel after panel (`List`) and stores the result
(`StoreIndex`); others swap meanwhile.  Each panel has one producer, as
`StartRefresh` and `StartDataRoot` divide them.  Readers only load one pointer and
are not modelled.  The mutex is strongly fair to a waiting producer: Go's mutex
hands over to a starved waiter.

## 7. The page's polling

| Model | Code (`frontend/src/lib/panels.ts`) |
|---|---|
| `mounted` | the blocks that called `watchPanel` for the panel and have not stopped |
| `current`, `started` | the panel's entry in `sharedLoops`, and how many loops there have been |
| `subscribers[l]`, `last[l]` | the fields of `SharedLoop` |
| `lastGood[l]`, `settled` | the locals of `startWatch`; a loop is stopped when it is no longer `current` |
| `flight[l]` | `inFlight`, and what `pending` will resolve to: `Idle`, `Asked`, or the answer that is on its way |
| `pending` | this panel's share of `panelsPending` |
| `hidden` | `document.hidden` |
| `shown[b]` | what the block was handed last |
| `origin`, `online` | the environment: what the origin serves, and whether a request comes through |
| `newest` | history only |

An envelope is its version, counted as the origin's answer changes, and its
status.  A read that failed is told apart by an empty kind in the code and by
version 0 here.  A read is answered (`Answer`) before it arrives (`Arrive`), so
the origin may have moved on, the block may have left and the page may have
been hidden in between.  `ArriveLate` is the arrival at a loop that was stopped:
it leaves the pending count, or finds that the stop already did, and delivers
nothing.  Loops of different panels share only the sum of their pending counts,
so one panel is modelled.  Blocks do not stop a watcher from within a delivery.

Fairness.  `Tick` is weakly fair: the browser fires the interval of a visible
page.  `Answer` and the arrival are weakly fair for each loop: a request is settled
with an answer or an error.  The code has no timeout of its own, so this is the
browser's doing; without it one read would silence the loop (`panels.ts:639`).
No block, visitor or network is owed.

## 8. The capture and its stores

A day journal is a sequence of records in one of two formats.  In the first
(`read_records`, "messages") a record is one message with a key and its own usage,
and a message replayed anywhere in the tree bills once.  In the second
(`read_running_totals`, "running") a record is a reading of a total that grows,
with the turn it adds; what the first reading holds beyond its turn is an
opening balance, set aside.  `Journal` has both readers, and the projection of a
running journal: the accounting lines that are all that is kept of it.

| Model | Code |
|---|---|
| `live`, `gen`, `there` | what the tool wrote, the identity of each file (device, inode), and whether it exists |
| `kept`, `torn`, `keptGen` | the kept journals (`RetainedJournals`, `KeptJournal`), a line a killed append left half, and the file each was last extended from |
| `cache` | the tool's own roll-up (`read_stats_cache`): daily counts, lifetime usage, longest session |
| `store`, `readings` | the history store and the owner's verified readings |
| `lock` | the lock on the kept tree (`open_retained`) |
| `run[r]` | one capture: its place (`walk`, `keep`, `merge`), the files still to read, the message keys seen, the day index, the merge |
| `served`, `failed` | the last section printed, and why the last run that wrote the store was refused |

The tool creates, extends and prunes files, and starts a pruned one anew, at any
moment (`ToolCreates`, `ToolAppends`, `ToolPrunes`); the owner enters a reading
(`OwnerReads`).  A run lists (`Start`), reads file after file (`ReadFile`) and
appends to the kept journals (`Keep`), is refused for lack of anything measured
(`NothingFound`), reads the store and merges (`ReadStore`), and writes it and
emits (`Finish`).  It may stop between two steps (`StopBetween`) or within an
append (`StopInAppend`), which leaves any whole lines and the head of the next.
A file that was listed and is gone, or is another file by then, is skipped.  The
files still to read are a set, taken in the order of the walk.

`Finish` evaluates every proof the program runs over its own output *after* it
wrote the store; `failed` records which of them refused.  `Export` then asks of
every vocabulary that might be checked out whether the document printed is
admitted, and `Recorded` what the run files of it.

Data is abstracted to what the figures depend on.  Days are naturals; calendars,
hours and time zones are left out, and a session begins and ends on a day.  One
class of cached and one of uncached input stand for the five accounting classes.
A line that is too long or does not parse is noise; of a message the model takes
that it has an identity, and that a replay of it says the same, its usage included
(`MessagesAssumption`): what the walk does with a message that has none is left out.  Bounds that only refuse a
document for its length (`MAX_SERIES_DAYS`, `MAX_COUNT`) are left out.

A run over the messages format takes no lock.  Two such runs may each write the
store from the same earlier one, and the later write then drops what the earlier
learned; the next run measures it again unless the tree was pruned meanwhile.
The schedule never runs two at once, and `StoreNeverForgets` is stated for the
format whose runs are serialised by the program itself; no property speaks of that
loss.  Two refusals after the write are set apart in the same way: a run with no span
to serve, or with no split of any day (4380-4387), is taken by the model (`Outcome`)
and excluded by no property.

A lifetime baseline is applied to a section that measured no lifetime of its own
(`TakesBaseline`); the refusal of one that meets such a figure is the owner's
configuration error, which stops every export until it is corrected.

## 9. The lifelong ledger

| Model | Code (`scripts/usage_ledger.py`) |
|---|---|
| `file[s]`, `disk[s]` | a stream's lines as a reader finds them, and as they were last synced: a line is in the file for sure only after the `fsync` of `write_lines` |
| `named` | external: the streams whose file has its entry in the directory on the disk, which the code never syncs |
| `Cut`, `Glued` | a last line without its newline; a line that is no row, which every reader refuses |
| `world` | what there is to measure: a session's end and total, a day's usage, the owner's reading of it, the account's contributions |
| `run[w]` | one run of a writer: its document, the streams left, the tail it measured, the lines it will append |
| `acked[s]` | history only: the rows whose append was synced |
| `raced` | history only: a line lay cut while two writers were under way |

The writers are the export (`record_run`, streams of sessions and usage), the
nightly snapshot (`ledger_snapshot.py`) and the backfill
(`ledger_backfill_github.py`), which share the third stream.  A run measures
(`Start`, `Fetch`, `Ask`), measures the tail of a stream and cuts a partial line
off (`Repair`, `Truncate`), admits every line and decides what is new
(`ReadIndex`), appends (`WriteLines`) and syncs (`Sync`), stream after stream.  It
may be killed anywhere (`Stops`), write short (`WritesShort`), or the power may go
(`PowerLoss`), which leaves what was synced and any part of what was not.
`write_lines` syncs the file and not the directory that holds it, so a file it has just
created may go whole, synced rows included (`Gone`), until the system has written
its entry on its own account (`EntryWritten`, which nothing owes).  Its rows are then
no longer counted as acknowledged, and every property says so where it matters;
a file that existed before a run began, or survived one power loss, is past that.
`Unchanged` and `Deferred` keep readings that say nothing new out; `Preferred` is
the order in which the views resolve several readings of one figure.

Each stream holds one figure, which is what resolution works on: figures with
different identities never meet in the code.  Exports are serialised by the
schedule (`docs/usage-export.md:1409`), so one writer stands for all of them.
Nothing locks a stream: when a snapshot and a backfill meet over a line that one
of them left cut, the second may cut off or glue to what the first is writing.
The code takes no measure against it, and every property sets those behaviours
apart through `raced`: none of them catches that race.  A row that was appended but never synced
is found by the retry and counts as recorded; only a sync promises.  The clock
does not step back here: `Deferred` and `Unchanged` compare with the latest row
in file order, `Preferred` with the latest by instant, and the two agree only on
a clock that does not.

Fairness.  Each writer's steps are weakly fair, since the schedule starts it again
and no step waits for another actor; time passes.  A fault, a move of the world
and an answer of the upstream are not owed: `FetchRefused` and `AskRefused` are
outcomes of a fair step.

## 10. The scheduled push and its check

A run of `push-usage-series.sh` is `off`, `evaluate`, `capture`, `export`, `push`,
`record`: it first asks the page what it serves (`Check`, then `Evaluate`), then
captures the merged source, exports the document with the walked one, pushes it,
and records what it pushed (`served-check.py record`).  The scheduler never starts
a second run while one is under way.

| Model | Code |
|---|---|
| `clock` | the workstation's, which may step back once by up to `MaxBack` |
| `run` | the run's place, the `now` of its check, the page it read, its document's capture instants |
| `state` | `push-state.json`: none, of the first schema, or the pushed captures with `since` and `notified` (`NOT-SERVED` and its latch) |
| `host`, `floor`, `page` | external: the document installed, the one the origin admitted last as far as it remembers, and what it serves |
| `newest` | history only: the last recorded document and those installed since |
| `outage` | history only: true time since the page was first found not to serve, how long it had lasted when last judged, notifications on record |

A page that cannot be read leaves the check unavailable (`CheckUnavailable`); the
desktop is told before the state is written, so a stop between the two
(`EvaluateUnwritten`) leaves a verdict off the record, and the next run may tell
it again.  `told` therefore counts notifications on record.  A push that is
refused or whose checksum does not come back (`PushLost`) may or may not have
installed the document.  A state that is lost or cannot be read starts the latch
anew, and with it `outage`.  The origin admits a document whose
own instant (`GeneratedAt`, stamped at the export as the walked source is) is later
than its floor's, and the very document of its floor; anything else it reports and
goes on serving what it did.  It may restart on what it was built with, with its
floor or without.  What it serves as `generatedAt` is the oldest capture, which the
check compares too.

No fairness is assumed and no liveness claimed.  That the latch clears again rests on
the origin reading between a push and the next check, which nothing but the two
schedules says, and on a clock that goes on.  What is claimed of every check is that
it is right both ways: `ServedIsTrue` and `ServingIsFound`.

## 11. The badge publishers

Each gate run that ends on main starts a publisher; nothing orders them.  A
publisher lists the branch and fetches it in two steps (`List`, `Fetch`), decides
(`Decide`) and pushes with a lease on the head it decided from (`Push`).  A
refused push, a branch gone between the two steps and a failed transport each
spend an attempt.  `PushLost` is a push that did not arrive or whose answer did
not, which the next attempt tells apart by finding its own commit (`Decides`).
`ByHand` deletes the branch, the documented recovery, or leaves a head that says
nothing of its source.  A commit that is not on main (`Stray`) is refused.

`head` is the branch, `source[p]` the commit a publisher measured, `observed[p]`
the head its decision read, and `landed` (history) whose commits have been the
head.  Main is a line of commits and ancestry their order.  Fairness: a publisher's
steps are weakly fair, each subprocess having a timeout.

## 12. Runs and bounds

| Run | Instance | What it asks |
|---|---|---|
| `FloorStore` | 2 processes, 3 documents, 3 faults | the store's promises, refinement of `ReplayFloor` |
| `DataRoot` | fairness, 1 process, 3 documents, 2 builds, 1 fault, with and without a state directory | what `ok` and a served document mean over restarts, replays and clock steps; the refinement of `FloorStore`; the newest document is served, and is `ok` |
| `DataRootPair` | 2 processes (symmetric), 2 documents, 2 builds, 1 fault, a panel that starts `ok` | the inductive invariant, no rollback and durable publication among another process's stores; a restart that finds a floor and no file is a loss, not a cold start |
| `DataRootKeptRace` | expected violation | see section 15 |
| `Activity` | fairness, 2 halves, with and without the credential, intervals of 2, cooldown and ceiling of 3, one step of the clock of up to 2 either way | the budgets, what `ok` and `stale` say, recovery |
| `ActivityPastBudget` | expected violation, the same on a steady clock | see section 15 |
| `Registry` | fairness, 3 panels | the index is current, and catches up |
| `PanelWatch` | fairness, 2 blocks, 2 loops, 2 versions of 3 statuses | what blocks show agrees, is never older, and catches up |
| `Capture` | both formats, 2 runs (symmetric), 2 files started at most twice, 2 records each, 2 days, 3 steps of the tool, 1 reading or stopped run, 5 vocabularies | what one run bills, keeps, remembers, serves, exports and records agrees |
| `Ledger` | fairness; the export over 1 unit of time, 2 moves and 1 fault, over 2, 1 and 1, and over 1, 1 and 2; snapshot and backfill together, 1 move, 1 fault; figures 1 and 2 | what was synced stays, readings resolve, views catch up |
| `Push` | a clock of 4, a threshold of 1, a step back of up to 2, 1 fault | the latch, and `SERVED` said only and always of what was pushed |
| `Badges` | fairness, 3 publishers, 2 commits and a stray, 3 attempts, 1 fault, 1 change by hand | outcomes, order, the newest badges stand |

Deadlock is checked in every run but two: the tool's steps of `Capture` are
bounded, so a tree may be left for good, and every publisher of `Badges` ends.

Bounds.  *Floor and loop.*  `d1` and `d2` differ in instant, `e2` has the instant of
`d2` but another digest.  Three documents give every relation that the code tells
apart; two suffice where the equal instant is not in question.  The clock takes up
to four values: before, inside and after the skew and the grace.  One fault, at any
step, covers each single interruption of the loop, and three in the store's own run
each interruption of a recovery.

*Budgets.*  With a cooldown of 3, an interval below it and steps of 1 or 2 a
recorded attempt can be past, recent or in the future, and a cooldown over,
running or longer than any the code sets (a step of 1 does not show that: the loop
is asleep for one unit after the refusal); an upstream may fail twice before the
ceiling stops the ladder.  The step of the clock may come at any moment between
two rounds.

*Index and page.*  Three panels let a producer read one panel before, and one
after, a third swaps.  Two loops let a read outlive its own and arrive while its
successor's is out; two versions let it carry what the successor has already
replaced, and three statuses let the origin withdraw and restore.  `MaxLoops`
stops the blocks from coming back a third time: nothing of a loop that ended
affects a later one but its late arrival, which two loops already show.

*Capture.*  Two files let a message be replayed across them and a session be cut by
one; two records let the second advance, repeat or split differently from the
first; two starts let a file return as another; three steps of the tool let it
write, prune and write again around a run; two runs follow or, without a lock,
meet.  The records are a figure, the same with a turn smaller than it, one that
cannot be split, and a model's name; the roll-up knows a lifetime or only counts.
The vocabularies name the model by its name, by what follows its vendor, under
another vendor, not at all, and twice (which is refused).  Two pure operators are
also compared with reference definitions over every input up to a length:
`ProjectionAssumption` (replaying a projection is reading the journal, up to three
records, session declarations and noise included) and `StreaksAssumption`
(up to six days).

*Ledger.*  One fault shows each interruption and two the interruption of a repair;
two moves let a figure rise and fall, or a reading supersede a measurement; the
last instance is the only pair of programs that share a stream.  `Settle` of 1 in
2 units of time lets a session be open, young and settled.

*Push.*  Four ticks hold an outage that begins, passes a threshold of 1 and is judged
again, with a step back of 1 or 2 before or after.  *Badges.*  Three publishers let one decide from the
second while the third replaces it; with three attempts a publisher outlasts two
rivals only when nothing else fails, so exhaustion is reached as well.

## 13. Properties

By what they protect:

- `AckedIsDurable`, `FloorNeverDrops`: what a store promised is in the directory
  that a power loss would leave, or its loss is evident from the tombstone.
- `NoRollback`: no process, whichever build, serves a document behind one that was
  promised before it started.  `ServedNeverGoesBack`: the same within a process,
  even across a reset.
- `CommittedBeforePublished`: at the moment of publication the floor is durable.
  `LoopInv` is the invariant it follows from.
- `OkMatchesSource`, `OkIsFresh`, `EmbeddedOkOnlyWhenCold`: what `ok` means.
- `NewestIsServed`, `NewestIsOk`: recovery from every refusal.  The second asks for
  a document that is never found past its grace: one first read past it stays
  stale even if the clock is then corrected backwards (`dataroot.go:418`).
- `NeverFrozen`, `ActivityInv`: a wrong clock holds no role back for longer than one
  interval or one cooldown; what a round knows of its halves.
- `AskedAgain`, `RecoversForGood`: neither the ladder nor a cooldown, a
  budget or a stepped clock silences a half for ever.
- `IndexIsCurrent`, `IndexCatchesUp`: no lost update of the index.
- `WatchInv`, `NothingOlderIsShown`, `VisibleCatchesUp`: what a visitor sees of a
  panel is one thing, moves forward only, and follows the origin again once reads
  come through.
- `CaptureInv`: over a kept tree the run in flight is the one that holds the lock; a
  kept journal, with the tail a run is about to append, is a prefix of the accounting
  of the file it was begun from as long as the file is that one; replaying it bills
  what the journal did; and what a run is about to store forgets nothing.
  `BilledOnce`: a message counts once over the tree.
- `StoreNeverForgets`, `VerifiedStands`: a remembered day falls only to the owner's
  reading or to an opening balance set aside; the owner's reading stands.
- `NoSelfRefusal`, `ExportAdmits`, `RecordAgrees`: the run's own proofs never refuse
  what it computed after it wrote the store; the export admits what the capture
  printed, under any vocabulary; no two rows of one run contradict each other, the
  rows add up to the store's splits, and the dataset says the same.
- `RecordInv`, `FigureNeverDrops`, `SettledIsRecorded`, `CaughtUp`: what was synced
  stays, in the order it was measured, or goes with a whole new file whose entry was
  not yet written; a figure falls only to the owner's reading, or with such a file;
  the last reading of a session is never put off; the views come to say what there is
  to measure.
- `NotifiedInTime`, `ServedIsTrue`, `ServingIsFound`: an outage longer than the
  threshold, and the step of the clock, is on record as told, once; `SERVED` is said
  only of the last recorded document or one installed since, and of every page that
  serves, ok, what is installed.
- `BadgesInv`, `NeverOlder`, `NewestStands`: outcomes are true; older badges never
  replace newer ones; the newest stand when all have ended.

Some consequences of the invariants above are stated and proved, and not repeated
as properties of a run: `OneDocumentPerInstant` and `StoreInv` of the store;
`BudgetKept`, `OkWasRead`, `FailureIsReported` and `PolitenessIsNotStaleness` of the
budgets; `RegistryInv`; `AllShowTheSame`, `PendingIsHonest`, `NothingAfterStop` and
`DataIsKept` of the page.

## 14. Proofs

All theorems hold for any number of processes, any set of documents and any
bounds, from the assumptions on the constants: `DocsAssumption` (the special values
are not documents, instants are naturals), `LoopAssumption` (a capture is not after
its export; the bounds are naturals), `BudgetAssumption` and `ActivityAssumption`
(intervals are naturals, the ladder starts at or below its ceiling),
`CountAssumption` (there is a panel), `WatchAssumption`, `PushAssumption` (the bounds
are naturals), `CaptureAssumption` (no run is nobody; records and roll-ups are well
formed, their figures naturals; models are finitely many, days too and consecutive), `MessagesAssumption`
(every message has an identity, and a replay says the same), `LedgerAssumption` (figures and bounds are naturals, a day has a
length) and `BadgesAssumption` (there is an attempt; the special heads are nobody's).

`DataRootProofs`, of the store.  `AckedIsDurable` alone is not inductive: nothing in it says
why the process that writes the marker may do so.  `StoreInv` adds that a process is in a locked
stage exactly when it holds the lock, that the platter's floor is never above the
visible one, and, stage by stage, what a process between its comparison and its
success has established (`Storing`): its document is at or above every promise,
the marker is its document or lost, and before the tombstone step platter and
disk agree.  `StoreInvariant` proves it inductive, one lemma per action;
`StoreTypeCorrect`, `PromisesAreDurable`, `InstantsAreUnique`, `FloorIsMonotonic`
follow.  `StoreImplementsReplayFloor` proves the refinement step by step: a
change of the platter while promises stand is a Raise or a Lose, a counted success is an Acknowledge, a reset
is a Reset, all else stutters.

`DataRootProofs`, of the loop.  `LoopImplementsFloorStore` shows that the loop moves the
directory only by `FloorStore`'s steps, so `StoreInv` carries over
(`LoopKeepsStoreInv`).  `LoopInv` adds what the loop knows: what was promised
before a process started is still promised; what it loaded, stored or serves
covers that; the floor in memory is the document accepted.  From it follow
`NeverRolledBack`, `PublicationIsDurable` and `ServiceNeverGoesBack`.  The first
does not need the floor in memory at all, only the marker; the last needs only
the floor in memory: the two protections are independent.

`RateBudgetProofs`.  `BudgetKept` needs to know that a recorded instant is never
older than the request it records, and a cooldown no nearer its end than it should
be (`RecordsAreYoung`): a step back makes records younger, `HeldBack` moves them at
most to the present.  `NeverFrozen` needs the opposite, that a role once refused is
on a settled clock (`RefusalsAreSettled`).  `BudgetInvariant` proves both; from it
follow `NothingIsAskedEarly` and `NoRoleFreezes`.  `LoopKeepsBudgets` is the
refinement; `LoopInvariant` adds what each stage of a round knows (`RoundAccounts`);
from it follow `OkOnlyOfWhatWasRead`, `EveryFailureIsReported` and
`HoldingBackIsNoFailure`.

`PanelWatchProofs`.  None of the page's properties is inductive.  `LoopsAreOrdered`
relates the layers: the running loop is the latest started, its readers are the
mounted blocks, each shows what it delivered last, it is out of the pending count
exactly when it has delivered, and every earlier loop is settled and has no reader.
`NewsIsNew` orders what is still to come: the read in flight, the last delivery and
the kept envelope are no older than anything a block has shown.  `WatchInvariant`
proves them, one lemma per action; the five other theorems follow, for any number
of blocks, loops and versions.

`PanelWatchProofs`, of the index behind it.  The rows listed so far may already be
outdated; `RowsAgree` says that they are so only for panels whose producer is about
to rebuild.  With the mutex that is inductive (`RegistryInvariant`) and gives
`IndexTellsTheTruth`.

`FoldLemmas`.  No installed prover instantiates the library's induction theorems,
which take the property as a parameter; the lemmas here say the same of sets (a set
of naturals that holds 0 and every successor holds them all), and the set of those
for which a property holds is what they are cited of.  From them come induction
along a sequence and a finite set, what the fold of the community modules is of an
appended sequence (`FoldOfAppend`), that it stays in a type (`FoldOfType`), how a
sum moves when one figure of it does (`SumMoves`), that two sums exchange
(`SumsExchange`), and that a finite set of naturals has its ends (`EndsExist`).

`CaptureProofs`, of the operators.  `ReplayIsReading` is by induction along a journal:
appending a record appends to its accounting at most what replaying would bill, so
reading the projection of any journal, of any length, bills, sets aside and declares
what reading the journal does.  `ProjectionGrows` says that a journal that grows has
a projection that grows.

`CaptureProofs`, of the runs.  `CaptureInvariant` proves `CaptureInv` inductive, one lemma
per action.  A file that is started anew is another file, which frees what was kept
from its promise; one that grows keeps it by `ProjectionGrows`.  Over a kept tree the
lock leaves one run in flight, so the store a run merged with is the store it
replaces, and what `MergeRemembers` says of the merge survives until `Finish`:
`TheStoreNeverForgets` and `TheOwnersReadingStands` follow.  `MessagesBillOnce` needs
that a file bills the keys it adds to those seen, each once, by induction along the
file, and that the sum over the keys seen moves by just those.

`CaptureProofs`, of what a run computes.  `NoSelfRefusal` says nothing of a run in
flight; `OutputInv` does.  An index is consistent where the joint of every day sums to
its classes, and to its identities and its total wherever every row of the day had a
split (`DayOK`); a row, a file and a walk keep that, by induction along the rows.  A
series has a split that adds up wherever it says so (`SeriesOK`), and the roll-up, the
union with the store and the owner's readings each keep that.  A stored day's splits
are of its figure (`EntryOK`).  On the days a run owns, what it emits is its own index
(`MergeOK`).  From these, `OutcomeIs`: none of the guards over what was computed can
fire once the store is written; a run may only have no span or no split to serve.
`LifetimeWithin` exchanges the two sums over the joint to bound what the members are
said to have spent by the tiles, with and without a roll-up.  `NoRunRefusesItself`
follows.

`LedgerProofs`.  `RecordInv` is `LedgerInv` and `OrderInv`.  The first is inductive as it
stands, because it says of a run in flight what that run relies on (`Relies`): the
tail it measured is still there, the tail it appends to is whole, its own rows are
in the file.  `Safe` then carries over each step: acknowledged rows are on the disk,
only a last line is ever damaged, and the synced whole lines are what the stream
begins with, so neither a truncation nor what a power loss leaves of a file can
reach them.  A file without its entry goes whole, and with it what was acknowledged
in it.
The history variable `raced` is what lets two writers of one stream be covered: a
partial line and an overlap exclude each other until it is set.  `RecordIsKept` holds
for any number of faults and any instances.  `OrderInv` says that the readings of a
session lie in the order of their instants and their totals and none is ahead of
the world, and that a writer holds to what it decided to append: with that, the
view of a stream, a fold over its rows, moves only to a reading that is preferred
unless the whole file goes (`FiguresNeverDrop`), and what a finished run left out of a settled session was
there already (`SettledSessionsAreRecorded`).

`PushProofs`.  `NoticeInv` relates the latch to the true outage: one is on record
exactly while `since` is set, told of exactly where `notified` is; the clock is
behind the time that passed by no more than its step back, and a check in flight
keeps that of its own `now`.  `OutageIsTold` follows.  `PushInv` adds, while the clock
never stepped back, that no instant is later than the clock or than the document
under way, and that what is installed or served was pushed since the record or is
no newer than it in any source.  So a page that covers every recorded capture
serves the recorded document or a later one (`ServedIsOfWhatWasPushed`).  Conversely
what is installed is no older than the record in any source, since a record names
the document of the run that wrote it (`RecordNamesInstalled`) and every later push
carries later captures: so a page that serves what is installed covers the record
(`ServingPagesAreFound`).

`BadgesProofs`.  `PublishInv` says of a publisher that is about to push that it
decided from a head it may replace and that has landed; the lease makes it the
head still.  `OutcomesAreTrue` and `OlderNeverReplaces` follow for any number of
publishers and attempts.

Only model-checked: every liveness property (fairness and ENABLED are outside the
prover), and `ExportAdmits` and `RecordAgrees` of `Capture`, which follow the several
splits of one day through the fold onto a vocabulary, to the printed document and to
the rows of the ledger.

## 15. Where the code and its documents disagree

`DataRootKeptRace`: with two processes the slower one retains its older document
after the faster stored the newer, and is then refused.  The marker names a
document whose copy is gone, so a restart serves the release-time snapshot
although a newer document was accepted (`docs/usage-export.md:1592`).

`ActivityPastBudget`: "A commit list served from cache past its budget, or never
fetched at all, makes the payload stale" (`fetch.go:642-644`).  The code keeps the
second half, which `OkWasRead` states and `OkOnlyOfWhatWasRead` proves.  Of the first
it keeps less: whenever the commit half is held back, `commitSection` calls it live
if it was ever fetched (`fetch.go:1004`), also where the last read failed and it is
a cooldown that holds it back past its interval.  The failed round itself is stale;
a later one that reads the calendar alone turns the panel ok over the old list.
`NeverFrozen` bounds how long that lasts.

"The fsync is what makes a written row survive the machine losing power"
(`usage_ledger.py:739-741`).  For a row of a file that the same call created it need
not: `write_lines` never syncs the directory, whereas the floor store does after
each rename (section 3).  `PowerLoss` has that outcome, `RecordInv` and
`FigureNeverDrops` are stated with it, and no run states the docstring's claim without
it.  Each stream begins a file a year, so it concerns the first append of each, until
the file system writes the entry on its own.

## 16. What is not modelled

- The fast-forward of the checkout in `push-usage-series.sh`: a shell procedure over
  git's index lock, reference transaction and object batches.  A model would
  restate git's semantics, which the code relies on and does not implement.
- The bounded transports, the installer of the schedule and the server's lifecycle:
  start, wait, stop, with nothing shared.
- The usage and projects rounds of the refresh loops: they share `reserve`, the
  cooldown and the ladder with `Activity`, and add pure decoding.
- Media delivery (one counter around one call), the egress guard (predicates over
  one request), sealing (authentic or not), document decoding (`Bad` stands for
  every refusal), HTTP parsing, logging, layout and drawing.
- The snapshot's rows of the other panels and the admission of their envelopes, and
  the splicing of option files: pure, one pass.
- The contract validators of the release (`release_contract.py`,
  `chart_render_census.py`, `compliance_manifest.py`, `dependabot_contract.py`) and
  `watermark.py`: each judges one checkout, one rendering or one dataset in a
  single pass, with no state, no second actor and no failure to recover from; their
  table tests enumerate the rules, which a model would only write down again.

What a raw archive holds (`archive_capture`) is kept beside the ledger and is not
part of its state: the record names it by digest only.
