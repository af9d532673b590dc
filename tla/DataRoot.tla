------------------------------ MODULE DataRoot ------------------------------
(***************************************************************************)
(* The sealed data-root loop of the token-usage panel (dataRootLoop and    *)
(* what it calls), one per process, over the state directory of FloorStore *)
(* and a shared read-only volume onto which the workstation pushes sealed  *)
(* documents.  A tick is: resolve the floor from the marker (once, with    *)
(* the retained copy served meanwhile), read the pushed file, admit it,    *)
(* retain and commit it, publish it, judge its age.                        *)
(*                                                                         *)
(* The steps of different processes, the pushes, the host clock and the    *)
(* disturbances of FloorStore interleave freely between them.              *)
(***************************************************************************)
EXTENDS FloorStore

CONSTANTS
    CapturedOf,        \* the oldest capture instant a document carries
    Bad,               \* a pushed file refused for its own sake: unreadable,
                       \* over the cap, not authentic, malformed, partial
    EmbeddedInstants,  \* capture instants of the snapshots builds ship
    BootStatus,        \* "ok" for a snapshot-only panel, "stale" for a fetch-backed one
    FutureSkew,        \* dataRootFutureSkew
    Grace,             \* dataRootFreshnessGrace
    MaxClock           \* bound on the host clock

ASSUME LoopAssumption ==
    /\ CapturedOf \in [Docs -> Nat]
    /\ \A d \in Docs : CapturedOf[d] <= InstantOf[d]
    /\ Bad \notin Docs /\ Bad # Absent
    /\ EmbeddedInstants \subseteq Nat /\ EmbeddedInstants # {}
    /\ BootStatus \in {"ok", "stale"}
    /\ FutureSkew \in Nat /\ Grace \in Nat /\ MaxClock \in Nat

VARIABLES
    durable, \* a writable state directory is configured
    source,  \* the pushed file on the data volume
    clock,   \* the host clock, which may step backwards
    pc,      \* where each process is in its tick
    mem,     \* the loop's local variables
    loaded,  \* the floor this tick loaded from the marker
    fresh,   \* whether the document being committed was fresh when admitted
    panel,   \* what each process serves
    seen,    \* history: what the latest read of the volume returned
    before   \* history: what had been promised when the process started

loopVars == <<durable, source, clock, pc, mem, loaded, fresh, panel, seen, before>>

vars == <<storeVars, loopVars>>

Status == {"ok", "stale"}

Memory ==
    [instant : Nat, digest : Docs \cup {Absent},          \* the floor
     resolved : BOOLEAN, fromMarker : BOOLEAN,
     present : BOOLEAN,                                   \* markerPresent
     restorePending : BOOLEAN, accepted : BOOLEAN,        \* acceptedInProcess
     failing : BOOLEAN,                                   \* lastFailure # ""
     degraded : BOOLEAN]                                  \* degradedByLoop

(* doc = Absent is the embedded snapshot. *)
Panel == [doc : Docs \cup {Absent}, status : Status, restored : BOOLEAN]

Ticks ==
    {"down", "wake", "load", "tombstone", "restore", "resolve", "read", "commit", "judge"}

LoopTypeOK ==
    /\ TypeOK
    /\ durable \in BOOLEAN
    /\ source \in Docs \cup {Absent, Bad}
    /\ clock \in 0 .. MaxClock
    /\ pc \in [Proc -> Ticks]
    /\ mem \in [Proc -> Memory]
    /\ loaded \in [Proc -> Docs \cup {Absent}]
    /\ fresh \in [Proc -> BOOLEAN]
    /\ panel \in [Proc -> Panel]
    /\ seen \in [Proc -> Docs \cup {Absent, Bad}]
    /\ before \in [Proc -> SUBSET Docs]

(* usageCaptureFresh: only the oldest capture decides.  A snapshot embedded at
   release time is taken as past its grace. *)
Fresh(d, now) == d \in Docs /\ now <= CapturedOf[d] + Grace

FutureDated(d, now) == InstantOf[d] > now + FutureSkew

(* The local state of a process that starts on a snapshot of instant i. *)
StartMemory(i) ==
    [instant |-> i, digest |-> Absent,
     resolved |-> ~durable, fromMarker |-> FALSE, present |-> FALSE,
     restorePending |-> durable, accepted |-> FALSE,
     failing |-> FALSE, degraded |-> FALSE]

StartPanel == [doc |-> Absent, status |-> BootStatus, restored |-> FALSE]

(* Mutant: the loop does not remember that it degraded the panel. *)
ReportFailureForgets(p) ==
    /\ mem' = [mem EXCEPT ![p].failing = TRUE]
    /\ panel' = [panel EXCEPT ![p].status = "stale"]

(* The two outcomes of a tick.  A failure turns an ok panel stale and
   remembers that it did; a recovery clears the failure and, where the caller
   allows it, restores what the loop itself had degraded. *)
ReportFailure(p) ==
    /\ mem' = [mem EXCEPT ![p].failing = TRUE,
                          ![p].degraded = @ \/ panel[p].status = "ok"]
    /\ panel' = [panel EXCEPT ![p].status = "stale"]

ReportRecovery(p, restoreLastGood) ==
    /\ mem' = [mem EXCEPT ![p].failing = FALSE,
                          ![p].degraded = @ /\ ~mem[p].failing]
    /\ panel' = [panel EXCEPT ![p].status =
                    IF mem[p].failing /\ restoreLastGood /\ mem[p].degraded
                    THEN "ok" ELSE @]

(* The age of what is served decides how a good tick ends. *)
JudgeAge(p, restoreLastGood) ==
    IF Fresh(panel[p].doc, clock)
    THEN ReportRecovery(p, restoreLastGood)
    ELSE ReportFailure(p)

LoopInit ==
    /\ StoreInit
    /\ durable \in BOOLEAN
    /\ source = Absent
    /\ clock \in 0 .. MaxClock
    /\ pc = [p \in Proc |-> "down"]
    /\ mem = [p \in Proc |-> StartMemory(0)]
    /\ loaded = [p \in Proc |-> Absent]
    /\ fresh = [p \in Proc |-> FALSE]
    /\ panel = [p \in Proc |-> StartPanel]
    /\ seen = [p \in Proc |-> Absent]
    /\ before = [p \in Proc |-> {}]

Move(p, s) == pc' = [pc EXCEPT ![p] = s]

-----------------------------------------------------------------------------
(* One tick of a process. *)

(* startDataRoot: a build, old or new, starts over the volumes as they are. *)
Start(p) ==
    /\ pc[p] = "down"
    /\ Move(p, "wake")
    /\ \E i \in EmbeddedInstants : mem' = [mem EXCEPT ![p] = StartMemory(i)]
    /\ before' = [before EXCEPT ![p] = acked]
    /\ UNCHANGED <<storeVars, durable, source, clock, loaded, fresh, panel, seen>>

Wake(p) ==
    /\ pc[p] = "wake"
    /\ Move(p, IF mem[p].resolved THEN "read" ELSE "load")
    /\ UNCHANGED <<storeVars, durable, source, clock, mem, loaded, fresh, panel, seen, before>>

(* A marker that cannot be trusted: the tick is refused, the next one tries
   again. *)
LoadRefused(p) ==
    /\ pc[p] = "load"
    /\ disk.marker = Untrusted
    /\ ReportFailure(p)
    /\ Move(p, "wake")
    /\ UNCHANGED <<storeVars, durable, source, clock, loaded, fresh, seen, before>>

(* No marker: the tombstone, looked for afterwards and outside the lock, says
   whether one was lost. *)
LoadMissing(p) ==
    /\ pc[p] = "load"
    /\ disk.marker = Absent
    /\ Move(p, "tombstone")
    /\ UNCHANGED <<storeVars, durable, source, clock, mem, loaded, fresh, panel, seen, before>>

LoadGone(p) ==
    /\ pc[p] = "tombstone"
    /\ disk.tomb
    /\ ReportFailure(p)
    /\ Move(p, "wake")
    /\ UNCHANGED <<storeVars, durable, source, clock, loaded, fresh, seen, before>>

(* A never-used directory: the embedded floor stands. *)
LoadAbsent(p) ==
    /\ pc[p] = "tombstone"
    /\ ~disk.tomb
    /\ mem' = [mem EXCEPT ![p].resolved = TRUE]
    /\ Move(p, "read")
    /\ UNCHANGED <<storeVars, durable, source, clock, loaded, fresh, panel, seen, before>>

(* The marker or the tombstone cannot be read this time. *)
LoadInterrupted(p) ==
    /\ pc[p] \in {"load", "tombstone"}
    /\ ReadFails
    /\ ReportFailure(p)
    /\ Move(p, "wake")
    /\ UNCHANGED <<durable, source, clock, loaded, fresh, seen, before>>

(* An authentic marker above the embedded floor is restored from, once. *)
LoadPresent(p) ==
    /\ pc[p] = "load"
    /\ disk.marker \in Docs
    /\ loaded' = [loaded EXCEPT ![p] = disk.marker]
    /\ IF mem[p].restorePending /\ InstantOf[disk.marker] > mem[p].instant
       THEN /\ mem' = [mem EXCEPT ![p].restorePending = FALSE]
            /\ Move(p, "restore")
       ELSE Move(p, "resolve") /\ UNCHANGED mem
    /\ UNCHANGED <<storeVars, durable, source, clock, fresh, panel, seen, before>>

(* Mutant: the kept copy is served whatever its digest. *)
RestoreAnyCopy(p) ==
    /\ pc[p] = "restore"
    /\ panel' = IF disk.kept \in Docs
                THEN [panel EXCEPT ![p] = [doc |-> disk.kept, status |-> "stale", restored |-> TRUE]]
                ELSE panel
    /\ Move(p, "resolve")
    /\ UNCHANGED <<storeVars, durable, source, clock, mem, loaded, fresh, seen, before>>

(* The retained copy is served stale when it is the document the loaded floor
   names; otherwise the panel keeps what it serves. *)
RestoreRetained(p) ==
    /\ pc[p] = "restore"
    /\ panel' = IF disk.kept = loaded[p]
                THEN [panel EXCEPT ![p] = [doc |-> loaded[p], status |-> "stale", restored |-> TRUE]]
                ELSE panel
    /\ Move(p, "resolve")
    /\ UNCHANGED <<storeVars, durable, source, clock, mem, loaded, fresh, seen, before>>

RestoreInterrupted(p) ==
    /\ pc[p] = "restore"
    /\ ReadFails
    /\ Move(p, "resolve")
    /\ UNCHANGED <<durable, source, clock, mem, loaded, fresh, panel, seen, before>>

ResolveFuture(p) ==
    /\ pc[p] = "resolve"
    /\ FutureDated(loaded[p], clock)
    /\ ReportFailure(p)
    /\ loaded' = [loaded EXCEPT ![p] = Absent]
    /\ Move(p, "wake")
    /\ UNCHANGED <<storeVars, durable, source, clock, fresh, seen, before>>

(* The floor is the higher of the marker's and the embedded one; the digest is
   the marker's at either. *)
Resolve(p) ==
    /\ pc[p] = "resolve"
    /\ ~FutureDated(loaded[p], clock)
    /\ LET d == loaded[p]
           m == mem[p]
       IN  mem' = [mem EXCEPT ![p] =
                    [m EXCEPT !.resolved = TRUE, !.present = TRUE, !.digest = d,
                              !.instant = IF InstantOf[d] > @ THEN InstantOf[d] ELSE @,
                              !.fromMarker = InstantOf[d] >= m.instant]]
    /\ loaded' = [loaded EXCEPT ![p] = Absent]
    /\ Move(p, "read")
    /\ UNCHANGED <<storeVars, durable, source, clock, fresh, panel, seen, before>>

-----------------------------------------------------------------------------
(* Reading the pushed file, admitting it, publishing it. *)

(* allowEqual: a floor that came from the marker, before anything of this
   process's own. *)
Recovering(p) == mem[p].fromMarker /\ ~mem[p].accepted

SharesFloor(p, d) == InstantOf[d] = mem[p].instant

Unchanged(p, d) == SharesFloor(p, d) /\ mem[p].digest = d /\ ~Recovering(p)

(* Mutant: the instants alone are compared. *)
ReplayedByInstant(p, d) == InstantOf[d] < mem[p].instant

Replayed(p, d) ==
    \/ InstantOf[d] < mem[p].instant
    \/ SharesFloor(p, d) /\ mem[p].digest # d

Admitted(p, d) ==
    /\ ~Replayed(p, d)
    /\ ~Unchanged(p, d)
    /\ ~FutureDated(d, clock)

Reads(p) ==
    /\ pc[p] = "read"
    /\ seen' = [seen EXCEPT ![p] = source]
    /\ UNCHANGED <<durable, source, clock, loaded, before>>

(* Mutants: the loss of what this process published, or of what an earlier one
   did, is taken for the cold state. *)
SourceMissingAfterRestart(p) ==
    /\ Reads(p)
    /\ source = Absent
    /\ IF mem[p].accepted THEN ReportFailure(p) ELSE ReportRecovery(p, TRUE)
    /\ Move(p, "wake")
    /\ UNCHANGED <<storeVars, fresh>>

SourceMissingInProcess(p) ==
    /\ Reads(p)
    /\ source = Absent
    /\ IF mem[p].present THEN ReportFailure(p) ELSE ReportRecovery(p, TRUE)
    /\ Move(p, "wake")
    /\ UNCHANGED <<storeVars, fresh>>

(* No file: the cold state, or the loss of what was published before. *)
SourceMissing(p) ==
    /\ Reads(p)
    /\ source = Absent
    /\ IF mem[p].accepted \/ mem[p].present
       THEN ReportFailure(p)
       ELSE ReportRecovery(p, TRUE)
    /\ Move(p, "wake")
    /\ UNCHANGED <<storeVars, fresh>>

SourceRefused(p) ==
    /\ Reads(p)
    /\ source # Absent
    /\ source \in Docs => ~Admitted(p, source) /\ ~Unchanged(p, source)
    /\ ReportFailure(p)
    /\ Move(p, "wake")
    /\ UNCHANGED <<storeVars, fresh>>

(* Mutant: finding the same file again renews its age. *)
SourceUnchangedRenews(p) ==
    /\ Reads(p)
    /\ source \in Docs
    /\ Unchanged(p, source)
    /\ ReportRecovery(p, TRUE)
    /\ Move(p, "wake")
    /\ UNCHANGED <<storeVars, fresh>>

(* errSeriesUnchanged: the file already published is still there. *)
SourceUnchanged(p) ==
    /\ Reads(p)
    /\ source \in Docs
    /\ Unchanged(p, source)
    /\ JudgeAge(p, TRUE)
    /\ Move(p, "wake")
    /\ UNCHANGED <<storeVars, fresh>>

(* Mutant: the digest of the accepted document is not kept. *)
AcceptInstantOnly(p, d, isFresh) ==
    /\ panel' = [panel EXCEPT ![p] =
                    [doc |-> d, status |-> IF isFresh THEN "ok" ELSE "stale", restored |-> FALSE]]
    /\ mem' = [mem EXCEPT ![p].instant = InstantOf[d], ![p].accepted = TRUE]
    /\ Move(p, "judge")

Accept(p, d, isFresh) ==
    /\ panel' = [panel EXCEPT ![p] =
                    [doc |-> d, status |-> IF isFresh THEN "ok" ELSE "stale", restored |-> FALSE]]
    /\ mem' = [mem EXCEPT ![p].instant = InstantOf[d], ![p].digest = d, ![p].accepted = TRUE]
    /\ Move(p, "judge")

(* With a durable floor the document is retained and committed first. *)
SourceAdmitted(p) ==
    /\ Reads(p)
    /\ source \in Docs
    /\ Admitted(p, source)
    /\ IF durable
       THEN /\ BeginStore(p, source)
            /\ fresh' = [fresh EXCEPT ![p] = Fresh(source, clock)]
            /\ Move(p, "commit")
            /\ UNCHANGED <<mem, panel>>
       ELSE /\ Accept(p, source, Fresh(source, clock))
            /\ UNCHANGED <<storeVars, fresh>>

(* The store runs through FloorStore's own steps. *)
Commit(p) ==
    /\ pc[p] = "commit"
    /\ StoreStep(p)
    /\ UNCHANGED loopVars

Publish(p) ==
    /\ pc[p] = "commit"
    /\ stage[p] = "stored"
    /\ Return(p)
    /\ Accept(p, arg[p], fresh[p])
    /\ fresh' = [fresh EXCEPT ![p] = FALSE]
    /\ UNCHANGED <<durable, source, clock, loaded, seen, before>>

(* Mutant: a refused commit moves the floor in memory. *)
NotPersistedMovesFloor(p) ==
    /\ pc[p] = "commit"
    /\ stage[p] = "refused"
    /\ Return(p)
    /\ mem' = [mem EXCEPT ![p].instant = InstantOf[arg[p]], ![p].digest = arg[p],
                          ![p].accepted = TRUE]
    /\ fresh' = [fresh EXCEPT ![p] = FALSE]
    /\ Move(p, "wake")
    /\ UNCHANGED <<durable, source, clock, loaded, panel, seen, before>>

(* Mutant: the copy retained for a refused commit is dropped, unlocked. *)
NotPersistedDropsCopy(p) ==
    /\ pc[p] = "commit"
    /\ stage[p] = "refused"
    /\ Goto(p, "idle")
    /\ arg' = [arg EXCEPT ![p] = Absent]
    /\ waived' = waived \ {p}
    /\ disk' = [disk EXCEPT !.kept = Absent]
    /\ ReportFailure(p)
    /\ fresh' = [fresh EXCEPT ![p] = FALSE]
    /\ Move(p, "wake")
    /\ UNCHANGED <<platter, lock, acked, faults>>
    /\ UNCHANGED <<durable, source, clock, loaded, seen, before>>

(* floor-not-persisted: nothing is published, the same file is tried again. *)
NotPersisted(p) ==
    /\ pc[p] = "commit"
    /\ stage[p] = "refused"
    /\ Return(p)
    /\ ReportFailure(p)
    /\ fresh' = [fresh EXCEPT ![p] = FALSE]
    /\ Move(p, "wake")
    /\ UNCHANGED <<durable, source, clock, loaded, seen, before>>

(* The clock is read again after the publication. *)
Judge(p) ==
    /\ pc[p] = "judge"
    /\ JudgeAge(p, FALSE)
    /\ Move(p, "wake")
    /\ UNCHANGED <<storeVars, durable, source, clock, loaded, fresh, seen, before>>

Tick(p) ==
    \/ Wake(p)
    \/ LoadRefused(p) \/ LoadMissing(p) \/ LoadGone(p) \/ LoadAbsent(p) \/ LoadPresent(p)
    \/ RestoreRetained(p) \/ ResolveFuture(p) \/ Resolve(p)
    \/ SourceMissing(p) \/ SourceRefused(p) \/ SourceUnchanged(p) \/ SourceAdmitted(p)
    \/ Publish(p) \/ NotPersisted(p) \/ Judge(p)

-----------------------------------------------------------------------------
(* The world around the processes. *)

(* A push, a replay of an older file, a deletion, a damaged file. *)
Push ==
    /\ source' \in (Docs \cup {Absent, Bad}) \ {source}
    /\ UNCHANGED <<storeVars, durable, clock, pc, mem, loaded, fresh, panel, seen, before>>

ClockSteps ==
    /\ clock' \in (0 .. MaxClock) \ {clock}
    /\ UNCHANGED <<storeVars, durable, source, pc, mem, loaded, fresh, panel, seen, before>>

(* A process forgets everything it holds in memory. *)
Down(S) ==
    LET Forget(f, start) == [p \in Proc |-> IF p \in S THEN start ELSE f[p]]
    IN  /\ pc' = Forget(pc, "down")
        /\ mem' = Forget(mem, StartMemory(0))
        /\ panel' = Forget(panel, StartPanel)
        /\ loaded' = Forget(loaded, Absent)
        /\ fresh' = Forget(fresh, FALSE)
        /\ seen' = Forget(seen, Absent)
        /\ before' = Forget(before, {})
        /\ UNCHANGED <<durable, source, clock>>

Dies(p) == pc[p] # "down" /\ Crash(p) /\ Down({p})

PowerFails == PowerLoss /\ Down(Proc)

MarkerLost ==
    /\ \E m \in {Absent, Untrusted} : LoseMarker(m)
    /\ UNCHANGED loopVars

(* The reset withdraws the promises of the processes that are running too. *)
OperatorReset ==
    /\ ResetMarker \/ ResetTombstone
    /\ before' = [p \in Proc |-> {}]
    /\ UNCHANGED <<durable, source, clock, pc, mem, loaded, fresh, panel, seen>>

World == Push \/ ClockSteps \/ PowerFails \/ MarkerLost \/ OperatorReset

LoopNext ==
    \/ \E p \in Proc :
        \/ Start(p) \/ Tick(p) \/ Commit(p)
        \/ LoadInterrupted(p) \/ RestoreInterrupted(p) \/ Dies(p)
    \/ World

LoopSpec == LoopInit /\ [][LoopNext]_vars

-----------------------------------------------------------------------------
(* What the loop promises. *)

(* A process never serves a document behind one that had been stored before
   the process started: neither from the volume nor from the retained copy,
   whichever build it is and whatever happened to the directory since (the
   replay floor that survives restarts, docs/usage-export.md). *)
NoRollback ==
    \A p \in Proc : panel[p].doc \in Docs =>
        \A d \in before[p] : AtOrAbove(panel[p].doc, d)

(* Within one process what was accepted never gives way to an older document
   or to another one of the same instant, not even across a reset. *)
ServedNeverGoesBack ==
    [][\A p \in Proc :
        (panel[p].doc \in Docs /\ ~panel[p].restored /\ panel'[p].doc \in Docs)
            => AtOrAbove(panel'[p].doc, panel[p].doc)]_vars

(* Publication happens only over a floor that a power loss at that very
   moment would leave at or above the document published. *)
CommittedBeforePublished ==
    [][\A p \in Proc \ waived :
        (durable /\ panel'[p].doc \in Docs /\ ~panel'[p].restored
            /\ panel[p].doc # panel'[p].doc)
            => Keeps(platter', panel'[p].doc)]_vars

(* Between ticks, a panel that says ok of a pushed document serves the very
   file the latest read of the volume found (errSeriesUnchanged, and the
   refusals that turn it stale). *)
OkMatchesSource ==
    \A p \in Proc :
        (pc[p] = "wake" /\ panel[p].status = "ok" /\ panel[p].doc \in Docs)
            => seen[p] = panel[p].doc

(* A tick never ends ok on a document older than the grace, whenever its
   commit was delayed and however the clock moved meanwhile. *)
OkIsFresh ==
    [][\A p \in Proc :
        (pc[p] # "wake" /\ pc'[p] = "wake" /\ panel'[p].doc \in Docs /\ panel'[p].status = "ok")
            => Fresh(panel'[p].doc, clock)]_vars

(* After its first tick a process says ok of the embedded snapshot only when
   nothing had been published before it started: a restart that finds a floor
   but no file is a loss, not a cold start. *)
EmbeddedOkOnlyWhenCold ==
    \A p \in Proc :
        (/\ pc[p] = "wake" /\ (mem[p].resolved \/ mem[p].failing) /\ durable
         /\ panel[p].doc = Absent /\ panel[p].status = "ok")
            => before[p] = {}

(* While no acceptance is in flight the retained copy is the document the
   marker names, so that "a restart never falls back to the snapshot embedded
   at release time while a newer document exists" (docs/usage-export.md). *)
KeptIsNamed ==
    (disk.marker \in Docs /\ \A p \in Proc : stage[p] = "idle") => disk.kept = disk.marker

(* What makes these promises inductive.  What was promised before a process
   started is still promised; what it loaded, stored or serves is at or above
   that; without a durable floor nothing is ever promised. *)
CoversBefore(p, d) == d \in Docs => \A e \in before[p] : AtOrAbove(d, e)

Remembered(p) ==
    /\ before[p] \subseteq acked
    /\ pc[p] = "down" => panel[p].doc = Absent /\ loaded[p] = Absent
    /\ pc[p] \in {"restore", "resolve"} => loaded[p] \in Docs
    /\ CoversBefore(p, loaded[p])
    /\ CoversBefore(p, panel[p].doc)
    /\ stage[p] = "stored" => CoversBefore(p, arg[p])
    /\ stage[p] = "stored" /\ p \notin waived => arg[p] \in acked
    /\ ~durable => acked = {} /\ stage[p] = "idle"

(* The floor in memory is the document accepted in this process, and whatever
   is being committed passed the replay check against it. *)
FloorFollows(p) ==
    /\ pc[p] \in {"load", "tombstone", "restore", "resolve"} => ~mem[p].resolved
    /\ mem[p].accepted => mem[p].resolved
    /\ panel[p].doc \in Docs /\ ~panel[p].restored =>
        /\ mem[p].accepted
        /\ mem[p].digest = panel[p].doc
        /\ mem[p].instant = InstantOf[panel[p].doc]
    /\ pc[p] # "commit" => stage[p] = "idle"
    /\ pc[p] \in {"read", "commit"} => mem[p].resolved
    /\ stage[p] # "idle" => ~Replayed(p, arg[p])

LoopInv == LoopTypeOK /\ \A p \in Proc : Remembered(p) /\ FloorFollows(p)

(* What each process says of what it serves: a failure it remembers is on the
   panel, what it is judging is what it read last, and a panel that has accepted
   nothing says ok only of a cold start. *)
StatusFollows(p) ==
    /\ mem[p].accepted => panel[p].doc \in Docs /\ ~panel[p].restored
    /\ mem[p].failing /\ pc[p] # "judge" => panel[p].status = "stale"
    /\ pc[p] = "commit" => seen[p] = arg[p]
    /\ pc[p] = "judge" => mem[p].accepted /\ seen[p] = panel[p].doc
    /\ pc[p] = "wake" /\ mem[p].accepted /\ panel[p].status = "ok" => seen[p] = panel[p].doc
    /\ BootStatus = "stale" /\ ~mem[p].accepted =>
        panel[p].status = "stale" /\ ~mem[p].degraded
    /\ durable /\ mem[p].resolved /\ ~mem[p].present /\ ~mem[p].accepted => before[p] = {}
    /\ pc[p] = "wake" /\ mem[p].resolved /\ mem[p].present /\ panel[p].doc = Absent =>
        panel[p].status = "stale"

StatusInv == \A p \in Proc : StatusFollows(p)

(* The loop drives the state directory only as FloorStore allows, so that all
   FloorStore promises carry over. *)
ImplementsFloorStore == StoreSpec

-----------------------------------------------------------------------------
(* Progress.  The loop's timer always fires again and a dead process is
   started again; a store waits for its lock, and the kernel wakes the
   waiter, but no step of the environment is owed to anyone. *)

CommitProgress(p) == pc[p] = "commit" /\ StoreProgress(p) /\ UNCHANGED loopVars

LockWait(p) == pc[p] = "commit" /\ AcquireLock(p) /\ UNCHANGED loopVars

Fairness ==
    \A p \in Proc :
        /\ WF_vars(Start(p))
        /\ WF_vars(Tick(p))
        /\ WF_vars(CommitProgress(p))
        /\ SF_vars(LockWait(p))

FairSpec == LoopSpec /\ Fairness

(* A directory nothing but a reset can repair. *)
Wedged == LoadFails(disk)

(* Once the newest document stays on the volume, with the clock not behind it
   and the directory readable, every process comes to serve it and keeps
   serving it (unless another document already took its instant). *)
Newest(d) == \A e \in Docs \ {d} : InstantOf[e] < InstantOf[d]

NewestIsServed ==
    \A d \in Docs :
        (Newest(d) /\ <>[](source = d /\ ~FutureDated(d, clock) /\ ~Wedged))
            => <>[](\A p \in Proc : panel[p].doc = d)

(* If it is never found past its grace, the panel also comes to say ok for
   good, whatever had turned it stale.  (A document first read past its grace
   stays stale even if the clock is then corrected backwards: "an expired one
   stays stale until a fresh capture lands".) *)
NewestIsOk ==
    \A d \in Docs :
        (/\ Newest(d) /\ []Fresh(d, clock)
         /\ <>[](source = d /\ ~FutureDated(d, clock) /\ ~Wedged))
            => <>[](\A p \in Proc : panel[p].status = "ok")

=============================================================================
