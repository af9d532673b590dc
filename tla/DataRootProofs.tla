--------------------------- MODULE DataRootProofs ---------------------------
(***************************************************************************)
(* Proofs about FloorStore and DataRoot, for every set of processes,       *)
(* documents and builds.  Of the state directory: the types, the mutual    *)
(* exclusion of the lock, that a store which reported success is           *)
(* remembered whatever is interrupted afterwards, and that the directory   *)
(* implements one atomic replay floor.  Of the loop that drives it: it     *)
(* goes through FloorStore alone, never rolls back behind what was         *)
(* promised before a process started, publishes only over a durable        *)
(* floor, never serves an older document after a newer one, and says ok    *)
(* only of what it last read, while that is fresh.                         *)
(***************************************************************************)
EXTENDS DataRoot, TLAPS

(* The state directory. *)

(* Being at or above is transitive, and two documents that are each at or
   above the other are the same. *)
LEMMA AtOrAboveOrder ==
    ASSUME NEW d \in Docs, NEW e \in Docs, NEW f \in Docs
    PROVE  /\ AtOrAbove(d, d)
           /\ AtOrAbove(d, e) /\ AtOrAbove(e, f) => AtOrAbove(d, f)
           /\ AtOrAbove(d, e) /\ InstantOf[d] = InstantOf[e] => d = e
BY DocsAssumption DEF AtOrAbove

(* A store that is admitted is at or above everything promised so far. *)
LEMMA AdmittedCoversPromises ==
    ASSUME NEW d \in Docs, AckedIsDurable, acked \subseteq Docs, StoreAdmits(disk, d),
           disk \in Directory
    PROVE  \A e \in acked : AtOrAbove(d, e)
<1> SUFFICES ASSUME NEW e \in acked PROVE AtOrAbove(d, e)
    OBVIOUS
<1>1. Keeps(disk, e)
    BY DEF AckedIsDurable
<1>2. disk.marker \in Docs
    BY <1>1 DEF StoreAdmits, LoadFails, Keeps, Directory
<1>3. AtOrAbove(disk.marker, e) /\ AtOrAbove(d, disk.marker)
    BY <1>1, <1>2, DocsAssumption DEF Keeps, StoreAdmits
<1>4. QED
    BY <1>2, <1>3, AtOrAboveOrder

(* The invariant holds initially. *)
LEMMA StoreInvInit == StoreInit => StoreInv
BY DocsAssumption
    DEF StoreInit, StoreInv, TypeOK, LockHeld, HasDocument, PlatterBehind, AckedIsDurable,
        OneDocumentPerInstant, Storing, Directory, Stages, LockedStages

(* Every step preserves it.  Most actions touch one file or one stage; the
   comparison establishes what the steps after it rely on, and success turns it
   into a promise. *)
LEMMA StoreInvStep == StoreInv /\ [StoreNext]_storeVars => StoreInv'
<1> SUFFICES ASSUME StoreInv, [StoreNext]_storeVars PROVE StoreInv'
    OBVIOUS
<1> USE DocsAssumption DEF StoreInv
<1>1. ASSUME UNCHANGED storeVars PROVE StoreInv'
    BY <1>1 DEF storeVars, TypeOK, Directory, Stages, LockedStages, LockHeld, HasDocument, PlatterBehind,
        AckedIsDurable, Keeps, OneDocumentPerInstant, Storing, AtOrAbove
<1>2. ASSUME NEW p \in Proc, NEW d \in Docs, BeginStore(p, d) PROVE StoreInv'
    BY <1>2 DEF BeginStore, Goto, TypeOK, Directory, Stages, LockedStages, LockHeld, HasDocument, PlatterBehind,
        AckedIsDurable, Keeps, OneDocumentPerInstant, Storing, AtOrAbove
<1>3. ASSUME NEW p \in Proc, Retain(p) PROVE StoreInv'
    BY <1>3 DEF Retain, Goto, TypeOK, Directory, Stages, LockedStages, LockHeld, HasDocument, PlatterBehind,
        AckedIsDurable, Keeps, OneDocumentPerInstant, Storing, AtOrAbove
<1>4. ASSUME NEW p \in Proc, RetainSync(p) PROVE StoreInv'
    BY <1>4 DEF RetainSync, Goto, TypeOK, Directory, Stages, LockedStages, LockHeld, HasDocument, PlatterBehind,
        AckedIsDurable, Keeps, OneDocumentPerInstant, Storing, AtOrAbove
<1>5. ASSUME NEW p \in Proc, AcquireLock(p) PROVE StoreInv'
    BY <1>5 DEF AcquireLock, Goto, TypeOK, Directory, Stages, LockedStages, LockHeld, HasDocument, PlatterBehind,
        AckedIsDurable, Keeps, OneDocumentPerInstant, Storing, AtOrAbove
<1>6. ASSUME NEW p \in Proc, CompareAdmits(p) PROVE StoreInv'
    <2>1. \A e \in acked : AtOrAbove(arg[p], e)
        BY <1>6, AdmittedCoversPromises DEF CompareAdmits, HasDocument, TypeOK
    <2>2. disk.marker \in Docs => AtOrAbove(arg[p], disk.marker)
        BY <1>6 DEF CompareAdmits, StoreAdmits
    <2>3. QED
        BY <1>6, <2>1, <2>2 DEF CompareAdmits, Goto, TypeOK, Directory, Stages, LockedStages,
            LockHeld, HasDocument, PlatterBehind, AckedIsDurable, Keeps, OneDocumentPerInstant,
            Storing
<1>7. ASSUME NEW p \in Proc, CompareRefuses(p) PROVE StoreInv'
    BY <1>7 DEF CompareRefuses, Goto, TypeOK, Directory, Stages, LockedStages, LockHeld, HasDocument, PlatterBehind,
        AckedIsDurable, Keeps, OneDocumentPerInstant, Storing, AtOrAbove
<1>8. ASSUME NEW p \in Proc, WriteMarker(p) PROVE StoreInv'
    BY <1>8 DEF WriteMarker, Goto, TypeOK, Directory, Stages, LockedStages, LockHeld, HasDocument, PlatterBehind,
        AckedIsDurable, Keeps, OneDocumentPerInstant, Storing, AtOrAbove
<1>9. ASSUME NEW p \in Proc, SyncMarker(p) PROVE StoreInv'
    BY <1>9 DEF SyncMarker, Goto, TypeOK, Directory, Stages, LockedStages, LockHeld, HasDocument, PlatterBehind,
        AckedIsDurable, Keeps, OneDocumentPerInstant, Storing, AtOrAbove
<1>10. ASSUME NEW p \in Proc, TombstonePresent(p) PROVE StoreInv'
    <2>1. arg[p] \in Docs /\ \A e \in acked : AtOrAbove(arg[p], e)
        BY <1>10 DEF TombstonePresent, HasDocument, Storing, LockedStages
    <2>2. Keeps(disk, arg[p]) /\ Keeps(platter, arg[p])
        BY <1>10, <2>1, AtOrAboveOrder DEF TombstonePresent, Keeps, Storing, TypeOK, Directory
    <2>3. AckedIsDurable' /\ OneDocumentPerInstant'
        BY <1>10, <2>1, <2>2, AtOrAboveOrder
        DEF TombstonePresent, Succeed, TypeOK, AckedIsDurable, Keeps, OneDocumentPerInstant,
            AtOrAbove
    <2>4. TypeOK' /\ HasDocument' /\ LockHeld' /\ PlatterBehind'
        BY <1>10, <2>1 DEF TombstonePresent, Succeed, Goto, TypeOK, Stages, LockedStages,
            LockHeld, HasDocument, PlatterBehind, AtOrAbove
    <2>5. (\A q \in Proc : Storing(q))'
        BY <1>10, <2>1 DEF TombstonePresent, Succeed, Goto, TypeOK, Stages, LockedStages,
            LockHeld, Storing, AtOrAbove
    <2>6. QED
        BY <2>3, <2>4, <2>5
<1>11. ASSUME NEW p \in Proc, WriteTombstone(p) PROVE StoreInv'
    BY <1>11 DEF WriteTombstone, Goto, TypeOK, Directory, Stages, LockedStages, LockHeld, HasDocument, PlatterBehind,
        AckedIsDurable, Keeps, OneDocumentPerInstant, Storing, AtOrAbove
<1>12. ASSUME NEW p \in Proc, SyncTombstone(p) PROVE StoreInv'
    BY <1>12 DEF SyncTombstone, Goto, Succeed, TypeOK, Directory, Stages, LockedStages, LockHeld, HasDocument, PlatterBehind,
        AckedIsDurable, Keeps, OneDocumentPerInstant, Storing, AtOrAbove
<1>13. ASSUME NEW p \in Proc, RetainFails(p) PROVE StoreInv'
    BY <1>13 DEF RetainFails, Goto, Fault, TypeOK, Directory, Stages, LockedStages, LockHeld, HasDocument, PlatterBehind,
        AckedIsDurable, Keeps, OneDocumentPerInstant, Storing, AtOrAbove
<1>14. ASSUME NEW p \in Proc, StoreFails(p) PROVE StoreInv'
    BY <1>14 DEF StoreFails, Goto, Fault, TypeOK, Directory, Stages, LockedStages, LockHeld, HasDocument, PlatterBehind,
        AckedIsDurable, Keeps, OneDocumentPerInstant, Storing, AtOrAbove
<1>15. ASSUME NEW p \in Proc, Return(p) PROVE StoreInv'
    BY <1>15 DEF Return, Goto, TypeOK, Directory, Stages, LockedStages, LockHeld, HasDocument, PlatterBehind,
        AckedIsDurable, Keeps, OneDocumentPerInstant, Storing, AtOrAbove
<1>16. ASSUME NEW p \in Proc, Crash(p) PROVE StoreInv'
    BY <1>16 DEF Crash, Goto, Fault, TypeOK, Directory, Stages, LockedStages, LockHeld, HasDocument, PlatterBehind,
        AckedIsDurable, Keeps, OneDocumentPerInstant, Storing, AtOrAbove
<1>17. ASSUME PowerLoss PROVE StoreInv'
    BY <1>17 DEF PowerLoss, Fault, TypeOK, Directory, Stages, LockedStages, LockHeld, HasDocument, PlatterBehind,
        AckedIsDurable, Keeps, OneDocumentPerInstant, Storing, AtOrAbove
<1>18. ASSUME ReadFails PROVE StoreInv'
    BY <1>18 DEF ReadFails, Fault, TypeOK, Directory, Stages, LockedStages, LockHeld, HasDocument, PlatterBehind,
        AckedIsDurable, Keeps, OneDocumentPerInstant, Storing, AtOrAbove
<1>19. ASSUME NEW m \in {Absent, Untrusted}, LoseMarker(m) PROVE StoreInv'
    BY <1>19 DEF LoseMarker, Fault, TypeOK, Directory, Stages, LockedStages, LockHeld, HasDocument, PlatterBehind,
        AckedIsDurable, Keeps, OneDocumentPerInstant, Storing, AtOrAbove
<1>20. ASSUME ResetMarker PROVE StoreInv'
    BY <1>20 DEF ResetMarker, Fault, Withdraw, TypeOK, Directory, Stages, LockedStages, LockHeld, HasDocument, PlatterBehind,
        AckedIsDurable, Keeps, OneDocumentPerInstant, Storing, AtOrAbove
<1>21. ASSUME ResetTombstone PROVE StoreInv'
    <2>1. disk' \in Directory /\ platter' \in Directory
        BY <1>21 DEF ResetTombstone, TypeOK, Directory
    <2>2. TypeOK'
        BY <1>21, <2>1 DEF ResetTombstone, Fault, Withdraw, TypeOK
    <2>3. QED
        BY <1>21, <2>2 DEF ResetTombstone, Withdraw, TypeOK, Directory, Stages, LockedStages,
            LockHeld, HasDocument, PlatterBehind, AckedIsDurable, OneDocumentPerInstant,
            Storing, AtOrAbove
<1>22. QED
    BY <1>1, <1>2, <1>3, <1>4, <1>5, <1>6, <1>7, <1>8, <1>9, <1>10, <1>11, <1>12, <1>13, <1>14, <1>15, <1>16, <1>17, <1>18, <1>19, <1>20, <1>21
    DEF StoreNext, StoreStep, StoreProgress, Disturbance

(* The invariant of every behaviour. *)
THEOREM StoreInvariant == StoreSpec => []StoreInv
BY StoreInvInit, StoreInvStep, PTL DEF StoreSpec

(* The types of the state directory, the lock and the processes. *)
THEOREM StoreTypeCorrect == StoreSpec => []TypeOK
<1>1. StoreInv => TypeOK
    BY DEF StoreInv
<1>2. QED
    BY <1>1, StoreInvariant, PTL

(* A store that reported success is remembered by every process and by the
   directory a power loss leaves behind. *)
THEOREM PromisesAreDurable == StoreSpec => []AckedIsDurable
<1>1. StoreInv => AckedIsDurable
    BY DEF StoreInv
<1>2. QED
    BY <1>1, StoreInvariant, PTL

(* Two documents of one instant are never both stored, however many processes
   share the directory. *)
THEOREM InstantsAreUnique == StoreSpec => []OneDocumentPerInstant
<1>1. StoreInv => OneDocumentPerInstant
    BY DEF StoreInv
<1>2. QED
    BY <1>1, StoreInvariant, PTL

(* Whatever a step makes of the platter, its marker comes from the platter, from
   the visible directory, or from a loss. *)
LEMMA PlatterComesFrom ==
    ASSUME StoreInv, [StoreNext]_storeVars
    PROVE  platter'.marker \in {disk.marker, platter.marker, Absent, Untrusted}
BY DEF StoreInv, TypeOK, Directory, StoreNext, StoreStep, StoreProgress, Disturbance, storeVars,
    BeginStore, Retain, RetainSync, RetainFails, AcquireLock, CompareAdmits, CompareRefuses,
    WriteMarker, SyncMarker, TombstonePresent, WriteTombstone, SyncTombstone, StoreFails, Return,
    Crash, PowerLoss, ReadFails, LoseMarker, ResetMarker, ResetTombstone

(* The floor a power loss leaves behind never drops. *)
THEOREM FloorIsMonotonic == StoreSpec => FloorNeverDrops
<1>1. ASSUME StoreInv, [StoreNext]_storeVars, platter.marker \in Docs, platter'.marker \in Docs
      PROVE  AtOrAbove(platter'.marker, platter.marker)
    BY <1>1, PlatterComesFrom, AtOrAboveOrder, DocsAssumption DEF StoreInv, PlatterBehind
<1>2. QED
    BY <1>1, StoreInvariant, PTL DEF StoreSpec, FloorNeverDrops

-----------------------------------------------------------------------------
(* The files implement the abstract replay floor. *)

(* As long as the promises stand, whatever a step leaves on the platter is a
   raise, a known loss, or the loss of a floor nothing was promised on. *)
LEMMA PlatterStepIsAbstract ==
    ASSUME StoreInv, platter' \in Directory, acked' = acked,
           platter'.marker \in {disk.marker, platter.marker, Absent, Untrusted},
           platter'.tomb \in {disk.tomb, platter.tomb}
    PROVE  Replay!Next
<1> USE DocsAssumption DEF StoreInv
<1>1. CASE platter'.marker \in Docs
    <2>1. FloorOf(platter)' = platter'.marker
        BY <1>1 DEF FloorOf, NeverUsed
    <2>2. FloorOf(platter) \in Docs => FloorOf(platter) = platter.marker
        BY DEF FloorOf
    <2>3. FloorOf(platter) \in Docs => AtOrAbove(platter'.marker, FloorOf(platter))
        BY <1>1, <2>2, AtOrAboveOrder DEF PlatterBehind
    <2>4. \A e \in acked : AtOrAbove(platter'.marker, e)
        BY <1>1 DEF AckedIsDurable, Keeps
    <2>5. Replay!Raise(platter'.marker)
        BY <2>1, <2>3, <2>4 DEF Replay!Raise, Replay!AtOrAbove, AtOrAbove
    <2>6. QED
        BY <1>1, <2>5 DEF Replay!Next
<1>2. CASE NeverUsed(platter')
    <2>1. FloorOf(platter)' = Absent
        BY <1>2 DEF FloorOf, NeverUsed
    <2>2. acked = {}
        BY <1>2 DEF AckedIsDurable, Keeps, NeverUsed
    <2>3. QED
        BY <2>1, <2>2 DEF Replay!Next, Replay!Forget
<1>3. CASE platter'.marker \notin Docs /\ ~NeverUsed(platter')
    <2>1. FloorOf(platter)' = Untrusted
        BY <1>3 DEF FloorOf, NeverUsed
    <2>2. QED
        BY <2>1 DEF Replay!Next, Replay!Lose
<1>4. QED
    BY <1>1, <1>2, <1>3

(* A success that counts acknowledges a document the platter covers. *)
LEMMA SuccessIsAbstract ==
    ASSUME StoreInv, NEW p \in Proc, p \notin waived,
           TombstonePresent(p) \/ SyncTombstone(p)
    PROVE  Replay!Acknowledge(arg[p]) /\ arg[p] \in Docs
<1> USE DocsAssumption DEF StoreInv
<1>1. arg[p] \in Docs /\ \A e \in acked : AtOrAbove(arg[p], e)
    BY DEF TombstonePresent, SyncTombstone, HasDocument, Storing, LockedStages
<1>2. acked' = acked \cup {arg[p]}
    BY DEF TombstonePresent, SyncTombstone, Succeed
<1>3. platter'.tomb /\ platter'.marker = platter.marker
    BY DEF TombstonePresent, SyncTombstone, Storing
<1>4. platter'.marker \in Docs => platter'.marker = arg[p]
    BY <1>3 DEF TombstonePresent, SyncTombstone, Storing
<1>5. FloorOf(platter)' \in {FloorOf(platter), Untrusted} \ {Absent}
    BY <1>3 DEF FloorOf, NeverUsed
<1>6. FloorOf(platter)' \in Docs => AtOrAbove(FloorOf(platter)', arg[p])
    BY <1>1, <1>4, AtOrAboveOrder DEF FloorOf
<1>7. QED
    BY <1>1, <1>2, <1>5, <1>6 DEF Replay!Acknowledge, Replay!AtOrAbove, AtOrAbove

LEMMA ResetIsAbstract ==
    ASSUME StoreInv, ResetMarker \/ ResetTombstone
    PROVE  Replay!Reset
<1>1. platter'.marker \in {Absent, Untrusted}
    BY DocsAssumption DEF ResetMarker, ResetTombstone, StoreInv, TypeOK, Directory, PlatterBehind
<1>2. QED
    BY <1>1, DocsAssumption
    DEF ResetMarker, ResetTombstone, Withdraw, FloorOf, NeverUsed, Replay!Reset

(* Files, lock, crashes and power losses together are one atomic replay
   floor. *)
THEOREM StoreImplementsReplayFloor == StoreSpec => ImplementsReplayFloor
<1>1. StoreInit => Replay!Init
    BY DocsAssumption DEF StoreInit, Replay!Init, FloorOf, NeverUsed
<1>2. ASSUME StoreInv, StoreInv', [StoreNext]_storeVars
      PROVE  [Replay!Next]_<<FloorOf(platter), acked>>
    <2>1. CASE ResetMarker \/ ResetTombstone
        BY <1>2, <2>1, ResetIsAbstract DEF Replay!Next
    <2>2. ASSUME NEW p \in Proc, p \notin waived, TombstonePresent(p) \/ SyncTombstone(p)
          PROVE  Replay!Next
        BY <1>2, <2>2, SuccessIsAbstract DEF Replay!Next
    <2>3. CASE /\ ~ResetMarker /\ ~ResetTombstone
               /\ \A p \in Proc \ waived : ~TombstonePresent(p) /\ ~SyncTombstone(p)
        <3>1. acked' = acked /\ platter'.tomb \in {disk.tomb, platter.tomb}
            BY <1>2, <2>3 DEF StoreInv, TypeOK, Directory, StoreNext, StoreStep, StoreProgress,
                Disturbance, storeVars, BeginStore, Retain, RetainSync, RetainFails, AcquireLock,
                CompareAdmits, CompareRefuses, WriteMarker, SyncMarker, TombstonePresent,
                WriteTombstone, SyncTombstone, Succeed, StoreFails, Return, Crash, PowerLoss,
                ReadFails, LoseMarker
        <3>2. QED
            BY <1>2, <3>1, PlatterComesFrom, PlatterStepIsAbstract DEF StoreInv, TypeOK
    <2>4. QED
        BY <2>1, <2>2, <2>3
<1>3. QED
    BY <1>1, <1>2, StoreInvariant, PTL
    DEF StoreSpec, ImplementsReplayFloor, Replay!Spec

-----------------------------------------------------------------------------
(* The loop. *)

(* A report changes the status of the panel and what the loop remembers of
   failures, nothing else. *)
LEMMA ReportsKeepTheRest ==
    ASSUME NEW p \in Proc, mem \in [Proc -> Memory], panel \in [Proc -> Panel],
           NEW r \in BOOLEAN, ReportFailure(p) \/ ReportRecovery(p, r)
    PROVE  /\ mem' \in [Proc -> Memory]
           /\ panel' \in [Proc -> Panel]
           /\ \A q \in Proc :
                /\ panel'[q].doc = panel[q].doc /\ panel'[q].restored = panel[q].restored
                /\ mem'[q].instant = mem[q].instant /\ mem'[q].digest = mem[q].digest
                /\ mem'[q].resolved = mem[q].resolved /\ mem'[q].accepted = mem[q].accepted
<1>1. panel' \in [Proc -> Panel]
    BY DEF ReportFailure, ReportRecovery, Panel, Status
<1>2. mem' \in [Proc -> Memory]
    <2>1. CASE ReportFailure(p)
        <3> DEFINE m == [mem[p] EXCEPT !.failing = TRUE, !.degraded = @ \/ panel[p].status = "ok"]
        <3>1. mem[p] \in Memory /\ (mem[p].degraded \/ panel[p].status = "ok") \in BOOLEAN
            OBVIOUS
        <3>2. m \in Memory
            BY <3>1 DEF Memory
        <3>3. mem' = [mem EXCEPT ![p] = m]
            BY <2>1 DEF ReportFailure
        <3>4. QED
            BY <3>2, <3>3
    <2>2. CASE ReportRecovery(p, r)
        <3> DEFINE m == [mem[p] EXCEPT !.failing = FALSE, !.degraded = @ /\ ~mem[p].failing]
        <3>1. mem[p] \in Memory /\ (mem[p].degraded /\ ~mem[p].failing) \in BOOLEAN
            OBVIOUS
        <3>2. m \in Memory
            BY <3>1 DEF Memory
        <3>3. mem' = [mem EXCEPT ![p] = m]
            BY <2>2 DEF ReportRecovery
        <3>4. QED
            BY <3>2, <3>3
    <2>3. QED
        BY <2>1, <2>2
<1>3. \A q \in Proc : panel'[q].doc = panel[q].doc /\ panel'[q].restored = panel[q].restored
    BY DEF ReportFailure, ReportRecovery, Panel
<1>4. \A q \in Proc :
        /\ mem'[q].instant = mem[q].instant /\ mem'[q].digest = mem[q].digest
        /\ mem'[q].resolved = mem[q].resolved /\ mem'[q].accepted = mem[q].accepted
    BY DEF ReportFailure, ReportRecovery, Memory
<1>5. QED
    BY <1>1, <1>2, <1>3, <1>4

LEMMA JudgementIsAReport ==
    ASSUME NEW p \in Proc, NEW r \in BOOLEAN, JudgeAge(p, r)
    PROVE  ReportFailure(p) \/ ReportRecovery(p, r)
BY DEF JudgeAge

-----------------------------------------------------------------------------
(* Every step of the loop is a step of FloorStore or leaves it alone. *)
LEMMA LoopStepIsStoreStep ==
    ASSUME [LoopNext]_vars
    PROVE  [StoreNext]_storeVars
<1>1. CASE UNCHANGED vars
    BY <1>1 DEF vars
<1>2. ASSUME NEW p \in Proc, Start(p) PROVE UNCHANGED storeVars
    BY <1>2 DEF Start
<1>3. ASSUME NEW p \in Proc, Tick(p) PROVE [StoreNext]_storeVars
    <2>1. CASE SourceAdmitted(p)
        BY <2>1 DEF SourceAdmitted, StoreNext
    <2>2. CASE Publish(p) \/ NotPersisted(p)
        BY <2>2 DEF Publish, NotPersisted, StoreNext
    <2>3. QED
        BY <1>3, <2>1, <2>2 DEF Tick, Wake, LoadRefused, LoadMissing, LoadGone, LoadAbsent,
            LoadPresent, RestoreRetained, ResolveFuture, Resolve, SourceMissing, SourceRefused,
            SourceUnchanged, Judge
<1>4. ASSUME NEW p \in Proc, Commit(p) PROVE StoreNext
    BY <1>4 DEF Commit, StoreNext
<1>5. ASSUME NEW p \in Proc, LoadInterrupted(p) \/ RestoreInterrupted(p) PROVE StoreNext
    BY <1>5 DEF LoadInterrupted, RestoreInterrupted, StoreNext, Disturbance
<1>6. ASSUME NEW p \in Proc, Dies(p) PROVE StoreNext
    BY <1>6 DEF Dies, StoreNext
<1>7. CASE World
    BY <1>7 DEF World, Push, ClockSteps, PowerFails, MarkerLost, OperatorReset, StoreNext, Disturbance
<1>8. QED
    BY <1>1, <1>2, <1>3, <1>4, <1>5, <1>6, <1>7 DEF LoopNext

(* The loop drives the state directory only as FloorStore allows. *)
THEOREM LoopImplementsFloorStore == LoopSpec => ImplementsFloorStore
<1>1. LoopInit => StoreInit
    BY DEF LoopInit
<1>2. QED
    BY <1>1, LoopStepIsStoreStep, PTL DEF LoopSpec, ImplementsFloorStore, StoreSpec

(* So every promise of FloorStore holds of the composition. *)
THEOREM LoopKeepsStoreInv == LoopSpec => []StoreInv
BY LoopImplementsFloorStore, StoreInvariant, PTL DEF ImplementsFloorStore

-----------------------------------------------------------------------------
(* The types. *)
LEMMA StartMemoryType == ASSUME durable \in BOOLEAN, NEW i \in Nat PROVE StartMemory(i) \in Memory
BY LoopAssumption DEF StartMemory, Memory

(* Publishing a document keeps the types. *)
LEMMA AcceptTypes ==
    ASSUME NEW p \in Proc, mem \in [Proc -> Memory], panel \in [Proc -> Panel],
           NEW d \in Docs, NEW f \in BOOLEAN, Accept(p, d, f)
    PROVE  mem' \in [Proc -> Memory] /\ panel' \in [Proc -> Panel]
<1>1. mem' \in [Proc -> Memory]
    <2> DEFINE m == [mem[p] EXCEPT !.instant = InstantOf[d], !.digest = d, !.accepted = TRUE]
    <2>1. m \in Memory
        BY DocsAssumption DEF Memory
    <2>2. mem' = [mem EXCEPT ![p] = m]
        BY DEF Accept
    <2>3. QED
        BY <2>1, <2>2
<1>2. panel' \in [Proc -> Panel]
    <2>1. [doc |-> d, status |-> IF f THEN "ok" ELSE "stale", restored |-> FALSE] \in Panel
        BY DEF Panel, Status
    <2>2. QED
        BY <2>1 DEF Accept
<1>3. QED
    BY <1>1, <1>2

LEMMA LoopTypeInit == LoopInit => LoopTypeOK
BY StoreInvInit, StartMemoryType, LoopAssumption
    DEF LoopInit, StoreInv, LoopTypeOK, Ticks, StartPanel, Panel, Status

LEMMA LoopTypeStep ==
    ASSUME LoopInv, StoreInv, StoreInv', [LoopNext]_vars
    PROVE  LoopTypeOK'
<1> USE DocsAssumption, LoopAssumption DEF LoopInv, LoopTypeOK, StoreInv
<1>1. CASE UNCHANGED vars
    BY <1>1 DEF vars, loopVars
<1>2. ASSUME NEW p \in Proc, Start(p) PROVE LoopTypeOK'
    <2>1. mem' \in [Proc -> Memory]
        BY <1>2, StartMemoryType DEF Start
    <2>2. before' \in [Proc -> SUBSET Docs]
        BY <1>2 DEF Start, TypeOK
    <2>3. QED
        BY <1>2, <2>1, <2>2 DEF Start, Move, Ticks
<1>3. ASSUME NEW p \in Proc, Wake(p) PROVE LoopTypeOK'
    BY <1>3 DEF Wake, Move, Ticks
<1>4. ASSUME NEW p \in Proc, LoadRefused(p) PROVE LoopTypeOK'
    BY <1>4, ReportsKeepTheRest DEF LoadRefused, Move, Ticks
<1>5. ASSUME NEW p \in Proc, LoadMissing(p) PROVE LoopTypeOK'
    BY <1>5 DEF LoadMissing, Move, Ticks
<1>6. ASSUME NEW p \in Proc, LoadGone(p) PROVE LoopTypeOK'
    BY <1>6, ReportsKeepTheRest DEF LoadGone, Move, Ticks
<1>7. ASSUME NEW p \in Proc, LoadAbsent(p) PROVE LoopTypeOK'
    <2>1. mem' \in [Proc -> Memory]
        <3>1. mem[p] \in Memory
            OBVIOUS
        <3>2. [mem[p] EXCEPT !.resolved = TRUE] \in Memory
            BY <3>1 DEF Memory
        <3>3. QED
            BY <1>7, <3>2 DEF LoadAbsent
    <2>2. QED
        BY <1>7, <2>1 DEF LoadAbsent, Move, Ticks
<1>8. ASSUME NEW p \in Proc, LoadInterrupted(p) PROVE LoopTypeOK'
    BY <1>8, ReportsKeepTheRest DEF LoadInterrupted, Move, Ticks
<1>9. ASSUME NEW p \in Proc, LoadPresent(p) PROVE LoopTypeOK'
    <2>1. mem' \in [Proc -> Memory]
        <3>1. mem[p] \in Memory
            OBVIOUS
        <3>2. [mem[p] EXCEPT !.restorePending = FALSE] \in Memory
            BY <3>1 DEF Memory
        <3>3. QED
            BY <1>9, <3>2 DEF LoadPresent
    <2>2. QED
        BY <1>9, <2>1 DEF LoadPresent, Move, Ticks
<1>10. ASSUME NEW p \in Proc, RestoreRetained(p) PROVE LoopTypeOK'
    BY <1>10 DEF RestoreRetained, Move, Ticks, Panel, Status, TypeOK, Directory
<1>11. ASSUME NEW p \in Proc, RestoreInterrupted(p) PROVE LoopTypeOK'
    BY <1>11 DEF RestoreInterrupted, Move, Ticks
<1>12. ASSUME NEW p \in Proc, ResolveFuture(p) PROVE LoopTypeOK'
    BY <1>12, ReportsKeepTheRest DEF ResolveFuture, Move, Ticks
<1>13. ASSUME NEW p \in Proc, Resolve(p) PROVE LoopTypeOK'
    <2> DEFINE d == loaded[p]
               i == IF InstantOf[d] > mem[p].instant THEN InstantOf[d] ELSE mem[p].instant
               m == [mem[p] EXCEPT !.resolved = TRUE, !.present = TRUE, !.digest = d,
                        !.instant = i, !.fromMarker = InstantOf[d] >= mem[p].instant]
    <2>1. m \in Memory
        <3>1. mem[p] \in Memory /\ d \in Docs
            BY <1>13 DEF Resolve, Remembered
        <3>2. i \in Nat /\ (InstantOf[d] >= mem[p].instant) \in BOOLEAN
            BY <3>1 DEF Memory
        <3>3. QED
            BY <3>1, <3>2 DEF Memory
    <2>2. mem' = [mem EXCEPT ![p] = m]
        BY <1>13 DEF Resolve
    <2>3. mem' \in [Proc -> Memory]
        BY <2>1, <2>2
    <2>4. QED
        BY <1>13, <2>3 DEF Resolve, Move, Ticks
<1>14. ASSUME NEW p \in Proc, SourceMissing(p) PROVE LoopTypeOK'
    BY <1>14, ReportsKeepTheRest DEF SourceMissing, Move, Ticks, Reads
<1>15. ASSUME NEW p \in Proc, SourceRefused(p) PROVE LoopTypeOK'
    BY <1>15, ReportsKeepTheRest DEF SourceRefused, Move, Ticks, Reads
<1>16. ASSUME NEW p \in Proc, SourceUnchanged(p) PROVE LoopTypeOK'
    BY <1>16, ReportsKeepTheRest, JudgementIsAReport DEF SourceUnchanged, Move, Ticks, Reads
<1>17. ASSUME NEW p \in Proc, SourceAdmitted(p) PROVE LoopTypeOK'
    <2>1. source \in Docs /\ Fresh(source, clock) \in BOOLEAN
        BY <1>17 DEF SourceAdmitted, Fresh
    <2>2. CASE durable
        BY <1>17, <2>1, <2>2 DEF SourceAdmitted, Reads, Move, Ticks
    <2>3. CASE ~durable
        BY <1>17, <2>1, <2>3, AcceptTypes DEF SourceAdmitted, Reads, Accept, Move, Ticks
    <2>4. QED
        BY <2>2, <2>3
<1>18. ASSUME NEW p \in Proc, Commit(p) PROVE LoopTypeOK'
    BY <1>18 DEF Commit, Move, Ticks, loopVars
<1>19. ASSUME NEW p \in Proc, Publish(p) PROVE LoopTypeOK'
    <2>1. arg[p] \in Docs
        BY <1>19 DEF Publish, HasDocument
    <2>2. mem' \in [Proc -> Memory] /\ panel' \in [Proc -> Panel]
        BY <1>19, <2>1, AcceptTypes DEF Publish
    <2>3. QED
        BY <1>19, <2>2 DEF Publish, Accept, Move, Ticks
<1>20. ASSUME NEW p \in Proc, NotPersisted(p) PROVE LoopTypeOK'
    BY <1>20, ReportsKeepTheRest DEF NotPersisted, Move, Ticks
<1>21. ASSUME NEW p \in Proc, Judge(p) PROVE LoopTypeOK'
    BY <1>21, ReportsKeepTheRest, JudgementIsAReport DEF Judge, Move, Ticks
<1>22. ASSUME NEW p \in Proc, Dies(p) PROVE LoopTypeOK'
    BY <1>22, StartMemoryType DEF Dies, Move, Ticks, Down, StartPanel, Panel, Status
<1>23. CASE Push
    BY <1>23 DEF Push, Move, Ticks
<1>24. CASE ClockSteps
    BY <1>24 DEF ClockSteps, Move, Ticks
<1>25. CASE PowerFails
    BY <1>25, StartMemoryType DEF PowerFails, Move, Ticks, Down, StartPanel, Panel, Status
<1>26. CASE MarkerLost
    BY <1>26 DEF MarkerLost, Move, Ticks, loopVars
<1>27. CASE OperatorReset
    BY <1>27 DEF OperatorReset, Move, Ticks
<1>28. QED
    BY <1>1, <1>2, <1>3, <1>4, <1>5, <1>6, <1>7, <1>8, <1>9, <1>10, <1>11, <1>12, <1>13, <1>14, <1>15, <1>16, <1>17, <1>18, <1>19, <1>20, <1>21, <1>22, <1>23, <1>24, <1>25, <1>26, <1>27 DEF LoopNext, Tick, World

-----------------------------------------------------------------------------
(* What is remembered: promises, the loaded floor, what is served. *)

(* A step of a store leaves the promises standing and, when it succeeds, covers
   them. *)
LEMMA StoreStepCovers ==
    ASSUME StoreInv, NEW p \in Proc, StoreStep(p)
    PROVE  /\ acked \subseteq acked' /\ waived' = waived /\ arg' = arg
           /\ stage[p] # "idle"
           /\ stage' = [stage EXCEPT ![p] = stage'[p]] /\ stage'[p] # "idle"
           /\ stage'[p] = "stored" =>
                /\ \A e \in acked : AtOrAbove(arg[p], e)
                /\ p \notin waived => arg[p] \in acked'
BY DocsAssumption DEF StoreInv, TypeOK, Storing, LockedStages, StoreStep, StoreProgress, Goto, Succeed,
    Retain, RetainSync, RetainFails, AcquireLock, CompareAdmits, CompareRefuses, WriteMarker,
    SyncMarker, TombstonePresent, WriteTombstone, SyncTombstone, StoreFails

LEMMA RememberedStep ==
    ASSUME LoopInv, LoopTypeOK', StoreInv, StoreInv', [LoopNext]_vars
    PROVE  \A q \in Proc : Remembered(q)'
<1> USE DocsAssumption, LoopAssumption DEF LoopInv, LoopTypeOK, Remembered, CoversBefore
<1>1. CASE UNCHANGED vars
    BY <1>1 DEF vars, loopVars, storeVars
<1>2. ASSUME NEW p \in Proc, Start(p) PROVE \A q \in Proc : Remembered(q)'
    <2>1. stage[p] = "idle" /\ panel[p].doc \notin Docs /\ loaded[p] \notin Docs
        BY <1>2 DEF Start, FloorFollows
    <2>2. before' = [before EXCEPT ![p] = acked] /\ pc' = [pc EXCEPT ![p] = "wake"]
        BY <1>2 DEF Start, Move
    <2>3. UNCHANGED <<storeVars, durable, loaded, panel>>
        BY <1>2 DEF Start
    <2>4. QED
        BY <2>1, <2>2, <2>3 DEF storeVars
<1>3. ASSUME NEW p \in Proc, Wake(p) PROVE \A q \in Proc : Remembered(q)'
    BY <1>3 DEF Wake, storeVars, Move
<1>4. ASSUME NEW p \in Proc, LoadRefused(p) PROVE \A q \in Proc : Remembered(q)'
    BY <1>4, ReportsKeepTheRest DEF LoadRefused, storeVars, Move
<1>5. ASSUME NEW p \in Proc, LoadMissing(p) PROVE \A q \in Proc : Remembered(q)'
    BY <1>5 DEF LoadMissing, storeVars, Move
<1>6. ASSUME NEW p \in Proc, LoadGone(p) PROVE \A q \in Proc : Remembered(q)'
    BY <1>6, ReportsKeepTheRest DEF LoadGone, storeVars, Move
<1>7. ASSUME NEW p \in Proc, LoadAbsent(p) PROVE \A q \in Proc : Remembered(q)'
    BY <1>7 DEF LoadAbsent, storeVars, Move
<1>8. ASSUME NEW p \in Proc, LoadInterrupted(p) PROVE \A q \in Proc : Remembered(q)'
    BY <1>8, ReportsKeepTheRest DEF LoadInterrupted, ReadFails, Move
<1>9. ASSUME NEW p \in Proc, LoadPresent(p) PROVE \A q \in Proc : Remembered(q)'
    BY <1>9 DEF LoadPresent, storeVars, Move, StoreInv, AckedIsDurable, Keeps
<1>10. ASSUME NEW p \in Proc, RestoreRetained(p) PROVE \A q \in Proc : Remembered(q)'
    BY <1>10 DEF RestoreRetained, storeVars, Move
<1>11. ASSUME NEW p \in Proc, RestoreInterrupted(p) PROVE \A q \in Proc : Remembered(q)'
    BY <1>11 DEF RestoreInterrupted, ReadFails, Move
<1>12. ASSUME NEW p \in Proc, ResolveFuture(p) PROVE \A q \in Proc : Remembered(q)'
    BY <1>12, ReportsKeepTheRest DEF ResolveFuture, storeVars, Move
<1>13. ASSUME NEW p \in Proc, Resolve(p) PROVE \A q \in Proc : Remembered(q)'
    BY <1>13 DEF Resolve, storeVars, Move
<1>14. ASSUME NEW p \in Proc, SourceMissing(p) PROVE \A q \in Proc : Remembered(q)'
    BY <1>14, ReportsKeepTheRest DEF SourceMissing, Reads, storeVars, Move
<1>15. ASSUME NEW p \in Proc, SourceRefused(p) PROVE \A q \in Proc : Remembered(q)'
    BY <1>15, ReportsKeepTheRest DEF SourceRefused, Reads, storeVars, Move
<1>16. ASSUME NEW p \in Proc, SourceUnchanged(p) PROVE \A q \in Proc : Remembered(q)'
    BY <1>16, ReportsKeepTheRest, JudgementIsAReport DEF SourceUnchanged, Reads, storeVars, Move
<1>17. ASSUME NEW p \in Proc, SourceAdmitted(p) PROVE \A q \in Proc : Remembered(q)'
    <2>1. source \in Docs /\ source # Absent
        BY <1>17 DEF SourceAdmitted
    <2>2. CASE durable
        BY <1>17, <2>2 DEF SourceAdmitted, Reads, BeginStore, Goto, Move, StoreInv, TypeOK
    <2>3. CASE ~durable
        <3>1. before[p] = {}
            BY <2>3
        <3>2. QED
            BY <1>17, <2>1, <2>3, <3>1 DEF SourceAdmitted, Reads, Accept, Move, storeVars, Panel
    <2>4. QED
        BY <2>2, <2>3
<1>18. ASSUME NEW p \in Proc, Commit(p) PROVE \A q \in Proc : Remembered(q)'
    BY <1>18, StoreStepCovers DEF Commit, loopVars, StoreInv, TypeOK
<1>19. ASSUME NEW p \in Proc, Publish(p) PROVE \A q \in Proc : Remembered(q)'
    <2>1. panel' = [panel EXCEPT ![p] = panel'[p]] /\ panel'[p].doc = arg[p]
        BY <1>19 DEF Publish, Accept
    <2>2. stage[p] = "stored" /\ stage' = [stage EXCEPT ![p] = "idle"]
        BY <1>19 DEF Publish, Return, Goto
    <2>3. pc' = [pc EXCEPT ![p] = "judge"]
        BY <1>19 DEF Publish, Accept, Move
    <2>4. /\ arg' = [arg EXCEPT ![p] = Absent] /\ waived' = waived \ {p}
          /\ UNCHANGED <<durable, acked, loaded, before>>
        BY <1>19 DEF Publish, Return
    <2>5. QED
        BY <2>1, <2>2, <2>3, <2>4 DEF StoreInv, TypeOK
<1>20. ASSUME NEW p \in Proc, NotPersisted(p) PROVE \A q \in Proc : Remembered(q)'
    <2>1. \A q \in Proc : panel'[q].doc = panel[q].doc
        BY <1>20, ReportsKeepTheRest DEF NotPersisted
    <2>2. /\ stage' = [stage EXCEPT ![p] = "idle"] /\ arg' = [arg EXCEPT ![p] = Absent]
          /\ waived' = waived \ {p} /\ pc' = [pc EXCEPT ![p] = "wake"]
          /\ UNCHANGED <<durable, acked, loaded, before>>
        BY <1>20 DEF NotPersisted, Return, Goto, Move
    <2>3. QED
        BY <2>1, <2>2 DEF StoreInv, TypeOK
<1>21. ASSUME NEW p \in Proc, Judge(p) PROVE \A q \in Proc : Remembered(q)'
    BY <1>21, ReportsKeepTheRest, JudgementIsAReport DEF Judge, storeVars, Move
<1>22. ASSUME NEW p \in Proc, Dies(p) PROVE \A q \in Proc : Remembered(q)'
    BY <1>22 DEF Dies, Crash, Goto, Down, StartPanel, StoreInv, TypeOK
<1>23. CASE Push
    BY <1>23 DEF Push, storeVars
<1>24. CASE ClockSteps
    BY <1>24 DEF ClockSteps, storeVars
<1>25. CASE PowerFails
    BY <1>25 DEF PowerFails, PowerLoss, Down, StartPanel
<1>26. CASE MarkerLost
    BY <1>26 DEF MarkerLost, LoseMarker, loopVars
<1>27. CASE OperatorReset
    BY <1>27 DEF OperatorReset, ResetMarker, ResetTombstone, Withdraw
<1>28. QED
    BY <1>1, <1>2, <1>3, <1>4, <1>5, <1>6, <1>7, <1>8, <1>9, <1>10, <1>11, <1>12, <1>13, <1>14, <1>15, <1>16, <1>17, <1>18, <1>19, <1>20, <1>21, <1>22, <1>23, <1>24, <1>25, <1>26, <1>27 DEF LoopNext, Tick, World

(* Ending a tick without touching the floor in memory or the document served. *)
LEMMA EndOfTickFollows ==
    ASSUME LoopInv, NEW p \in Proc, pc' = [pc EXCEPT ![p] = "wake"],
           \/ UNCHANGED <<stage, arg>> /\ stage[p] = "idle"
           \/ /\ stage' = [stage EXCEPT ![p] = "idle"]
              /\ arg' = [arg EXCEPT ![p] = Absent]
              /\ StoreInv,
           \A q \in Proc :
                /\ panel'[q].doc = panel[q].doc /\ panel'[q].restored = panel[q].restored
                /\ mem'[q].instant = mem[q].instant /\ mem'[q].digest = mem[q].digest
                /\ mem'[q].resolved = mem[q].resolved /\ mem'[q].accepted = mem[q].accepted
    PROVE  \A q \in Proc : FloorFollows(q)'
<1> SUFFICES ASSUME NEW q \in Proc PROVE FloorFollows(q)'
    OBVIOUS
<1>1. stage'[q] # "idle" => stage'[q] = stage[q] /\ arg'[q] = arg[q] /\ pc'[q] = pc[q]
    BY DEF LoopInv, LoopTypeOK, FloorFollows, StoreInv, TypeOK
<1>2. (pc'[q] # "commit" => stage'[q] = "idle") /\ (pc'[q] = "commit" => pc[q] = "commit")
    BY DEF LoopInv, LoopTypeOK, FloorFollows, StoreInv, TypeOK
<1>3. pc'[q] = pc[q] \/ pc'[q] = "wake"
    BY DEF LoopInv, LoopTypeOK
<1>4. stage'[q] # "idle" => ~Replayed(q, arg[q])'
    BY <1>1 DEF LoopInv, FloorFollows, Replayed, SharesFloor
<1>5. QED
    BY <1>2, <1>3, <1>4 DEF LoopInv, FloorFollows

LEMMA FloorFollowsStep ==
    ASSUME LoopInv, LoopTypeOK', StoreInv, StoreInv', [LoopNext]_vars
    PROVE  \A q \in Proc : FloorFollows(q)'
<1> USE DocsAssumption, LoopAssumption DEF LoopInv, LoopTypeOK, FloorFollows, Replayed, SharesFloor
<1>1. CASE UNCHANGED vars
    BY <1>1 DEF vars, loopVars, storeVars
<1>2. ASSUME NEW p \in Proc, Start(p) PROVE \A q \in Proc : FloorFollows(q)'
    <2>1. PICK i \in EmbeddedInstants : mem' = [mem EXCEPT ![p] = StartMemory(i)]
        BY <1>2 DEF Start
    <2>2. mem'[p].accepted = FALSE /\ panel[p].doc \notin Docs /\ stage[p] = "idle"
        BY <1>2, <2>1 DEF Start, StartMemory, Remembered
    <2>3. pc' = [pc EXCEPT ![p] = "wake"] /\ UNCHANGED <<stage, arg, panel>>
        BY <1>2 DEF Start, Move, storeVars
    <2>4. QED
        BY <2>1, <2>2, <2>3
<1>3. ASSUME NEW p \in Proc, Wake(p) PROVE \A q \in Proc : FloorFollows(q)'
    BY <1>3 DEF Wake, storeVars, Move
<1>4. ASSUME NEW p \in Proc, LoadRefused(p) PROVE \A q \in Proc : FloorFollows(q)'
    <2>1. pc' = [pc EXCEPT ![p] = "wake"] /\ UNCHANGED <<stage, arg>> /\ stage[p] = "idle"
        BY <1>4 DEF LoadRefused, Move, storeVars
    <2>2. ReportFailure(p)
        BY <1>4 DEF LoadRefused
    <2>3. QED
        BY <2>1, <2>2, ReportsKeepTheRest, EndOfTickFollows
<1>5. ASSUME NEW p \in Proc, LoadMissing(p) PROVE \A q \in Proc : FloorFollows(q)'
    BY <1>5 DEF LoadMissing, storeVars, Move
<1>6. ASSUME NEW p \in Proc, LoadGone(p) PROVE \A q \in Proc : FloorFollows(q)'
    <2>1. pc' = [pc EXCEPT ![p] = "wake"] /\ UNCHANGED <<stage, arg>> /\ stage[p] = "idle"
        BY <1>6 DEF LoadGone, Move, storeVars
    <2>2. ReportFailure(p)
        BY <1>6 DEF LoadGone
    <2>3. QED
        BY <2>1, <2>2, ReportsKeepTheRest, EndOfTickFollows
<1>7. ASSUME NEW p \in Proc, LoadAbsent(p) PROVE \A q \in Proc : FloorFollows(q)'
    BY <1>7 DEF LoadAbsent, storeVars, Move, Memory
<1>8. ASSUME NEW p \in Proc, LoadInterrupted(p) PROVE \A q \in Proc : FloorFollows(q)'
    <2>1. pc' = [pc EXCEPT ![p] = "wake"] /\ UNCHANGED <<stage, arg>> /\ stage[p] = "idle"
        BY <1>8 DEF LoadInterrupted, ReadFails, Move, storeVars
    <2>2. ReportFailure(p)
        BY <1>8 DEF LoadInterrupted
    <2>3. QED
        BY <2>1, <2>2, ReportsKeepTheRest, EndOfTickFollows
<1>9. ASSUME NEW p \in Proc, LoadPresent(p) PROVE \A q \in Proc : FloorFollows(q)'
    <2>1. /\ mem'[p].resolved = mem[p].resolved /\ mem'[p].accepted = mem[p].accepted
          /\ mem'[p].digest = mem[p].digest /\ mem'[p].instant = mem[p].instant
          /\ \A q \in Proc \ {p} : mem'[q] = mem[q]
        BY <1>9 DEF LoadPresent, Memory
    <2>2. pc'[p] \in {"restore", "resolve"} /\ \A q \in Proc \ {p} : pc'[q] = pc[q]
        BY <1>9 DEF LoadPresent, Move
    <2>3. pc[p] = "load" /\ UNCHANGED <<stage, arg, panel>>
        BY <1>9 DEF LoadPresent, storeVars
    <2>4. QED
        BY <2>1, <2>2, <2>3
<1>10. ASSUME NEW p \in Proc, RestoreRetained(p) PROVE \A q \in Proc : FloorFollows(q)'
    BY <1>10 DEF RestoreRetained, storeVars, Move, Panel
<1>11. ASSUME NEW p \in Proc, RestoreInterrupted(p) PROVE \A q \in Proc : FloorFollows(q)'
    BY <1>11 DEF RestoreInterrupted, ReadFails, Move
<1>12. ASSUME NEW p \in Proc, ResolveFuture(p) PROVE \A q \in Proc : FloorFollows(q)'
    <2>1. pc' = [pc EXCEPT ![p] = "wake"] /\ UNCHANGED <<stage, arg>> /\ stage[p] = "idle"
        BY <1>12 DEF ResolveFuture, Move, storeVars
    <2>2. ReportFailure(p)
        BY <1>12 DEF ResolveFuture
    <2>3. QED
        BY <2>1, <2>2, ReportsKeepTheRest, EndOfTickFollows
<1>13. ASSUME NEW p \in Proc, Resolve(p) PROVE \A q \in Proc : FloorFollows(q)'
    BY <1>13 DEF Resolve, storeVars, Move, Memory
<1>14. ASSUME NEW p \in Proc, SourceMissing(p) PROVE \A q \in Proc : FloorFollows(q)'
    <2>1. pc' = [pc EXCEPT ![p] = "wake"] /\ UNCHANGED <<stage, arg>> /\ stage[p] = "idle"
        BY <1>14 DEF SourceMissing, Reads, Move, storeVars
    <2>2. ReportFailure(p) \/ ReportRecovery(p, TRUE)
        BY <1>14 DEF SourceMissing
    <2>3. QED
        BY <2>1, <2>2, ReportsKeepTheRest, EndOfTickFollows
<1>15. ASSUME NEW p \in Proc, SourceRefused(p) PROVE \A q \in Proc : FloorFollows(q)'
    <2>1. pc' = [pc EXCEPT ![p] = "wake"] /\ UNCHANGED <<stage, arg>> /\ stage[p] = "idle"
        BY <1>15 DEF SourceRefused, Reads, Move, storeVars
    <2>2. ReportFailure(p)
        BY <1>15 DEF SourceRefused
    <2>3. QED
        BY <2>1, <2>2, ReportsKeepTheRest, EndOfTickFollows
<1>16. ASSUME NEW p \in Proc, SourceUnchanged(p) PROVE \A q \in Proc : FloorFollows(q)'
    <2>1. pc' = [pc EXCEPT ![p] = "wake"] /\ UNCHANGED <<stage, arg>> /\ stage[p] = "idle"
        BY <1>16 DEF SourceUnchanged, Reads, Move, storeVars
    <2>2. ReportFailure(p) \/ ReportRecovery(p, TRUE)
        BY <1>16, JudgementIsAReport DEF SourceUnchanged
    <2>3. QED
        BY <2>1, <2>2, ReportsKeepTheRest, EndOfTickFollows
<1>17. ASSUME NEW p \in Proc, SourceAdmitted(p) PROVE \A q \in Proc : FloorFollows(q)'
    <2>1. source \in Docs /\ ~Replayed(p, source) /\ pc[p] = "read" /\ mem[p].resolved
        BY <1>17 DEF SourceAdmitted, Reads, Admitted
    <2>2. CASE durable
        BY <1>17, <2>1, <2>2 DEF SourceAdmitted, Reads, BeginStore, Goto, Move, StoreInv, TypeOK
    <2>3. CASE ~durable
        <3>1. /\ mem'[p].accepted /\ mem'[p].digest = source
              /\ mem'[p].instant = InstantOf[source] /\ mem'[p].resolved
              /\ \A q \in Proc \ {p} : mem'[q] = mem[q]
            BY <1>17, <2>1, <2>3 DEF SourceAdmitted, Accept, Memory
        <3>2. panel'[p].doc = source /\ \A q \in Proc \ {p} : panel'[q] = panel[q]
            BY <1>17, <2>3 DEF SourceAdmitted, Accept
        <3>3. pc' = [pc EXCEPT ![p] = "judge"] /\ UNCHANGED <<stage, arg>>
            BY <1>17, <2>3 DEF SourceAdmitted, Accept, Move, storeVars
        <3>4. QED
            BY <2>1, <3>1, <3>2, <3>3
    <2>4. QED
        BY <2>2, <2>3
<1>18. ASSUME NEW p \in Proc, Commit(p) PROVE \A q \in Proc : FloorFollows(q)'
    BY <1>18, StoreStepCovers DEF Commit, loopVars, StoreInv, TypeOK
<1>19. ASSUME NEW p \in Proc, Publish(p) PROVE \A q \in Proc : FloorFollows(q)'
    <2>1. pc[p] = "commit" /\ mem[p].resolved
        BY <1>19 DEF Publish
    <2>2. /\ mem'[p].accepted /\ mem'[p].digest = arg[p]
          /\ mem'[p].instant = InstantOf[arg[p]] /\ mem'[p].resolved
          /\ \A q \in Proc \ {p} : mem'[q] = mem[q]
        BY <1>19, <2>1 DEF Publish, Accept, Memory
    <2>3. panel'[p].doc = arg[p] /\ \A q \in Proc \ {p} : panel'[q] = panel[q]
        BY <1>19 DEF Publish, Accept
    <2>4. /\ pc' = [pc EXCEPT ![p] = "judge"] /\ arg' = [arg EXCEPT ![p] = Absent]
          /\ stage' = [stage EXCEPT ![p] = "idle"]
        BY <1>19 DEF Publish, Return, Accept, Move, Goto
    <2>5. QED
        BY <2>2, <2>3, <2>4 DEF StoreInv, TypeOK
<1>20. ASSUME NEW p \in Proc, NotPersisted(p) PROVE \A q \in Proc : FloorFollows(q)'
    <2>1. /\ pc' = [pc EXCEPT ![p] = "wake"] /\ arg' = [arg EXCEPT ![p] = Absent]
          /\ stage' = [stage EXCEPT ![p] = "idle"]
        BY <1>20 DEF NotPersisted, Return, Goto, Move
    <2>2. ReportFailure(p)
        BY <1>20 DEF NotPersisted
    <2>3. QED
        BY <2>1, <2>2, ReportsKeepTheRest, EndOfTickFollows
<1>21. ASSUME NEW p \in Proc, Judge(p) PROVE \A q \in Proc : FloorFollows(q)'
    <2>1. pc' = [pc EXCEPT ![p] = "wake"] /\ UNCHANGED <<stage, arg>> /\ stage[p] = "idle"
        BY <1>21 DEF Judge, Move, storeVars
    <2>2. ReportFailure(p) \/ ReportRecovery(p, FALSE)
        BY <1>21, JudgementIsAReport DEF Judge
    <2>3. QED
        BY <2>1, <2>2, ReportsKeepTheRest, EndOfTickFollows
<1>22. ASSUME NEW p \in Proc, Dies(p) PROVE \A q \in Proc : FloorFollows(q)'
    BY <1>22 DEF Dies, Crash, Goto, Down, StartPanel, StartMemory, StoreInv, TypeOK
<1>23. CASE Push
    BY <1>23 DEF Push, storeVars
<1>24. CASE ClockSteps
    BY <1>24 DEF ClockSteps, storeVars
<1>25. CASE PowerFails
    BY <1>25 DEF PowerFails, PowerLoss, Down, StartPanel, StartMemory
<1>26. CASE MarkerLost
    BY <1>26 DEF MarkerLost, LoseMarker, loopVars
<1>27. CASE OperatorReset
    BY <1>27 DEF OperatorReset, ResetMarker, ResetTombstone
<1>28. QED
    BY <1>1, <1>2, <1>3, <1>4, <1>5, <1>6, <1>7, <1>8, <1>9, <1>10, <1>11, <1>12, <1>13, <1>14, <1>15, <1>16, <1>17, <1>18, <1>19, <1>20, <1>21, <1>22, <1>23, <1>24, <1>25, <1>26, <1>27 DEF LoopNext, Tick, World

-----------------------------------------------------------------------------
LEMMA LoopInvInit == LoopInit => LoopInv
BY LoopTypeInit, DocsAssumption
    DEF LoopInit, LoopInv, Remembered, FloorFollows, CoversBefore, StoreInit, StartPanel,
        StartMemory

(* The invariant of every behaviour of the loop. *)
THEOREM LoopInvariant == LoopSpec => []LoopInv
<1>1. LoopInv /\ StoreInv /\ StoreInv' /\ [LoopNext]_vars => LoopInv'
    <2> SUFFICES ASSUME LoopInv, StoreInv, StoreInv', [LoopNext]_vars PROVE LoopInv'
        OBVIOUS
    <2>1. LoopTypeOK'
        BY LoopTypeStep
    <2>2. QED
        BY <2>1, RememberedStep, FloorFollowsStep DEF LoopInv
<1>2. QED
    BY <1>1, LoopInvInit, LoopKeepsStoreInv, PTL DEF LoopSpec

(* The types of the loop, its panel and its history. *)
THEOREM LoopTypeCorrect == LoopSpec => []LoopTypeOK
<1>1. LoopInv => LoopTypeOK
    BY DEF LoopInv
<1>2. QED
    BY <1>1, LoopInvariant, PTL

(* No process serves a document behind one promised before it started, whatever
   was interrupted, lost or restarted since, and whatever build it is. *)
THEOREM NeverRolledBack == LoopSpec => []NoRollback
<1>1. LoopInv => NoRollback
    BY DEF LoopInv, Remembered, CoversBefore, NoRollback
<1>2. QED
    BY <1>1, LoopInvariant, PTL

(* What a process serves changes only when it publishes or restores. *)
LEMMA ServedChanges ==
    ASSUME LoopInv, [LoopNext]_vars, NEW q \in Proc, panel'[q].doc \in Docs
    PROVE  \/ panel'[q].doc = panel[q].doc
           \/ Publish(q)
           \/ SourceAdmitted(q) /\ ~durable
           \/ RestoreRetained(q)
<1> USE DocsAssumption DEF LoopInv, LoopTypeOK
<1>1. ASSUME UNCHANGED panel PROVE panel'[q].doc = panel[q].doc
    BY <1>1
<1>2. ASSUME NEW p \in Proc, NEW r \in BOOLEAN, ReportFailure(p) \/ ReportRecovery(p, r)
      PROVE  panel'[q].doc = panel[q].doc
    BY <1>2, ReportsKeepTheRest
<1>3. CASE \E p \in Proc : LoadRefused(p) \/ LoadGone(p) \/ LoadInterrupted(p) \/ ResolveFuture(p)
                            \/ SourceRefused(p) \/ NotPersisted(p)
    BY <1>2, <1>3 DEF LoadRefused, LoadGone, LoadInterrupted, ResolveFuture, SourceRefused, NotPersisted
<1>4. CASE \E p \in Proc : SourceMissing(p) \/ SourceUnchanged(p) \/ Judge(p)
    BY <1>2, <1>4, JudgementIsAReport DEF SourceMissing, SourceUnchanged, Judge
<1>5. CASE \E p \in Proc : Publish(p) \/ RestoreRetained(p) \/ SourceAdmitted(p)
    <2>1. PICK p \in Proc : Publish(p) \/ RestoreRetained(p) \/ SourceAdmitted(p)
        BY <1>5
    <2>2. p # q => panel'[q] = panel[q]
        BY <2>1 DEF Publish, RestoreRetained, SourceAdmitted, Accept
    <2>3. QED
        BY <2>1, <2>2 DEF SourceAdmitted
<1>6. CASE PowerFails \/ \E p \in Proc : Dies(p)
    <2>1. panel'[q] = StartPanel \/ panel'[q] = panel[q]
        BY <1>6 DEF PowerFails, Dies, Down
    <2>2. QED
        BY <2>1 DEF StartPanel
<1>7. CASE UNCHANGED panel
    BY <1>7
<1>8. QED
    BY <1>3, <1>4, <1>5, <1>6, <1>7 DEF LoopNext, Tick, World, vars, loopVars, Start, Wake, LoadMissing,
        LoadAbsent, LoadPresent, RestoreInterrupted, Resolve, Commit, Push, ClockSteps, MarkerLost,
        OperatorReset

(* A document is published only once the directory that a power loss would
   leave keeps its promise. *)
THEOREM PublicationIsDurable == LoopSpec => CommittedBeforePublished
<1>1. ASSUME LoopInv, StoreInv, [LoopNext]_vars
      PROVE  \A p \in Proc \ waived :
                (durable /\ panel'[p].doc \in Docs /\ ~panel'[p].restored
                    /\ panel[p].doc # panel'[p].doc)
                    => Keeps(platter', panel'[p].doc)
    <2> SUFFICES ASSUME NEW p \in Proc \ waived, durable, panel'[p].doc \in Docs,
                        ~panel'[p].restored, panel[p].doc # panel'[p].doc
                 PROVE  Keeps(platter', panel'[p].doc)
        OBVIOUS
    <2>1. ~RestoreRetained(p)
        <3>1. panel \in [Proc -> Panel]
            BY <1>1 DEF LoopInv, LoopTypeOK
        <3>2. RestoreRetained(p) => panel'[p].restored = TRUE \/ panel'[p].doc = panel[p].doc
            BY <3>1 DEF RestoreRetained
        <3>3. QED
            BY <3>2
    <2>2. Publish(p)
        BY <1>1, <2>1, ServedChanges
    <2>3. panel'[p].doc = arg[p] /\ platter' = platter /\ stage[p] = "stored"
        BY <1>1, <2>2 DEF Publish, Accept, Return, LoopInv, LoopTypeOK
    <2>4. QED
        BY <1>1, <2>3 DEF LoopInv, Remembered, StoreInv, AckedIsDurable
<1>2. QED
    BY <1>1, LoopInvariant, LoopKeepsStoreInv, PTL DEF LoopSpec, CommittedBeforePublished

(* Within one process an accepted document never gives way to an older one or
   to another of its instant. *)
THEOREM ServiceNeverGoesBack == LoopSpec => ServedNeverGoesBack
<1>1. ASSUME LoopInv, StoreInv, [LoopNext]_vars
      PROVE  \A p \in Proc :
                (panel[p].doc \in Docs /\ ~panel[p].restored /\ panel'[p].doc \in Docs)
                    => AtOrAbove(panel'[p].doc, panel[p].doc)
    <2> SUFFICES ASSUME NEW p \in Proc, panel[p].doc \in Docs, ~panel[p].restored,
                        panel'[p].doc \in Docs
                 PROVE  AtOrAbove(panel'[p].doc, panel[p].doc)
        OBVIOUS
    <2>1. /\ mem[p].accepted /\ mem[p].resolved /\ mem[p].digest = panel[p].doc
          /\ mem[p].instant = InstantOf[panel[p].doc]
        BY <1>1 DEF LoopInv, FloorFollows
    <2>2. ~RestoreRetained(p)
        BY <1>1, <2>1 DEF RestoreRetained, LoopInv, FloorFollows
    <2>3. ASSUME NEW d \in Docs, ~Replayed(p, d) PROVE AtOrAbove(d, panel[p].doc)
        BY <2>1, <2>3, DocsAssumption DEF Replayed, SharesFloor, AtOrAbove
    <2>4. CASE Publish(p)
        <3>1. panel'[p].doc = arg[p] /\ stage[p] = "stored"
            BY <1>1, <2>4 DEF Publish, Accept, LoopInv, LoopTypeOK
        <3>2. QED
            BY <1>1, <2>3, <3>1 DEF LoopInv, FloorFollows
    <2>5. CASE SourceAdmitted(p) /\ ~durable
        <3>1. panel'[p].doc = source /\ ~Replayed(p, source)
            BY <1>1, <2>5 DEF SourceAdmitted, Admitted, Accept, LoopInv, LoopTypeOK
        <3>2. QED
            BY <2>3, <3>1
    <2>6. QED
        BY <1>1, <2>2, <2>4, <2>5, ServedChanges DEF AtOrAbove
<1>2. QED
    BY <1>1, LoopInvariant, LoopKeepsStoreInv, PTL DEF LoopSpec, ServedNeverGoesBack

-----------------------------------------------------------------------------
(* What the panel says.  The two reports, as the status sees them. *)
LEMMA ReportsSetTheStatus ==
    ASSUME NEW p \in Proc, mem \in [Proc -> Memory], panel \in [Proc -> Panel],
           NEW r \in BOOLEAN, ReportFailure(p) \/ ReportRecovery(p, r)
    PROVE  /\ \A q \in Proc \ {p} : mem'[q] = mem[q] /\ panel'[q] = panel[q]
           /\ mem'[p].present = mem[p].present
           /\ \/ panel'[p].status = "stale" /\ (mem'[p].degraded => mem[p].degraded \/ panel[p].status = "ok")
              \/ /\ ReportRecovery(p, r)
                 /\ ~mem'[p].failing
                 /\ mem'[p].degraded => mem[p].degraded
                 /\ panel'[p].status = "ok" => panel[p].status = "ok" \/ mem[p].degraded
<1>1. mem[p] \in Memory /\ panel[p] \in Panel
    OBVIOUS
<1>2. CASE ReportFailure(p)
    BY <1>1, <1>2 DEF ReportFailure, Memory, Panel, Status
<1>3. CASE ReportRecovery(p, r)
    BY <1>1, <1>3 DEF ReportRecovery, Memory, Panel, Status
<1>4. QED
    BY <1>2, <1>3

(* A tick that ends with a report keeps the status honest, provided a recovery
   is reported only over the document just read, or over a cold start. *)
LEMMA ReportEndsTick ==
    ASSUME LoopInv, StatusInv, NEW p \in Proc, NEW r \in BOOLEAN,
           pc' = [pc EXCEPT ![p] = "wake"],
           UNCHANGED <<durable, before>>,
           \A q \in Proc \ {p} : arg'[q] = arg[q] /\ seen'[q] = seen[q],
           ReportFailure(p) \/ ReportRecovery(p, r),
           ReportRecovery(p, r) =>
                /\ mem[p].accepted => seen'[p] = panel[p].doc
                /\ mem[p].present => panel[p].doc # Absent
    PROVE  StatusInv'
<1> SUFFICES ASSUME NEW q \in Proc PROVE StatusFollows(q)'
    BY DEF StatusInv
<1>1. StatusFollows(q) /\ StatusFollows(p)
    BY DEF StatusInv
<1>2. mem \in [Proc -> Memory] /\ panel \in [Proc -> Panel] /\ pc \in [Proc -> Ticks]
    BY DEF LoopInv, LoopTypeOK
<1>3. CASE q # p
    <2>1. mem'[q] = mem[q] /\ panel'[q] = panel[q] /\ pc'[q] = pc[q]
        BY <1>2, <1>3, ReportsSetTheStatus
    <2>2. QED
        BY <1>1, <1>3, <2>1 DEF StatusFollows
<1>4. CASE q = p
    <2>1. pc'[p] = "wake"
        BY <1>2
    <2>2. /\ panel'[p].doc = panel[p].doc /\ panel'[p].restored = panel[p].restored
          /\ mem'[p].resolved = mem[p].resolved /\ mem'[p].accepted = mem[p].accepted
          /\ mem'[p].present = mem[p].present
        BY <1>2, ReportsKeepTheRest, ReportsSetTheStatus
    <2>3. CASE /\ panel'[p].status = "stale"
               /\ mem'[p].degraded => mem[p].degraded \/ panel[p].status = "ok"
        BY <1>1, <1>4, <2>1, <2>2, <2>3 DEF StatusFollows
    <2>4. CASE /\ ReportRecovery(p, r) /\ ~mem'[p].failing
               /\ mem'[p].degraded => mem[p].degraded
               /\ panel'[p].status = "ok" => panel[p].status = "ok" \/ mem[p].degraded
        <3>1. panel'[p].status \in Status
            BY <1>2, ReportsKeepTheRest DEF Panel
        <3>2. mem'[p].present => panel'[p].doc # Absent
            BY <2>2, <2>4
        <3>3. BootStatus = "stale" /\ ~mem'[p].accepted => panel'[p].status = "stale" /\ ~mem'[p].degraded
            BY <1>1, <2>2, <2>4, <3>1 DEF StatusFollows, Status
        <3>4. QED
            BY <1>1, <1>4, <2>1, <2>2, <2>4, <3>2, <3>3 DEF StatusFollows
    <2>5. QED
        BY <1>2, <2>3, <2>4, ReportsSetTheStatus
<1>5. QED
    BY <1>3, <1>4

(* Every step keeps what the panel says honest. *)
LEMMA StatusStep ==
    ASSUME LoopInv, LoopTypeOK', StoreInv, StatusInv, [LoopNext]_vars
    PROVE  StatusInv'
<1> USE DocsAssumption, LoopAssumption DEF LoopInv, LoopTypeOK
<1>0. \A q \in Proc : StatusFollows(q) /\ FloorFollows(q) /\ Remembered(q)
    BY DEF StatusInv
<1>1. CASE UNCHANGED vars
    BY <1>0, <1>1 DEF vars, loopVars, storeVars, StatusInv, StatusFollows
<1>2. ASSUME NEW p \in Proc, Start(p) PROVE StatusInv'
    <2>1. PICK i \in EmbeddedInstants : mem' = [mem EXCEPT ![p] = StartMemory(i)]
        BY <1>2 DEF Start
    <2>2. /\ pc' = [pc EXCEPT ![p] = "wake"] /\ UNCHANGED <<durable, arg, panel, seen>>
          /\ before' = [before EXCEPT ![p] = acked]
        BY <1>2 DEF Start, Move, storeVars
    <2>3. SUFFICES ASSUME NEW q \in Proc PROVE StatusFollows(q)'
        BY DEF StatusInv
    <2>4. CASE q = p
        <3>1. /\ mem'[p].accepted = FALSE /\ mem'[p].failing = FALSE /\ mem'[p].degraded = FALSE
              /\ mem'[p].resolved = ~durable /\ mem'[p].present = FALSE
            BY <2>1 DEF StartMemory
        <3>2. pc'[p] = "wake" /\ panel'[p] = panel[p]
            BY <2>2
        <3>3. pc[p] = "down" /\ panel[p].doc = Absent
            BY <1>0, <1>2 DEF Start, Remembered
        <3>4. BootStatus = "stale" => panel[p].status = "stale"
            BY <1>0, <3>3 DEF StatusFollows, FloorFollows
        <3>5. QED
            BY <2>2, <2>4, <3>1, <3>2, <3>4 DEF StatusFollows
    <2>5. CASE q # p
        BY <1>0, <2>1, <2>2, <2>5 DEF StatusFollows
    <2>6. QED
        BY <2>4, <2>5
<1>3. ASSUME NEW p \in Proc, Wake(p) \/ LoadMissing(p) \/ RestoreInterrupted(p) PROVE StatusInv'
    <2>1. pc'[p] \notin {"wake", "commit", "judge"} /\ \A q \in Proc \ {p} : pc'[q] = pc[q]
        BY <1>3 DEF Wake, LoadMissing, RestoreInterrupted, Move
    <2>2. UNCHANGED <<durable, mem, arg, panel, seen, before>> /\ pc[p] # "judge"
        BY <1>3 DEF Wake, LoadMissing, RestoreInterrupted, ReadFails, storeVars
    <2>3. QED
        BY <1>0, <2>1, <2>2 DEF StatusInv, StatusFollows
<1>4. ASSUME NEW p \in Proc, LoadRefused(p) \/ LoadGone(p) \/ LoadInterrupted(p) \/ ResolveFuture(p)
      PROVE  StatusInv'
    <2>1. /\ pc' = [pc EXCEPT ![p] = "wake"] /\ UNCHANGED <<durable, before, arg, seen>>
          /\ ReportFailure(p)
        BY <1>4 DEF LoadRefused, LoadGone, LoadInterrupted, ResolveFuture, ReadFails, Move, storeVars
    <2>2. ~ReportRecovery(p, FALSE)
        BY <2>1 DEF ReportFailure, ReportRecovery, Memory
    <2>3. QED
        BY <2>1, <2>2, ReportEndsTick
<1>5. ASSUME NEW p \in Proc, LoadAbsent(p) PROVE StatusInv'
    <2>1. acked = {}
        BY <1>5 DEF LoadAbsent, StoreInv, AckedIsDurable, Keeps
    <2>2. before[p] = {}
        BY <1>0, <2>1 DEF Remembered
    <2>3. /\ UNCHANGED <<durable, arg, panel, seen, before>> /\ pc[p] = "tombstone"
          /\ pc' = [pc EXCEPT ![p] = "read"]
          /\ \A q \in Proc \ {p} : mem'[q] = mem[q]
          /\ mem'[p].accepted = mem[p].accepted /\ mem'[p].failing = mem[p].failing
          /\ mem'[p].degraded = mem[p].degraded
        BY <1>5 DEF LoadAbsent, Move, storeVars, Memory
    <2>4. QED
        BY <1>0, <2>2, <2>3 DEF StatusInv, StatusFollows
<1>6. ASSUME NEW p \in Proc, LoadPresent(p) PROVE StatusInv'
    <2>1. /\ UNCHANGED <<durable, arg, panel, seen, before>> /\ pc[p] = "load"
          /\ pc'[p] \in {"restore", "resolve"}
          /\ \A q \in Proc \ {p} : mem'[q] = mem[q] /\ pc'[q] = pc[q]
          /\ mem'[p].accepted = mem[p].accepted /\ mem'[p].failing = mem[p].failing
          /\ mem'[p].degraded = mem[p].degraded /\ mem'[p].resolved = mem[p].resolved
          /\ mem'[p].present = mem[p].present
        BY <1>6 DEF LoadPresent, Move, storeVars, Memory
    <2>2. QED
        BY <1>0, <2>1 DEF StatusInv, StatusFollows
<1>7. ASSUME NEW p \in Proc, RestoreRetained(p) PROVE StatusInv'
    <2>1. /\ UNCHANGED <<durable, arg, mem, seen, before>> /\ pc[p] = "restore"
          /\ pc' = [pc EXCEPT ![p] = "resolve"]
        BY <1>7 DEF RestoreRetained, Move, storeVars
    <2>2. ~mem[p].accepted
        BY <1>0, <2>1 DEF FloorFollows
    <2>3. panel'[p] = panel[p] \/ panel'[p].status = "stale"
        BY <1>7 DEF RestoreRetained
    <2>4. \A q \in Proc \ {p} : panel'[q] = panel[q]
        BY <1>7 DEF RestoreRetained
    <2>5. QED
        BY <1>0, <2>1, <2>2, <2>3, <2>4 DEF StatusInv, StatusFollows
<1>8. ASSUME NEW p \in Proc, Resolve(p) PROVE StatusInv'
    <2>1. /\ UNCHANGED <<durable, arg, panel, seen, before>> /\ pc[p] = "resolve"
          /\ pc' = [pc EXCEPT ![p] = "read"]
          /\ \A q \in Proc \ {p} : mem'[q] = mem[q]
          /\ mem'[p].accepted = mem[p].accepted /\ mem'[p].failing = mem[p].failing
          /\ mem'[p].degraded = mem[p].degraded /\ mem'[p].present
        BY <1>8 DEF Resolve, Move, storeVars, Memory
    <2>2. QED
        BY <1>0, <2>1 DEF StatusInv, StatusFollows
<1>9. ASSUME NEW p \in Proc, SourceMissing(p) PROVE StatusInv'
    <2>1. /\ pc' = [pc EXCEPT ![p] = "wake"] /\ UNCHANGED <<durable, before, arg>>
          /\ \A q \in Proc \ {p} : seen'[q] = seen[q]
        BY <1>9 DEF SourceMissing, Reads, Move, storeVars
    <2>2. CASE mem[p].accepted \/ mem[p].present
        <3>1. ReportFailure(p)
            BY <1>9, <2>2 DEF SourceMissing
        <3>2. ~ReportRecovery(p, FALSE)
            BY <3>1 DEF ReportFailure, ReportRecovery, Memory
        <3>3. QED
            BY <2>1, <3>1, <3>2, ReportEndsTick
    <2>3. CASE ~(mem[p].accepted \/ mem[p].present)
        BY <1>9, <2>1, <2>3, ReportEndsTick DEF SourceMissing
    <2>4. QED
        BY <2>2, <2>3
<1>10. ASSUME NEW p \in Proc, SourceRefused(p) PROVE StatusInv'
    <2>1. /\ pc' = [pc EXCEPT ![p] = "wake"] /\ UNCHANGED <<durable, before, arg>>
          /\ \A q \in Proc \ {p} : seen'[q] = seen[q]
          /\ ReportFailure(p)
        BY <1>10 DEF SourceRefused, Reads, Move, storeVars
    <2>2. ~ReportRecovery(p, FALSE)
        BY <2>1 DEF ReportFailure, ReportRecovery, Memory
    <2>3. QED
        BY <2>1, <2>2, ReportEndsTick
<1>11. ASSUME NEW p \in Proc, SourceUnchanged(p) PROVE StatusInv'
    <2>1. /\ pc' = [pc EXCEPT ![p] = "wake"] /\ UNCHANGED <<durable, before, arg>>
          /\ \A q \in Proc \ {p} : seen'[q] = seen[q]
          /\ seen'[p] = source /\ mem[p].digest = source
        BY <1>11 DEF SourceUnchanged, Reads, Move, storeVars, Unchanged
    <2>2. mem[p].accepted => source = panel[p].doc
        BY <1>0, <2>1 DEF StatusFollows, FloorFollows
    <2>3. ReportFailure(p) \/ ReportRecovery(p, TRUE)
        BY <1>11, JudgementIsAReport DEF SourceUnchanged
    <2>4. ~Fresh(panel[p].doc, clock) => ~ReportRecovery(p, TRUE)
        BY <1>11 DEF SourceUnchanged, JudgeAge, ReportFailure, ReportRecovery, Memory
    <2>5. Fresh(panel[p].doc, clock) => panel[p].doc # Absent
        BY DEF Fresh
    <2>6. QED
        BY <2>1, <2>2, <2>3, <2>4, <2>5, ReportEndsTick
<1>12. ASSUME NEW p \in Proc, SourceAdmitted(p) PROVE StatusInv'
    <2>1. /\ UNCHANGED <<durable, before>> /\ source \in Docs
          /\ seen' = [seen EXCEPT ![p] = source]
        BY <1>12 DEF SourceAdmitted, Reads
    <2>2. CASE durable
        <3>1. /\ UNCHANGED <<mem, panel>> /\ pc[p] = "read"
              /\ pc' = [pc EXCEPT ![p] = "commit"]
              /\ arg' = [arg EXCEPT ![p] = source]
            BY <1>12, <2>2 DEF SourceAdmitted, Reads, BeginStore, Move
        <3>2. arg'[p] = source /\ \A q \in Proc \ {p} : arg'[q] = arg[q]
            BY <3>1 DEF TypeOK
        <3>3. QED
            BY <1>0, <2>1, <3>1, <3>2 DEF StatusInv, StatusFollows
    <2>3. CASE ~durable
        <3>1. Accept(p, source, Fresh(source, clock)) /\ UNCHANGED arg
            BY <1>12, <2>3 DEF SourceAdmitted, storeVars
        <3>2. /\ panel'[p].doc = source /\ ~panel'[p].restored /\ mem'[p].accepted
              /\ pc' = [pc EXCEPT ![p] = "judge"]
              /\ \A q \in Proc \ {p} : mem'[q] = mem[q] /\ panel'[q] = panel[q]
            BY <3>1 DEF Accept, Move, Memory
        <3>3. QED
            BY <1>0, <2>1, <3>1, <3>2 DEF StatusInv, StatusFollows
    <2>4. QED
        BY <2>2, <2>3
<1>13. ASSUME NEW p \in Proc, Commit(p) PROVE StatusInv'
    <2>1. UNCHANGED <<loopVars, arg>>
        BY <1>13, StoreStepCovers DEF Commit, StoreStep, StoreProgress, Retain, RetainSync, AcquireLock,
            CompareAdmits, CompareRefuses, WriteMarker, SyncMarker, TombstonePresent, WriteTombstone,
            SyncTombstone, RetainFails, StoreFails
    <2>2. QED
        BY <1>0, <2>1 DEF loopVars, StatusInv, StatusFollows
<1>14. ASSUME NEW p \in Proc, Publish(p) PROVE StatusInv'
    <2>1. /\ UNCHANGED <<durable, before, seen>> /\ pc[p] = "commit" /\ stage[p] = "stored"
          /\ Accept(p, arg[p], fresh[p])
          /\ arg' = [arg EXCEPT ![p] = Absent]
        BY <1>14 DEF Publish, Return
    <2>2. arg[p] \in Docs /\ \A q \in Proc \ {p} : arg'[q] = arg[q]
        BY <2>1 DEF StoreInv, HasDocument, TypeOK
    <2>3. /\ panel'[p].doc = arg[p] /\ ~panel'[p].restored /\ mem'[p].accepted
          /\ pc' = [pc EXCEPT ![p] = "judge"]
          /\ \A q \in Proc \ {p} : mem'[q] = mem[q] /\ panel'[q] = panel[q]
        BY <2>1 DEF Accept, Move, Memory
    <2>4. seen'[p] = panel'[p].doc
        BY <1>0, <2>1, <2>3 DEF StatusFollows
    <2>5. QED
        BY <1>0, <2>1, <2>2, <2>3, <2>4 DEF StatusInv, StatusFollows
<1>15. ASSUME NEW p \in Proc, NotPersisted(p) PROVE StatusInv'
    <2>1. /\ pc' = [pc EXCEPT ![p] = "wake"] /\ UNCHANGED <<durable, before, seen>>
          /\ arg' = [arg EXCEPT ![p] = Absent]
          /\ ReportFailure(p)
        BY <1>15 DEF NotPersisted, Return, Move
    <2>2. ~ReportRecovery(p, FALSE) /\ \A q \in Proc \ {p} : arg'[q] = arg[q]
        BY <2>1 DEF ReportFailure, ReportRecovery, Memory, TypeOK
    <2>3. QED
        BY <2>1, <2>2, ReportEndsTick
<1>16. ASSUME NEW p \in Proc, Judge(p) PROVE StatusInv'
    <2>1. /\ pc' = [pc EXCEPT ![p] = "wake"] /\ UNCHANGED <<durable, before, arg, seen>>
          /\ pc[p] = "judge"
        BY <1>16 DEF Judge, Move, storeVars
    <2>2. seen[p] = panel[p].doc /\ panel[p].doc # Absent
        BY <1>0, <2>1 DEF StatusFollows
    <2>3. ReportFailure(p) \/ ReportRecovery(p, FALSE)
        BY <1>16, JudgementIsAReport DEF Judge
    <2>4. QED
        BY <2>1, <2>2, <2>3, ReportEndsTick
<1>17. ASSUME NEW S \in SUBSET Proc, Down(S), \A q \in Proc \ S : arg'[q] = arg[q] PROVE StatusInv'
    <2>1. SUFFICES ASSUME NEW q \in Proc PROVE StatusFollows(q)'
        BY DEF StatusInv
    <2>2. CASE q \in S
        <3>1. pc'[q] = "down" /\ mem'[q] = StartMemory(0) /\ panel'[q] = StartPanel /\ before'[q] = {}
            BY <1>17, <2>2 DEF Down
        <3>2. QED
            BY <3>1 DEF StatusFollows, StartMemory, StartPanel
    <2>3. CASE q \notin S
        BY <1>0, <1>17, <2>3 DEF Down, StatusFollows
    <2>4. QED
        BY <2>2, <2>3
<1>18. ASSUME NEW p \in Proc, Dies(p) PROVE StatusInv'
    <2>1. Down({p}) /\ arg' = [arg EXCEPT ![p] = Absent]
        BY <1>18 DEF Dies, Crash
    <2>2. \A q \in Proc \ {p} : arg'[q] = arg[q]
        BY <2>1 DEF TypeOK
    <2>3. QED
        BY <1>17, <2>1, <2>2
<1>19. CASE PowerFails
    BY <1>17, <1>19 DEF PowerFails
<1>20. CASE Push \/ ClockSteps \/ MarkerLost
    <2>1. UNCHANGED <<durable, mem, arg, panel, seen, before, pc>>
        BY <1>20 DEF Push, ClockSteps, MarkerLost, LoseMarker, loopVars, storeVars
    <2>2. QED
        BY <1>0, <2>1 DEF StatusInv, StatusFollows
<1>21. CASE OperatorReset
    <2>1. UNCHANGED <<durable, mem, arg, panel, seen, pc>> /\ \A q \in Proc : before'[q] = {}
        BY <1>21 DEF OperatorReset, ResetMarker, ResetTombstone
    <2>2. QED
        BY <1>0, <2>1 DEF StatusInv, StatusFollows
<1>22. QED
    BY <1>1, <1>2, <1>3, <1>4, <1>5, <1>6, <1>7, <1>8, <1>9, <1>10, <1>11, <1>12, <1>13, <1>14, <1>15, <1>16, <1>18, <1>19, <1>20, <1>21 DEF LoopNext, Tick, World

(* What makes the promises about the status inductive. *)
THEOREM StatusInvariant == LoopSpec => []StatusInv
<1>1. LoopInit => StatusInv
    <2>1. ASSUME LoopInit, NEW p \in Proc PROVE StatusFollows(p)
        BY <2>1 DEF LoopInit, StatusFollows, StartMemory, StartPanel
    <2>2. QED
        BY <2>1 DEF StatusInv
<1>2. LoopInv /\ LoopInv' /\ StoreInv /\ StatusInv /\ [LoopNext]_vars => StatusInv'
    BY StatusStep DEF LoopInv
<1>3. QED
    BY <1>1, <1>2, LoopInvariant, LoopKeepsStoreInv, PTL DEF LoopSpec

(* After its first tick a process says ok of the embedded snapshot only when
   nothing had been published before it started, whichever way the panel is
   fed. *)
THEOREM ColdStartsAloneAreOk == LoopSpec => []EmbeddedOkOnlyWhenCold
<1>1. ASSUME LoopInv, StatusInv PROVE EmbeddedOkOnlyWhenCold
    <2>1. SUFFICES ASSUME NEW p \in Proc, pc[p] = "wake", mem[p].resolved \/ mem[p].failing, durable,
                          panel[p].doc = Absent, panel[p].status = "ok"
                   PROVE  before[p] = {}
        BY DEF EmbeddedOkOnlyWhenCold
    <2>2. StatusFollows(p)
        BY <1>1 DEF StatusInv
    <2>3. ~mem[p].accepted
        BY <2>1, <2>2, DocsAssumption DEF StatusFollows
    <2>4. mem[p].resolved /\ ~mem[p].present
        BY <2>1, <2>2 DEF StatusFollows
    <2>5. QED
        BY <2>1, <2>2, <2>3, <2>4 DEF StatusFollows
<1>2. QED
    BY <1>1, LoopInvariant, StatusInvariant, PTL

(* A fetch-backed panel, which starts stale, says ok of a pushed document only
   while that document is what it last read from the volume.  (A panel that
   starts ok may say so of a restored copy once the operator has reset the
   directory under it.) *)
THEOREM OkIsWhatWasRead ==
    ASSUME BootStatus = "stale"
    PROVE  LoopSpec => []OkMatchesSource
<1>1. LoopInv /\ StatusInv => OkMatchesSource
    BY DEF StatusInv, StatusFollows, OkMatchesSource
<1>2. QED
    BY <1>1, LoopInvariant, StatusInvariant, PTL

(* Nor does a tick of such a panel ever end ok on a document past its grace. *)
THEOREM OkTicksAreFresh ==
    ASSUME BootStatus = "stale"
    PROVE  LoopSpec => OkIsFresh
<1>1. ASSUME LoopInv, StatusInv, [LoopNext]_vars
      PROVE  \A p \in Proc :
                (pc[p] # "wake" /\ pc'[p] = "wake" /\ panel'[p].doc \in Docs /\ panel'[p].status = "ok")
                    => Fresh(panel'[p].doc, clock)
    <2> USE DEF LoopInv, LoopTypeOK
    <2>1. SUFFICES ASSUME NEW p \in Proc, pc[p] # "wake", pc'[p] = "wake",
                          panel'[p].doc \in Docs, panel'[p].status = "ok"
                   PROVE  Fresh(panel'[p].doc, clock)
        OBVIOUS
    <2>2. StatusFollows(p)
        BY <1>1 DEF StatusInv
    <2>3. ~ReportFailure(p)
        BY <1>1, <2>1 DEF ReportFailure, Panel
    <2>4. ASSUME NEW q \in Proc, NEW s, Move(q, s) PROVE q = p /\ s = "wake"
        BY <1>1, <2>1, <2>4 DEF Move
    <2>5. Start(p) \/ SourceMissing(p) \/ SourceUnchanged(p) \/ Judge(p)
        <3>1. CASE \E q \in Proc : Tick(q)
            <4>1. PICK q \in Proc : Tick(q)
                BY <3>1
            <4>2. q = p
                BY <2>4, <4>1 DEF Tick, Wake, LoadRefused, LoadMissing, LoadGone, LoadAbsent,
                    LoadPresent, RestoreRetained, ResolveFuture, Resolve, SourceMissing, SourceRefused,
                    SourceUnchanged, SourceAdmitted, Publish, NotPersisted, Judge, Accept
            <4>3. CASE Wake(p) \/ LoadMissing(p) \/ LoadAbsent(p) \/ LoadPresent(p)
                        \/ RestoreRetained(p) \/ Resolve(p) \/ SourceAdmitted(p) \/ Publish(p)
                BY <2>4, <4>3 DEF Wake, LoadMissing, LoadAbsent, LoadPresent, RestoreRetained, Resolve,
                    SourceAdmitted, Publish, Accept
            <4>4. QED
                BY <2>3, <4>1, <4>2, <4>3 DEF Tick, LoadRefused, LoadGone, ResolveFuture, SourceRefused,
                    NotPersisted
        <3>2. CASE \E q \in Proc : Start(q) \/ LoadInterrupted(q) \/ RestoreInterrupted(q)
            <4>1. PICK q \in Proc : Start(q) \/ LoadInterrupted(q) \/ RestoreInterrupted(q)
                BY <3>2
            <4>2. q = p
                BY <2>4, <4>1 DEF Start, LoadInterrupted, RestoreInterrupted
            <4>3. QED
                BY <2>3, <2>4, <4>1, <4>2 DEF LoadInterrupted, RestoreInterrupted
        <3>3. CASE PowerFails \/ \E q \in Proc : Dies(q)
            <4>1. pc'[p] = "down" \/ pc'[p] = pc[p]
                BY <3>3 DEF PowerFails, Dies, Down
            <4>2. QED
                BY <2>1, <4>1
        <3>4. QED
            BY <1>1, <2>1, <3>1, <3>2, <3>3 DEF LoopNext, World, Commit, Push, ClockSteps, MarkerLost,
                OperatorReset, vars, loopVars
    <2>6. CASE Start(p)
        BY <1>1, <2>1, <2>6, DocsAssumption DEF Start, Remembered
    <2>7. CASE SourceMissing(p)
        <3>1. ~mem[p].accepted /\ ReportRecovery(p, TRUE)
            BY <2>3, <2>7 DEF SourceMissing
        <3>2. panel[p].status = "stale" /\ ~mem[p].degraded
            BY <2>2, <3>1 DEF StatusFollows
        <3>3. QED
            BY <1>1, <2>1, <3>1, <3>2 DEF ReportRecovery, Panel
    <2>8. CASE SourceUnchanged(p) \/ Judge(p)
        <3>1. PICK r \in BOOLEAN : JudgeAge(p, r)
            BY <2>8 DEF SourceUnchanged, Judge
        <3>2. panel'[p].doc = panel[p].doc
            BY <1>1, <3>1, JudgementIsAReport, ReportsKeepTheRest
        <3>3. QED
            BY <2>3, <3>1, <3>2 DEF JudgeAge
    <2>9. QED
        BY <2>5, <2>6, <2>7, <2>8
<1>2. QED
    BY <1>1, LoopInvariant, StatusInvariant, PTL DEF LoopSpec, OkIsFresh
=============================================================================
