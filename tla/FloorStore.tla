----------------------------- MODULE FloorStore -----------------------------
(***************************************************************************)
(* The durable replay floor of the sealed data root: the three files the   *)
(* origin keeps in its writable state directory (the floor marker, the     *)
(* tombstone, the retained document), the advisory lock beside them, and   *)
(* the processes that store a newly accepted document there.               *)
(*                                                                         *)
(* A document is identified by its ciphertext digest, so a floor (instant, *)
(* digest) is a document: InstantOf gives its instant at the full          *)
(* precision the marker round-trips (RFC3339Nano).  A rename is visible to *)
(* every process at once (disk) and survives a power loss only after the   *)
(* directory has been synced (platter).  An unlink is taken as durable.    *)
(***************************************************************************)
EXTENDS Naturals, FiniteSets

CONSTANTS
    Proc,       \* the processes that share the state directory
    Docs,       \* the authentic sealed documents, by digest
    InstantOf,  \* the export instant of a document
    Absent,     \* the file does not exist
    Untrusted,  \* a marker that does not load: rotated key, damage, bad format
    Free,       \* nobody holds the lock
    MaxFaults   \* bound on storage faults, crashes, losses and resets

ASSUME DocsAssumption ==
    /\ InstantOf \in [Docs -> Nat]
    /\ Absent \notin Docs
    /\ Untrusted \notin Docs
    /\ Absent # Untrusted
    /\ Free \notin Proc
    /\ MaxFaults \in Nat

VARIABLES
    disk,     \* the state directory as every process sees it
    platter,  \* the state directory as a power loss leaves it
    lock,     \* who holds token-usage.floor.lock
    stage,    \* how far each process is in retaining and storing a document
    arg,      \* the document each process is storing
    acked,    \* history: documents whose store reported success since the last reset
    waived,   \* history: processes whose operation in flight a reset overtook
    faults    \* faults used so far

storeVars == <<disk, platter, lock, stage, arg, acked, waived, faults>>

(* The stages that hold the lock. *)
LockedStages == {"compare", "mark", "markSync", "tomb", "tombSync"}

Stages == {"idle", "keep", "keepSync", "lock"} \cup LockedStages \cup {"stored", "refused"}

Directory ==
    [marker : Docs \cup {Absent, Untrusted}, tomb : BOOLEAN, kept : Docs \cup {Absent}]

TypeOK ==
    /\ disk \in Directory
    /\ platter \in Directory
    /\ lock \in Proc \cup {Free}
    /\ stage \in [Proc -> Stages]
    /\ arg \in [Proc -> Docs \cup {Absent}]
    /\ acked \subseteq Docs
    /\ waived \subseteq Proc
    /\ faults \in 0 .. MaxFaults

(* One floor is at or above another: strictly later, or the same document. *)
AtOrAbove(d, e) == InstantOf[d] > InstantOf[e] \/ d = e

(* What loadFloorMarker reports of a directory. *)
LoadFails(dir)  == dir.marker = Untrusted \/ (dir.marker = Absent /\ dir.tomb)
NeverUsed(dir)  == dir.marker = Absent /\ ~dir.tomb

(* What storeFloorMarker compares inside the lock. *)
StoreAdmits(dir, d) ==
    /\ ~LoadFails(dir)
    /\ dir.marker # Absent => AtOrAbove(d, dir.marker)

StoreInit ==
    /\ disk = [marker |-> Absent, tomb |-> FALSE, kept |-> Absent]
    /\ platter = disk
    /\ lock = Free
    /\ stage = [p \in Proc |-> "idle"]
    /\ arg = [p \in Proc |-> Absent]
    /\ acked = {}
    /\ waived = {}
    /\ faults = 0

-----------------------------------------------------------------------------
(* Steps of one acceptance, in the order the code takes them. *)

Goto(p, s) == stage' = [stage EXCEPT ![p] = s]

Fault == faults < MaxFaults /\ faults' = faults + 1

(* The floor is stored: the caller may publish.  A store that an operator's
   reset overtook is not counted among the promises. *)
Succeed(p) ==
    /\ Goto(p, "stored")
    /\ lock' = Free
    /\ acked' = IF p \in waived THEN acked ELSE acked \cup {arg[p]}

(* publishSealed hands an admitted document over: retain, then commit. *)
BeginStore(p, d) ==
    /\ stage[p] = "idle"
    /\ Goto(p, "keep")
    /\ arg' = [arg EXCEPT ![p] = d]
    /\ UNCHANGED <<disk, platter, lock, acked, waived, faults>>

(* Retain renames the document into place, outside the lock. *)
Retain(p) ==
    /\ stage[p] = "keep"
    /\ Goto(p, "keepSync")
    /\ disk' = [disk EXCEPT !.kept = arg[p]]
    /\ UNCHANGED <<platter, lock, arg, acked, waived, faults>>

RetainSync(p) ==
    /\ stage[p] = "keepSync"
    /\ Goto(p, "lock")
    /\ platter' = disk
    /\ UNCHANGED <<disk, lock, arg, acked, waived, faults>>

(* A retain that fails is only logged; the commit follows all the same. *)
RetainFails(p) ==
    /\ stage[p] \in {"keep", "keepSync"}
    /\ Fault
    /\ Goto(p, "lock")
    /\ UNCHANGED <<disk, platter, lock, arg, acked, waived>>

(* Mutant: the lock is shared. *)
AcquireSharedLock(p) ==
    /\ stage[p] = "lock"
    /\ lock' = p
    /\ Goto(p, "compare")
    /\ UNCHANGED <<disk, platter, arg, acked, waived, faults>>

AcquireLock(p) ==
    /\ stage[p] = "lock"
    /\ lock = Free
    /\ lock' = p
    /\ Goto(p, "compare")
    /\ UNCHANGED <<disk, platter, arg, acked, waived, faults>>

(* The persisted floor is read again inside the lock. *)
CompareAdmits(p) ==
    /\ stage[p] = "compare"
    /\ StoreAdmits(disk, arg[p])
    /\ Goto(p, "mark")
    /\ UNCHANGED <<disk, platter, lock, arg, acked, waived, faults>>

CompareRefuses(p) ==
    /\ stage[p] = "compare"
    /\ ~StoreAdmits(disk, arg[p])
    /\ Goto(p, "refused")
    /\ lock' = Free
    /\ UNCHANGED <<disk, platter, arg, acked, waived, faults>>

(* The sealed marker, written and synced under a unique temporary name, is
   renamed into place. *)
WriteMarker(p) ==
    /\ stage[p] = "mark"
    /\ Goto(p, "markSync")
    /\ disk' = [disk EXCEPT !.marker = arg[p]]
    /\ UNCHANGED <<platter, lock, arg, acked, waived, faults>>

(* Mutant: the directory sync after the marker's rename is a no-op. *)
SyncMarkerNot(p) ==
    /\ stage[p] = "markSync"
    /\ Goto(p, "tomb")
    /\ UNCHANGED <<disk, platter, lock, arg, acked, waived, faults>>

SyncMarker(p) ==
    /\ stage[p] = "markSync"
    /\ Goto(p, "tomb")
    /\ platter' = disk
    /\ UNCHANGED <<disk, lock, arg, acked, waived, faults>>

(* Mutant: the tombstone is not looked for. *)
TombstoneTakenForGranted(p) ==
    /\ stage[p] = "tomb"
    /\ Succeed(p)
    /\ UNCHANGED <<disk, platter, arg, waived, faults>>

(* A directory that already carries its tombstone is left alone. *)
TombstonePresent(p) ==
    /\ stage[p] = "tomb"
    /\ disk.tomb
    /\ Succeed(p)
    /\ UNCHANGED <<disk, platter, arg, waived, faults>>

WriteTombstone(p) ==
    /\ stage[p] = "tomb"
    /\ ~disk.tomb
    /\ Goto(p, "tombSync")
    /\ disk' = [disk EXCEPT !.tomb = TRUE]
    /\ UNCHANGED <<platter, lock, arg, acked, waived, faults>>

SyncTombstone(p) ==
    /\ stage[p] = "tombSync"
    /\ platter' = disk
    /\ Succeed(p)
    /\ UNCHANGED <<disk, arg, waived, faults>>

(* Any step of a store can fail: the lock, the key, a read, a write, a rename
   or a directory sync.  What an earlier step renamed into place stays. *)
StoreFails(p) ==
    /\ stage[p] \in {"lock"} \cup LockedStages
    /\ Fault
    /\ Goto(p, "refused")
    /\ lock' = IF lock = p THEN Free ELSE lock
    /\ UNCHANGED <<disk, platter, arg, acked, waived>>

(* The caller takes the result. *)
Return(p) ==
    /\ stage[p] \in {"stored", "refused"}
    /\ Goto(p, "idle")
    /\ arg' = [arg EXCEPT ![p] = Absent]
    /\ waived' = waived \ {p}
    /\ UNCHANGED <<disk, platter, lock, acked, faults>>

-----------------------------------------------------------------------------
(* What happens to the processes and to the directory. *)

(* A process dies anywhere: the kernel releases its lock, the page cache
   keeps what it renamed. *)
Crash(p) ==
    /\ Fault
    /\ Goto(p, "idle")
    /\ arg' = [arg EXCEPT ![p] = Absent]
    /\ lock' = IF lock = p THEN Free ELSE lock
    /\ waived' = waived \ {p}
    /\ UNCHANGED <<disk, platter, acked>>

(* The host loses power: each file is found as it was last synced, or as it
   was last renamed. *)
PowerLoss ==
    /\ Fault
    /\ \E m \in {disk.marker, platter.marker}, t \in {disk.tomb, platter.tomb},
          k \in {disk.kept, platter.kept} :
            disk' = [marker |-> m, tomb |-> t, kept |-> k]
    /\ platter' = disk'
    /\ stage' = [p \in Proc |-> "idle"]
    /\ arg' = [p \in Proc |-> Absent]
    /\ lock' = Free
    /\ waived' = {}
    /\ UNCHANGED acked

(* The marker file is deleted, or can no longer be opened: a rotated key, a
   damaged byte.  The tombstone stays. *)
LoseMarker(m) ==
    /\ m \in {Absent, Untrusted}
    /\ disk.marker # Absent
    /\ Fault
    /\ disk' = [disk EXCEPT !.marker = m]
    /\ platter' = IF platter.marker = Absent
                  THEN platter ELSE [platter EXCEPT !.marker = m]
    /\ UNCHANGED <<lock, stage, arg, acked, waived>>

(* The operator's reset: both files, the marker first.  It withdraws every
   promise made so far and overtakes whatever is in flight. *)
Withdraw ==
    /\ acked' = {}
    /\ waived' = {p \in Proc : stage[p] # "idle"}

ResetMarker ==
    /\ disk.marker # Absent
    /\ Fault
    /\ disk' = [disk EXCEPT !.marker = Absent]
    /\ platter' = [platter EXCEPT !.marker = Absent]
    /\ Withdraw
    /\ UNCHANGED <<lock, stage, arg>>

ResetTombstone ==
    /\ disk.marker = Absent
    /\ disk.tomb
    /\ Fault
    /\ disk' = [disk EXCEPT !.tomb = FALSE]
    /\ platter' = [platter EXCEPT !.tomb = FALSE]
    /\ Withdraw
    /\ UNCHANGED <<lock, stage, arg>>

(* A read of the directory fails and changes nothing. *)
ReadFails ==
    /\ Fault
    /\ UNCHANGED <<disk, platter, lock, stage, arg, acked, waived>>

StoreProgress(p) ==
    \/ Retain(p) \/ RetainSync(p)
    \/ AcquireLock(p) \/ CompareAdmits(p) \/ CompareRefuses(p)
    \/ WriteMarker(p) \/ SyncMarker(p)
    \/ TombstonePresent(p) \/ WriteTombstone(p) \/ SyncTombstone(p)

StoreStep(p) == StoreProgress(p) \/ RetainFails(p) \/ StoreFails(p)

Disturbance ==
    \/ PowerLoss
    \/ ReadFails
    \/ \E m \in {Absent, Untrusted} : LoseMarker(m)
    \/ ResetMarker
    \/ ResetTombstone

StoreNext ==
    \/ \E p \in Proc :
        \/ \E d \in Docs : BeginStore(p, d)
        \/ StoreStep(p)
        \/ Return(p)
        \/ Crash(p)
    \/ Disturbance

StoreSpec == StoreInit /\ [][StoreNext]_storeVars

-----------------------------------------------------------------------------
(* What the store promises. *)

(* A directory keeps the promise made for d: its marker, when it can be read,
   is at or above d, and when it cannot the tombstone makes the loss known. *)
Keeps(dir, d) ==
    /\ dir.tomb
    /\ dir.marker \in Docs => AtOrAbove(dir.marker, d)

(* A store that reported success is remembered: by every process now, and by
   the directory a power loss leaves behind (storeFloorMarker reports success
   only after the rename and the directory sync of marker and tombstone). *)
AckedIsDurable == \A d \in acked : Keeps(disk, d) /\ Keeps(platter, d)

(* No two documents that share an instant are both stored, whichever
   processes stored them (errFloorDivergedAtInstant). *)
OneDocumentPerInstant ==
    \A d, e \in acked : InstantOf[d] = InstantOf[e] => d = e

(* The floor a power loss leaves behind never drops, whoever writes it and
   wherever the writers are interrupted (errFloorNotMonotonic). *)
FloorNeverDrops ==
    [][(platter.marker \in Docs /\ platter'.marker \in Docs)
            => AtOrAbove(platter'.marker, platter.marker)]_storeVars

(* What makes those promises inductive: the lock is held exactly in the locked
   stages, the platter's floor is never above the visible one, and a process
   between its comparison and its success is at or above every promise. *)
LockHeld == \A p \in Proc : lock = p <=> stage[p] \in LockedStages

HasDocument == \A p \in Proc : stage[p] # "idle" => arg[p] \in Docs

PlatterBehind ==
    platter.marker \in Docs =>
        disk.marker \in Docs /\ AtOrAbove(disk.marker, platter.marker)

Storing(p) ==
    /\ stage[p] \in LockedStages \ {"compare"} => \A e \in acked : AtOrAbove(arg[p], e)
    /\ stage[p] = "mark" => (disk.marker \in Docs => AtOrAbove(arg[p], disk.marker))
    /\ stage[p] \in {"markSync", "tomb", "tombSync"} => (disk.marker \in Docs => disk.marker = arg[p])
    /\ stage[p] \in {"tomb", "tombSync"} => platter.marker = disk.marker
    /\ stage[p] = "tomb" => platter.tomb = disk.tomb
    /\ stage[p] = "tombSync" /\ p \notin waived => disk.tomb

StoreInv ==
    /\ TypeOK
    /\ LockHeld
    /\ HasDocument
    /\ PlatterBehind
    /\ AckedIsDurable
    /\ OneDocumentPerInstant
    /\ \A p \in Proc : Storing(p)

(* The abstract replay floor these files implement. *)
FloorOf(dir) ==
    CASE dir.marker \in Docs -> dir.marker
      [] NeverUsed(dir)      -> Absent
      [] OTHER               -> Untrusted

Replay == INSTANCE ReplayFloor WITH
            floor <- FloorOf(platter), Nothing <- Absent, Refusing <- Untrusted

(* The state directory, its lock and its processes, crashes included,
   implement one atomic replay floor. *)
ImplementsReplayFloor == Replay!Spec
=============================================================================
