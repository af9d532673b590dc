------------------------------ MODULE Registry ------------------------------
(***************************************************************************)
(* The panel registry between its producers and its readers: one producer  *)
(* per panel (a refresh loop or the sealed data-root loop) swaps the       *)
(* panel's prepared response and then rebuilds the one index of all        *)
(* statuses, reading the other panels while their producers go on.         *)
(***************************************************************************)
EXTENDS Integers, Sequences

CONSTANT N  \* the number of registered panels

ASSUME CountAssumption == N \in Nat \ {0}

Panels == 1 .. N   \* in registration order, each with its producer

Nobody == 0

VARIABLES
    status,  \* the status of the response each panel serves (state.current)
    index,   \* the statuses the served index lists
    mutex,   \* the producer that rebuilds the index, or Nobody
    rows,    \* the rows each producer has listed so far
    pc       \* where each producer is

registryVars == <<status, index, mutex, rows, pc>>

Statuses == {"ok", "stale", "unavailable"}

RegistryTypeOK ==
    /\ status \in [Panels -> Statuses]
    /\ index \in [Panels -> Statuses]
    /\ mutex \in Panels \cup {Nobody}
    /\ rows \in [Panels -> Seq(Statuses)]
    /\ pc \in [Panels -> {"idle", "swapped", "listing"}]

(* newRegistry loads every source and builds the first index before anything
   runs; a panel without a snapshot starts unavailable. *)
RegistryInit ==
    /\ status \in [Panels -> Statuses]
    /\ index = status
    /\ mutex = Nobody
    /\ rows = [p \in Panels |-> <<>>]
    /\ pc = [p \in Panels |-> "idle"]

(* Mutant: the index is not rebuilt when only the status changes. *)
SwapUnlisted(p, s) ==
    /\ pc[p] = "idle"
    /\ status' = [status EXCEPT ![p] = s]
    /\ pc' = [pc EXCEPT ![p] = IF status[p] = "ok" THEN "idle" ELSE "swapped"]
    /\ UNCHANGED <<index, mutex, rows>>

(* A new payload, markStale or markFresh: the response is swapped first. *)
Swap(p, s) ==
    /\ pc[p] = "idle"
    /\ status' = [status EXCEPT ![p] = s]
    /\ pc' = [pc EXCEPT ![p] = "swapped"]
    /\ UNCHANGED <<index, mutex, rows>>

(* Mutant: nothing is held during the rebuild. *)
LockNot(p) ==
    /\ pc[p] = "swapped"
    /\ mutex' = p
    /\ pc' = [pc EXCEPT ![p] = "listing"]
    /\ UNCHANGED <<status, index, rows>>

(* rebuildIndex under reg.mu. *)
Lock(p) ==
    /\ pc[p] = "swapped" /\ mutex = Nobody
    /\ mutex' = p
    /\ pc' = [pc EXCEPT ![p] = "listing"]
    /\ UNCHANGED <<status, index, rows>>

List(p) ==
    /\ pc[p] = "listing" /\ Len(rows[p]) < N
    /\ rows' = [rows EXCEPT ![p] = Append(@, status[Len(@) + 1])]
    /\ UNCHANGED <<status, index, mutex, pc>>

StoreIndex(p) ==
    /\ pc[p] = "listing" /\ Len(rows[p]) = N
    /\ index' = rows[p]
    /\ rows' = [rows EXCEPT ![p] = <<>>]
    /\ mutex' = Nobody
    /\ pc' = [pc EXCEPT ![p] = "idle"]
    /\ UNCHANGED status

Rebuild(p) == Lock(p) \/ List(p) \/ StoreIndex(p)

RegistryNext == \E p \in Panels : Rebuild(p) \/ \E s \in {"ok", "stale"} : Swap(p, s)

RegistrySpec == RegistryInit /\ [][RegistryNext]_registryVars

(* A rebuild goes on, and a waiting producer gets the mutex in the end; no
   producer is owed a new payload. *)
FairRegistry == RegistrySpec /\ \A p \in Panels : WF_registryVars(List(p) \/ StoreIndex(p)) /\ SF_registryVars(Lock(p))

-----------------------------------------------------------------------------

(* The index is not outdated by a rebuild that read other panels while they
   changed: a panel whose producer is done with it is listed with the status it
   serves ("serialized so concurrent refreshers cannot interleave partial
   listings"). *)
IndexIsCurrent == \A p \in Panels : pc[p] = "idle" => index[p] = status[p]

(* Why: the rows already filled in agree with every panel that is settled, and
   with the one whose producer fills them. *)
RowsAgree(p) ==
    /\ pc[p] = "listing" <=> mutex = p
    /\ pc[p] # "listing" => rows[p] = <<>>
    /\ Len(rows[p]) <= N
    /\ \A q \in 1 .. Len(rows[p]) : pc[q] # "swapped" => rows[p][q] = status[q]

RegistryInv == RegistryTypeOK /\ IndexIsCurrent /\ \A p \in Panels : RowsAgree(p)

(* Whatever the others do, what a panel serves comes to be listed. *)
IndexCatchesUp == \A p \in Panels : []<>(index[p] = status[p])
=============================================================================
