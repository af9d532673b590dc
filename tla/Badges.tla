------------------------------- MODULE Badges -------------------------------
(***************************************************************************)
(* Publishers of coverage badges, scripts/ci/coverage_badges.py: each gate *)
(* run that ends on main starts one, nothing orders them, and all of them  *)
(* replace the head of one branch by a commit of their own.  A publisher   *)
(* lists the branch, fetches it with main, decides whether its numbers are *)
(* newer than those that stand, and pushes with a lease on the head it     *)
(* decided from; a refused or a lost push is decided again, from what won. *)
(*                                                                         *)
(* The commits of main are naturals, in order; Stray is on no history.  A  *)
(* badge commit is its publisher's: it holds the moment it was made.       *)
(***************************************************************************)
EXTENDS Integers, FiniteSets

CONSTANTS
  Publisher,
  MaxMain,     \* commits on main
  Stray,       \* a commit that is not on main
  Absent,      \* no badge branch
  Unsaid,      \* a badge head that does not say what it measured
  Attempts,    \* ATTEMPTS
  \* the bounds: failures of the transport and changes of the branch by hand
  MaxFaults, MaxHands

Commit == 1 .. MaxMain
Source == Commit \cup {Stray}

ASSUME BadgesAssumption ==
  /\ MaxMain \in Nat /\ Attempts \in Nat \ {0} /\ MaxFaults \in Nat /\ MaxHands \in Nat
  /\ Stray \notin Int /\ Absent # Unsaid /\ {Absent, Unsaid} \cap Publisher = {}

VARIABLES
  source,    \* [Publisher -> the commit its gate run measured]
  head,      \* the badge branch: a publisher's commit, Absent or Unsaid
  pc,        \* [Publisher -> its place]
  attempt,   \* [Publisher -> how many of its attempts are spent]
  listed,    \* [Publisher -> whether ls-remote named the branch]
  observed,  \* [Publisher -> the head its decision reads]
  landed,    \* the publishers whose commit has been the head
  steps      \* [faults, hands, races -> how many so far]

vars == <<source, head, pc, attempt, listed, observed, landed, steps>>

\* merge-base --is-ancestor; a commit is its own ancestor.
IsAncestor(older, newer) == older = newer \/ (older # Stray /\ newer # Stray /\ older <= newer)
OnMain(commit) == commit # Stray

Outcome == {"published", "superseded", "refused", "exhausted"}

Init ==
  /\ source \in [Publisher -> Source]
  /\ head = Absent
  /\ pc = [p \in Publisher |-> "start"]
  /\ attempt = [p \in Publisher |-> 0]
  /\ listed = [p \in Publisher |-> FALSE] /\ observed = [p \in Publisher |-> Absent]
  /\ landed = {}
  /\ steps = [faults |-> 0, hands |-> 0, races |-> 0]

Goes(p, to) == pc' = [pc EXCEPT ![p] = to]

\* An attempt is spent; the last one fails the run.
Again(p) ==
  /\ attempt' = [attempt EXCEPT ![p] = @ + 1]
  /\ Goes(p, IF attempt[p] + 1 < Attempts THEN "list" ELSE "exhausted")

Fault == steps.faults < MaxFaults /\ steps' = [steps EXCEPT !.faults = @ + 1]

\* The gate's totals are those of this commit and this run, or the run is refused.
ReadTotals(p) ==
  /\ pc[p] = "start"
  /\ Goes(p, "list") \/ Goes(p, "refused")
  /\ UNCHANGED <<source, head, attempt, listed, observed, landed, steps>>

\* observe, first half: whether there is a branch to fetch ...
List(p) ==
  /\ pc[p] = "list" /\ Goes(p, "fetch")
  /\ listed' = [listed EXCEPT ![p] = head # Absent]
  /\ UNCHANGED <<source, head, attempt, observed, landed, steps>>

\* ... second half: a branch that was not listed is not fetched, ...
Fetch(p) ==
  /\ pc[p] = "fetch" /\ (listed[p] => head # Absent)
  /\ Goes(p, "decide")
  /\ observed' = [observed EXCEPT ![p] = IF listed[p] THEN head ELSE Absent]
  /\ UNCHANGED <<source, head, attempt, listed, landed, steps>>

\* ... one that is gone since fails the fetch, ...
FetchGone(p) ==
  /\ pc[p] = "fetch" /\ listed[p] /\ head = Absent
  /\ Again(p)
  /\ steps' = [steps EXCEPT !.races = @ + 1]
  /\ UNCHANGED <<source, head, listed, observed, landed>>

\* ... and so may the network.
TransportFails(p) ==
  /\ pc[p] \in {"list", "fetch"} /\ Fault /\ Again(p)
  /\ UNCHANGED <<source, head, listed, observed, landed>>

(* Mutant: the badges that stand are taken for older. *)
DecidesAlwaysNewer(p) ==
  IF ~OnMain(source[p]) \/ observed[p] = Unsaid THEN "refused" ELSE "push"

(* Mutant: a commit of one's own is taken for another's. *)
DecidesNotOwn(p) ==
  CASE ~OnMain(source[p]) \/ observed[p] = Unsaid -> "refused"
    [] observed[p] = p -> "superseded"
    [] OTHER -> "push"

\* What to do about the head that was fetched.
Decides(p) ==
  LET seen == observed[p] IN
  CASE ~OnMain(source[p]) -> "refused"
    [] OnMain(source[p]) /\ seen = p -> "published"
    [] OnMain(source[p]) /\ seen = Absent -> "push"
    [] OnMain(source[p]) /\ seen = Unsaid -> "refused"
    [] OnMain(source[p]) /\ seen \in Publisher \ {p} ->
         CASE IsAncestor(source[seen], source[p]) -> "push"
           [] ~IsAncestor(source[seen], source[p]) /\ IsAncestor(source[p], source[seen]) -> "superseded"
           [] OTHER -> "refused"

Decide(p) ==
  /\ pc[p] = "decide" /\ Goes(p, Decides(p))
  /\ UNCHANGED <<source, head, attempt, listed, observed, landed, steps>>

(* Mutant: a push is forced without the lease. *)
AdmitsAny(p) == TRUE

\* --force-with-lease: the server takes a push only over the head that was read.
Admits(p) == head = observed[p]

Lands(p) == head' = p /\ landed' = landed \cup {p}

Push(p) ==
  /\ pc[p] = "push"
  /\ \/ Admits(p) /\ Lands(p) /\ Goes(p, "published") /\ UNCHANGED <<attempt, steps>>
     \/ ~Admits(p) /\ Again(p) /\ steps' = [steps EXCEPT !.races = @ + 1] /\ UNCHANGED <<head, landed>>
  /\ UNCHANGED <<source, listed, observed>>

\* The push does not arrive, or its answer does not.
PushLost(p) ==
  /\ pc[p] = "push" /\ Fault /\ Again(p)
  /\ \/ UNCHANGED <<head, landed>>
     \/ Admits(p) /\ Lands(p)
  /\ UNCHANGED <<source, listed, observed>>

\* The branch is deleted, the recovery, or given a head by hand.
ByHand ==
  /\ steps.hands < MaxHands /\ steps' = [steps EXCEPT !.hands = @ + 1]
  /\ head' \in {Absent, Unsaid} \ {head}
  /\ UNCHANGED <<source, pc, attempt, listed, observed, landed>>

PublisherStep(p) ==
  ReadTotals(p) \/ List(p) \/ Fetch(p) \/ FetchGone(p) \/ Decide(p) \/ Push(p)

Next == ByHand \/ \E p \in Publisher : PublisherStep(p) \/ TransportFails(p) \/ PushLost(p)

Spec == Init /\ [][Next]_vars
FairSpec == Spec /\ \A p \in Publisher : WF_vars(PublisherStep(p))

----------------------------------------------------------------------------
TypeOK ==
  /\ source \in [Publisher -> Source] /\ head \in Publisher \cup {Absent, Unsaid}
  /\ pc \in [Publisher -> {"start", "list", "fetch", "decide", "push"} \cup Outcome]
  /\ attempt \in [Publisher -> Nat] /\ listed \in [Publisher -> BOOLEAN]
  /\ observed \in [Publisher -> Publisher \cup {Absent, Unsaid}]
  /\ landed \subseteq Publisher

(* The types, and what an outcome says: "published" that the commit has    *)
(* been the head, whether or not the answer of its push arrived;           *)
(* "superseded" that badges of the same commit or of a newer one have; and *)
(* a commit that is not on main never has (publish).                       *)
BadgesInv ==
  /\ TypeOK
  /\ \A p \in Publisher :
       /\ pc[p] = "published" => p \in landed
       /\ pc[p] = "superseded" => \E q \in landed \ {p} : IsAncestor(source[p], source[q])
       /\ p \in landed => OnMain(source[p])
       /\ attempt[p] <= Attempts
  /\ head \in Publisher => head \in landed

(* Badges of an older commit never replace those of a newer one, in        *)
(* whatever order the gate runs end and however their attempts interleave; *)
(* only a branch deleted by hand starts anew (is_ancestor, the lease).     *)
NeverOlder ==
  [][LET replaced == head \in Publisher /\ head' \in Publisher \ {head}
     IN replaced => IsAncestor(source[head], source[head'])]_vars

(* With more attempts than the rivals, the failures and the hands together *)
(* can spend, every publisher ends, and unless the branch was touched by   *)
(* hand the badges that stand are those of the newest commit that had any  *)
(* (publish: refused pushes are decided again, from what won).             *)
NewestStands ==
  LET ended == \A p \in Publisher : pc[p] \in Outcome
      newest == \A q \in landed : IsAncestor(source[q], source[head])
  IN <>[](ended /\ (steps.hands = 0 /\ landed # {} => head \in Publisher /\ newest))
=============================================================================
