------------------------------ MODULE Activity ------------------------------
(***************************************************************************)
(* The refresh loop of the version-control activity panel (refreshLoop,    *)
(* refreshPanel, refreshActivity): one payload assembled from two upstream *)
(* producers, the contribution calendar and the commit lists, each on its  *)
(* own rate budget, with a retry ladder over both.                         *)
(*                                                                         *)
(* A round reads the clock once, so what the clock does during a round is  *)
(* what it does right after it: time moves between rounds only.            *)
(***************************************************************************)
EXTENDS RateBudget

CONSTANTS
    TTL,             \* the cadence of the loop
    InitialBackoff,  \* the first rung of the retry ladder
    MaxJumps         \* bound on the steps of the clock

ASSUME ActivityAssumption ==
    /\ Roles = {"calendar", "commits"}
    /\ TTL \in Nat \ {0} /\ InitialBackoff \in Nat \ {0}
    /\ InitialBackoff <= MaxBackoff
    /\ MaxJumps \in Nat

VARIABLES
    credential,  \* the process has the credential that the commit half needs
    pc,       \* where the loop is
    sleep,    \* what is left of its timer
    backoff,  \* the next rung of the ladder
    held,     \* the halves this process has read at least once
    last,     \* history: what the last read of each half brought
    due,      \* the halves asked in this round
    live,     \* commitsFresh of this round
    status,   \* the status the panel serves
    working,  \* what works outside: each upstream, and the size of the payload
    jumps     \* the steps the clock still takes

loopVars == <<credential, pc, sleep, backoff, held, last, due, live, status, working, jumps>>

vars == <<budgetVars, loopVars>>

Producers == IF credential THEN Roles ELSE {"calendar"}

Outside == Producers \cup {"fits"}

LoopTypeOK ==
    /\ credential \in BOOLEAN
    /\ pc \in {"asleep", "calendar", "commits", "serve"}
    /\ sleep \in 0 .. BiggerOf(TTL, MaxBackoff)
    /\ backoff \in 1 .. MaxBackoff
    /\ held \subseteq Roles
    /\ last \in [Roles -> Answers \cup {"none"}]
    /\ due \subseteq Roles
    /\ live \in BOOLEAN
    /\ status \in {"ok", "stale", "unavailable"}
    /\ working \subseteq Roles \cup {"fits"}
    /\ jumps \in 0 .. MaxJumps

(* The panel starts on its embedded snapshot, stale, or without one. *)
Init ==
    /\ BudgetInit
    /\ credential \in BOOLEAN
    /\ pc = "asleep" /\ sleep = 0 /\ backoff = InitialBackoff
    /\ held = {} /\ last = [r \in Roles |-> "none"]
    /\ due = {} /\ live = FALSE
    /\ status \in {"stale", "unavailable"}
    /\ working \in SUBSET Outside
    /\ jumps = MaxJumps

MarkStale == status' = IF status = "ok" THEN "stale" ELSE status

(* Mutant: the first rung again and again, without the ceiling. *)
RoundFailsBeyondCeiling ==
    /\ MarkStale
    /\ pc' = "asleep" /\ sleep' = backoff
    /\ backoff' = 2 * backoff

(* A failed round: the panel turns stale and the loop climbs its ladder. *)
RoundFails ==
    /\ MarkStale
    /\ pc' = "asleep" /\ sleep' = backoff
    /\ backoff' = SmallerOf(2 * backoff, MaxBackoff)

(* A round in which nothing was asked is neither a success nor a failure. *)
NothingIsDue ==
    /\ pc' = "asleep" /\ sleep' = TTL
    /\ UNCHANGED <<status, backoff>>

(* Mutant: a read that takes no reservation. *)
ReadsUnreserved(r, answer) ==
    /\ (answer = "ok") = (r \in working)
    /\ apart' = [apart EXCEPT ![r] = 0]
    /\ UNCHANGED <<asked, age, gated, remaining, calm, refused>>
    /\ due' = due \cup {r}
    /\ held' = IF answer = "ok" THEN held \cup {r} ELSE held
    /\ last' = [last EXCEPT ![r] = answer]
    /\ UNCHANGED <<working, jumps, credential>>

(* One read of a half: it works or it does not, and a failure may be a refusal
   for rate reasons. *)
Reads(r, answer) ==
    /\ (answer = "ok") = (r \in working)
    /\ Asks(r, answer)
    /\ due' = due \cup {r}
    /\ held' = IF answer = "ok" THEN held \cup {r} ELSE held
    /\ last' = [last EXCEPT ![r] = answer]
    /\ UNCHANGED <<working, jumps, credential>>

(* Mutant: being held back costs the interval once more. *)
SkipsAtACost(r) ==
    /\ ~Due(r)
    /\ age' = IF r \in asked THEN [age EXCEPT ![r] = 0] ELSE age
    /\ refused' = [refused EXCEPT ![r] = BiggerOf(@, 0)]
    /\ UNCHANGED <<asked, gated, remaining, apart, calm>>
    /\ UNCHANGED <<due, held, last, working, jumps, credential>>

Skips(r) ==
    /\ HeldBack(r)
    /\ UNCHANGED <<due, held, last, working, jumps, credential>>

-----------------------------------------------------------------------------
(* A round. *)

Wake ==
    /\ pc = "asleep" /\ sleep = 0
    /\ pc' = "calendar" /\ due' = {}
    /\ UNCHANGED <<budgetVars, sleep, backoff, held, last, live, status, working, jumps, credential>>

CalendarRead ==
    /\ pc = "calendar"
    /\ Reads("calendar", "ok")
    /\ pc' = "commits"
    /\ UNCHANGED <<sleep, backoff, live, status>>

(* A failure of the calendar ends the round. *)
CalendarFails ==
    /\ pc = "calendar"
    /\ \E answer \in {"failed", "limited"} : Reads("calendar", answer)
    /\ RoundFails
    /\ UNCHANGED live

CalendarRetained ==
    /\ pc = "calendar" /\ "calendar" \in held
    /\ Skips("calendar")
    /\ pc' = "commits"
    /\ UNCHANGED <<sleep, backoff, live, status>>

(* Not due and never read: there is nothing to build from. *)
CalendarMissing ==
    /\ pc = "calendar" /\ "calendar" \notin held
    /\ Skips("calendar")
    /\ NothingIsDue
    /\ UNCHANGED live

ToServe(isLive) ==
    /\ pc = "commits" /\ pc' = "serve"
    /\ live' = isLive
    /\ UNCHANGED <<sleep, backoff, status>>

(* No credential: an empty list that is no claim. *)
CommitsAbsent ==
    /\ ~credential
    /\ ToServe(TRUE)
    /\ UNCHANGED <<budgetVars, due, held, last, working, jumps, credential>>

CommitsRead ==
    /\ credential
    /\ Reads("commits", "ok")
    /\ ToServe(TRUE)

(* A failed commit round never ends the round. *)
CommitsFail ==
    /\ credential
    /\ \E answer \in {"failed", "limited"} : Reads("commits", answer)
    /\ ToServe(FALSE)

(* Mutant: a retained list never counts as live. *)
CommitsRetainedNever ==
    /\ credential
    /\ Skips("commits")
    /\ ToServe(FALSE)

(* Inside its budget a retained list is the current answer. *)
CommitsRetained ==
    /\ credential
    /\ Skips("commits")
    /\ ToServe("commits" \in held)

NothingDue ==
    /\ pc = "serve" /\ due = {}
    /\ NothingIsDue
    /\ live' = FALSE
    /\ UNCHANGED <<budgetVars, held, last, due, working, jumps, credential>>

Serve ==
    /\ pc = "serve" /\ due # {} /\ "fits" \in working
    /\ status' = IF live THEN "ok" ELSE "stale"
    /\ backoff' = InitialBackoff
    /\ pc' = "asleep" /\ sleep' = TTL
    /\ live' = FALSE
    /\ UNCHANGED <<budgetVars, held, last, due, working, jumps, credential>>

(* prepare refuses an envelope over the response budget. *)
ServeRefused ==
    /\ pc = "serve" /\ due # {} /\ "fits" \notin working
    /\ RoundFails
    /\ live' = FALSE
    /\ UNCHANGED <<budgetVars, held, last, due, working, jumps, credential>>

Round ==
    \/ Wake
    \/ CalendarRead \/ CalendarFails \/ CalendarRetained \/ CalendarMissing
    \/ CommitsAbsent \/ CommitsRead \/ CommitsFail \/ CommitsRetained
    \/ NothingDue \/ Serve \/ ServeRefused

-----------------------------------------------------------------------------
(* The world: time, the clock, the upstreams. *)

TimePasses ==
    /\ pc = "asleep" /\ sleep > 0
    /\ sleep' = sleep - 1
    /\ Later(1)
    /\ UNCHANGED <<pc, backoff, held, last, due, live, status, working, jumps, credential>>

ClockJumps ==
    /\ pc = "asleep" /\ jumps > 0
    /\ jumps' = jumps - 1
    /\ \E k \in 1 .. MaxStep : Later(k) \/ Earlier(k)
    /\ UNCHANGED <<pc, sleep, backoff, held, last, due, live, status, working, credential>>

WorldChanges ==
    /\ pc = "asleep"
    /\ \E x \in Outside : working' = IF x \in working THEN working \ {x} ELSE working \cup {x}
    /\ UNCHANGED <<budgetVars, pc, sleep, backoff, held, last, due, live, status, jumps, credential>>

Next == Round \/ TimePasses \/ ClockJumps \/ WorldChanges

Spec == Init /\ [][Next]_vars

(* The loop's timer fires and its requests come back (each has a timeout);
   nothing is owed by the clock or the upstreams. *)
FairSpec == Spec /\ WF_vars(Round) /\ WF_vars(TimePasses)

-----------------------------------------------------------------------------

(* The loop asks its upstreams only as RateBudget allows, so that its promises
   carry over. *)
ImplementsRateBudget == BudgetSpec

(* Of "A commit list served from cache past its budget, or never fetched at
   all, makes the payload stale" the code keeps the second half, however the
   halves' failures, cooldowns and retained answers fall together: ok means
   that this process has read every half it asks for.  (CommitsAreWithinBudget
   states the first half.) *)
OkWasRead == status = "ok" => Producers \subseteq held

(* The first half: a settled panel that says ok does not serve a commit list
   past its budget.  The list is asked for only when its interval is over, so
   one whose last read failed is past it, whatever holds the next read back. *)
CommitsAreWithinBudget ==
    pc = "asleep" /\ status = "ok" /\ credential => last["commits"] = "ok"

(* A round that asked something and was refused, or could not be served, never
   ends ok. *)
FailureIsReported ==
    [][(pc # "asleep" /\ pc' = "asleep"
            /\ \/ \E r \in due' : last'[r] # "ok"
               \/ due' # {} /\ pc = "serve" /\ "fits" \notin working)
        => status' # "ok"]_vars

(* And only such a round turns an ok panel stale: "marking a panel stale
   because its rate budget held the loop back would turn politeness into a
   false freshness signal". *)
PolitenessIsNotStaleness ==
    [][(status = "ok" /\ status' # "ok")
        => \/ \E r \in due' : last'[r] # "ok"
           \/ "fits" \notin working]_vars

(* What keeps these three: where a round stands says what it has read so far,
   and whether it is live is whether all it asked for came back. *)
RoundAccounts ==
    /\ pc = "calendar" => due = {}
    /\ pc = "commits" => due \subseteq {"calendar"} /\ \A r \in due : last[r] = "ok"
    /\ pc \in {"commits", "serve"} => "calendar" \in held
    /\ pc = "serve" /\ live => Producers \subseteq held /\ \A r \in due : last[r] = "ok"
    /\ pc = "serve" /\ ~live /\ status = "ok" => \E r \in due : last[r] # "ok"

ActivityInv == LoopTypeOK /\ BudgetInv /\ OkWasRead /\ RoundAccounts

(* The calendar is asked again and again, whatever its failures, cooldowns and
   the steps of the clock (finitely many) do to the ladder and the budget; the
   commit half too, once the calendar answers for good. *)
AskedAgain ==
    /\ []<>(pc = "calendar" /\ Due("calendar"))
    /\ (credential /\ <>[]("calendar" \in working)) => []<>(pc = "commits" /\ Due("commits"))

(* Once everything works again the panel comes to say ok and stays so: no
   rung, cooldown or retained half keeps it stale. *)
RecoversForGood == <>[](working = Outside) => <>[](status = "ok")
=============================================================================
