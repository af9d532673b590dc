-------------------------- MODULE RateBudgetProofs --------------------------
(***************************************************************************)
(* Proofs about RateBudget and about the loop that drives it, for every    *)
(* set of intervals, every ceiling and every reach of the clock: an        *)
(* upstream is not asked early, a role is not held back for longer than    *)
(* one interval or cooldown, and ok means that every half was read.        *)
(***************************************************************************)
EXTENDS Activity, TLAPS

(* What the larger and the smaller of two integers are. *)
LEMMA Extremes ==
    ASSUME NEW i \in Int, NEW j \in Int
    PROVE  /\ BiggerOf(i, j) \in {i, j} /\ BiggerOf(i, j) >= i /\ BiggerOf(i, j) >= j
           /\ SmallerOf(i, j) \in {i, j} /\ SmallerOf(i, j) =< i /\ SmallerOf(i, j) =< j
BY DEF BiggerOf, SmallerOf

(* The invariant holds initially. *)
LEMMA BudgetInvInit == BudgetInit => BudgetInv
BY BudgetAssumption
    DEF BudgetInit, BudgetInv, BudgetTypeOK, RecordsAreYoung, RefusalsAreSettled, Quietest

(* An admitted attempt keeps it. *)
LEMMA AsksKeepsInv ==
    ASSUME BudgetInv, NEW r \in Roles, NEW answer \in Answers, Asks(r, answer)
    PROVE  BudgetInv'
<1> USE BudgetAssumption DEF BudgetInv
<1>1. BudgetTypeOK'
    BY DEF Asks, BudgetTypeOK, Quietest
<1>2. ASSUME NEW s \in Roles PROVE RecordsAreYoung(s)'
    BY <1>2 DEF Asks, BudgetTypeOK, RecordsAreYoung, Quietest
<1>3. ASSUME NEW s \in Roles PROVE RefusalsAreSettled(s)'
    BY <1>3 DEF Asks, BudgetTypeOK, RefusalsAreSettled
<1>4. QED
    BY <1>1, <1>2, <1>3

(* So does a refused one, which re-anchors what lies in the future. *)
LEMMA HeldBackKeepsInv ==
    ASSUME BudgetInv, NEW r \in Roles, HeldBack(r)
    PROVE  BudgetInv'
<1> USE BudgetAssumption DEF BudgetInv, BiggerOf, SmallerOf
<1>1. BudgetTypeOK'
    BY DEF HeldBack, BudgetTypeOK, Quietest
<1>2. ASSUME NEW s \in Roles PROVE RecordsAreYoung(s)'
    BY <1>2 DEF HeldBack, BudgetTypeOK, RecordsAreYoung, Quietest
<1>3. ASSUME NEW s \in Roles PROVE RefusalsAreSettled(s)'
    BY <1>3 DEF HeldBack, BudgetTypeOK, RefusalsAreSettled
<1>4. QED
    BY <1>1, <1>2, <1>3

(* So does the clock, in either direction. *)
LEMMA LaterKeepsInv ==
    ASSUME BudgetInv, NEW k \in Nat, Later(k)
    PROVE  BudgetInv'
<1> USE BudgetAssumption DEF BudgetInv, BiggerOf, SmallerOf
<1>1. BudgetTypeOK'
    BY DEF Later, BudgetTypeOK, Quietest
<1>2. ASSUME NEW s \in Roles PROVE RecordsAreYoung(s)'
    BY <1>2 DEF Later, BudgetTypeOK, RecordsAreYoung, Quietest
<1>3. ASSUME NEW s \in Roles PROVE RefusalsAreSettled(s)'
    BY <1>3 DEF Later, BudgetTypeOK, RefusalsAreSettled
<1>4. QED
    BY <1>1, <1>2, <1>3

LEMMA EarlierKeepsInv ==
    ASSUME BudgetInv, NEW k \in 1 .. MaxStep, Earlier(k)
    PROVE  BudgetInv'
<1> USE BudgetAssumption DEF BudgetInv
<1>0. PICK i \in [Roles -> 0 .. k], j \in [Roles -> 0 .. k] :
        /\ age' = [r \in Roles |->
                    IF r \notin asked THEN age[r]
                    ELSE IF age[r] = Longest THEN age[r] - i[r] ELSE age[r] - k]
        /\ remaining' = [r \in Roles |->
                    IF r \notin gated THEN remaining[r]
                    ELSE IF remaining[r] = -MaxStep THEN remaining[r] + j[r] ELSE remaining[r] + k]
    BY DEF Earlier
<1>1. BudgetTypeOK'
    BY <1>0 DEF Earlier, BudgetTypeOK, Quietest
<1>2. ASSUME NEW s \in Roles PROVE RecordsAreYoung(s)'
    BY <1>0, <1>2 DEF Earlier, BudgetTypeOK, RecordsAreYoung, Quietest
<1>3. ASSUME NEW s \in Roles PROVE RefusalsAreSettled(s)'
    BY <1>3 DEF Earlier, BudgetTypeOK, RefusalsAreSettled
<1>4. QED
    BY <1>1, <1>2, <1>3

(* Every step keeps the invariant. *)
LEMMA BudgetInvStep == BudgetInv /\ [BudgetNext]_budgetVars => BudgetInv'
<1> SUFFICES ASSUME BudgetInv, [BudgetNext]_budgetVars PROVE BudgetInv'
    OBVIOUS
<1>1. CASE UNCHANGED budgetVars
    BY <1>1 DEF budgetVars, BudgetInv, BudgetTypeOK, RecordsAreYoung, RefusalsAreSettled
<1>2. CASE \E r \in Roles : HeldBack(r) \/ \E answer \in Answers : Asks(r, answer)
    BY <1>2, AsksKeepsInv, HeldBackKeepsInv
<1>3. CASE \E k \in 1 .. MaxStep : Later(k) \/ Earlier(k)
    BY <1>3, LaterKeepsInv, EarlierKeepsInv, BudgetAssumption
<1>4. CASE Later(1)
    BY <1>4, LaterKeepsInv
<1>5. QED
    BY <1>1, <1>2, <1>3, <1>4 DEF BudgetNext

(* A request that the invariant admits is neither early nor in a cooldown. *)
LEMMA BudgetKeptStep ==
    ASSUME BudgetInv, [BudgetNext]_budgetVars, NEW s \in Roles, apart'[s] < apart[s]
    PROVE  apart[s] >= Budget[s] /\ calm[s] >= MaxBackoff
<1> USE BudgetAssumption DEF BudgetInv
<1>1. CASE UNCHANGED budgetVars
    BY <1>1 DEF budgetVars, BudgetTypeOK
<1>2. ASSUME NEW r \in Roles, HeldBack(r) PROVE FALSE
    BY <1>2 DEF HeldBack, BudgetTypeOK
<1>3. ASSUME NEW k \in Nat, Later(k) PROVE FALSE
    BY <1>3 DEF Later, BudgetTypeOK, SmallerOf
<1>4. ASSUME NEW k \in 1 .. MaxStep, Earlier(k) PROVE FALSE
    BY <1>4 DEF Earlier, BudgetTypeOK
<1>5. ASSUME NEW r \in Roles, NEW answer \in Answers, Asks(r, answer)
      PROVE  apart[s] >= Budget[s] /\ calm[s] >= MaxBackoff
    <2>1. s = r /\ Due(s)
        BY <1>5 DEF Asks, BudgetTypeOK
    <2>2. apart[s] >= Budget[s]
        BY <2>1 DEF Due, Recent, RecordsAreYoung, BudgetTypeOK
    <2>3. calm[s] >= MaxBackoff
        BY <2>1 DEF Due, Cooling, RecordsAreYoung, BudgetTypeOK, Quietest
    <2>4. QED
        BY <2>2, <2>3
<1>6. QED
    BY <1>1, <1>2, <1>3, <1>4, <1>5 DEF BudgetNext

(* A role that is held back on a settled clock for an interval or a cooldown
   is due. *)
LEMMA SettledIsNotFrozen == BudgetInv => NeverFrozen
BY BudgetAssumption
    DEF BudgetInv, NeverFrozen, RefusalsAreSettled, Due, Cooling, Recent, BudgetTypeOK, BiggerOf

(* The records stay as young as what they record, for every set of intervals. *)
THEOREM BudgetInvariant == BudgetSpec => []BudgetInv
<1>1. BudgetInit => BudgetInv
    BY BudgetInvInit
<1>2. BudgetInv /\ [BudgetNext]_budgetVars => BudgetInv'
    BY BudgetInvStep
<1>3. QED
    BY <1>1, <1>2, PTL DEF BudgetSpec

(* No upstream is asked within its interval, or within the cooldown a refusal
   for rate reasons started, whatever the clock does. *)
THEOREM NothingIsAskedEarly == BudgetSpec => BudgetKept
<1>1. BudgetInv /\ [BudgetNext]_budgetVars =>
        [\A r \in Roles : apart'[r] < apart[r] =>
            apart[r] >= Budget[r] /\ calm[r] >= MaxBackoff]_budgetVars
    BY BudgetKeptStep
<1>2. QED
    BY <1>1, BudgetInvariant, PTL DEF BudgetSpec, BudgetKept

(* A clock stepped back by any amount costs one interval or cooldown. *)
THEOREM NoRoleFreezes == BudgetSpec => []NeverFrozen
BY BudgetInvariant, SettledIsNotFrozen, PTL

-----------------------------------------------------------------------------
(* The loop. *)

(* Every step of the loop is a step of the budgets or leaves them alone. *)
LEMMA LoopStepsBudgets == [Next]_vars => [BudgetNext]_budgetVars
<1> SUFFICES ASSUME [Next]_vars PROVE [BudgetNext]_budgetVars
    OBVIOUS
<1> USE ActivityAssumption
<1>1. ASSUME NEW r \in Roles, NEW answer \in Answers, Reads(r, answer) PROVE BudgetNext
    BY <1>1 DEF Reads, BudgetNext
<1>2. ASSUME NEW r \in Roles, Skips(r) PROVE BudgetNext
    BY <1>2 DEF Skips, BudgetNext
<1>3. CASE Round
    BY <1>1, <1>2, <1>3
        DEF Round, Wake, CalendarRead, CalendarFails, CalendarRetained, CalendarMissing,
            CommitsAbsent, CommitsRead, CommitsFail, CommitsRetained, NothingDue, Serve,
            ServeRefused, Answers
<1>4. CASE TimePasses \/ ClockJumps \/ WorldChanges
    BY <1>4 DEF TimePasses, ClockJumps, WorldChanges, BudgetNext
<1>5. CASE UNCHANGED vars
    BY <1>5 DEF vars
<1>6. QED
    BY <1>3, <1>4, <1>5 DEF Next

(* The loop asks its upstreams only as the budgets allow. *)
THEOREM LoopKeepsBudgets == Spec => ImplementsRateBudget
<1>1. Init => BudgetInit
    BY DEF Init
<1>2. QED
    BY <1>1, LoopStepsBudgets, PTL DEF Spec, BudgetSpec, ImplementsRateBudget

(* The invariant of the loop holds initially. *)
LEMMA ActivityInvInit == Init => ActivityInv
<1> SUFFICES ASSUME Init PROVE ActivityInv
    OBVIOUS
<1> USE BudgetAssumption, ActivityAssumption DEF Init
<1>1. BudgetInv
    BY BudgetInvInit
<1>2. LoopTypeOK
    <2>1. sleep \in 0 .. BiggerOf(TTL, MaxBackoff) /\ backoff \in 1 .. MaxBackoff
        BY DEF BiggerOf
    <2>2. last \in [Roles -> Answers \cup {"none"}]
        OBVIOUS
    <2>3. jumps \in 0 .. MaxJumps /\ working \subseteq Roles \cup {"fits"}
        BY DEF Outside, Producers
    <2>4. QED
        BY <2>1, <2>2, <2>3, Zenon DEF LoopTypeOK
<1>3. OkWasRead /\ RoundAccounts
    BY DEF OkWasRead, RoundAccounts
<1>4. QED
    BY <1>1, <1>2, <1>3 DEF ActivityInv

(* A read of a half is recorded where it belongs. *)
LEMMA ReadsRecords ==
    ASSUME LoopTypeOK, NEW r \in Roles, NEW answer \in Answers, Reads(r, answer)
    PROVE  /\ due' = due \cup {r} /\ due' \subseteq Roles
           /\ held \subseteq held' /\ held' \subseteq Roles
           /\ answer = "ok" => r \in held'
           /\ last' \in [Roles -> Answers \cup {"none"}]
           /\ last'[r] = answer /\ \A s \in Roles \ {r} : last'[s] = last[s]
BY DEF Reads, LoopTypeOK

(* Every step keeps the invariant. *)
LEMMA ActivityInvStep == ActivityInv /\ [Next]_vars => ActivityInv'
<1> SUFFICES ASSUME ActivityInv, [Next]_vars PROVE ActivityInv'
    OBVIOUS
<1> DEFINE LoopInv == LoopTypeOK /\ OkWasRead /\ RoundAccounts
<1>0. BudgetInv' /\ LoopInv
    BY LoopStepsBudgets, BudgetInvStep DEF ActivityInv
<1> SUFFICES LoopInv'
    BY <1>0 DEF ActivityInv
<1> USE <1>0, BudgetAssumption, ActivityAssumption
<1>a. /\ "calendar" \in Producers /\ Producers \subseteq Roles /\ "commits" \in Roles
      /\ "calendar" \in Roles /\ (credential => Producers = {"calendar", "commits"})
    BY DEF Producers
<1>b. credential' = credential /\ Producers' = Producers
    <2>1. \A r \in Roles, answer \in Answers : Reads(r, answer) => credential' = credential
        BY DEF Reads
    <2>2. \A r \in Roles : Skips(r) => credential' = credential
        BY DEF Skips
    <2>3. credential' = credential
        BY <2>1, <2>2, <1>a
            DEF Answers, Next, Round, Wake, CalendarRead, CalendarFails, CalendarRetained,
                CalendarMissing, CommitsAbsent, CommitsRead, CommitsFail, CommitsRetained,
                NothingDue, Serve, ServeRefused, TimePasses, ClockJumps, WorldChanges, vars, loopVars
    <2>4. QED
        BY <2>3 DEF Producers
<1> USE <1>b
<1>1. CASE Wake
    BY <1>1 DEF Wake, LoopTypeOK, OkWasRead, RoundAccounts
<1>2. CASE CalendarRead
    BY <1>2, <1>a, ReadsRecords
        DEF CalendarRead, Reads, Answers, LoopTypeOK, OkWasRead, RoundAccounts
<1>3. CASE CalendarFails
    BY <1>3, <1>a, ReadsRecords
        DEF CalendarFails, Reads, RoundFails, MarkStale, Answers, LoopTypeOK, OkWasRead,
            RoundAccounts, BiggerOf, SmallerOf
<1>4. CASE CalendarRetained
    BY <1>4 DEF CalendarRetained, Skips, LoopTypeOK, OkWasRead, RoundAccounts
<1>5. CASE CalendarMissing
    BY <1>5 DEF CalendarMissing, Skips, NothingIsDue, LoopTypeOK, OkWasRead, RoundAccounts, BiggerOf
<1>6. CASE CommitsAbsent
    BY <1>6 DEF CommitsAbsent, ToServe, LoopTypeOK, OkWasRead, RoundAccounts, Producers
<1>7. CASE CommitsRead
    <2>1. PICK r \in Roles : r = "commits" /\ Reads(r, "ok")
        BY <1>7, <1>a DEF CommitsRead
    <2>2. LoopTypeOK'
        BY <1>7, <2>1, ReadsRecords DEF CommitsRead, Reads, ToServe, Answers, LoopTypeOK
    <2>3. Producers \subseteq held' /\ \A s \in due' : last'[s] = "ok"
        BY <1>7, <2>1, <1>a, ReadsRecords
            DEF CommitsRead, ToServe, Answers, LoopTypeOK, RoundAccounts, Producers
    <2>4. (OkWasRead /\ RoundAccounts)'
        BY <1>7, <2>3, <1>a DEF CommitsRead, ToServe, OkWasRead, RoundAccounts
    <2>5. QED
        BY <2>2, <2>4
<1>8. CASE CommitsFail
    <2>1. PICK r \in Roles, answer \in {"failed", "limited"} :
            r = "commits" /\ Reads(r, answer)
        BY <1>8, <1>a DEF CommitsFail
    <2>2. answer \in Answers
        BY DEF Answers
    <2>3. LoopTypeOK'
        <3>1. due' \subseteq Roles /\ held' \subseteq Roles
                /\ last' \in [Roles -> Answers \cup {"none"}]
            BY <2>1, <2>2, ReadsRecords
        <3>2. UNCHANGED <<sleep, backoff, status, working, jumps>> /\ pc' = "serve"
                /\ live' = FALSE
            BY <1>8, <2>1 DEF CommitsFail, Reads, ToServe
        <3>4. live' \in BOOLEAN
            BY <3>2
        <3>5. QED
            BY <3>1, <3>2, <3>4, Zenon DEF LoopTypeOK
    <2>4. held \subseteq held' /\ r \in due' /\ last'[r] # "ok"
        BY <2>1, ReadsRecords DEF Answers
    <2>5. (OkWasRead /\ RoundAccounts)'
        BY <1>8, <2>4 DEF CommitsFail, ToServe, OkWasRead, RoundAccounts
    <2>6. QED
        BY <2>3, <2>5
<1>9. CASE CommitsRetained
    <2>1. LoopTypeOK'
        BY <1>9 DEF CommitsRetained, Skips, ToServe, LoopTypeOK
    <2>2. live' => Producers \subseteq held' /\ \A s \in due' : last'[s] = "ok"
        BY <1>9, <1>a DEF CommitsRetained, Skips, ToServe, RoundAccounts, Producers
    <2>3. ~live' => status # "ok"
        BY <1>9, <1>a DEF CommitsRetained, ToServe, OkWasRead
    <2>4. (OkWasRead /\ RoundAccounts)'
        BY <1>9, <2>2, <2>3 DEF CommitsRetained, Skips, ToServe, OkWasRead, RoundAccounts
    <2>5. QED
        BY <2>1, <2>4
<1>10. CASE NothingDue
    <2>1. /\ sleep' \in 0 .. BiggerOf(TTL, MaxBackoff) /\ backoff' \in 1 .. MaxBackoff
          /\ status' \in {"ok", "stale", "unavailable"}
        BY <1>10 DEF NothingDue, NothingIsDue, LoopTypeOK, BiggerOf, SmallerOf
    <2>2. live' = FALSE /\ pc' = "asleep" /\ UNCHANGED <<held, last, due, working, jumps>>
        BY <1>10 DEF NothingDue, NothingIsDue
    <2>3. LoopTypeOK'
        BY <2>1, <2>2, Zenon DEF LoopTypeOK
    <2>4. (OkWasRead /\ RoundAccounts)'
        BY <1>10, <2>2 DEF NothingDue, NothingIsDue, OkWasRead, RoundAccounts
    <2>5. QED
        BY <2>3, <2>4
<1>11. CASE Serve
    <2>1. /\ sleep' \in 0 .. BiggerOf(TTL, MaxBackoff) /\ backoff' \in 1 .. MaxBackoff
          /\ status' \in {"ok", "stale", "unavailable"}
        BY <1>11 DEF Serve, LoopTypeOK, BiggerOf, SmallerOf
    <2>2. live' = FALSE /\ pc' = "asleep" /\ UNCHANGED <<held, last, due, working, jumps>>
        BY <1>11 DEF Serve
    <2>3. LoopTypeOK'
        BY <2>1, <2>2, Zenon DEF LoopTypeOK
    <2>4. (OkWasRead /\ RoundAccounts)'
        BY <1>11, <2>2 DEF Serve, OkWasRead, RoundAccounts
    <2>5. QED
        BY <2>3, <2>4
<1>12. CASE ServeRefused
    <2>1. /\ sleep' \in 0 .. BiggerOf(TTL, MaxBackoff) /\ backoff' \in 1 .. MaxBackoff
          /\ status' \in {"ok", "stale", "unavailable"}
        BY <1>12 DEF ServeRefused, RoundFails, MarkStale, LoopTypeOK, BiggerOf, SmallerOf
    <2>2. live' = FALSE /\ pc' = "asleep" /\ UNCHANGED <<held, last, due, working, jumps>>
        BY <1>12 DEF ServeRefused, RoundFails, MarkStale
    <2>3. LoopTypeOK'
        BY <2>1, <2>2, Zenon DEF LoopTypeOK
    <2>4. (OkWasRead /\ RoundAccounts)'
        BY <1>12, <2>2 DEF ServeRefused, RoundFails, MarkStale, OkWasRead, RoundAccounts
    <2>5. QED
        BY <2>3, <2>4
<1>13. CASE TimePasses
    BY <1>13 DEF TimePasses, LoopTypeOK, OkWasRead, RoundAccounts, BiggerOf
<1>14. CASE ClockJumps
    BY <1>14 DEF ClockJumps, LoopTypeOK, OkWasRead, RoundAccounts
<1>15. CASE WorldChanges
    BY <1>15 DEF WorldChanges, Outside, Producers, LoopTypeOK, OkWasRead, RoundAccounts
<1>16. CASE UNCHANGED vars
    BY <1>16 DEF vars, loopVars, LoopTypeOK, OkWasRead, RoundAccounts
<1>17. QED
    BY <1>1, <1>2, <1>3, <1>4, <1>5, <1>6, <1>7, <1>8, <1>9, <1>10, <1>11, <1>12, <1>13,
        <1>14, <1>15, <1>16 DEF Next, Round

(* The invariant of the loop, whatever the intervals, the ceiling and the clock. *)
THEOREM LoopInvariant == Spec => []ActivityInv
<1>1. Init => ActivityInv
    BY ActivityInvInit
<1>2. ActivityInv /\ [Next]_vars => ActivityInv'
    BY ActivityInvStep
<1>3. QED
    BY <1>1, <1>2, PTL DEF Spec

(* Ok means that this process has read every half it asks for. *)
THEOREM OkOnlyOfWhatWasRead == Spec => []OkWasRead
<1>1. ActivityInv => OkWasRead
    BY DEF ActivityInv
<1>2. QED
    BY <1>1, LoopInvariant, PTL

(* A round in which something failed never ends ok. *)
LEMMA FailingRoundEndsStale ==
    ASSUME ActivityInv, [Next]_vars, pc # "asleep", pc' = "asleep",
           \/ \E r \in due' : last'[r] # "ok"
           \/ due' # {} /\ pc = "serve" /\ "fits" \notin working
    PROVE  status' # "ok"
<1> USE DEF ActivityInv
<1>1. CASE CalendarFails
    BY <1>1 DEF CalendarFails, RoundFails, MarkStale
<1>2. CASE CalendarMissing
    BY <1>2 DEF CalendarMissing, Skips, RoundAccounts
<1>3. CASE NothingDue
    BY <1>3 DEF NothingDue
<1>4. CASE Serve
    BY <1>4 DEF Serve, RoundAccounts
<1>5. CASE ServeRefused
    BY <1>5 DEF ServeRefused, RoundFails, MarkStale
<1>6. CASE UNCHANGED vars
    BY <1>6 DEF vars, loopVars
<1>7. QED
    BY <1>1, <1>2, <1>3, <1>4, <1>5, <1>6
        DEF Next, Round, Wake, CalendarRead, CalendarRetained, CommitsAbsent, CommitsRead,
            CommitsFail, CommitsRetained, ToServe, TimePasses, ClockJumps, WorldChanges

(* Every failure shows, for every set of intervals. *)
THEOREM EveryFailureIsReported == Spec => FailureIsReported
<1>1. ActivityInv /\ [Next]_vars =>
        [(pc # "asleep" /\ pc' = "asleep"
            /\ \/ \E r \in due' : last'[r] # "ok"
               \/ due' # {} /\ pc = "serve" /\ "fits" \notin working)
         => status' # "ok"]_vars
    BY FailingRoundEndsStale
<1>2. QED
    BY <1>1, LoopInvariant, PTL DEF Spec, FailureIsReported

(* Only a failure turns an ok panel stale. *)
LEMMA OnlyFailuresTurnStale ==
    ASSUME ActivityInv, [Next]_vars, status = "ok", status' # "ok"
    PROVE  (\E r \in due' : last'[r] # "ok") \/ "fits" \notin working
<1> USE DEF ActivityInv
<1>1. CASE CalendarFails
    <2>1. PICK answer \in {"failed", "limited"} : Reads("calendar", answer)
        BY <1>1 DEF CalendarFails
    <2>2. "calendar" \in Roles /\ answer \in Answers
        BY ActivityAssumption DEF Answers
    <2>3. "calendar" \in due' /\ last'["calendar"] # "ok"
        BY <2>1, <2>2, ReadsRecords
    <2>4. QED
        BY <2>3
<1>2. CASE Serve
    BY <1>2 DEF Serve, RoundAccounts
<1>3. CASE ServeRefused
    BY <1>3 DEF ServeRefused
<1>4. CASE UNCHANGED vars
    BY <1>4 DEF vars, loopVars
<1>5. QED
    BY <1>1, <1>2, <1>3, <1>4
        DEF Next, Round, Wake, CalendarRead, CalendarRetained, CalendarMissing, CommitsAbsent,
            CommitsRead, CommitsFail, CommitsRetained, ToServe, NothingDue, NothingIsDue,
            TimePasses, ClockJumps, WorldChanges

(* Being held back never does. *)
THEOREM HoldingBackIsNoFailure == Spec => PolitenessIsNotStaleness
<1>1. ActivityInv /\ [Next]_vars =>
        [(status = "ok" /\ status' # "ok")
         => \/ \E r \in due' : last'[r] # "ok"
            \/ "fits" \notin working]_vars
    BY OnlyFailuresTurnStale
<1>2. QED
    BY <1>1, LoopInvariant, PTL DEF Spec, PolitenessIsNotStaleness
=============================================================================
