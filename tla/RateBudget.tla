----------------------------- MODULE RateBudget -----------------------------
(***************************************************************************)
(* The per-role rate budgets of a live panel source (reserve, cool,        *)
(* coolOnRateLimit): when may an upstream be asked, over a wall clock that *)
(* may be stepped in either direction.                                     *)
(*                                                                         *)
(* The code keeps two instants per role, the last attempt and the end of   *)
(* a cooldown, and only ever compares them with the current reading.  The  *)
(* model keeps the two differences, so that time needs no bound: age is    *)
(* now - attempt, remaining is cooldown end - now.                         *)
(***************************************************************************)
EXTENDS Integers

CONSTANTS
    Roles,       \* the budgeted roles of the source
    Budget,      \* the interval of each role, 0 when it declares none
    MaxBackoff,  \* the backoff ceiling, which is also the cooldown
    MaxStep,     \* bound: how far the clock may stand back from an instant
    Longest      \* bound: differences beyond it are not told apart

BiggerOf(i, j) == IF i > j THEN i ELSE j
SmallerOf(i, j) == IF i < j THEN i ELSE j

ASSUME BudgetAssumption ==
    /\ Budget \in [Roles -> Nat]
    /\ MaxBackoff \in Nat \ {0}
    /\ MaxStep \in Nat
    /\ Longest \in Nat /\ Longest >= MaxBackoff
    /\ \A r \in Roles : Longest >= Budget[r]

VARIABLES
    asked,      \* the roles with a recorded attempt
    age,        \* how long ago it was; negative once the clock stepped back
    gated,      \* the roles with a recorded cooldown
    remaining,  \* what is left of it; negative once it is over
    apart,      \* history: since the last request, on a clock that never steps back
    calm,       \* history: the same since the last refusal for rate reasons
    refused     \* history: how long the role has been held back, -1 if it is not

budgetVars == <<asked, age, gated, remaining, apart, calm, refused>>

Answers == {"ok", "failed", "limited"}

Quietest == MaxBackoff + MaxStep

BudgetTypeOK ==
    /\ asked \subseteq Roles
    /\ age \in [Roles -> -MaxStep .. Longest]
    /\ gated \subseteq Roles
    /\ remaining \in [Roles -> -MaxStep .. MaxBackoff + MaxStep]
    /\ apart \in [Roles -> 0 .. Longest]
    /\ calm \in [Roles -> 0 .. Quietest]
    /\ refused \in [Roles -> -1 .. Longest]

BudgetInit ==
    /\ asked = {}
    /\ age = [r \in Roles |-> Longest]
    /\ gated = {}
    /\ remaining = [r \in Roles |-> -MaxStep]
    /\ apart = [r \in Roles |-> Longest]
    /\ calm = [r \in Roles |-> Quietest]
    /\ refused = [r \in Roles |-> -1]

Cooling(r) == r \in gated /\ remaining[r] > 0

Recent(r) == r \in asked /\ age[r] < Budget[r]

(* reserve admits an attempt: no cooldown runs and the interval has elapsed. *)
Due(r) == ~Cooling(r) /\ ~Recent(r)

(* An admitted attempt costs its interval whatever it brings; a refusal for
   rate reasons also starts the cooldown. *)
Asks(r, answer) ==
    /\ Due(r)
    /\ asked' = IF Budget[r] > 0 THEN asked \cup {r} ELSE asked
    /\ age' = IF Budget[r] > 0 THEN [age EXCEPT ![r] = 0] ELSE age
    /\ gated' = IF answer = "limited" THEN gated \cup {r} ELSE gated
    /\ remaining' = IF answer = "limited" THEN [remaining EXCEPT ![r] = MaxBackoff] ELSE remaining
    /\ apart' = [apart EXCEPT ![r] = 0]
    /\ calm' = IF answer = "limited" THEN [calm EXCEPT ![r] = 0] ELSE calm
    /\ refused' = [refused EXCEPT ![r] = -1]

(* Mutant: an instant in the future is believed. *)
HeldBackByTheFuture(r) ==
    /\ ~Due(r)
    /\ refused' = [refused EXCEPT ![r] = BiggerOf(@, 0)]
    /\ UNCHANGED <<asked, age, gated, remaining, apart, calm>>

(* A refused attempt re-anchors what can only come from a clock that stepped
   back: an attempt in the future, a cooldown longer than any this source sets. *)
HeldBack(r) ==
    /\ ~Due(r)
    /\ age' = IF r \in asked THEN [age EXCEPT ![r] = BiggerOf(@, 0)] ELSE age
    /\ remaining' = IF r \in gated THEN [remaining EXCEPT ![r] = SmallerOf(@, MaxBackoff)]
                                   ELSE remaining
    /\ refused' = [refused EXCEPT ![r] = BiggerOf(@, 0)]
    /\ UNCHANGED <<asked, gated, apart, calm>>

(* The wall clock moves forward, by the passing of time or by a step. *)
Later(k) ==
    /\ age' = [r \in Roles |-> IF r \in asked THEN SmallerOf(age[r] + k, Longest) ELSE age[r]]
    /\ remaining' = [r \in Roles |->
                        IF r \in gated THEN BiggerOf(remaining[r] - k, -MaxStep) ELSE remaining[r]]
    /\ apart' = [r \in Roles |-> SmallerOf(apart[r] + k, Longest)]
    /\ calm' = [r \in Roles |-> SmallerOf(calm[r] + k, Quietest)]
    /\ refused' = [r \in Roles |-> IF refused[r] < 0 THEN -1 ELSE SmallerOf(refused[r] + k, Longest)]
    /\ UNCHANGED <<asked, gated>>

(* It is stepped back.  A difference at its bound may stand for a larger one,
   which the step need not bring below the bound. *)
Earlier(k) ==
    /\ \A r \in Roles : age[r] - k >= -MaxStep /\ remaining[r] + k <= MaxBackoff + MaxStep
    /\ \E i, j \in [Roles -> 0 .. k] :
        /\ age' = [r \in Roles |->
                    IF r \notin asked THEN age[r]
                    ELSE IF age[r] = Longest THEN age[r] - i[r] ELSE age[r] - k]
        /\ remaining' = [r \in Roles |->
                    IF r \notin gated THEN remaining[r]
                    ELSE IF remaining[r] = -MaxStep THEN remaining[r] + j[r] ELSE remaining[r] + k]
    /\ refused' = [r \in Roles |-> -1]
    /\ UNCHANGED <<asked, gated, apart, calm>>

BudgetNext ==
    \/ \E r \in Roles : HeldBack(r) \/ \E answer \in Answers : Asks(r, answer)
    \/ \E k \in 1 .. MaxStep : Later(k) \/ Earlier(k)
    \/ Later(1)

BudgetSpec == BudgetInit /\ [][BudgetNext]_budgetVars

-----------------------------------------------------------------------------

(* On a clock that never steps back two requests of one role are at least its
   interval apart, and none follows a refusal for rate reasons within the
   cooldown: stepping the real clock back, or failing, buys no extra request
   ("an attempt costs its interval whether it succeeds, fails, or times out"). *)
BudgetKept ==
    [][\A r \in Roles : apart'[r] < apart[r] =>
            apart[r] >= Budget[r] /\ calm[r] >= MaxBackoff]_budgetVars

(* "A wall clock that steps backwards cannot freeze a role": once reserve has
   looked at a role on a settled clock, it is held back for no longer than one
   interval or one cooldown. *)
NeverFrozen ==
    \A r \in Roles : refused[r] >= BiggerOf(Budget[r], MaxBackoff) => Due(r)

(* Why: the recorded instants are never older than what they record, and after
   the first refusal they are not in the future either. *)
RecordsAreYoung(r) ==
    /\ r \in asked => Budget[r] > 0 /\ age[r] <= apart[r]
    /\ r \notin asked /\ Budget[r] > 0 => apart[r] = Longest
    /\ r \in gated => MaxBackoff - remaining[r] <= calm[r]
    /\ r \notin gated => calm[r] = Quietest

RefusalsAreSettled(r) ==
    refused[r] >= 0 =>
        /\ r \in asked => age[r] >= refused[r]
        /\ r \in gated => remaining[r] <= BiggerOf(MaxBackoff - refused[r], 0)

BudgetInv == BudgetTypeOK /\ \A r \in Roles : RecordsAreYoung(r) /\ RefusalsAreSettled(r)
=============================================================================
