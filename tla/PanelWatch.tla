----------------------------- MODULE PanelWatch -----------------------------
(***************************************************************************)
(* The page's polling of one panel (watchPanel, startWatch): blocks that   *)
(* come and go share one loop, the loop has at most one read in flight,    *)
(* keeps the last good envelope over a failed read, rests while the page   *)
(* is hidden, and ends with its last reader, perhaps before its read does. *)
(***************************************************************************)
EXTENDS Integers

CONSTANTS
    Blocks,      \* the blocks that read the panel
    MaxLoops,    \* bound on the loops started
    MaxVersion   \* bound on what the origin has to say

ASSUME WatchAssumption == MaxLoops \in Nat /\ MaxVersion \in Nat \ {0}

VARIABLES
    mounted,      \* the blocks on the page that read the panel
    current,      \* the loop in sharedLoops, or NoLoop
    started,      \* how many loops there have been
    subscribers,  \* the readers of each loop
    last,         \* what each loop delivered last
    lastGood,     \* the envelope each loop keeps over a failed read
    flight,       \* each loop's read
    settled,      \* the loops that left the pending count
    pending,      \* panelsPending, this panel's share
    hidden,       \* the page is hidden
    online,       \* reads come through
    origin,       \* the envelope the origin serves
    shown,        \* what each block shows
    newest        \* history: the newest of the origin's envelopes it has shown

loopVars == <<current, started, subscribers, last, lastGood, flight, settled, pending>>

vars == <<mounted, loopVars, hidden, online, origin, shown, newest>>

Loops == 1 .. MaxLoops

NoLoop == 0

Envelopes == [of : 1 .. MaxVersion, status : {"ok", "stale", "unavailable"}]

(* What a read that failed amounts to: it has no kind, here no version. *)
Failed == [of |-> 0, status |-> "unavailable"]

Nothing == [of |-> 0, status |-> "none"]

Idle == [of |-> 0, status |-> "idle"]

Asked == [of |-> 0, status |-> "asked"]

TypeOK ==
    /\ mounted \subseteq Blocks
    /\ current \in Loops \cup {NoLoop}
    /\ started \in 0 .. MaxLoops
    /\ subscribers \in [Loops -> SUBSET Blocks]
    /\ last \in [Loops -> Envelopes \cup {Failed, Nothing}]
    /\ lastGood \in [Loops -> Envelopes \cup {Nothing}]
    /\ flight \in [Loops -> Envelopes \cup {Failed, Idle, Asked}]
    /\ settled \subseteq Loops
    /\ pending \in 0 .. 1
    /\ hidden \in BOOLEAN /\ online \in BOOLEAN
    /\ origin \in Envelopes
    /\ shown \in [Blocks -> Envelopes \cup {Failed, Nothing}]
    /\ newest \in [Blocks -> 0 .. MaxVersion]

Init ==
    /\ mounted = {}
    /\ current = NoLoop /\ started = 0
    /\ subscribers = [l \in Loops |-> {}]
    /\ last = [l \in Loops |-> Nothing] /\ lastGood = [l \in Loops |-> Nothing]
    /\ flight = [l \in Loops |-> Idle]
    /\ settled = {} /\ pending = 0
    /\ hidden \in BOOLEAN /\ online \in BOOLEAN
    /\ origin \in {e \in Envelopes : e.of = 1}
    /\ shown = [b \in Blocks |-> Nothing] /\ newest = [b \in Blocks |-> 0]

(* One exit from the pending count, by delivery or by stop. *)
Settle(l) ==
    /\ settled' = settled \cup {l}
    /\ pending' = IF l \in settled THEN pending ELSE pending - 1

(* read(true): a read of its own, or the one in flight. *)
ReadNow(l) == flight' = IF flight[l] = Idle THEN [flight EXCEPT ![l] = Asked] ELSE flight

-----------------------------------------------------------------------------
(* The blocks. *)

(* The first reader starts a loop, which reads at once, hidden or not. *)
WatchFirst(b) ==
    /\ b \notin mounted /\ mounted' = mounted \cup {b}
    /\ current = NoLoop /\ started < MaxLoops
    /\ started' = started + 1 /\ current' = started'
    /\ subscribers' = [subscribers EXCEPT ![started'] = {b}]
    /\ flight' = [flight EXCEPT ![started'] = Asked]
    /\ pending' = pending + 1
    /\ shown' = [shown EXCEPT ![b] = Nothing]
    /\ UNCHANGED <<last, lastGood, settled, hidden, online, origin, newest>>

(* A later reader joins it and is handed the last envelope. *)
WatchShared(b) ==
    /\ b \notin mounted /\ mounted' = mounted \cup {b}
    /\ current # NoLoop
    /\ subscribers' = [subscribers EXCEPT ![current] = @ \cup {b}]
    /\ shown' = [shown EXCEPT ![b] = last[current]]
    /\ newest' = [newest EXCEPT ![b] = IF last[current].of > 0 THEN last[current].of ELSE @]
    /\ UNCHANGED <<current, started, last, lastGood, flight, settled, pending, hidden, online, origin>>

(* The last reader ends the loop; a read in flight goes on. *)
Stop(b) ==
    /\ b \in mounted /\ mounted' = mounted \ {b}
    /\ subscribers' = [subscribers EXCEPT ![current] = @ \ {b}]
    /\ IF subscribers[current] = {b}
       THEN current' = NoLoop /\ Settle(current)
       ELSE UNCHANGED <<current, settled, pending>>
    /\ UNCHANGED <<started, last, lastGood, flight, hidden, online, origin, shown, newest>>

(* refresh(): a forced read. *)
Refresh(b) ==
    /\ b \in mounted /\ flight[current] = Idle
    /\ ReadNow(current)
    /\ UNCHANGED <<mounted, current, started, subscribers, last, lastGood, settled, pending,
                   hidden, online, origin, shown, newest>>

-----------------------------------------------------------------------------
(* The loop. *)

Tick ==
    /\ current # NoLoop /\ ~hidden /\ flight[current] = Idle
    /\ ReadNow(current)
    /\ UNCHANGED <<mounted, current, started, subscribers, last, lastGood, settled, pending,
                   hidden, online, origin, shown, newest>>

(* What a read that settled makes the loop deliver. *)
Delivery(l) ==
    IF flight[l].of = 0 /\ lastGood[l] # Nothing
    THEN [lastGood[l] EXCEPT !.status = "stale"]
    ELSE flight[l]

(* Mutant: the first good envelope is kept. *)
KeepsFirst(l) ==
    lastGood' = IF flight[l].of = 0 \/ lastGood[l] # Nothing THEN lastGood
                ELSE [lastGood EXCEPT ![l] =
                        IF flight[l].status = "unavailable" THEN Nothing ELSE flight[l]]

(* The origin's own unavailable forgets the last good envelope. *)
Keeps(l) ==
    lastGood' = IF flight[l].of = 0 THEN lastGood
                ELSE [lastGood EXCEPT ![l] =
                        IF flight[l].status = "unavailable" THEN Nothing ELSE flight[l]]

(* Mutant: a failed read leaves the loop in flight. *)
ArriveWedged(l) ==
    /\ l = current /\ flight[l] \notin {Idle, Asked}
    /\ flight' = IF flight[l] = Failed THEN flight ELSE [flight EXCEPT ![l] = Idle]
    /\ Settle(l)
    /\ Keeps(l)
    /\ last' = [last EXCEPT ![l] = Delivery(l)]
    /\ shown' = [b \in Blocks |-> IF b \in subscribers[l] THEN Delivery(l) ELSE shown[b]]
    /\ newest' = [b \in Blocks |-> IF b \in subscribers[l] /\ Delivery(l).of > 0
                                   THEN Delivery(l).of ELSE newest[b]]
    /\ UNCHANGED <<mounted, current, started, subscribers, hidden, online, origin>>

(* A read of the running loop settles and is delivered to its readers. *)
Arrive(l) ==
    /\ l = current /\ flight[l] \notin {Idle, Asked}
    /\ flight' = [flight EXCEPT ![l] = Idle]
    /\ Settle(l)
    /\ Keeps(l)
    /\ last' = [last EXCEPT ![l] = Delivery(l)]
    /\ shown' = [b \in Blocks |-> IF b \in subscribers[l] THEN Delivery(l) ELSE shown[b]]
    /\ newest' = [b \in Blocks |-> IF b \in subscribers[l] /\ Delivery(l).of > 0
                                   THEN Delivery(l).of ELSE newest[b]]
    /\ UNCHANGED <<mounted, current, started, subscribers, hidden, online, origin>>

(* After stop a read settles and is dropped. *)
ArriveLate(l) ==
    /\ l # current /\ flight[l] \notin {Idle, Asked}
    /\ flight' = [flight EXCEPT ![l] = Idle]
    /\ Settle(l)
    /\ UNCHANGED <<mounted, current, started, subscribers, last, lastGood, hidden, online, origin, shown, newest>>

-----------------------------------------------------------------------------
(* The world. *)

(* The origin answers with what it serves then; the answer is still to arrive. *)
Answer(l) ==
    /\ flight[l] = Asked
    /\ flight' = [flight EXCEPT ![l] = IF online THEN origin ELSE Failed]
    /\ UNCHANGED <<mounted, current, started, subscribers, last, lastGood, settled, pending,
                   hidden, online, origin, shown, newest>>

OriginChanges ==
    /\ origin.of < MaxVersion
    /\ origin' \in {e \in Envelopes : e.of = origin.of + 1}
    /\ UNCHANGED <<mounted, loopVars, hidden, online, shown, newest>>

NetworkChanges ==
    /\ online' = ~online
    /\ UNCHANGED <<mounted, loopVars, hidden, origin, shown, newest>>

Hide ==
    /\ ~hidden /\ hidden' = TRUE
    /\ UNCHANGED <<mounted, loopVars, online, origin, shown, newest>>

(* Becoming visible forces a read. *)
Show ==
    /\ hidden /\ hidden' = FALSE
    /\ IF current # NoLoop THEN ReadNow(current) ELSE UNCHANGED flight
    /\ UNCHANGED <<mounted, current, started, subscribers, last, lastGood, settled, pending,
                   online, origin, shown, newest>>

Next ==
    \/ \E b \in Blocks : WatchFirst(b) \/ WatchShared(b) \/ Stop(b) \/ Refresh(b)
    \/ Tick
    \/ \E l \in Loops : Arrive(l) \/ ArriveLate(l) \/ Answer(l)
    \/ OriginChanges \/ NetworkChanges \/ Hide \/ Show

Spec == Init /\ [][Next]_vars

(* The interval fires while the page is visible, and the browser settles every
   request, with an answer or an error; no reader, visitor or network is owed. *)
FairSpec ==
    /\ Spec /\ WF_vars(Tick)
    /\ \A l \in Loops : WF_vars(Answer(l)) /\ WF_vars(Arrive(l) \/ ArriveLate(l))

-----------------------------------------------------------------------------

(* Blocks that read one panel never disagree: a reader that joins late, or
   while a read is out, shows what the others show. *)
AllShowTheSame == \A b, c \in mounted : shown[b] = shown[c]

(* "It is an honest state": the panel is counted as pending exactly while a
   block that reads it has received nothing, however stops and answers race. *)
PendingIsHonest == pending = IF \E b \in mounted : shown[b] = Nothing THEN 1 ELSE 0

(* No block is handed an older envelope of the origin than it has shown, be it
   by a late answer, the kept envelope, or the one handed over on joining. *)
NothingOlderIsShown == [][\A b \in Blocks : newest'[b] >= newest[b]]_vars

(* "After stop() nothing is delivered, even from a read already in flight":
   what a block shows changes only while it is mounted. *)
NothingAfterStop == [][\A b \in Blocks : shown'[b] # shown[b] => b \in mounted']_vars

HasData(e) == e.status \in {"ok", "stale"}

(* A failed read neither blanks a block that shows data, nor passes data off as
   current, nor brings back what the origin took away. *)
DataIsKept ==
    [][\A b \in mounted \cap mounted' :
        /\ HasData(shown[b]) => shown'[b] # Failed
        /\ HasData(shown'[b]) /\ ~HasData(shown[b]) => shown'[b].of > shown[b].of
        /\ flight[current] = Failed /\ flight'[current] = Idle => shown'[b].status # "ok"]_vars

(* Why: the running loop has every mounted block as its reader, and each shows
   what the loop delivered last. *)
LoopsAreOrdered ==
    /\ current # NoLoop <=> mounted # {}
    /\ current # NoLoop =>
        /\ current = started /\ subscribers[current] = mounted
        /\ current \in settled <=> last[current] # Nothing
        /\ lastGood[current] # Nothing => HasData(lastGood[current]) /\ HasData(last[current])
        /\ HasData(last[current]) => lastGood[current].of = last[current].of
        /\ \A b \in mounted : shown[b] = last[current]
    /\ \A l \in Loops : l <= started /\ l # current => l \in settled /\ subscribers[l] = {}
    /\ \A l \in Loops : l > started =>
        /\ flight[l] = Idle /\ l \notin settled /\ subscribers[l] = {}
        /\ last[l] = Nothing /\ lastGood[l] = Nothing

(* And all that is to come is at least as new as anything shown, and another
   answer if it is newer. *)
NewsIsNew ==
    /\ \A b \in Blocks : newest[b] <= origin.of
    /\ current # NoLoop =>
        /\ \A e \in {flight[current], last[current], lastGood[current]} :
            e.of > 0 => e.of <= origin.of /\ \A b \in Blocks : newest[b] <= e.of
        /\ \A e \in {flight[current], last[current]} : e.of = origin.of /\ ~HasData(e) => e = origin
        /\ flight[current].of > 0 =>
            /\ last[current].of <= flight[current].of
            /\ last[current].of = flight[current].of /\ ~HasData(last[current])
                => flight[current] = last[current]

WatchInv == TypeOK /\ LoopsAreOrdered /\ NewsIsNew /\ PendingIsHonest

(* A reader of a visible page comes to show what the origin serves, once reads
   come through. *)
VisibleCatchesUp ==
    \A b \in Blocks :
        <>[](b \in mounted /\ ~hidden /\ online) => <>[](shown[b] = origin)
=============================================================================
