-------------------------- MODULE PanelWatchProofs --------------------------
(***************************************************************************)
(* Proofs about the two ends of the panel API.  Of Registry, for every     *)
(* number of panels: a settled panel is listed as it is served.  Of        *)
(* PanelWatch, for every set of blocks and every number of                 *)
(* loops and of the origin's envelopes: blocks agree, nothing older is     *)
(* shown, a failed read takes nothing away, and the panel is counted as    *)
(* pending exactly while a block waits.                                    *)
(***************************************************************************)
EXTENDS PanelWatch, Registry, TLAPS

----------------------------------------------------------------------------
(* The panels and their index. *)

(* Every step keeps the invariant. *)
LEMMA RegistryInvStep == RegistryInv /\ [RegistryNext]_registryVars => RegistryInv'
<1> SUFFICES ASSUME RegistryInv, [RegistryNext]_registryVars PROVE RegistryInv'
    OBVIOUS
<1> USE CountAssumption DEF RegistryInv, RegistryTypeOK, Panels, Nobody
<1>1. ASSUME NEW p \in Panels, NEW s \in {"ok", "stale"}, Swap(p, s) PROVE RegistryInv'
    <2>1. s \in Statuses
        BY DEF Statuses
    <2>2. RegistryTypeOK'
        BY <1>1, <2>1 DEF Swap
    <2>3. ASSUME NEW q \in Panels, pc'[q] = "idle" PROVE index'[q] = status'[q]
        BY <1>1, <2>3 DEF Swap, IndexIsCurrent
    <2>4. ASSUME NEW q \in Panels PROVE RowsAgree(q)'
        <3>1. UNCHANGED <<rows, mutex>> /\ (pc'[q] = "listing" <=> pc[q] = "listing")
            BY <1>1 DEF Swap
        <3>2. ASSUME NEW r \in 1 .. Len(rows[q]), pc'[r] # "swapped"
              PROVE  rows[q][r] = status'[r]
            <4>1. r \in Panels /\ Len(rows[q]) <= N
                BY DEF RowsAgree
            <4>2. r # p
                BY <1>1, <3>2, <4>1 DEF Swap
            <4>3. pc'[r] = pc[r] /\ status'[r] = status[r]
                BY <1>1, <4>1, <4>2 DEF Swap
            <4>4. QED
                BY <3>2, <4>3 DEF RowsAgree
        <3>3. QED
            BY <3>1, <3>2 DEF RowsAgree
    <2>5. QED
        BY <2>2, <2>3, <2>4 DEF IndexIsCurrent
<1>2. ASSUME NEW p \in Panels, Lock(p) PROVE RegistryInv'
    <2>1. RegistryTypeOK' /\ IndexIsCurrent'
        BY <1>2 DEF Lock, IndexIsCurrent
    <2>2. ASSUME NEW q \in Panels PROVE RowsAgree(q)'
        BY <1>2, <2>2 DEF Lock, RowsAgree
    <2>3. QED
        BY <2>1, <2>2
<1>3. ASSUME NEW p \in Panels, List(p) PROVE RegistryInv'
    <2>1. Len(rows[p]) \in Nat /\ status[Len(rows[p]) + 1] \in Statuses
        BY <1>3 DEF List
    <2>2. RegistryTypeOK' /\ IndexIsCurrent'
        BY <1>3, <2>1 DEF List, IndexIsCurrent
    <2>3. ASSUME NEW q \in Panels PROVE RowsAgree(q)'
        BY <1>3, <2>1, <2>3 DEF List, RowsAgree
    <2>4. QED
        BY <2>2, <2>3
<1>4. ASSUME NEW p \in Panels, StoreIndex(p) PROVE RegistryInv'
    <2>1. rows[p] \in [1 .. N -> Statuses]
        BY <1>4 DEF StoreIndex
    <2>2. RegistryTypeOK'
        BY <1>4, <2>1 DEF StoreIndex
    <2>3. ASSUME NEW q \in Panels, pc'[q] = "idle" PROVE index'[q] = status'[q]
        BY <1>4, <2>1, <2>3 DEF StoreIndex, RowsAgree
    <2>4. ASSUME NEW q \in Panels PROVE RowsAgree(q)'
        BY <1>4, <2>4 DEF StoreIndex, RowsAgree
    <2>5. QED
        BY <2>2, <2>3, <2>4 DEF IndexIsCurrent
<1>5. CASE UNCHANGED registryVars
    BY <1>5 DEF registryVars, IndexIsCurrent, RowsAgree
<1>6. QED
    BY <1>1, <1>2, <1>3, <1>4, <1>5 DEF RegistryNext, Rebuild

(* The rows of a rebuild and the listed statuses agree with the panels, for
   every number of panels. *)
THEOREM RegistryInvariant == RegistrySpec => []RegistryInv
<1>1. RegistryInit => RegistryInv
    BY CountAssumption
        DEF RegistryInit, RegistryInv, RegistryTypeOK, Panels, Nobody, Statuses, IndexIsCurrent, RowsAgree
<1>2. QED
    BY <1>1, RegistryInvStep, PTL DEF RegistrySpec

(* A panel whose producer is done with it is listed as it is served. *)
THEOREM IndexTellsTheTruth == RegistrySpec => []IndexIsCurrent
<1>1. RegistryInv => IndexIsCurrent
    BY DEF RegistryInv
<1>2. QED
    BY <1>1, RegistryInvariant, PTL

----------------------------------------------------------------------------
(* The blocks and their loops. *)

(* The special envelopes are told apart. *)
LEMMA Special ==
    /\ Failed \notin {Nothing, Idle, Asked} /\ Nothing \notin {Idle, Asked} /\ Idle # Asked
    /\ \A e \in Envelopes : e \notin {Failed, Nothing, Idle, Asked} /\ e.of \in 1 .. MaxVersion
    /\ \A e \in {Failed, Nothing, Idle, Asked} : e.of = 0 /\ ~HasData(e)
BY WatchAssumption DEF Failed, Nothing, Idle, Asked, Envelopes, HasData

(* An envelope marked stale is the same version, with data. *)
LEMMA MarkedStale ==
    ASSUME NEW e \in Envelopes
    PROVE  /\ [e EXCEPT !.status = "stale"] \in Envelopes
           /\ [e EXCEPT !.status = "stale"].of = e.of
           /\ [e EXCEPT !.status = "stale"].status = "stale"
           /\ HasData([e EXCEPT !.status = "stale"])
BY DEF Envelopes, HasData

(* What a settled read delivers. *)
LEMMA DeliveryIs ==
    ASSUME TypeOK, NEW l \in Loops, flight[l] \notin {Idle, Asked}
    PROVE  \/ /\ flight[l] \in Envelopes /\ Delivery(l) = flight[l] /\ flight[l].of > 0
           \/ /\ flight[l] = Failed /\ lastGood[l] = Nothing /\ Delivery(l) = Failed
           \/ /\ flight[l] = Failed /\ lastGood[l] \in Envelopes
              /\ Delivery(l) \in Envelopes /\ Delivery(l).of = lastGood[l].of
              /\ Delivery(l).status = "stale"
<1>1. flight[l] \in Envelopes \/ flight[l] = Failed
    BY DEF TypeOK
<1>2. CASE flight[l] \in Envelopes
    BY <1>2, Special DEF Delivery
<1>3. CASE flight[l] = Failed
    BY <1>3, Special, MarkedStale DEF Delivery, TypeOK
<1>4. QED
    BY <1>1, <1>2, <1>3

(* The invariant holds initially. *)
LEMMA WatchInvInit == Init => WatchInv
<1> SUFFICES ASSUME Init PROVE WatchInv
    OBVIOUS
<1> USE WatchAssumption DEF Init
<1>1. origin \in Envelopes /\ origin.of = 1
    OBVIOUS
<1>2. TypeOK
    BY <1>1 DEF TypeOK, Loops, NoLoop
<1>3. LoopsAreOrdered /\ NewsIsNew /\ PendingIsHonest
    BY <1>1 DEF LoopsAreOrdered, NewsIsNew, PendingIsHonest, Loops, NoLoop
<1>4. QED
    BY <1>2, <1>3 DEF WatchInv

(* Nothing shows while the loop has delivered nothing, and the other way round. *)
LEMMA PendingIsTheLoops ==
    ASSUME WatchInv
    PROVE  pending = IF current # NoLoop /\ current \notin settled THEN 1 ELSE 0
BY DEF WatchInv, PendingIsHonest, LoopsAreOrdered

LEMMA WatchFirstKeeps ==
    ASSUME WatchInv, NEW b \in Blocks, WatchFirst(b) PROVE WatchInv'
<1> USE WatchAssumption DEF WatchInv
<1>1. started + 1 \in Loops /\ started' = started + 1 /\ started' \notin settled /\ current' = started'
        /\ current' # NoLoop /\ mounted = {} /\ mounted' = {b}
    BY DEF WatchFirst, TypeOK, Loops, NoLoop, LoopsAreOrdered
<1>2. last[started'] = Nothing /\ lastGood[started'] = Nothing /\ subscribers'[started'] = {b}
        /\ flight'[started'] = Asked /\ shown'[b] = Nothing
    BY <1>1 DEF WatchFirst, TypeOK, LoopsAreOrdered
<1>3. TypeOK'
    <2>1. pending = 0 /\ pending' = 1
        BY PendingIsTheLoops DEF WatchFirst
    <2>2. QED
        BY <1>1, <2>1 DEF WatchFirst, TypeOK
<1>4. LoopsAreOrdered'
    <2>1. \A l \in Loops : l # started' => subscribers'[l] = subscribers[l] /\ flight'[l] = flight[l]
        BY <1>1 DEF WatchFirst, TypeOK
    <2>2. \A l \in Loops : l <= started => l \in settled /\ subscribers[l] = {}
        BY DEF WatchFirst, LoopsAreOrdered, TypeOK, Loops, NoLoop
    <2>3. UNCHANGED <<last, lastGood, settled>>
        BY DEF WatchFirst
    <2>4. \A l \in Loops : l <= started' /\ l # current' => l \in settled' /\ subscribers'[l] = {}
        BY <1>1, <2>1, <2>2, <2>3 DEF Loops, TypeOK
    <2>5. \A l \in Loops : l > started' =>
            /\ flight'[l] = Idle /\ l \notin settled' /\ subscribers'[l] = {}
            /\ last'[l] = Nothing /\ lastGood'[l] = Nothing
        BY <1>1, <2>1, <2>3 DEF Loops, TypeOK, LoopsAreOrdered
    <2>6. QED
        BY <1>1, <1>2, <2>3, <2>4, <2>5, Special DEF LoopsAreOrdered
<1>5. NewsIsNew'
    <2>1. UNCHANGED <<last, lastGood, origin, newest>>
        BY DEF WatchFirst
    <2>2. origin \in Envelopes
        BY DEF TypeOK
    <2>3. QED
        BY <1>1, <1>2, <2>1, <2>2, Special DEF NewsIsNew
<1>6. PendingIsHonest'
    BY <1>1, <1>2, PendingIsTheLoops DEF WatchFirst, PendingIsHonest
<1>7. QED
    BY <1>3, <1>4, <1>5, <1>6

LEMMA WatchSharedKeeps ==
    ASSUME WatchInv, NEW b \in Blocks, WatchShared(b) PROVE WatchInv'
<1> USE WatchAssumption DEF WatchInv
<1>1. current \in Loops /\ current # NoLoop /\ last[current] \in Envelopes \cup {Failed, Nothing}
    BY DEF WatchShared, TypeOK
<1>2. UNCHANGED <<current, started, last, lastGood, flight, settled, pending, hidden, online, origin>>
        /\ mounted' = mounted \cup {b} /\ shown' = [shown EXCEPT ![b] = last[current]]
        /\ subscribers' = [subscribers EXCEPT ![current] = @ \cup {b}]
    BY DEF WatchShared
<1>3. newest' \in [Blocks -> 0 .. MaxVersion] /\ \A c \in Blocks :
            (newest'[c] = newest[c] \/ (last[current].of > 0 /\ newest'[c] = last[current].of))
    <2>1. last[current].of \in 0 .. MaxVersion
        BY <1>1, Special
    <2>2. newest \in [Blocks -> 0 .. MaxVersion]
        BY DEF TypeOK
    <2> DEFINE n == IF last[current].of > 0 THEN last[current].of ELSE newest[b]
    <2>3. newest' = [newest EXCEPT ![b] = n] /\ n \in 0 .. MaxVersion
        BY <2>1, <2>2 DEF WatchShared
    <2>4. n = newest[b] \/ (last[current].of > 0 /\ n = last[current].of)
        OBVIOUS
    <2> HIDE DEF n
    <2>5. QED
        BY <2>2, <2>3, <2>4
<1>4. TypeOK'
    BY <1>1, <1>2, <1>3 DEF TypeOK
<1>5. LoopsAreOrdered'
    BY <1>1, <1>2 DEF LoopsAreOrdered, TypeOK
<1>6. NewsIsNew'
    <2>1. /\ last[current].of > 0 => last[current].of <= origin.of
          /\ flight[current].of > 0 => last[current].of <= flight[current].of
        BY <1>1 DEF NewsIsNew
    <2>2. lastGood[current].of > 0 /\ last[current].of > 0 => last[current].of = lastGood[current].of
        BY <1>1, Special DEF LoopsAreOrdered
    <2>3. \A c \in Blocks : newest'[c] <= origin.of
        BY <1>3, <2>1 DEF NewsIsNew
    <2>4. \A e \in {flight[current], last[current], lastGood[current]} :
            e.of > 0 => \A c \in Blocks : newest'[c] <= e.of
        <3>1. flight[current].of \in Int /\ last[current].of \in Int /\ lastGood[current].of \in Int
            BY <1>1, Special DEF TypeOK
        <3>2. QED
            BY <1>1, <1>3, <2>1, <2>2, <3>1 DEF NewsIsNew
    <2>5. QED
        BY <1>2, <2>3, <2>4 DEF NewsIsNew
<1>7. PendingIsHonest'
    BY <1>2, <1>5, PendingIsTheLoops DEF LoopsAreOrdered, PendingIsHonest
<1>8. QED
    BY <1>4, <1>5, <1>6, <1>7

LEMMA StopKeeps ==
    ASSUME WatchInv, NEW b \in Blocks, Stop(b) PROVE WatchInv'
<1> USE WatchAssumption DEF WatchInv
<1>1. current \in Loops /\ current # NoLoop /\ subscribers[current] = mounted /\ current = started
    BY DEF Stop, TypeOK, LoopsAreOrdered
<1>2. UNCHANGED <<started, last, lastGood, flight, hidden, online, origin, shown, newest>>
        /\ mounted' = mounted \ {b} /\ subscribers' = [subscribers EXCEPT ![current] = @ \ {b}]
    BY DEF Stop
<1>3. CASE mounted = {b}
    <2>1. current' = NoLoop /\ settled' = settled \cup {current} /\ mounted' = {}
        BY <1>1, <1>2, <1>3 DEF Stop, Settle
    <2>2. pending' = 0
        BY <1>1, <1>3, PendingIsTheLoops DEF Stop, Settle
    <2>3. TypeOK'
        BY <1>1, <1>2, <2>1, <2>2 DEF TypeOK, NoLoop
    <2>4. LoopsAreOrdered'
        BY <1>1, <1>2, <1>3, <2>1 DEF LoopsAreOrdered, TypeOK, Loops
    <2>5. NewsIsNew'
        BY <1>2, <2>1 DEF NewsIsNew
    <2>6. PendingIsHonest'
        BY <2>1, <2>2 DEF PendingIsHonest
    <2>7. QED
        BY <2>3, <2>4, <2>5, <2>6
<1>4. CASE mounted # {b}
    <2>1. UNCHANGED <<current, settled, pending>> /\ mounted' # {}
        BY <1>1, <1>2, <1>4 DEF Stop
    <2>2. TypeOK'
        BY <1>1, <1>2, <2>1 DEF TypeOK
    <2>3. LoopsAreOrdered'
        BY <1>1, <1>2, <2>1 DEF LoopsAreOrdered, TypeOK
    <2>4. NewsIsNew'
        BY <1>2, <2>1 DEF NewsIsNew
    <2>5. PendingIsHonest'
        BY <2>1, <2>3, PendingIsTheLoops DEF LoopsAreOrdered, PendingIsHonest
    <2>6. QED
        BY <2>2, <2>3, <2>4, <2>5
<1>5. QED
    BY <1>3, <1>4

LEMMA ArriveKeeps ==
    ASSUME WatchInv, NEW l \in Loops, Arrive(l) PROVE WatchInv'
<1> USE WatchAssumption DEF WatchInv
<1>1. l = current /\ current # NoLoop /\ subscribers[l] = mounted /\ flight[l] \notin {Idle, Asked}
    BY DEF Arrive, Loops, NoLoop, LoopsAreOrdered
<1>2. /\ UNCHANGED <<mounted, current, started, subscribers, hidden, online, origin>>
      /\ flight' = [flight EXCEPT ![l] = Idle]
      /\ last' = [last EXCEPT ![l] = Delivery(l)]
      /\ settled' = settled \cup {l}
      /\ \A b \in Blocks : shown'[b] = IF b \in mounted THEN Delivery(l) ELSE shown[b]
      /\ shown' \in [Blocks -> {Delivery(l)} \cup {shown[b] : b \in Blocks}]
    BY <1>1 DEF Arrive, Settle
<1>3. lastGood' = IF flight[l].of = 0 THEN lastGood
                  ELSE [lastGood EXCEPT ![l] =
                          IF flight[l].status = "unavailable" THEN Nothing ELSE flight[l]]
    BY DEF Arrive, Keeps
<1>4. pending' = 0
    BY <1>1, PendingIsTheLoops DEF Arrive, Settle
<1>5. Delivery(l) \in Envelopes \cup {Failed} /\ Delivery(l) # Nothing
    BY <1>1, DeliveryIs, Special
<1>6. newest' \in [Blocks -> 0 .. MaxVersion] /\ \A b \in Blocks :
        (newest'[b] = newest[b] \/ (Delivery(l).of > 0 /\ newest'[b] = Delivery(l).of))
    <2>1. Delivery(l).of \in 0 .. MaxVersion
        BY <1>5, Special
    <2>2. newest \in [Blocks -> 0 .. MaxVersion]
        BY DEF TypeOK
    <2>3. newest' = [b \in Blocks |-> IF b \in subscribers[l] /\ Delivery(l).of > 0
                                      THEN Delivery(l).of ELSE newest[b]]
        BY DEF Arrive
    <2> DEFINE n(b) == IF b \in subscribers[l] /\ Delivery(l).of > 0
                       THEN Delivery(l).of ELSE newest[b]
    <2>4. \A b \in Blocks : /\ n(b) \in 0 .. MaxVersion
                            /\ (n(b) = newest[b] \/ (Delivery(l).of > 0 /\ n(b) = Delivery(l).of))
        BY <2>1, <2>2
    <2>5. newest' = [b \in Blocks |-> n(b)]
        BY <2>3
    <2> HIDE DEF n
    <2>6. QED
        BY <2>4, <2>5
<1>7. TypeOK'
    <2>1. lastGood' \in [Loops -> Envelopes \cup {Nothing}]
        BY <1>1, <1>3, DeliveryIs, Special DEF TypeOK
    <2>2. last' \in [Loops -> Envelopes \cup {Failed, Nothing}]
            /\ shown' \in [Blocks -> Envelopes \cup {Failed, Nothing}]
        BY <1>2, <1>5 DEF TypeOK
    <2>3. flight' \in [Loops -> Envelopes \cup {Failed, Idle, Asked}] /\ settled' \subseteq Loops
        BY <1>2 DEF TypeOK
    <2>4. pending' \in 0 .. 1
        BY <1>4
    <2>5. QED
        BY <1>2, <1>6, <2>1, <2>2, <2>3, <2>4, Zenon DEF TypeOK
<1>8. /\ last'[l] = Delivery(l) /\ flight'[l] = Idle
      /\ lastGood'[l] = IF flight[l].of = 0 THEN lastGood[l]
                        ELSE IF flight[l].status = "unavailable" THEN Nothing ELSE flight[l]
    BY <1>2, <1>3 DEF TypeOK
<1>9. /\ lastGood'[l] # Nothing => HasData(lastGood'[l]) /\ HasData(last'[l])
      /\ HasData(last'[l]) => lastGood'[l].of = last'[l].of
    <2>1. CASE flight[l] \in Envelopes /\ Delivery(l) = flight[l] /\ flight[l].of > 0
        BY <1>8, <2>1 DEF Envelopes, HasData
    <2>2. CASE flight[l] = Failed /\ lastGood[l] = Nothing /\ Delivery(l) = Failed
        BY <1>8, <2>2, Special
    <2>3. CASE /\ flight[l] = Failed /\ lastGood[l] \in Envelopes
               /\ Delivery(l) \in Envelopes /\ Delivery(l).of = lastGood[l].of
               /\ Delivery(l).status = "stale"
        BY <1>1, <1>8, <2>3, Special DEF HasData, LoopsAreOrdered
    <2>4. QED
        BY <1>1, <2>1, <2>2, <2>3, DeliveryIs
<1>10. LoopsAreOrdered'
    BY <1>1, <1>2, <1>3, <1>5, <1>8, <1>9 DEF LoopsAreOrdered, TypeOK
<1>11. NewsIsNew'
    <2>1. Delivery(l).of > 0 => Delivery(l).of <= origin.of
        BY <1>1, DeliveryIs, Special DEF NewsIsNew
    <2>2. \A b \in Blocks : newest'[b] <= origin.of
        BY <1>6, <2>1 DEF NewsIsNew
    <2>3. Delivery(l).of > 0 => \A b \in Blocks : newest'[b] <= Delivery(l).of
        <3>1. Delivery(l).of > 0 => \A b \in Blocks : newest[b] <= Delivery(l).of
            BY <1>1, DeliveryIs, Special DEF NewsIsNew
        <3>2. Delivery(l).of \in Int
            BY <1>5, Special
        <3>3. QED
            BY <1>6, <3>1, <3>2
    <2>4. lastGood'[l].of > 0 => lastGood'[l].of = Delivery(l).of
        <3>1. lastGood'[l] # Nothing => HasData(last'[l]) /\ lastGood'[l].of = last'[l].of
            BY <1>9
        <3>2. QED
            BY <1>8, <3>1, Special
    <2>5. Delivery(l).of = origin.of /\ ~HasData(Delivery(l)) => Delivery(l) = origin
        <3>1. origin.of > 0
            BY Special DEF TypeOK
        <3>2. QED
            BY <1>1, <3>1, DeliveryIs, Special DEF NewsIsNew, HasData
    <2>6. QED
        BY <1>1, <1>2, <1>8, <2>1, <2>2, <2>3, <2>4, <2>5, Special DEF NewsIsNew, TypeOK
<1>12. PendingIsHonest'
    BY <1>2, <1>4, <1>5, <1>10 DEF PendingIsHonest, TypeOK
<1>13. QED
    BY <1>7, <1>10, <1>11, <1>12

(* A read that settles after stop changes nothing that is shown or counted. *)
LEMMA ArriveLateKeeps ==
    ASSUME WatchInv, NEW l \in Loops, ArriveLate(l) PROVE WatchInv'
<1> USE WatchAssumption DEF WatchInv
<1>1. l # current /\ flight' = [flight EXCEPT ![l] = Idle]
        /\ UNCHANGED <<mounted, current, started, subscribers, last, lastGood, hidden, online,
                       origin, shown, newest>>
    BY DEF ArriveLate
<1>2. l \in settled
    BY <1>1 DEF ArriveLate, LoopsAreOrdered, TypeOK, Loops
<1>3. UNCHANGED <<settled, pending>>
    BY <1>2 DEF ArriveLate, Settle
<1>4. TypeOK'
    BY <1>1, <1>3 DEF TypeOK
<1>5. LoopsAreOrdered'
    BY <1>1, <1>3 DEF LoopsAreOrdered, TypeOK
<1>6. NewsIsNew'
    BY <1>1 DEF NewsIsNew, TypeOK, Loops, NoLoop
<1>7. PendingIsHonest'
    BY <1>1, <1>3 DEF PendingIsHonest
<1>8. QED
    BY <1>4, <1>5, <1>6, <1>7

(* The steps that only send or answer a read. *)
LEMMA FlightKeeps ==
    ASSUME WatchInv, NEW l \in Loops, NEW e \in Envelopes \cup {Failed, Asked}, l <= started,
           flight' = [flight EXCEPT ![l] = e], e \in {Failed, Asked, origin},
           UNCHANGED <<mounted, current, started, subscribers, last, lastGood, settled, pending,
                       online, origin, shown, newest>>,
           hidden' \in BOOLEAN
    PROVE  WatchInv'
<1> USE WatchAssumption DEF WatchInv
<1>1. TypeOK'
    BY DEF TypeOK
<1>2. LoopsAreOrdered'
    BY DEF LoopsAreOrdered, TypeOK, Loops, NoLoop
<1>3. NewsIsNew'
    <2>1. CASE l = current /\ e = origin
        BY <2>1, Special DEF NewsIsNew, TypeOK
    <2>2. CASE l = current /\ e \in {Failed, Asked}
        <3>1. e.of = 0 /\ origin.of > 0
            BY <2>2, Special DEF TypeOK
        <3>2. QED
            BY <2>2, <3>1 DEF NewsIsNew, TypeOK
    <2>3. CASE l # current
        BY <2>3 DEF NewsIsNew, TypeOK, Loops, NoLoop
    <2>4. QED
        BY <2>1, <2>2, <2>3
<1>4. PendingIsHonest'
    BY DEF PendingIsHonest
<1>5. QED
    BY <1>1, <1>2, <1>3, <1>4

LEMMA AnswerKeeps ==
    ASSUME WatchInv, NEW l \in Loops, Answer(l) PROVE WatchInv'
<1>1. l <= started
    BY Special DEF Answer, WatchInv, LoopsAreOrdered, TypeOK, Loops
<1> DEFINE e == IF online THEN origin ELSE Failed
<1>2. e \in Envelopes \cup {Failed, Asked} /\ e \in {Failed, Asked, origin} /\ hidden' \in BOOLEAN
    BY DEF WatchInv, TypeOK, Answer
<1>3. QED
    BY <1>1, <1>2, FlightKeeps DEF Answer

LEMMA ReadNowKeeps ==
    ASSUME WatchInv, current # NoLoop, ReadNow(current), hidden' \in BOOLEAN,
           UNCHANGED <<mounted, current, started, subscribers, last, lastGood, settled, pending,
                       online, origin, shown, newest>>
    PROVE  WatchInv'
<1>1. current \in Loops /\ current <= started
    BY DEF WatchInv, TypeOK, LoopsAreOrdered, Loops
<1>2. CASE flight[current] = Idle
    BY <1>1, <1>2, FlightKeeps DEF ReadNow
<1>3. CASE flight[current] # Idle
    BY <1>3 DEF ReadNow, WatchInv, TypeOK, LoopsAreOrdered, NewsIsNew, PendingIsHonest
<1>4. QED
    BY <1>2, <1>3

LEMMA OriginChangesKeeps ==
    ASSUME WatchInv, OriginChanges PROVE WatchInv'
<1> USE WatchAssumption DEF WatchInv
<1>1. origin' \in Envelopes /\ origin'.of = origin.of + 1 /\ origin.of \in Nat
        /\ UNCHANGED <<mounted, loopVars, hidden, online, shown, newest>>
    BY Special DEF OriginChanges, TypeOK
<1>2. TypeOK'
    BY <1>1 DEF TypeOK, loopVars
<1>3. LoopsAreOrdered' /\ PendingIsHonest'
    BY <1>1 DEF LoopsAreOrdered, PendingIsHonest, loopVars
<1>4. NewsIsNew'
    <2>1. \A b \in Blocks : newest[b] \in Int
        BY DEF TypeOK
    <2>2. current # NoLoop =>
            /\ flight[current].of \in Int /\ last[current].of \in Int /\ lastGood[current].of \in Int
            /\ flight[current].of <= origin.of /\ last[current].of <= origin.of
            /\ lastGood[current].of <= origin.of
        BY <1>1, Special DEF TypeOK, NewsIsNew
    <2>3. QED
        BY <1>1, <2>1, <2>2 DEF NewsIsNew, loopVars
<1>5. QED
    BY <1>2, <1>3, <1>4

(* Every step keeps the invariant. *)
LEMMA WatchInvStep == WatchInv /\ [Next]_vars => WatchInv'
<1> SUFFICES ASSUME WatchInv, [Next]_vars PROVE WatchInv'
    OBVIOUS
<1>1. ASSUME NEW b \in Blocks, WatchFirst(b) \/ WatchShared(b) \/ Stop(b) PROVE WatchInv'
    BY <1>1, WatchFirstKeeps, WatchSharedKeeps, StopKeeps
<1>2. ASSUME NEW b \in Blocks, Refresh(b) PROVE WatchInv'
    <2>1. current # NoLoop /\ hidden' \in BOOLEAN
        BY <1>2 DEF Refresh, WatchInv, LoopsAreOrdered, TypeOK
    <2>2. QED
        BY <1>2, <2>1, ReadNowKeeps DEF Refresh
<1>3. CASE Tick
    <2>1. hidden' \in BOOLEAN
        BY <1>3 DEF Tick, WatchInv, TypeOK
    <2>2. QED
        BY <1>3, <2>1, ReadNowKeeps DEF Tick
<1>4. ASSUME NEW l \in Loops, Arrive(l) \/ ArriveLate(l) \/ Answer(l) PROVE WatchInv'
    BY <1>4, ArriveKeeps, ArriveLateKeeps, AnswerKeeps
<1>5. CASE OriginChanges
    BY <1>5, OriginChangesKeeps
<1>6. CASE NetworkChanges \/ Hide
    BY <1>6 DEF NetworkChanges, Hide, loopVars, WatchInv, TypeOK, LoopsAreOrdered, NewsIsNew,
        PendingIsHonest
<1>7. CASE Show
    <2>1. CASE current # NoLoop
        BY <1>7, <2>1, ReadNowKeeps DEF Show
    <2>2. CASE current = NoLoop
        BY <1>7, <2>2 DEF Show, WatchInv, TypeOK, LoopsAreOrdered, NewsIsNew, PendingIsHonest
    <2>3. QED
        BY <2>1, <2>2
<1>8. CASE UNCHANGED vars
    BY <1>8 DEF vars, loopVars, WatchInv, TypeOK, LoopsAreOrdered, NewsIsNew, PendingIsHonest
<1>9. QED
    BY <1>1, <1>2, <1>3, <1>4, <1>5, <1>6, <1>7, <1>8 DEF Next

(* The invariant of the page's loops, for every set of blocks. *)
THEOREM WatchInvariant == Spec => []WatchInv
<1>1. QED
    BY WatchInvInit, WatchInvStep, PTL DEF Spec

(* Blocks that read one panel show the same. *)
THEOREM BlocksAgree == Spec => []AllShowTheSame
<1>1. WatchInv => AllShowTheSame
    BY DEF WatchInv, LoopsAreOrdered, AllShowTheSame
<1>2. QED
    BY <1>1, WatchInvariant, PTL

(* The pending count is that of the panels a block waits for. *)
THEOREM TheCountIsHonest == Spec => []PendingIsHonest
<1>1. WatchInv => PendingIsHonest
    BY DEF WatchInv
<1>2. QED
    BY <1>1, WatchInvariant, PTL

(* What a block shows changes only by a delivery or as it joins. *)
LEMMA QuietSteps ==
    ASSUME [Next]_vars, \A b \in Blocks : ~WatchFirst(b) /\ ~WatchShared(b),
           \A l \in Loops : ~Arrive(l)
    PROVE  UNCHANGED <<shown, newest>>
BY DEF Next, Stop, Refresh, Tick, ArriveLate, Answer, OriginChanges, NetworkChanges, Hide, Show,
    vars, loopVars

(* A delivery is at least as new as all that was shown. *)
LEMMA DeliveryIsNew ==
    ASSUME WatchInv, NEW l \in Loops, Arrive(l), Delivery(l).of > 0, NEW b \in Blocks
    PROVE  newest[b] <= Delivery(l).of
<1>1. l = current /\ current # NoLoop /\ flight[l] \notin {Idle, Asked} /\ TypeOK
    BY DEF Arrive, Loops, NoLoop, WatchInv
<1>2. QED
    BY <1>1, DeliveryIs, Special DEF WatchInv, NewsIsNew

(* Nothing older is ever shown. *)
THEOREM NothingOlder == Spec => NothingOlderIsShown
<1>1. ASSUME WatchInv, [Next]_vars, NEW b \in Blocks PROVE newest'[b] >= newest[b]
    <2>1. newest[b] \in Int /\ \A l \in Loops : last[l].of \in Int
        BY <1>1, Special DEF WatchInv, TypeOK
    <2>2. ASSUME NEW c \in Blocks, WatchFirst(c) PROVE newest'[b] >= newest[b]
        BY <2>1, <2>2 DEF WatchFirst
    <2>3. ASSUME NEW c \in Blocks, WatchShared(c) PROVE newest'[b] >= newest[b]
        <3>1. current \in Loops /\ (last[current].of > 0 => newest[b] <= last[current].of)
            BY <1>1, <2>3 DEF WatchShared, WatchInv, TypeOK, NewsIsNew
        <3>2. newest'[b] = newest[b] \/ (last[current].of > 0 /\ newest'[b] = last[current].of)
            BY <1>1, <2>3 DEF WatchShared, WatchInv, TypeOK
        <3>3. QED
            BY <2>1, <3>1, <3>2
    <2>4. ASSUME NEW l \in Loops, Arrive(l) PROVE newest'[b] >= newest[b]
        <3>1. newest'[b] = newest[b] \/ (Delivery(l).of > 0 /\ newest'[b] = Delivery(l).of)
            BY <2>4 DEF Arrive
        <3>2. flight[l] \notin {Idle, Asked} /\ TypeOK
            BY <1>1, <2>4 DEF Arrive, WatchInv
        <3>3. Delivery(l).of \in Int
            BY <3>2, DeliveryIs, Special
        <3>4. QED
            BY <1>1, <2>1, <2>4, <3>1, <3>3, DeliveryIsNew
    <2>5. CASE UNCHANGED <<shown, newest>>
        BY <2>1, <2>5
    <2>6. QED
        BY <1>1, <2>2, <2>3, <2>4, <2>5, QuietSteps
<1>2. WatchInv /\ [Next]_vars => [\A b \in Blocks : newest'[b] >= newest[b]]_vars
    BY <1>1
<1>3. QED
    BY <1>2, WatchInvariant, PTL DEF Spec, NothingOlderIsShown

(* Nothing is delivered after a stop. *)
THEOREM NothingIsDeliveredAfterStop == Spec => NothingAfterStop
<1>1. ASSUME WatchInv, [Next]_vars, NEW b \in Blocks, shown'[b] # shown[b] PROVE b \in mounted'
    <2>1. shown \in [Blocks -> Envelopes \cup {Failed, Nothing}]
        BY <1>1 DEF WatchInv, TypeOK
    <2>2. ASSUME NEW c \in Blocks, WatchFirst(c) \/ WatchShared(c) PROVE b \in mounted'
        BY <1>1, <2>1, <2>2 DEF WatchFirst, WatchShared
    <2>3. ASSUME NEW l \in Loops, Arrive(l) PROVE b \in mounted'
        <3>1. subscribers[l] = mounted /\ mounted' = mounted
            BY <1>1, <2>3 DEF Arrive, WatchInv, LoopsAreOrdered, Loops, NoLoop
        <3>2. QED
            BY <1>1, <2>3, <3>1 DEF Arrive
    <2>4. QED
        BY <1>1, <2>2, <2>3, QuietSteps
<1>2. WatchInv /\ [Next]_vars => [\A b \in Blocks : shown'[b] # shown[b] => b \in mounted']_vars
    BY <1>1
<1>3. QED
    BY <1>2, WatchInvariant, PTL DEF Spec, NothingAfterStop

(* A read that fails takes nothing away and passes nothing off as current. *)
THEOREM FailedReadsTakeNothing == Spec => DataIsKept
<1> DEFINE Kept(b) ==
        /\ HasData(shown[b]) => shown'[b] # Failed
        /\ HasData(shown'[b]) /\ ~HasData(shown[b]) => shown'[b].of > shown[b].of
        /\ flight[current] = Failed /\ flight'[current] = Idle => shown'[b].status # "ok"
<1>1. ASSUME WatchInv, [Next]_vars, NEW b \in mounted \cap mounted' PROVE Kept(b)
    <2>1. b \in Blocks /\ current \in Loops /\ current # NoLoop /\ shown[b] = last[current]
            /\ shown[b] \in Envelopes \cup {Failed, Nothing}
        BY <1>1 DEF WatchInv, TypeOK, LoopsAreOrdered
    <2>2. CASE Arrive(current)
        <3>1. shown'[b] = Delivery(current) /\ flight[current] \notin {Idle, Asked} /\ TypeOK
            BY <1>1, <2>1, <2>2 DEF Arrive, WatchInv, LoopsAreOrdered
        <3>2. CASE /\ flight[current] \in Envelopes /\ Delivery(current) = flight[current]
                   /\ flight[current].of > 0
            <4>1. ~HasData(shown[b]) /\ HasData(flight[current]) => flight[current].of > shown[b].of
                <5>1. flight[current].of \in Int /\ shown[b].of \in Int
                    BY <2>1, <3>2, Special
                <5>2. /\ shown[b].of <= flight[current].of
                      /\ shown[b].of = flight[current].of /\ ~HasData(shown[b])
                            => flight[current] = shown[b]
                    BY <1>1, <2>1, <3>2 DEF WatchInv, NewsIsNew
                <5>3. QED
                    BY <5>1, <5>2
            <4>2. QED
                BY <3>1, <3>2, <4>1, Special
        <3>3. CASE flight[current] = Failed /\ lastGood[current] = Nothing /\ Delivery(current) = Failed
            <4>1. ~HasData(shown[b])
                BY <1>1, <2>1, <3>3, Special DEF WatchInv, LoopsAreOrdered, HasData
            <4>2. QED
                BY <3>1, <3>3, <4>1, Special DEF Failed, HasData
        <3>4. CASE /\ flight[current] = Failed /\ lastGood[current] \in Envelopes
                   /\ Delivery(current) \in Envelopes /\ Delivery(current).of = lastGood[current].of
                   /\ Delivery(current).status = "stale"
            <4>1. HasData(shown[b])
                BY <1>1, <2>1, <3>4, Special DEF WatchInv, LoopsAreOrdered
            <4>2. QED
                BY <3>1, <3>4, <4>1, Special
        <3>5. QED
            BY <2>1, <3>1, <3>2, <3>3, <3>4, DeliveryIs
    <2>3. CASE ~Arrive(current)
        <3>1. shown'[b] = shown[b]
            <4>1. ASSUME NEW c \in Blocks, WatchFirst(c) \/ WatchShared(c) PROVE shown'[b] = shown[b]
                <5>1. shown \in [Blocks -> Envelopes \cup {Failed, Nothing}] /\ b \in mounted
                    BY <1>1 DEF WatchInv, TypeOK
                <5>2. WatchShared(c) /\ b # c
                    BY <2>1, <4>1, <5>1 DEF WatchFirst, WatchShared
                <5>3. QED
                    BY <2>1, <5>1, <5>2 DEF WatchShared
            <4>2. ASSUME NEW l \in Loops PROVE ~Arrive(l)
                BY <2>3 DEF Arrive
            <4>3. QED
                BY <1>1, <2>1, <4>1, <4>2, QuietSteps
        <3>2. flight[current] = Failed => flight'[current] # Idle
            <4>1. ASSUME NEW l \in Loops, flight[l] = Failed, ReadNow(l) \/ Answer(l) PROVE flight' = flight
                BY <4>1, Special DEF ReadNow, Answer
            <4>2. ASSUME NEW l \in Loops, ArriveLate(l) PROVE flight'[current] = flight[current]
                BY <1>1, <2>1, <4>2 DEF ArriveLate, WatchInv, TypeOK
            <4>3. ASSUME NEW l \in Loops, Answer(l) PROVE flight[current] = Failed => flight'[current] = Failed
                BY <1>1, <2>1, <4>3, Special DEF Answer, WatchInv, TypeOK
            <4>4. ASSUME NEW l \in Loops PROVE ~Arrive(l)
                BY <2>3 DEF Arrive
            <4>5. \A c \in Blocks : ~WatchFirst(c)
                BY <2>1 DEF WatchFirst
            <4>6. CASE UNCHANGED flight
                BY <4>6, Special
            <4>7. CASE Tick \/ Show \/ \E c \in Blocks : Refresh(c)
                BY <2>1, <4>1, <4>7, Special DEF Tick, Show, Refresh
            <4>8. QED
                BY <1>1, <4>2, <4>3, <4>4, <4>5, <4>6, <4>7, Special
                    DEF Next, WatchShared, Stop, OriginChanges, NetworkChanges, Hide, vars, loopVars
        <3>3. HasData(shown[b]) => shown[b] # Failed
            BY Special
        <3>4. QED
            BY <3>1, <3>2, <3>3
    <2>4. QED
        BY <2>2, <2>3
<1>2. WatchInv /\ [Next]_vars => [\A b \in mounted \cap mounted' : Kept(b)]_vars
    BY <1>1
<1>3. QED
    BY <1>2, WatchInvariant, PTL DEF Spec, DataIsKept
=============================================================================
